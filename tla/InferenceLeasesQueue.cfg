SPECIFICATION Spec
CONSTANTS
    NoServer = NoServer
    Requests = {l1, l2}
    Servers = {s1, s2}
    Compatible <- AnyServer
    Reconcilers = {}
    Capacity = 1
    MaxAttempts = 2
    MaxGen = 1
    MaxStops = 1
    Faults = {"latecommit"}
SYMMETRY Symmetry
CHECK_DEADLOCK FALSE
PROPERTIES
    NoOvertaking
