SPECIFICATION Spec
CONSTANTS
    NoServer = NoServer
    Requests = {l1, l2}
    Servers = {s1}
    Compatible <- AnyServer
    Reconcilers = {w1}
    Capacity = 1
    MaxAttempts = 1
    MaxGen = 1
    MaxStops = 1
    Faults = {"expiry", "window", "recovery"}
SYMMETRY Symmetry
CHECK_DEADLOCK FALSE
INVARIANTS
    AdmissionBound
