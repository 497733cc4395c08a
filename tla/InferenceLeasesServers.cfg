SPECIFICATION Spec
CONSTANTS
    NoServer = NoServer
    Requests = {l1}
    Servers = {s1}
    Compatible <- AnyServer
    Reconcilers = {w1}
    Capacity = 1
    MaxAttempts = 1
    MaxGen = 2
    MaxStops = 2
    Faults = {"health", "report", "lost", "exit", "stop", "window", "restart", "abort"}
CHECK_DEADLOCK FALSE
PROPERTIES
    FinalizeFindsTheReservation
    
