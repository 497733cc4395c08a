SPECIFICATION FairSpec
CONSTANTS
    NoServer = NoServer
    Requests = {l1}
    Servers = {s1}
    Compatible <- AnyServer
    Reconcilers = {w1}
    Capacity = 1
    MaxAttempts = 2
    MaxGen = 1
    MaxStops = 1
    Faults = {"gone", "slowdb", "expiry", "clear", "crash", "health", "exit", "window"}
CHECK_DEADLOCK FALSE
INVARIANTS
    TypeOK
PROPERTIES
    LeaseEnds
    ReconcilerSparesTheLiving
    LostLeaseStopsService
    AgentsKeepContract
