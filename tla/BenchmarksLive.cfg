SPECIFICATION FairSpec
PROPERTIES
    GateIsReturned
    RunsEnd
CHECK_DEADLOCK FALSE
CONSTANTS
    Runs = {r1}
    Workers = {w1, w2}
    Faults = {"crash", "stopfails", "gone"}
    MaxFaults = 1
    MaxEvents = 1
