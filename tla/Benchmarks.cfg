SPECIFICATION Spec
INVARIANTS
    TypeOK
    BenchUnderGate
    
PROPERTIES
    RequestsAreSpared
SYMMETRY Alike
CHECK_DEADLOCK FALSE
CONSTANTS
    Runs = {r1}
    Workers = {w1, w2}
    Faults = {"crash", "giveup", "stopfails", "gone", "lost", "delete", "latestart", "cancel", "abort", "force"}
    MaxFaults = 1
    MaxEvents = 1
