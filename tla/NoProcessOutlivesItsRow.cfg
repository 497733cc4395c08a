SPECIFICATION Spec
INVARIANTS
    NoProcessOutlivesItsRow
CONSTANTS
    Clients = {c1, c2}
    Operations = {"start", "delete"}
    Faults = {}
    MaxFaults = 0
    MaxEvents = 2
