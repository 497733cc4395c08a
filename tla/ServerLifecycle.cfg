SPECIFICATION Spec
INVARIANTS
    TypeOK
    ReadyRowsAreServed
PROPERTIES
    OvertakenStartNeverSpawns
    StopSparesNewerStart
SYMMETRY Alike
CONSTANTS
    Clients = {c1, c2}
    Operations = {"create", "start", "ready", "initialize", "stop", "delete", "update", "restart"}
    Faults = {"giveup", "prepare", "exit", "slow", "health", "restart", "unreachable", "events", "crash"}
    MaxFaults = 1
    MaxEvents = 1
