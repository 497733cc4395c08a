SPECIFICATION FairSpec
PROPERTIES
    Converges
    
CONSTANTS
    Clients = {c1, c2}
    Operations = {"create", "start", "ready", "stop", "delete"}
    Faults = {"overlap", "giveup", "prepare", "exit", "slow", "health", "restart", "unreachable", "events", "crash"}
    MaxFaults = 1
    MaxEvents = 1
