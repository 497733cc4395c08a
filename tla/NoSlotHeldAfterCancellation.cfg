SPECIFICATION Spec
CONSTANTS
    NoToken = NoToken
    ReservedOps = {r1}
    PlainOps = {}
    Tokens = {t1}
    Stoppers = {s1}
    Capacity = 1
    MaxGen = 1
CHECK_DEADLOCK FALSE
INVARIANTS
    NoSlotHeldAfterCancellation
