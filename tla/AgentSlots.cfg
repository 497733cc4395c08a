SPECIFICATION FairSpec
CONSTANTS
    NoToken = NoToken
    ReservedOps = {r1}
    PlainOps = {p1}
    Tokens = {t1, t2}
    Stoppers = {s1}
    Capacity = 1
    MaxGen = 3
CHECK_DEADLOCK FALSE
INVARIANTS
    TypeOK
    
    
    HeldSlotHasOwner
PROPERTIES
    
    ContactedInTime
    SlotsAreReturned
