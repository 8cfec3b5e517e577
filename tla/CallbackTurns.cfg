CONSTANTS
    e1 = e1
    e2 = e2
    e3 = e3
    u1 = u1
    d1 = d1
    Events = {e1, e2, e3}
    Users = {u1}
    Directs = {d1}
    AtCap = {e3}
    MaxEvents = 3
    PeekLimit = 3
SPECIFICATION FairSpec
INVARIANTS
    TypeOK
    OneDebouncer
PROPERTIES
    OvertakenIsSilent
    InboxKept
    EveryEventRendered
CHECK_DEADLOCK FALSE
