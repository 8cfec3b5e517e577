CONSTANTS
    e1 = e1
    e2 = e2
    e3 = e3
    u1 = u1
    d1 = d1
    Events = {e1, e2, e3}
    Users = {u1}
    Directs = {}
    AtCap = {}
    MaxEvents = 2
    PeekLimit = 2
SYMMETRY TurnSymmetry
SPECIFICATION Spec
INVARIANTS
    AckedWereRendered
CHECK_DEADLOCK FALSE
