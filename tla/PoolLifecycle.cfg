SPECIFICATION Spec
CONSTANTS
    c1 = c1
    j1 = j1
    w1 = w1
    w2 = w2
    i1 = i1
    i2 = i2
    i3 = i3
    Headless = Headless
    Chats = {c1}
    Jobs = {j1}
    Sockets = {w1, w2}
    Intents = {i1, i2, i3}
    Of <- MCOf
    MaxPools = 2
    MaxBuses = 3
SYMMETRY LifecycleSymmetry
INVARIANTS TypeOK OpenBusRegistered OneListener Heard WorkersReachable RegisteredAlive
CHECK_DEADLOCK FALSE
