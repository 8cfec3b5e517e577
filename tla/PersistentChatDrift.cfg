SPECIFICATION Spec
CONSTANTS
    LastTurn = 3
    MaxProcs = 2
    Slots = 2
    Tokens = 2
PROPERTIES SpawnKnowsHistory
CHECK_DEADLOCK FALSE
