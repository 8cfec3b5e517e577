SPECIFICATION FairSpec
CONSTANTS
    LastTurn = 3
    MaxProcs = 2
    Slots = 2
    Tokens = 2
INVARIANTS TypeOK RunningKnown OwnAnswer SlotsHeld
PROPERTIES  TurnsEnd
CHECK_DEADLOCK FALSE
