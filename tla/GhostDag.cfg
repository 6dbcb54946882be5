CONSTANTS
    Hash = {1, 2, 3, 4, 5}
    K_MIN = 1
    K_MAX = 2
    FINALITY_DEPTH = 3
SPECIFICATION GhostSpec
INVARIANTS  OrdersSound
 
CHECK_DEADLOCK FALSE
CONSTRAINT GenesisLowest
