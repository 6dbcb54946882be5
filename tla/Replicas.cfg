CONSTANTS
    Hash = {1, 2, 3, 4, 5}
    K = 1
    FINALITY_DEPTH = 3
SPECIFICATION ReplicasSpec
INVARIANT OrderingAgrees
CHECK_DEADLOCK FALSE
CONSTRAINT GenesisFirst
