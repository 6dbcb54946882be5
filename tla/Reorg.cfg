CONSTANTS
    Hash = {1, 2, 3, 4, 5, 6}
    K_MIN = 1
    K_MAX = 1
    FINALITY_DEPTH = 100
    ParentsOf <- TwoBranches
    TxsOf <- BranchTxs
    ProofRoot <- NoProofs
    MAX_GLOBAL_SUPPLY_NANO_SLUG = 14
SPECIFICATION ReorgSpec
INVARIANT ReorgUtxoIsChainState
CHECK_DEADLOCK FALSE
