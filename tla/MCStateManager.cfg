CONSTANTS
    Block = {"two", "three", "spend", "rival", "burn", "call", "crash", "proved"}
    NoBlock = NoBlock
    TxsOf <- MCTxsOf
    ProofRoot <- MCProofRoot
    MAX_GLOBAL_SUPPLY_NANO_SLUG = 10
SPECIFICATION StateSpec
INVARIANTS ChainStateSound ApplyAndUndoSound
PROPERTY RefinesSnapshotChain
CONSTRAINT Bounded
