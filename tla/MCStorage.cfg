SPECIFICATION StorageSpec
CONSTANTS
    t1 = t1
    t2 = t2
    Threads <- MCThreads
    Utxo <- MCUtxo
    Block <- MCBlock
    TxId <- MCTxId
    Txs <- MCTxs
    CAPACITY = 1
    GROUP_COMMIT_MAX_REQUESTS = 2
    COUNTER_SIZE = 4
    MAX_CALLS = 3
INVARIANT StorageSound
PROPERTY
    WritesAnswered
