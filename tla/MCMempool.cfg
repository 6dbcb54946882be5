CONSTANTS
    Tx = {1, 2, 3, 4, 5, 6}
    WellFormed = {1, 2, 3, 4, 6}
    Outpoint = {"a", "b", "c", "d"}
    Genesis = {"a", "b"}
    Inputs <- MCInputs
    Outputs <- MCOutputs
    Size <- MCSize
    Fee <- MCFee
    MAX_BYTES = 4
    MAX_TXS = 2
    TTL = 1
    MaxTime = 2
SPECIFICATION MempoolSpec
INVARIANTS IndexMatchesPool AccountsSound CountBounded ConfirmedStaysOut
PROPERTY EvictsLowestFee
