SPECIFICATION PoolSpec
CONSTANTS
  Tx <- MCTx
  Threads = {t1, t2}
  Spends <- MCSpends
  Outputs <- MCOutputs
  Rates <- MCRates
  Weight <- MCWeight
  MinDensity <- MCMinDensity
  Source <- MCSource
  InitialUtxo <- MCInitialUtxo
  MAX_POOL_SIZE = 2
  MAX_ORPHANS = 1
  MAX_SIZE_BYTES = 7
  MIN_FEE_RATE = 2
  FEE_BUMP_PERCENT = 50
  MAX_PER_SOURCE = 3
  HOT_TIER_MAX = 1
  MAX_CHAIN_DEPTH = 2
  MaxAdds = 3
  MaxOther = 1
  MaxHours = 1
SYMMETRY Symm
CHECK_DEADLOCK FALSE
INVARIANTS ConflictsComplete 
PROPERTIES ReplacedByBetter
