SPECIFICATION Spec
CONSTANTS
  Tx = {1, 2, 3}
  MaxPartition = 4
  MaxAncestry = 2
  MaxArrival = 1
  MaxHigh = 1
  MaxStd = 1
  MaxLow = 2
  MaxAge = 2
  MaxTime = 3
  Averages = {30, 100}
  Times = {1, 2}
  Rates = {1, 3}
  MaxCount = 3
  MaxBytes = 50
  BatchSize = 1
  MaxPoolTime = 3
  EntrySpends <- ChainSpends
  EntryFee <- ChainFees
  EntrySize <- ChainSizes
  Coins <- Coinbase
  Creates <- Created
  Criteria <- Limits
  Hash = {1, 2}
  Anc <- Ancestors
  FeeRates = {1, 3}
  OnChain = {1}
  Counts = {1, 2}
  MinRate = 2
  MaxHeap = 2
  MaxOps = 6
  MaxInserts = 5
  Inputs <- ChainInputs
  Spends <- RivalSpends
  Fee <- RivalFees
  TotalFee <- RivalFees
  ByteSize <- RivalSizes
  Rate <- QueueRates
  Thresholds <- OneThreshold
INVARIANTS
  GraphConsistent  DepthsAndOrderSound ClaimsHeld  
     ReadyIsSpendable  
CHECK_DEADLOCK FALSE
