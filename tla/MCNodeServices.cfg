SPECIFICATION Spec
CONSTANTS
  Tx = {1, 2, 3}
  Spends <- ShardSpends
  Shard = {1, 2}
  HashToShard <- ShardHash
  WellFormed = {1, 2}
  Contents <- Published
  Peer = {1, 2, 3}
  Addr = {"a"}
  Relay = {1, 2}
  Offers <- ListenAddresses
  Seeds = {"s"}
  Found = {"f"}
  RNodes <- RendezvousNodes
  MaxPeers = 2
  PeerTtl = 1
  MaxSeen = 2
  MaxClock = 2
  MaxFaults = 1
  MaxBackoff = 4
  Interval = 3
  MaxAttempts = 3
  MaxTicks = 3
  MaxQueries = 2
  MaxReservations = 3
  MaxPerPeer = 1
  MaxBackups = 1
  MaxBlocks = 2
  MaxIds = 3
  MaxBackupFailures = 1
  MaxFailures = 1
  HalvingInterval = 2
  HalvingModulus = 8
  RewardMax = 12
  BaseReward = 8
  HalvingTable <- Halvings
  CumulativeTable <- PrefixSums
  FeeBlocks <- FeePaying
  MaxScore = 17
  Supplies = {22, 60}
  Thread = {1, 2}
  Client = {1, 2}
  Txid = {1, 2}
  Stored = {1}
  MaxEntries = 1
  MaxCalls = 4
  Records <- IndexRecords
  QueryBounds = {1, 2}
  MaxDimCalls = 3
  MaxPerShard = 2
  MaxBatches = 2
  Item = {1, 2}
  Worker = {1, 2}
  Size <- ItemSizes
  FeeRate <- ItemRates
  MaxHot = 2
  MaxHotBytes = 3
  LruWeight = 6
  FeeWeight = 4
  AgeLimit = 2
  MaxNow = 1
  MaxTierCalls = 5
  MaxHistory = 2
  MaxUpdates = 4
  MaxRollbacks = 1
  Caller = {1, 2}
  MinInterval = 1
  TaskTtl = 1
  MaxBatch = 1
  MaxTasks = 3
  MaxTaskCalls = 5
  MaxTime = 2
  MaxExecutions = 3
  StateKey = {1, 2}
  StateValue = {1}
  INTRINSIC_GAS = 3
  STATE_READ_COST = 1
  STATE_WRITE_NEW_COST = 4
  STATE_WRITE_UPDATE_COST = 2
  SELF_DESTRUCT_REFUND = 5
  PayloadCosts = {0, 1}
  Limits = {2, 12}
  OpcodeCosts = {1, 3}
  MaxContracts = 2
  MaxDestructs = 1
  LedgerBlocks <- Ledger
  Epochs = {1, 2}
  LedgerMax = 7
  MaxOps = 5
INVARIANTS PeersAccounted  BackupsSound RewardsConserve IndexesAgree  TiersSound  GroupsExecuteWhole ContractsMetered BlocksApplyWhole
CHECK_DEADLOCK FALSE
