SPECIFICATION GfSpec
CONSTANTS
  Payload <- SomePayloads
  Threshold <- GreylistThreshold
  Peer = {1, 2}
  Capacity = 1
  CacheSize = 2
  CacheTtl = 1
  SeenTtl = 3
  GreyTime = 2
  MaxTime = 2
PROPERTY EveryDeliveryAnswered
CHECK_DEADLOCK FALSE
