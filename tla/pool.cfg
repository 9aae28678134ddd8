SPECIFICATION FairSpec
CONSTANTS
  Clients = {t1, t2}
  Configs <- SmallConfigs
  MaxDepth = 1
  MaxRequests = 5
  MaxOpened = 4
CHECK_DEADLOCK FALSE
INVARIANTS PoolBounded Exclusive
PROPERTY Served
