SPECIFICATION FairSpec
CONSTANTS
  Configs <- AllConfigs
  MaxConns = 2
  MaxFaults = 1
  MaxValue = 2
  MaxRequests = 1
CHECK_DEADLOCK FALSE
INVARIANTS Confirmed RequestsKept
PROPERTIES MutexFreed Confirmation Follows
