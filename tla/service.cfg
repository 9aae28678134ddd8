SPECIFICATION FairSpec
CONSTANTS
  MaxConns = 2
  MaxFaults = 1
  MaxRequests = 3
  Malformed = {1}
  Window = 2
CHECK_DEADLOCK FALSE
INVARIANTS AtMostOnce OwnParams
PROPERTY Served
