SPECIFICATION FairSpec
CONSTANTS
  Apps = {t1, t2}
  Names <- MCNames
  CopyNames <- MCCopyNames
  MaxRegister = 2
  Paths = {"a", "b"}
  ThreadNum = 2
  Clients = {h1}
  Timeouts = {999, 3000}
  MaxFetches = 1
  MaxStarts = 2
CHECK_DEADLOCK FALSE
INVARIANTS Heard AnsweredRight
PROPERTIES CallsReturn FetchReturns
