SPECIFICATION FairSpec
CONSTANTS
  Callers = {main, c1}
  Main = main
  Requests = {}
  Counts = {0}
  Platform = "linux"
  RollLines = 2
  StartMayFail = TRUE
  OpenMayFail = TRUE
  MaxMessages = 3
  None = None
CHECK_DEADLOCK FALSE
INVARIANTS NoBatchCutOff WrittenInOrder
PROPERTY FatalExits
