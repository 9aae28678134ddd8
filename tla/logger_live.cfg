SPECIFICATION FairSpec
CONSTANTS
  Callers = {main, c1}
  Main = main
  Requests = {}
  Counts = {0}
  Platform = "windows"
  RollLines = 2
  StartMayFail = FALSE
  OpenMayFail = FALSE
  MaxMessages = 4
  None = None
CHECK_DEADLOCK FALSE
PROPERTY EventuallyWritten
