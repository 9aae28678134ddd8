SPECIFICATION Spec
CONSTANTS
  Callers = {main, c1}
  Main = main
  Requests = {}
  Counts = {0}
  Platform = "windows"
  RollLines = 2
  StartMayFail = FALSE
  OpenMayFail = FALSE
  MaxMessages = 3
  None = None
CHECK_DEADLOCK FALSE
INVARIANT WriteDone
