SPECIFICATION Spec
CONSTANTS
  Callers = {main, c1}
  Main = main
  Requests = {r1}
  Counts = {0, 2}
  Platform = "windows"
  RollLines = 2
  StartMayFail = FALSE
  OpenMayFail = FALSE
  MaxMessages = 3
  None = None
CHECK_DEADLOCK FALSE
INVARIANTS TypeOK NothingLost StreamExact HistoryCovers NoDanglingSubscriber
PROPERTY ImplementsService
