SPECIFICATION FairSpec
CONSTANTS
  Names = {1, 2, 3}
  Documents <- SmallDocuments
CHECK_DEADLOCK FALSE
INVARIANTS PhasesInOrder CrashFree FoundUnlessEarly
PROPERTY Started
