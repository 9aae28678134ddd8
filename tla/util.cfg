SPECIFICATION FairSpec
CONSTANTS
  Alphabet <- MCAlphabet
  MaxText = 4
  CodePoints <- MCCodePoints
  Capacity = 5
  Texts <- MCTexts
  Lengths <- MCLengths
  Callers = {c1, c2}
  MaxCalls = 6
  Fields <- MCFields
  ServiceNames = {"s", "t"}
  ParamNames = {"p", "q", "r"}
  MaxDeclared = 4
  PcmSize = 2
  SizeBits = 16
  IntBits = 8
  PcmLengths <- MCPcmLengths
  MaxThreadCount = 2
  FileSizes = {0, 2}
  MaxTurns = 2
  MaxJobs = 3
CHECK_DEADLOCK FALSE
INVARIANTS TextExact HandledExactly DispatchExact
PROPERTIES ExitReturns EncodeEnds
