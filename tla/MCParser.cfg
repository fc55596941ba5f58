CONSTANTS
  MaxSoup = 4
  MaxExpression = 5
  Name <- MCName
  StartName = "_start"
  NoName = NoName
  WordSize = 65536
  Lowered <- MCLowered
  IntSize = 128
  Inputs <- MCInputs
SPECIFICATION Spec
INVARIANTS
  TypeOK
  EveryTokenIsAnswered
  InvalidTokensAreReported
  StatementsStayOnTheirLine
  LinesParseAlike
  MemoryOperandsDenoteTheirText
PROPERTIES
  Terminates
CHECK_DEADLOCK FALSE
