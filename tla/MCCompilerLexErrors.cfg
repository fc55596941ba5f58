CONSTANTS
  MaxBody = 1
  Name <- MCName
  StartName = "_start"
  NoName = NoName
  WordSize = 1073741824
  Rel32Limit = 6000
  MaxPasses = 10
  Lowered <- MCLowered
  IntSize = 65536
  Char <- MCChar
  Space <- MCSpace
  Letter <- MCLetter
  DigitValue <- MCDigitValue
  MaxLong = 9999
  Sources <- UnknownEscapeIn
SPECIFICATION Spec
INVARIANT
  StopsAtFirstErrors
