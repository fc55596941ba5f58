CONSTANTS
  MaxText = 4
  MaxStringText = 6
  MaxNumberText = 5
  Char <- MCChar
  Space <- MCSpace
  Letter <- MCLetter
  DigitValue <- MCDigitValue
  MaxLong = 100
  SourceTexts <- MCSourceTexts
SPECIFICATION Spec
INVARIANTS
  TypeOK
  SpansLocateTokens
  NoCharacterIsLost
  ErrorsMarkInvalidTokens
  WordsAreNotSplit
PROPERTIES
  Terminates
CHECK_DEADLOCK FALSE
