CONSTANTS
  a = a
  far = far
  k = k
  u = u
  Name <- MCName
  StartName = start
  NoName = NoName
  WordSize = 1073741824
  Rel32Limit = 8388608
  Lowered <- NoCapitals
  Requests <- MCRequests
SPECIFICATION Spec
INVARIANTS
  TypeOK
  AbstractionAgrees
  AddressesDecode
  OperandsKeepTheirValue
  OthersFollowReference
CHECK_DEADLOCK FALSE
