CONSTANTS
  a = a
  far = far
  k = k
  u = u
  Name <- MCName
  StartName = start
  NoName = NoName
  WordSize = 1073741824
  Rel32Limit = 8388608
  Lowered <- NoCapitals
  Requests <- DivergentRequests
SPECIFICATION Spec
INVARIANT
  FollowsReference
CHECK_DEADLOCK FALSE
