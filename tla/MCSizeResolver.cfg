CONSTANTS
  a = a
  b = b
  c = c
  k = k
  MaxItems = 3
  Name <- MCName
  StartName = a
  NoName = NoName
  WordSize = 65536
  Rel32Limit = 32768
  MaxPasses = 10
  Programs <- MCPrograms
SPECIFICATION FairSpec
INVARIANTS
  TypeOK
  StablePlacement
  GrowingProgramsConverge
PROPERTIES
  LabelsOnlyMoveForward
  Terminates
