CONSTANTS
  start = start
  Name <- MCName
  StartName = start
  NoName = NoName
  WordSize = 1073741824
  SizedPrograms <- MCSizedPrograms
SPECIFICATION Spec
INVARIANTS
  TypeOK
  SegmentsArePageCongruent
  SectionsAreDisjoint
