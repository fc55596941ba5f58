CONSTANTS
  a = a
  b = b
  MaxLength = 5
  Name <- MCName
  StartName = a
  NoName = NoName
  WordSize = 65536
  FlatPrograms <- MCFlatPrograms
SPECIFICATION Spec
INVARIANTS
  TypeOK
  SectionsKeepSourceOrder
  StrayItemsReported
  OneSectionPerType
  SymbolPointsAtDefinition
  DirectivesRecorded
