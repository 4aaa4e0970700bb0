SPECIFICATION Spec
CONSTANTS
  MemSize = 2
  PageSize = 1
  Values = {0, 1}
  MaxDocument = 2
INVARIANTS ErrorStops AtRestViewsCurrent DocumentIsInMemory
PROPERTY ViewsCatchUp
CHECK_DEADLOCK FALSE
