SPECIFICATION Spec
CONSTANTS
  N = 3
  Namings <- MCNamings
  Keys <- MCKeys
  From <- MCFrom
  To <- MCTo
  Outside = "elsewhere"
INVARIANTS
  ParentsFirst
  CyclesReported
PROPERTY SortEnds
CHECK_DEADLOCK FALSE
