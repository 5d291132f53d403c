SPECIFICATION Spec
CONSTANTS
  MaxRounds = 2
  MaxQueries = 2
INVARIANT RepliesMatch
PROPERTY ClientServed
CHECK_DEADLOCK FALSE
