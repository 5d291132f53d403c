SPECIFICATION Spec
CONSTANTS
  Callers = {c1, c2}
  Chunk = 2
  Sizes = {0, 3}
  RowCounts = {3}
  MaxRetries = 2
  Kinds = 2
  MaxAsks = 1
  MaxAnswers = 3
  NoChoices = NoChoices
  Unreadable = Unreadable
INVARIANT UsageAccounted
PROPERTY SourceSpec
CHECK_DEADLOCK FALSE
