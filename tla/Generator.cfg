SPECIFICATION Spec
CONSTANTS
  Columns <- MCColumns
  Null = Null
  Bad = Bad
  Default = Default
  GoValue <- MCGoValue
  Stored <- MCStored
  Shapes <- MCShapes
  Valid <- MCValid
  AnswerRows <- MCAnswerRows
  OtherRows <- MCOtherRows
  RowCount = 2
  Chunk = 2
  Sizes = {0, 1, 2}
  MaxCalls = 2
  MaxOthers = 1
INVARIANTS
  OwnRowsFit
  RowsPromised
PROPERTY GenerateEnds
CHECK_DEADLOCK FALSE
