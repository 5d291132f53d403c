SPECIFICATION Spec
CONSTANTS
  Columns = {"k", "a", "b", "s"}
  Key = {"k"}
  NotNull = {"k", "a", "s"}
  Automatic = {"s"}
  Names = {1, 2}
  Shapes <- MCShapes
  MaxAlters = 3
  MayFail = TRUE
  MayView = TRUE
INVARIANT TypeOK
PROPERTIES
  SyncedColumns
  SyncedIndexes
  
  NewColumnsComplete
  SyncConverges
