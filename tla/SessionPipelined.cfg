SPECIFICATION Spec
CONSTANTS
  MaxPauses = 2
  Ops = {"sql", "call"}
  MaxRequests = 2
  Window = 2
  MaxTrips = 1
  MaxNotices = 0
  MayLeave = FALSE
  MayDie = FALSE
PROPERTY OwnReplies
CHECK_DEADLOCK FALSE
