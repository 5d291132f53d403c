SPECIFICATION Spec
CONSTANTS
  MaxPauses = 3
  Ops = {"fail", "begin", "commit", "call", "badcall"}
  MaxRequests = 3
  Window = 1
  MaxTrips = 1
  MaxNotices = 1
  MayLeave = TRUE
  MayDie = TRUE
INVARIANTS
  NoSharedRead
  StatusTold
PROPERTIES
  OwnReplies
  PortSpec
  RequestsAnswered
  QuitEndsSession
CHECK_DEADLOCK FALSE
