SPECIFICATION HandshakeSpec
CONSTANT MaxPauses = 5
INVARIANTS
  HandshakeTypeOK
  RelayWaitsForCommand
  NoDoubleClose
  NoStrayTimeout
PROPERTIES
  HandoverSpec
  PauseCompletes
CHECK_DEADLOCK FALSE
