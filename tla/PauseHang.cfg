SPECIFICATION HandshakeSpec
CONSTANT MaxPauses = 1
PROPERTY PauseAlwaysCompletes
CHECK_DEADLOCK FALSE
