SPECIFICATION Spec
CONSTANTS
  Kinds = {"query", "call", "extended", "extcall", "flush", "prepare", "execute"}
  MaxBatches = 3
  Window = 1
INVARIANTS
  NoLeak
  BackendAligned
  NothingLost
  EachCommandOnce
PROPERTY DrainEnds
CHECK_DEADLOCK FALSE
