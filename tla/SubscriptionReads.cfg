SPECIFICATION Spec
CONSTANTS
  p1 = p1
  p2 = p2
  i1 = i1
  i2 = i2
  Readers = {p1, p2}
  Items = {i1, i2}
  Retention = "latest_and_changes"
  BufferSize = 2
  MaxPolls = 1
  MaxCursors = 2
  Limits = {1, 2}
  MaxEvents = 3
  MaxGeneration = 2
  MaxMinted = 3
SYMMETRY Symmetry
CHECK_DEADLOCK FALSE
INVARIANTS
  ChainsComplete
  NothingTwice
  NoLostWakeup
PROPERTIES
  FreshCursorUsable
