SPECIFICATION FairSpec
CONSTANTS
  MaxSessions = 5
  Configured = TRUE
  Reconnects = TRUE
  MaxEvents = 2
CHECK_DEADLOCK FALSE
INVARIANTS
  OneLiveSession
  EntryOfThisGeneration
PROPERTIES
  StopEnds
  LossIsRepaired
  ListenerCatchesUp
