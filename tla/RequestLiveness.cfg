SPECIFICATION FairSpec
CONSTANTS
  r1 = r1
  r2 = r2
  r3 = r3
  Requests = {r1, r2}
  Keys = {}
  NoKey = NoKey
  NoRequest = NoRequest
  MaxConcurrent = 1
  MaxQueued = 1
  MaxRecords = 2
  MaxMessages = 1
  CircuitThreshold = 2
  SubmitFailures = {"REFUSED"}
  Disconnects = FALSE
  InboxBound = 1
CHECK_DEADLOCK FALSE
PROPERTIES
  EveryTaskEnds
