SPECIFICATION Spec
CONSTANTS
  r1 = r1
  r2 = r2
  r3 = r3
  Requests = {r1, r2}
  Keys = {k1}
  NoKey = NoKey
  NoRequest = NoRequest
  MaxConcurrent = 1
  MaxQueued = 2
  MaxRecords = 4
  MaxMessages = 1
  CircuitThreshold = 1
  SubmitFailures = {"REFUSED"}
  Disconnects = FALSE
  InboxBound = 1
CHECK_DEADLOCK FALSE
PROPERTIES
  NoResubmissionInWindow
