SPECIFICATION Spec
CONSTANTS
  r1 = r1
  r2 = r2
  r3 = r3
  Requests = {r1, r2, r3}
  Keys = {}
  NoKey = NoKey
  NoRequest = NoRequest
  MaxConcurrent = 1
  MaxQueued = 1
  MaxRecords = 3
  MaxMessages = 0
  CircuitThreshold = 1
  SubmitFailures = {"REFUSED"}
  Disconnects = FALSE
  InboxBound = 1
SYMMETRY Symmetry
CHECK_DEADLOCK FALSE
INVARIANTS
  AdmissionBound
PROPERTIES
  ImplementsContract
