SPECIFICATION Spec
CONSTANTS
  r1 = r1
  r2 = r2
  r3 = r3
  Requests = {r1, r2}
  Keys = {k1}
  NoKey = NoKey
  NoRequest = NoRequest
  MaxConcurrent = 1
  MaxQueued = 1
  MaxRecords = 1
  MaxMessages = 1
  CircuitThreshold = 1
  SubmitFailures = {"REFUSED", "MALFORMED", "TRANSPORT"}
  Disconnects = TRUE
  InboxBound = 1
SYMMETRY Symmetry
CHECK_DEADLOCK FALSE
INVARIANTS
  TypeOK
  PermitsAccounted
  LeasesReleased
  OutcomeConsistent
  BudgetRespected
  DedupPointsToAdmitted
PROPERTIES
  FinalRecordsFrozen
  ActiveRecordsStay
