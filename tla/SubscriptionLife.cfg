SPECIFICATION FairSpec
CONSTANTS
  g1 = g1
  g2 = g2
  c1 = c1
  c2 = c2
  s1 = s1
  s2 = s2
  NoGroup = NoGroup
  Sweeper = Sweeper
  Groups = {g1, g2}
  Callers = {c1, c2}
  Restorers = {}
  Operations = {"CANCEL", "EXPIRE", "ABANDON", "INVALID"}
  ItemCounts = {1, 2}
  MaxPerPrincipal = 1
  PartialAccepts = TRUE
  Failing = {"ROLLBACK", "CANCEL", "EXPIRE", "RETRY", "ABANDONED_UNSUBSCRIBE"}
  MaxToken = 2
CHECK_DEADLOCK FALSE
INVARIANT TypeOK
INVARIANT LimitHolds
INVARIANT EndedIsQuiet
PROPERTY EndedStaysEnded
PROPERTY DueGroupsEnd
