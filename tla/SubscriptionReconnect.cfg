SPECIFICATION Spec
CONSTANTS
  g1 = g1
  g2 = g2
  c1 = c1
  c2 = c2
  s1 = s1
  s2 = s2
  NoGroup = NoGroup
  Sweeper = Sweeper
  Groups = {g1}
  Callers = {c1}
  Restorers = {s1, s2}
  Operations = {"RESUBSCRIBE", "CANCEL", "RECONNECT", "INVALID"}
  ItemCounts = {1}
  MaxPerPrincipal = 1
  PartialAccepts = FALSE
  Failing = {"CANCEL"}
  MaxToken = 3
SYMMETRY Symmetry
CHECK_DEADLOCK FALSE
INVARIANT RoutedTokensAreCurrent
INVARIANT EventsOfCurrentGeneration
INVARIANT PendingAreRetired
