SPECIFICATION Spec
CONSTANTS
  g1 = g1
  g2 = g2
  c1 = c1
  c2 = c2
  s1 = s1
  s2 = s2
  NoGroup = NoGroup
  Sweeper = Sweeper
  Groups = {g1, g2}
  Callers = {c1}
  Restorers = {s1}
  Operations = {"RECONNECT"}
  ItemCounts = {1, 2}
  MaxPerPrincipal = 2
  PartialAccepts = TRUE
  Failing = {}
  MaxToken = 5
SYMMETRY Symmetry
CHECK_DEADLOCK FALSE
INVARIANT ActiveMeansConfirmed
