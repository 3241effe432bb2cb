SPECIFICATION Spec
CONSTANTS
  s1 = s1
  s2 = s2
  a1 = a1
  a2 = a2
  Services = {s1, s2}
  Operations = {"query", "token", "publish"}
  Authorization = {"token"}
  Provider = {"publish"}
  Scopes = {"scope"}
  Wildcard = Wildcard
  NoScope = NoScope
  Policies <- MCPolicies
  Policy <- MCPolicy
  Caller <- MCCaller
  Addresses = {a1}
  TokenSource = "file"
  PreviousFile = TRUE
  TokenStored = TRUE
  Overlap = 2
  AuthLimit = 2
  DailyBudget = 2
  MonthlyBudget = 3
  RateMax = 2
  Window = 1
  Threshold = 2
  DayLength = 1
  MonthDays = 2
  MaxTime = 2
  MaxEvents = 6
  MaxProcesses = 2
SYMMETRY Symmetry
CHECK_DEADLOCK FALSE
INVARIANTS
  UsageNeverInvented
  WindowsHold
  TokensRotate
  BreakerFollowsOutcomes
