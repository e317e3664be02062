CONSTANTS
  c1 = c1
  c2 = c2
  h1 = h1
  h2 = h2
  s1 = s1
  s2 = s2
  Clients = {c1, c2}
  Stoppers = {s1, s2}
  Handles = {h1, h2}
  Sizes = {2}
  MaxTurns = 2
  MaxBytes = 3
  MaxAdmissions = 2
  MaxRejections = 1
  MaxSubmitFailures = 1
  NoHandle = NoHandle
SPECIFICATION FairSpec
INVARIANTS HandlesAgree HistoryIsStable TurnsBalance CloseIsClean WithinLimits
PROPERTIES GateRefined TurnsEnd ShutdownEnds
CHECK_DEADLOCK FALSE
