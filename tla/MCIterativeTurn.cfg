CONSTANTS
  t1 = t1
  t2 = t2
  h1 = h1
  e1 = e1
  e2 = e2
  Threads = {t1, t2}
  Errors = {e1, e2}
  Handles = {h1}
  Sizes = {1}
  MaxTurns = 1
  MaxBytes = 2
  PoolDepth = 4
  PrefixDepth = 3
  PrimaryDepth = 1
  AlternateDepth = 2
  VerificationDepth = 3
  MaxRuns = 2
  NoHandle = NoHandle
  NoError = NoError
SPECIFICATION Spec
SYMMETRY Symmetry
INVARIANTS IterativeGraphFits EvidenceWasShown TraceIsTruthful
CHECK_DEADLOCK FALSE
