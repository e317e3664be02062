CONSTANTS
  t1 = t1
  t2 = t2
  h1 = h1
  e1 = e1
  e2 = e2
  Threads = {t1}
  Errors = {e1}
  Handles = {h1}
  Sizes = {1}
  MaxTurns = 1
  MaxBytes = 2
  MaxRuns = 1
  NoHandle = NoHandle
  NoError = NoError
SPECIFICATION Spec
INVARIANT RetrievalIsCounted
CHECK_DEADLOCK FALSE
