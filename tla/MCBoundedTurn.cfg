CONSTANTS
  t1 = t1
  t2 = t2
  h1 = h1
  e1 = e1
  e2 = e2
  Threads = {t1, t2}
  Errors = {e1, e2}
  Handles = {h1}
  Sizes = {1}
  MaxTurns = 1
  MaxBytes = 2
  MaxRuns = 3
  NoHandle = NoHandle
  NoError = NoError
SPECIFICATION Spec
SYMMETRY Symmetry
INVARIANTS GraphFitsPolicy FailuresAreReported SnapshotsAreConsumed OutcomeIsEarned
PROPERTY TurnsRefined
CHECK_DEADLOCK FALSE
