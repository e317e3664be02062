CONSTANTS
  p1 = p1
  p2 = p2
  Parent <- MCParent
  Turns <- MCTurns
  MaxEdits = 1
  Restores = FALSE
SPECIFICATION Spec
INVARIANTS MergedIsOneProcess FailureIsFinal SourcesAreOne
SYMMETRY Symmetry
CHECK_DEADLOCK FALSE
