CONSTANTS
  t1 = t1
  t2 = t2
  t3 = t3
  q1 = q1
  q2 = q2
  k1 = k1
  k2 = k2
  k3 = k3
  Threads = {t1, t2, t3}
  Questions = {q1, q2}
  Tokens = {k1, k2, k3}
  MaxInFlight = 2
  MaxAttempts = 4
  NoToken = NoToken
  NoRun = NoRun
SPECIFICATION RuntimeSpec
SYMMETRY Symmetry
INVARIANTS AdmissionIsExact TalliesBalance ProfileIsOwn NothingLeftBehind
CHECK_DEADLOCK FALSE
