CONSTANTS
  r1 = r1
  r2 = r2
  r3 = r3
  s1 = s1
  s2 = s2
  Requests = {r1, r2}
  Stoppers = {s1}
  MaxInFlight = 1
  MaxSubmitFailures = 0
  NoToken = NoToken
  NoRun = NoRun
SPECIFICATION Spec
INVARIANT AdmittedDrainsNaturally
CHECK_DEADLOCK FALSE
