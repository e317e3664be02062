CONSTANTS
  r1 = r1
  r2 = r2
  r3 = r3
  s1 = s1
  s2 = s2
  Requests = {r1, r2}
  Stoppers = {s1, s2}
  MaxInFlight = 1
  MaxSubmitFailures = 1
  NoToken = NoToken
  NoRun = NoRun
SPECIFICATION FairSpec
INVARIANTS TransportBooks RuntimeNeverSaturated ClosedMeansStopped ResponsesAreTruthful
PROPERTIES RequestsEnd ShutdownEnds
CHECK_DEADLOCK FALSE
