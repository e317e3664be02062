CONSTANTS
  c1 = c1
  c2 = c2
  s1 = s1
  s2 = s2
  w1 = w1
  Callers = {c1, c2}
  Closers = {s1, s2}
  Watchers = {w1}
  MaxInvocations = 3
SPECIFICATION FairFacadeSpec
INVARIANTS CountsAreExact SleepersHaveAWaker
PROPERTIES GateRefined DrainCompletes WatchersReleased
CHECK_DEADLOCK FALSE
