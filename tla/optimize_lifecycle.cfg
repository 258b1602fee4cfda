SPECIFICATION FairSpec
CONSTANTS
  r1 = r1
  r2 = r2
  q1 = q1
  q2 = q2
  NoJob = NoJob
  Job = {q1, q2}
  Slot = {s1, s2}
  Row = {r1, r2}
  RowOf <- OwnRow
  Attempts = 3
  MaxStalls = 1
  MaxDeaths = 0
  MaxLostLocks = 0
  ListenerIsPrompt = TRUE
  Limit = 2
  MaxInFlight = 2
PROPERTY ImplementsLifecycle
CHECK_DEADLOCK FALSE
