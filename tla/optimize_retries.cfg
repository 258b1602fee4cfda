SPECIFICATION Spec
CONSTANTS
  r1 = r1
  r2 = r2
  q1 = q1
  q2 = q2
  NoJob = NoJob
  Job = {q1}
  Slot = {s1}
  Row = {r1}
  RowOf <- OneRow
  Attempts = 3
  MaxStalls = 1
  MaxDeaths = 0
  MaxLostLocks = 0
  ListenerIsPrompt = TRUE
  Limit = 1
  MaxInFlight = 1
INVARIANT CompletedJobHasDelivered
CHECK_DEADLOCK FALSE
