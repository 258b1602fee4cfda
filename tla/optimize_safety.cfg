SPECIFICATION Spec
CONSTANTS
  r1 = r1
  r2 = r2
  q1 = q1
  q2 = q2
  NoJob = NoJob
  Job = {q1, q2}
  Slot = {s1, s2}
  Row = {r1}
  RowOf <- OneRow
  Attempts = 3
  MaxStalls = 1
  MaxDeaths = 1
  MaxLostLocks = 1
  ListenerIsPrompt = FALSE
  Limit = 2
  MaxInFlight = 2
SYMMETRY Symmetric
INVARIANTS TypeOK StatusMatchesColumns EveryJobIsPaidFor NoOrphan
CHECK_DEADLOCK FALSE
