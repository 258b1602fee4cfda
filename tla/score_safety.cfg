SPECIFICATION Spec
CONSTANTS
  NoJob = NoJob
  Job = {q1, q2}
  Slot = {s1, s2}
  Attempts = 3
  MaxStalls = 1
  MaxDeaths = 2
  MaxLostLocks = 1
  ListenerIsPrompt = FALSE
  Limit = 2
  MaxInFlight = 2
SYMMETRY Symmetric
INVARIANTS TypeOK StatusMatchesColumns ChargesMatchRows DoneIsSettled
CHECK_DEADLOCK FALSE
