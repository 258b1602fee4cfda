SPECIFICATION Spec
CONSTANTS
  v1 = v1
  NoJob = NoJob
  Job = {q1,q2}
  Slot = {s1,s2}
  Version = {v1}
  VersionOf <- OneVersion
  Attempts = 3
  MaxStalls = 1
  MaxDeaths = 2
  MaxLostLocks = 1
  ListenerIsPrompt = FALSE
SYMMETRY Symmetric
INVARIANTS TypeOK StatusMatchesColumns FileIsThere NoOrphan
