SPECIFICATION MCFairSpec
CONSTANTS
  r1 = r1
  r2 = r2
  q1 = q1
  q2 = q2
  NoJob = NoJob
  Job = {q1, q2}
  Slot = {s1, s2}
  Row = {r1}
  RowOf <- OneRow
  Attempts = 3
  MaxStalls = 1
  MaxDeaths = 0
  MaxLostLocks = 0
  ListenerIsPrompt = FALSE
  Limit = 2
  MaxInFlight = 2
  NoOne = NoOne
  User = {u1}
  Customer = {c1,c2}
  Sub = {s1,s2}
  Handler = {h1,h2}
  Outcome = {"active", "trialing"}
  DashboardIsUsed = FALSE
  MaxEvents = 3
  MaxRedeliveries = 1
  MaxFaults = 0
PROPERTIES RequestsSettle PayingUserBecomesPremium
CHECK_DEADLOCK FALSE
