SPECIFICATION BillingSpec
CONSTANTS
  NoOne = NoOne
  User = {u1}
  Customer = {c1}
  Sub = {s1,s2}
  Handler = {h1}
  Outcome = {"active"}
  DashboardIsUsed = TRUE
  MaxEvents = 2
  MaxRedeliveries = 0
  MaxFaults = 0
INVARIANT UnknownPriceIsNotPremium
CHECK_DEADLOCK FALSE
