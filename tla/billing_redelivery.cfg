SPECIFICATION BillingSpec
CONSTANTS
  NoOne = NoOne
  User = {u1}
  Customer = {c1}
  Sub = {s1}
  Handler = {h1}
  Outcome = {"active", "canceled"}
  DashboardIsUsed = FALSE
  MaxEvents = 2
  MaxRedeliveries = 1
  MaxFaults = 0
PROPERTY RedeliveryIsHarmless
CHECK_DEADLOCK FALSE
