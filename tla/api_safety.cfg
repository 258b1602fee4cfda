SPECIFICATION MCSpec
CONSTANTS
  NoOne = NoOne
  User = {u1, u2}
  Customer = {c1, c2}
  Sub = {s1, s2}
  Handler = {h1, h2}
  Outcome = {"active", "past_due", "canceled", "unlisted"}
  DashboardIsUsed = TRUE
  MaxEvents = 3
  MaxRedeliveries = 1
  MaxFaults = 1
  Request = {u1, u2, c1, c2}
  Limit = 2
  MaxInFlight = 2
  MaxMonth = 2
  MaxDeaths = 1
  Throttlers <- ShortAndMedium
  Decorated <- Routes
  MaxHits = 4
  MaxRateTime = 2
  DailyLimit = 2
  MaxDays = 3
  MaxFills = 5
  MaxOutages = 1
  MaxAborts = 1
  Upload = {u1, u2, c1, c2}
  Text <- AnyText
  Resumes <- SomeResumes
  Rewrites <- SomeRewrites
  AtsScore = {"s"}
  App = {u1, u2}
  Update = {c1, c2}
  Label = {"applied", "offer"}
  TrackerSize = 1
  MaxAppChanges = 2
  MaxLosses = 1
  MaxStrangers = 1
SYMMETRY Symmetric
INVARIANTS
  ApiTypesOK
  RowsDoNotMix PlanFollowsStripe
  FreeUseIsBounded NoChargeWithoutWork
  RateLimitIsFair CeilingIsExact NumbersAreKept ExportsAgree TrackerAgrees
CHECK_DEADLOCK FALSE
