SPECIFICATION MCSpec
CONSTANTS
  MaxRuns = 2
  MaxFailures = 1
  MaxFetches = 3
  MaxRetries = 1
  Entry = {"one", "two", "bad"}
  BadEntry = {"bad"}
  ProfileSave = {x, y, z}
  MaxMishaps = 1
  ResumeFile = {"f", "g"}
  Sending = {x, y, z}
  MaxBroken = 2
  Item = {a, b, c}
  PageSize = 2
  Deletion = {x, y}
  MaxTrouble = 1
  Tab = {a, b}
  Purchase = {x, y}
  FreeLimit = 1
  MaxSnags = 1
  MaxRows = 3
  ResumesRead = 1
  ScoresRead = 2
  FeedLength = 2
  Candidate = {a, b, c}
  OptionsRead = 2
  MaxSlips = 1
  MaxDrops = 1
SYMMETRY Symmetric
INVARIANTS
  WebTypesOK
  ScorePageIsLive ResumePageSettles
  SettingsAgree PagesAgree
CHECK_DEADLOCK FALSE
