SPECIFICATION MCSpec
CONSTANTS
  Token = {a, b}
  Call = {x, y}
  NoToken = none
  Lifetime = 2
  Threshold = 2
  MaxTokenTime = 2
  MaxSessions = 2
  Job = {a, b}
  NoJob = none
  Scoring = {x, y}
  MaxDetected = 3
  User = {a, b}
  NoUser = none
  Load = {x, y}
  TTL = 1
  MaxProfileTime = 2
  MaxEdits = 2
  MaxSwitches = 2
  Form = {a, b}
  NoForm = none
  Message = {x, y}
  MaxEvents = 4
  Text = {"name", "nickname", "title"}
  NoText = none
  Includes <- Words
  Keys <- KeyList
  Pages <- FirstPages
  LaterPages <- NextPages
  MaxMoves = 1
  Posting = {a, b}
  NoPosting = none
  MaxChanges = 4
SYMMETRY Symmetric
INVARIANTS
  ExtensionTypesOK
  SignOutHolds GateFollowsStorage
  PanelScoresItsJob ProfileIsCurrent FillsAreSafe PageIsReported
PROPERTIES LiveTokenIsKept PanelFollowsTheForm FillsLoseNothing
CHECK_DEADLOCK FALSE
