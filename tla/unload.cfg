SPECIFICATION FairSpec
CONSTANTS
  s1 = s1
  Session = {s1}
  ReadOnly = {}
  Null = Null
  AlwaysSaveOnExit = FALSE
  LimStoreFailures = 2
  Faults = {"saveFails", "kitCrashes", "noConnection", "uploadUnauthorized", "slowUpload"}
  MaxEdits = 1
  MaxCommands = 0
  MaxForces = 1
  MaxRenames = 0
  MaxTimeouts = 0
  MaxFailed = 0
  MaxChanges = 0
PROPERTY EndIsReached
PROPERTY SessionsLeave
CHECK_DEADLOCK FALSE
