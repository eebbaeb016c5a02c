SPECIFICATION Spec
CONSTANTS
  s1 = s1
  Session = {s1}
  ReadOnly = {}
  Null = Null
  AlwaysSaveOnExit = FALSE
  LimStoreFailures = 0
  Faults = {"uploadFails", "cfiFails", "tokenExpires", "saveTimesOut", "uploadTooLarge", "downloadFails"}
  MaxEdits = 1
  MaxCommands = 0
  MaxForces = 0
  MaxRenames = 1
  MaxTimeouts = 1
  MaxFailed = 1
  MaxChanges = 1
INVARIANT StorageTruth
 
PROPERTY Promised
CHECK_DEADLOCK FALSE
