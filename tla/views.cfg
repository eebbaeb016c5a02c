SPECIFICATION Spec
CONSTANTS
  s1 = s1
  s2 = s2
  Session = {s1, s2}
  ReadOnly = {s2}
  Null = Null
  AlwaysSaveOnExit = FALSE
  LimStoreFailures = 0
  Faults = {"saveFails", "idle", "kitCrashes"}
  MaxEdits = 2
  MaxCommands = 1
  MaxForces = 0
  MaxRenames = 0
  MaxTimeouts = 0
  MaxFailed = 0
  MaxChanges = 0
INVARIANT TypeOK
INVARIANT SaveActivityHasSave
INVARIANT OneSaveInFlight
INVARIANT NoSilentLoss
CHECK_DEADLOCK FALSE
