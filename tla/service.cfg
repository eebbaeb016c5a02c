SPECIFICATION AllServices
CHECK_DEADLOCK FALSE
CONSTANTS
  s1 = s1
  s2 = s2
  d1 = d1
  c1 = c1
  q1 = q1
  q2 = q2
  AdminDoc = {d1}
  AdminSession = {s1, s2}
  Console = {c1}
  MaxPid = 2
  MaxCallbacks = 2
  MaxBytes = 1
  MaxStats = 1
  LateDestroy = FALSE
  Member = {s1, s2}
  NoMember = noView
  MaxAltered = 2
  ConfigValue = {"m1", "m2", "e1", "e2", "e3"}
  XmlLists <- MCXml
  Jsons <- MCJson
  MaxServed = 2
  MaxSockets = 4
  ConnectMayFail = FALSE
  Font = {"f1", "f2"}
  MaxFontChanges = 1
  FontFaults = {}
  StoredDoc = {q1, q2}
  FileSize = {1, 2}
  MaxSizeBytes = 4
  MaxAgeSecs = 1
  MaxVersions = 2
  MaxSaves = 3
  MaxTime = 2
  MaxLoads = 2
  SameSecond = FALSE
  DiskFaults = {"full"}
  Session = {s1}
  Info <- MCInfo
  MaxQueue = 1
INVARIANT RequestsAreWhole
INVARIANT RightsAreKept
INVARIANT OverviewIsRight
 
PROPERTY LossIsQuarantined
INVARIANT MonitorsAreServed
INVARIANT FontsAreFed
