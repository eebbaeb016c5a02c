SPECIFICATION FairSpec
CONSTANTS
  s1 = s1
  s2 = s2
  Session = {s1, s2}
  MaxJoin = 1
  InputTypes = {"key", "textinput"}
  Overlap = FALSE
  Faults = {"saveFails", "crash", "lateCrash", "dialog", "noFork", "loadFails"}
  MaxRequests = 3
  MaxEvents = 1
  MaxInFlight = 1
INVARIANT UnmodifiedIsSavedOrRaced
PROPERTY FileNeverGoesBack
PROPERTY SaveIsAnswered
CHECK_DEADLOCK FALSE
