SPECIFICATION FairSpec
CHECK_DEADLOCK FALSE
CONSTANTS
  Session = {1, 2, 3}
  Kind <- EditorsAndViewer
  Owner = {}
  Faults = {"other", "retry"}
PROPERTY AttemptSucceeds
