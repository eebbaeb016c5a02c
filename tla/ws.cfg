SPECIFICATION WebSpec
CONSTANTS
  SendBuffer = 3
  MaxFromServer = 1
  MaxFromClient = 2
  MaxShutdowns = 1
  Extra = {"ping", "malformed", "pause"}
  MaxExtras = 1
INVARIANT FlushedBeforeClose
PROPERTY CloseIsHeard
CHECK_DEADLOCK FALSE
