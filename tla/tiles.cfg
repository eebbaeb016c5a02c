SPECIFICATION Spec
CONSTANTS
  s1 = s1
  s2 = s2
  v1 = v1
  v2 = v2
  Session = {s1, s2}
  View = {v1, v2}
  Layouts <- SharedOrApart
  Tiles = 1
  Visible <- OneLooks
  NoTile = NoTile
  MaxDeltas = 1
  MaxJoin = 2
  OnFlyLimit = 2
  MaxChanges = 2
  MaxEvents = 1
INVARIANT ChainIsSound
INVARIANT SubscriberIsServed
INVARIANT ScreensAreRight
CHECK_DEADLOCK FALSE
