SPECIFICATION FairSpec
CONSTANTS
  doc = doc
  other = other
  shared = shared
  Default = default
  NoBroker = NoBroker
  NoKit = NoKit
  Config = {default, shared}
  Doc = {other}
  ConfigOf <- Configs
  Broker = {b1, b2}
  Kit = {k1, k2}
  NumPreSpawned = 1
  MaxTries = 2
  Faults = {"kit", "forkit", "late", "fonts", "presets", "hurry"}
  MaxFaults = 1
INVARIANT OneBrokerPerDoc
PROPERTY BrokerGetsKitOrEnds
 
CHECK_DEADLOCK FALSE
