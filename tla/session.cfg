SPECIFICATION AllSessions
CONSTANTS
  s1 = s1
  s2 = s2
  s3 = s3
  r1 = r1
  b1 = b1
  k1 = k1
  k2 = k2
  Client = {s1, s2}
  Key = {k1, k2}
  KeyOf <- MCKeyOf
  MaxStations = 1
  MaxRedirects = 1
  Shared = TRUE
  Session = {s1, s2}
  MaxTries = 2
  LoadMayFail = TRUE
  Audience = {s1, s2, s3}
  Leader = s1
  MaxSlides = 1
  Broker = {b1}
  Request = {r1}
  BrokerOf <- MCBrokerOf
  MayCopy = {s1}
  MaxKeys = 3
INVARIANT OnlyWithPassword
INVARIANT SessionIsVetted
INVARIANT FollowersFollow
INVARIANT OwnClipboard
PROPERTY LoadIsAnswered
PROPERTY ConversionEnds
PROPERTY EditorGetsLock
PROPERTY RefreshGoesOn
CHECK_DEADLOCK FALSE
