SPECIFICATION AllThreads
CONSTANTS
  w1 = w1
  w2 = w2
  w3 = w3
  Worker = {w1, w2, w3}
  MaxWork = 4
  Spurious = TRUE
  Main = main
  web = web
  broker = broker
  client = client
  kit = kit
  NoSocket = NoSocket
  Poller = {web, broker}
  Connection = {client, kit}
  Started = {web}
  HomeOf <- MCHomeOf
  Taken <- MCTaken
  MayClose = {client}
  LateStop = FALSE
  MaxTasks = 2
  listener = listener
  app = app
  User = {listener, app}
  Server = listener
  MaxPairs = 2
  MaxRecords = 1
  a1 = a1
  a2 = a2
  a3 = a3
  h1 = h1
  h2 = h2
INVARIANT RunIsComplete
INVARIANT OneOwner
INVARIANT NobodySleepsOnWork
PROPERTY SocketsSettle
PROPERTY LookupIsAnswered
CHECK_DEADLOCK FALSE
