SPECIFICATION Spec
CONSTANTS
  Services = {"orders", "users"}
  Calls = {c1, c2}
  FailureThreshold = 2
  SuccessThreshold = 2
  MaxManual = 1
  Routes <- MCRoutes
  Paths <- MCPaths
  Callers = {b1, b2, b3, b4}
  MaxConcurrent = 2
  MaxQueueSize = 2
  WindowMs = 3
  MaxRequests = 2
  MaxTime = 8
  MaxAttempts = 3
  InitialDelay = 1
  MaxDelay = 3
  Multiplier = 2
  Handlers = {h1, h2}
  Frequency = 2
  MaxBatch = 2
  MaxLog = 5
  Keys <- MCKeys
  CacheUsers = {u1, u2}
  Releases <- MCReleases
  Asked <- MCAsked
  EventVersions = {1, 2, 3}
  Schemas <- MCSchemas
  Messages = {m1}
  Channels = {1, 2, 3, 4}
  ConsumerRetries = 1
  ConsumerPrefetch = 1
  Connections = {1, 2}
  MaxMishaps = 2
INVARIANTS
  CoreTypeOK
  CountersAreRight
  AdmittedWithinLimit
  RestoredIsReplayed
  OutdatedEntryIsOwedOrRaced
  NoMessageIsLost
PROPERTIES
  VersionsHold
  CircuitCloses
  EveryClientIsAnswered
  QueuedCallsSettle
  QueueIsWorkedOff
CHECK_DEADLOCK FALSE
