SPECIFICATION MessagingSpec
CONSTANTS
  Messages = {m1, m2}
  Channels = {1, 2, 3, 4}
  ConsumerRetries = 1
  ConsumerPrefetch = 2
  Connections = {2}
  MaxMishaps = 1
INVARIANTS
  AckedWasProcessed
CHECK_DEADLOCK FALSE
