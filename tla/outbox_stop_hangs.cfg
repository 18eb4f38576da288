SPECIFICATION FairSpec
CONSTANTS
  Workers = {w1}
  MessageCount = 1
  BatchSize = 2
  Concurrency = 1
  MaxRetries = 2
  MaxTasks = 1
  Worlds = {{"stop"}}
  NoTask = NoTask
PROPERTIES
  StopReturns
CHECK_DEADLOCK FALSE
