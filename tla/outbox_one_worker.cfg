SPECIFICATION FairSpec
CONSTANTS
  Workers = {w1}
  MessageCount = 3
  BatchSize = 2
  Concurrency = 2
  MaxRetries = 2
  MaxTasks = 2
  Worlds = {{"crash", "stop", "publish", "select", "mark", "confirm"}, {"publish", "break"}, {"confirm", "fail"}}
  NoTask = NoTask
INVARIANTS
  RedeliveryIsCounted
  StopWaitsForBatch
  HandedInOrder
PROPERTIES
  PublishedOnce
  EveryMessageSettles
CHECK_DEADLOCK FALSE
