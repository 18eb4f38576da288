SPECIFICATION Spec
CONSTANTS
  h1 = h1
  h2 = h2
  o1 = o1
  Handlers <- MCHandlers
  Aggregates <- MCAggregates
  Commands <- OrderCommands
  Events <- OrderEvents
  Raises <- OrderRaises
  NoTask = NoTask
  Payments = {p1}
  NoPayment = NoPayment
  MaxPaymentFailures = 2
  MaxItems = 1
  MaxVersion = 2
INVARIANTS
  StoredIsQueued
CHECK_DEADLOCK FALSE
