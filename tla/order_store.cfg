SPECIFICATION Spec
CONSTANTS
  h1 = h1
  h2 = h2
  o1 = o1
  Handlers <- MCHandlers
  Aggregates <- MCAggregates
  Commands <- OrderCommands
  Events <- OrderEvents
  Raises <- OrderRaises
  NoTask = NoTask
  Payments = {p1}
  NoPayment = NoPayment
  MaxPaymentFailures = 2
  MaxItems = 2
  MaxVersion = 7
SYMMETRY MCSymmetry
INVARIANTS
  TypeOK
  DecidedOnAPrefix
  OutboxMirrorsStore
  SuccessIsDurable
  ConfirmedItemsAreTheItemsAdded
  OrderLifeCycle
PROPERTIES
  Serial
CHECK_DEADLOCK FALSE
