SPECIFICATION ServicesSpec
CONSTANTS
  Workers = {w1, w2}
  MessageCount = 2
  BatchSize = 2
  Concurrency = 2
  MaxRetries = 1
  MaxTasks = 2
  Worlds = {{"break"}, {"crash", "confirm", "fail"}, {"publish", "stop", "mark"}}
  NoTask = NoTask
  Payments = {p1}
  NoPayment = NoPayment
  MaxPaymentFailures = 1
  MaxItems = 1
  PaymentAmount = 1
  Names = {1, 2}
  Levels <- MCLevels
  Prefetch = 2
  MaxOvertaken = 1
  ProjectionRetries = 1
  MaxEvents <- MCMaxEvents
  MaxFaults = 1
  Inventories = {"i1", "i2"}
  ProductOf <- MCProductOf
  StockOrders = {o1, o2}
  NoStockOrder = NoStockOrder
  Quantities = {1}
  EventLimit = 3
  MaxStockLog = 5
  MaxProjecting = 2
  MaxLost = 1
  Accounts = {a1, a2}
  Emails = {e1, e2}
  Usernames = {n1, n2}
  UserRoles = {"user", "admin"}
  Untold = Untold
  NoAccount = NoAccount
  Requests = {r1}
  Checkouts = {c1, c2}
  CheckoutItems = 2
  MaxCheckoutFaults = 1
  Registrations <- MCRegistrations
  Probes = {b1, b2}
  TestKeys = {k1, k2}
  MaxTurns = 1
SYMMETRY WorkerSymmetry
INVARIANTS
  ServicesTypeOK
  PublishedWasReceived
  ReadModelFollows
  StockIsNeverOversold
  StockRowFollows
  UsersAreAccountedFor
  CheckoutIsPaidFor
  ProbesTellTheTruth
CHECK_DEADLOCK FALSE
