SPECIFICATION FairSpec
CONSTANTS
  o1 = o1
  o2 = o2
  p1 = p1
  p2 = p2
  Orders = {o1}
  Products = {p1, p2}
  Quantity <- MCQuantity
  TotalStock <- MCTotalStock
  Runs = {r1, r2}
  NoRun = NoRun
  NoOrder = NoOrder
  Payments = {y1}
  NoPayment = NoPayment
  MaxPaymentFailures = 2
  MaxItems = 2
  Troubles = {"conflict", "outbox", "redelivery", "crash", "lag"}
  MaxTroubles = 2
PROPERTIES
  CancelledOrderIsRefunded
CHECK_DEADLOCK FALSE
