SPECIFICATION Spec
CONSTANTS
  o1 = o1
  o2 = o2
  p1 = p1
  p2 = p2
  Orders = {o1}
  Products = {p1, p2}
  Quantity <- MCQuantity
  TotalStock <- MCTotalStock
  Runs = {r1}
  NoRun = NoRun
  NoOrder = NoOrder
  Payments = {y1}
  NoPayment = NoPayment
  MaxPaymentFailures = 2
  MaxItems = 2
  Troubles = {}
  MaxTroubles = 0
PROPERTIES
  CancellingReleasesAnyReserved
CHECK_DEADLOCK FALSE
