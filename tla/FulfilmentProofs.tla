-------------------------- MODULE FulfilmentProofs --------------------------
(***************************************************************************)
(* Proofs about Fulfilment: stock is promised once and kept, and paid      *)
(* orders have their payment, for any orders, products, quantities, stock, *)
(* number of deliveries handled at the same time and number of troubles.   *)
(***************************************************************************)
EXTENDS Fulfilment, OrderAggregateProofs, FiniteSetTheorems

Promising == {"INVENTORY_RESERVED", "PAID", "SHIPPED"}
Paid == {"PAID", "SHIPPED"}

(* An order that fails to be paid once too often is cancelled.             *)
FailuresCancel ==
  \A o \in Orders : order[o].status # "CANCELLED" => order[o].failures < MaxPaymentFailures

(* A payment that was created belongs to an order.                         *)
PaymentsHaveOrders == \A y \in Payments : pay[y].status # "NONE" => pay[y].order \in Orders

(* What a message says of the order or the payment it is about.            *)
MessagesTellTheTruth ==
  \A m \in msgs :
    /\ m.order \in Orders
    /\ m.type = "ORDER_CANCELLED" => order[m.order].status = "CANCELLED"
    /\ m.type \in {"REFUND", "PAYMENT_COMPLETED", "PAYMENT_FAILED"} => m.payment \in Payments
    /\ m.type = "PAYMENT_COMPLETED" =>
         /\ pay[m.payment].order = m.order
         /\ pay[m.payment].status \in {"COMPLETED", "REFUNDED"}

(* A run keeps count of what it has reserved, and nobody else has.         *)
RunsKeepCount ==
  \A r \in Runs : run[r] # NoRun =>
    LET o == run[r].order IN
    /\ run[r].left \subseteq Ordered(o) /\ run[r].ok \subseteq Ordered(o)
    /\ run[r].ok \intersect run[r].left = {}
    /\ ~run[r].bad => run[r].ok = Ordered(o) \ run[r].left
    /\ \A p \in run[r].ok : inv[p].resv[o] # "NONE"
    /\ \A s \in Runs : s # r /\ run[s] # NoRun /\ run[s].order = o =>
         run[s].ok \intersect run[r].ok = {}

(* A run that may still succeed holds what it has reserved, unless the     *)
(* order is cancelled.                                                     *)
MaySucceed(r) ==
  /\ run[r] # NoRun /\ ~run[r].bad
  /\ \A p \in run[r].left : inv[p].resv[run[r].order] = "NONE"

HopefulRunsHold ==
  \A r \in Runs : MaySucceed(r) /\ order[run[r].order].status # "CANCELLED" =>
    \A p \in run[r].ok : inv[p].resv[run[r].order] = "PENDING"

(* Once a run for an order has succeeded, all its stock is held and no run *)
(* has anything to give back, unless the order is cancelled.               *)
Succeeded(o) ==
  \/ \E m \in msgs : m.type = "STOCK_RESERVED" /\ m.order = o
  \/ order[o].status \in Promising

SuccessIsKept ==
  \A o \in Orders : Succeeded(o) /\ order[o].status # "CANCELLED" =>
    /\ \A p \in Ordered(o) : inv[p].resv[o] = "PENDING"
    /\ \A r \in Runs : run[r] # NoRun /\ run[r].order = o => run[r].ok = {}

(* What pending reservations promise is what is reserved.                  *)
PromisesAddUp ==
  \A p \in Products :
    /\ IsFiniteSet(Promised(p))
    /\ inv[p].reserved = Cardinality(Promised(p))
    /\ inv[p].reserved <= TotalStock[p]

OrdersInv == TypeOK /\ FailuresCancel /\ PaymentsHaveOrders /\ MessagesTellTheTruth
StockInv == RunsKeepCount /\ HopefulRunsHold /\ SuccessIsKept /\ PromisesAddUp
IInv == OrdersInv /\ PaidOrderHasCompletedPayment /\ StockInv
-----------------------------------------------------------------------------
(* What the steps of the order service and of the payments amount to.      *)

(* A command may bring order o into state n.                               *)
Allowed(o, n) ==
  /\ n \in OrderState /\ order[o].status # "CANCELLED"
  /\ n.status # "CANCELLED" => n.failures < MaxPaymentFailures
  /\ n.status \in Promising => Succeeded(o)
  /\ n.status \in Paid =>
       \/ order[o].status \in Paid /\ n.payment = order[o].payment
       \/ \E m \in msgs : m.type = "PAYMENT_COMPLETED" /\ m.order = o /\ m.payment = n.payment

(* A message about order o, brought into state n.                          *)
OrderMessage(m, o, n) ==
  /\ m \in Message /\ m.order = o
  /\ m.type \in {"ORDER_CONFIRMED", "ORDER_CANCELLED", "REFUND"}
  /\ m.type = "ORDER_CANCELLED" => n.status = "CANCELLED"
  /\ m.type = "REFUND" => m.payment \in Payments

OrderStep(o, n) ==
  /\ order' = [order EXCEPT ![o] = n]
  /\ \/ n = order[o] /\ msgs' \subseteq msgs
     \/ Allowed(o, n) /\ \A m \in msgs' \ msgs : OrderMessage(m, o, n)
  /\ troubles' \in 0 .. MaxTroubles /\ forgone' \in SUBSET Payments
  /\ UNCHANGED <<pay, inv, rows, jobs, run>>

PaymentStep(y, p) ==
  /\ pay' = [pay EXCEPT ![y] = p]
  /\ p \in Payment
  /\ p.status # "NONE" => p.order \in Orders
  /\ pay[y].status \in {"COMPLETED", "REFUNDED"} =>
       p.order = pay[y].order /\ p.status \in {"COMPLETED", "REFUNDED"}
  /\ \A m \in msgs' \ msgs :
       /\ m \in Message /\ m.type \in {"PAYMENT_COMPLETED", "PAYMENT_FAILED"}
       /\ m.payment = y /\ m.order = p.order /\ m.order \in Orders
       /\ m.type = "PAYMENT_COMPLETED" => p.status = "COMPLETED"
  /\ troubles' \in 0 .. MaxTroubles /\ forgone' \in SUBSET Payments
  /\ UNCHANGED <<order, inv, rows, jobs, run>>

LEMMA SpendTypes ==
  ASSUME troubles \in 0 .. MaxTroubles, NEW t, Spend(t)
  PROVE  troubles' \in 0 .. MaxTroubles
BY MaxTroublesAssumption DEF Spend

LEMMA SettleTypes ==
  ASSUME troubles \in 0 .. MaxTroubles, NEW handled, NEW out, Settle(handled, out)
  PROVE  msgs' \subseteq msgs \union out /\ troubles' \in 0 .. MaxTroubles
BY SpendTypes DEF Settle

LEMMA RefusedTypes ==
  ASSUME troubles \in 0 .. MaxTroubles, NEW handled, NEW refused, Refused(handled, refused)
  PROVE  msgs' \subseteq msgs /\ troubles' \in 0 .. MaxTroubles
BY SpendTypes DEF Refused

(* Any command whose batches are allowed.                                  *)
LEMMA CommandIsOrderStep ==
  ASSUME OrdersInv, NEW o \in Orders, NEW B, NEW handled, OrderCommand(o, B, handled),
         \A b \in B : /\ Allowed(o, Replay(order[o], b))
                      /\ \A e \in ToSet(b) : e.type = "CANCELLED" =>
                           /\ Replay(order[o], b).status = "CANCELLED"
                           /\ e.payment \in Payments \union {NoPayment}
  PROVE  \E n : OrderStep(o, n)
<1>0. /\ order \in [Orders -> OrderState] /\ troubles \in 0 .. MaxTroubles
      /\ forgone \in SUBSET Payments
  BY DEF OrdersInv, TypeOK
<1>1. ASSUME NEW b \in B, order' = [order EXCEPT ![o] = Replay(@, b)],
             Settle(handled, Announced(o, b)), UNCHANGED <<pay, stockVars>>,
             forgone' = forgone \union RefundsIn(Announced(o, b) \ msgs')
      PROVE  OrderStep(o, Replay(order[o], b))
  <2>1. msgs' \subseteq msgs \union Announced(o, b) /\ troubles' \in 0 .. MaxTroubles
    BY <1>0, <1>1, SettleTypes
  <2>2. \A m \in Announced(o, b) : OrderMessage(m, o, Replay(order[o], b))
    BY DEF Announced, OrderMessage, About, Message
  <2>3. forgone' \in SUBSET Payments
    BY <1>0, <1>1, <2>2 DEF RefundsIn, OrderMessage
  <2>. QED
    BY <1>1, <2>1, <2>2, <2>3 DEF OrderStep, stockVars
<1>2. ASSUME Refused(handled, B = {}), UNCHANGED <<order, forgone>>, UNCHANGED <<pay, stockVars>>
      PROVE  OrderStep(o, order[o])
  <2>1. msgs' \subseteq msgs /\ troubles' \in 0 .. MaxTroubles
    BY <1>0, <1>2, RefusedTypes
  <2>2. order' = [order EXCEPT ![o] = order[o]]
    BY <1>0, <1>2
  <2>. QED
    BY <1>0, <1>2, <2>1, <2>2 DEF OrderStep, stockVars
<1>. QED
  BY <1>1, <1>2 DEF OrderCommand

LEMMA SetOfOne == ASSUME NEW e PROVE ToSet(<<e>>) = {e}
BY DEF ToSet

LEMMA SetOfTwo == ASSUME NEW d, NEW e PROVE ToSet(<<d, e>>) = {d, e}
BY DEF ToSet

LEMMA OrderTypes == ASSUME OrdersInv, NEW o \in Orders PROVE order[o] \in OrderState
BY DEF OrdersInv, TypeOK

LEMMA MessageTypes == ASSUME OrdersInv, NEW m \in msgs PROVE m.order \in Orders
BY DEF OrdersInv, MessagesTellTheTruth

LEMMA StillPayable ==
  ASSUME OrdersInv, NEW o \in Orders, order[o].status # "CANCELLED"
  PROVE  order[o].failures < MaxPaymentFailures
BY DEF OrdersInv, FailuresCancel

LEMMA CompletedHasPayment ==
  ASSUME OrdersInv, NEW m \in msgs, m.type = "PAYMENT_COMPLETED"
  PROVE  m.payment \in Payments
BY DEF OrdersInv, MessagesTellTheTruth

LEMMA ConfirmStep ==
  ASSUME OrdersInv, NEW o \in Orders, ConfirmOrder(o)
  PROVE  \E n : OrderStep(o, n)
<1> DEFINE s == order[o]
<1>0. s \in OrderState /\ o \in Orders
  BY OrderTypes, MessageTypes
<1>1. ASSUME NEW b \in Confirm(s)
      PROVE  /\ Allowed(o, Replay(s, b))
             /\ \A e \in ToSet(b) : e.type = "CANCELLED" =>
                  /\ Replay(s, b).status = "CANCELLED"
                  /\ e.payment \in Payments \union {NoPayment}
  <2>1. PICK e : /\ s.status = "DRAFT"
                 /\ b = <<e>>
                 /\ e.type = "CONFIRMED"
                 /\ Replay(s, b) = [s EXCEPT !.status = "AWAITING_INVENTORY"]
    BY <1>0, <1>1, ConfirmEffect
  <2>2. Allowed(o, Replay(s, b))
    BY <1>0, <2>1, StillPayable
       DEF Allowed, OrderState, OrderStatus, Succeeded, Promising, Paid
  <2>3. ToSet(b) = {e}
    BY <2>1, SetOfOne
  <2>. QED
    BY <1>0, <2>1, <2>2, <2>3 DEF OrderState
<1>. QED
  BY <1>0, <1>1, CommandIsOrderStep DEF ConfirmOrder

LEMMA CancelStep ==
  ASSUME OrdersInv, NEW o \in Orders, CancelOrder(o)
  PROVE  \E n : OrderStep(o, n)
<1> DEFINE s == order[o]
<1>0. s \in OrderState /\ o \in Orders
  BY OrderTypes, MessageTypes
<1>1. ASSUME NEW b \in Cancel(s)
      PROVE  /\ Allowed(o, Replay(s, b))
             /\ \A e \in ToSet(b) : e.type = "CANCELLED" =>
                  /\ Replay(s, b).status = "CANCELLED"
                  /\ e.payment \in Payments \union {NoPayment}
  <2>1. PICK e : /\ s.status \notin {"CANCELLED", "SHIPPED"}
                 /\ e.payment = s.payment
                 /\ b = <<e>>
                 /\ e.type = "CANCELLED"
                 /\ Replay(s, b) = [s EXCEPT !.status = "CANCELLED"]
    BY <1>0, <1>1, CancelEffect
  <2>2. Allowed(o, Replay(s, b))
    BY <1>0, <2>1, StillPayable
       DEF Allowed, OrderState, OrderStatus, Succeeded, Promising, Paid
  <2>3. ToSet(b) = {e}
    BY <2>1, SetOfOne
  <2>. QED
    BY <1>0, <2>1, <2>2, <2>3 DEF OrderState
<1>. QED
  BY <1>0, <1>1, CommandIsOrderStep DEF CancelOrder

LEMMA ShipStep ==
  ASSUME OrdersInv, NEW o \in Orders, ShipOrder(o)
  PROVE  \E n : OrderStep(o, n)
<1> DEFINE s == order[o]
<1>0. s \in OrderState /\ o \in Orders
  BY OrderTypes, MessageTypes
<1>1. ASSUME NEW b \in Ship(s)
      PROVE  /\ Allowed(o, Replay(s, b))
             /\ \A e \in ToSet(b) : e.type = "CANCELLED" =>
                  /\ Replay(s, b).status = "CANCELLED"
                  /\ e.payment \in Payments \union {NoPayment}
  <2>1. PICK e : /\ s.status = "PAID"
                 /\ b = <<e>>
                 /\ e.type = "SHIPPED"
                 /\ Replay(s, b) = [s EXCEPT !.status = "SHIPPED"]
    BY <1>0, <1>1, ShipEffect
  <2>2. Allowed(o, Replay(s, b))
    BY <1>0, <2>1, StillPayable
       DEF Allowed, OrderState, OrderStatus, Succeeded, Promising, Paid
  <2>3. ToSet(b) = {e}
    BY <2>1, SetOfOne
  <2>. QED
    BY <1>0, <2>1, <2>2, <2>3 DEF OrderState
<1>. QED
  BY <1>0, <1>1, CommandIsOrderStep DEF ShipOrder

LEMMA MarkInventoryReservedStep ==
  ASSUME OrdersInv, NEW m \in msgs, OnInventoryReserved(m)
  PROVE  \E n : OrderStep(m.order, n)
<1> DEFINE s == order[m.order]
<1>0. s \in OrderState /\ m.order \in Orders
  BY OrderTypes, MessageTypes
<1>1. ASSUME NEW b \in MarkInventoryReserved(s)
      PROVE  /\ Allowed(m.order, Replay(s, b))
             /\ \A e \in ToSet(b) : e.type = "CANCELLED" =>
                  /\ Replay(s, b).status = "CANCELLED"
                  /\ e.payment \in Payments \union {NoPayment}
  <2>1. PICK e : /\ s.status = "AWAITING_INVENTORY"
                 /\ b = <<e>>
                 /\ e.type = "INVENTORY_RESERVED"
                 /\ Replay(s, b) = [s EXCEPT !.status = "INVENTORY_RESERVED"]
    BY <1>0, <1>1, MarkInventoryReservedEffect
  <2>2. Allowed(m.order, Replay(s, b))
    BY <1>0, <2>1, StillPayable
       DEF OnInventoryReserved, Allowed, OrderState, OrderStatus, Succeeded, Promising, Paid
  <2>3. ToSet(b) = {e}
    BY <2>1, SetOfOne
  <2>. QED
    BY <1>0, <2>1, <2>2, <2>3 DEF OrderState
<1>. QED
  BY <1>0, <1>1, CommandIsOrderStep DEF OnInventoryReserved

LEMMA MarkInventoryFailedStep ==
  ASSUME OrdersInv, NEW m \in msgs, OnInventoryFailed(m)
  PROVE  \E n : OrderStep(m.order, n)
<1> DEFINE s == order[m.order]
<1>0. s \in OrderState /\ m.order \in Orders
  BY OrderTypes, MessageTypes
<1>1. ASSUME NEW b \in MarkInventoryFailed(s)
      PROVE  /\ Allowed(m.order, Replay(s, b))
             /\ \A e \in ToSet(b) : e.type = "CANCELLED" =>
                  /\ Replay(s, b).status = "CANCELLED"
                  /\ e.payment \in Payments \union {NoPayment}
  <2>1. PICK e : /\ s.status = "AWAITING_INVENTORY"
                 /\ b = <<e>>
                 /\ e.type = "INVENTORY_FAILED"
                 /\ Replay(s, b) = [s EXCEPT !.status = "INVENTORY_FAILED"]
    BY <1>0, <1>1, MarkInventoryFailedEffect
  <2>2. Allowed(m.order, Replay(s, b))
    BY <1>0, <2>1, StillPayable
       DEF Allowed, OrderState, OrderStatus, Succeeded, Promising, Paid
  <2>3. ToSet(b) = {e}
    BY <2>1, SetOfOne
  <2>. QED
    BY <1>0, <2>1, <2>2, <2>3 DEF OrderState
<1>. QED
  BY <1>0, <1>1, CommandIsOrderStep DEF OnInventoryFailed

LEMMA MarkPaidStep ==
  ASSUME OrdersInv, NEW m \in msgs, OnPaymentCompleted(m)
  PROVE  \E n : OrderStep(m.order, n)
<1> DEFINE s == order[m.order]
           p == m.payment
<1>0. s \in OrderState /\ m.order \in Orders
  BY OrderTypes, MessageTypes
<1> HIDE DEF s, p
<1>1. ASSUME NEW b \in MarkPaid(s, p)
      PROVE  /\ Allowed(m.order, Replay(s, b))
             /\ \A e \in ToSet(b) : e.type = "CANCELLED" =>
                  /\ Replay(s, b).status = "CANCELLED"
                  /\ e.payment \in Payments \union {NoPayment}
  <2>1. PICK e : /\ s.status = "INVENTORY_RESERVED"
                 /\ e.payment = p
                 /\ b = <<e>>
                 /\ e.type = "PAID"
                 /\ Replay(s, b) = [s EXCEPT !.status = "PAID", !.payment = p]
    BY <1>0, <1>1, MarkPaidEffect
  <2>2. Allowed(m.order, Replay(s, b))
    BY <1>0, <2>1, StillPayable, CompletedHasPayment
       DEF s, p, OnPaymentCompleted, Allowed, OrderState, OrderStatus, Succeeded, Promising,
           Paid
  <2>3. ToSet(b) = {e}
    BY <2>1, SetOfOne
  <2>. QED
    BY <1>0, <2>1, <2>2, <2>3 DEF OrderState
<1>. QED
  BY <1>0, <1>1, CommandIsOrderStep DEF s, p, OnPaymentCompleted

LEMMA RecordPaymentFailedStep ==
  ASSUME OrdersInv, NEW m \in msgs, OnPaymentFailed(m)
  PROVE  \E n : OrderStep(m.order, n)
<1> DEFINE s == order[m.order]
           p == m.payment
<1>0. s \in OrderState /\ m.order \in Orders
  BY OrderTypes, MessageTypes
<1> HIDE DEF s, p
<1>1. ASSUME NEW b \in RecordPaymentFailed(s, p)
      PROVE  /\ Allowed(m.order, Replay(s, b))
             /\ \A e \in ToSet(b) : e.type = "CANCELLED" =>
                  /\ Replay(s, b).status = "CANCELLED"
                  /\ e.payment \in Payments \union {NoPayment}
  <2>0. FailureCounted(s, b)
    BY <1>0, <1>1, RecordPaymentFailedEffect
  <2>1. /\ s.status = "INVENTORY_RESERVED"
        /\ \/ /\ s.failures + 1 < MaxPaymentFailures
              /\ \E f : /\ b = <<f>> /\ f.type = "PAYMENT_FAILED" /\ f.n = s.failures + 1
                       /\ Replay(s, b) = [s EXCEPT !.failures = s.failures + 1]
           \/ /\ s.failures + 1 >= MaxPaymentFailures
              /\ \E f, c :
                   /\ b = <<f, c>> /\ f.type = "PAYMENT_FAILED" /\ f.n = s.failures + 1
                   /\ c.type = "CANCELLED" /\ c.payment = s.payment
                   /\ Replay(s, b) =
                        [s EXCEPT !.failures = s.failures + 1, !.status = "CANCELLED"]
    BY <2>0 DEF FailureCounted
  <2>2. s.failures < MaxPaymentFailures /\ s.failures \in Nat
    BY <1>0, <2>1, StillPayable DEF s, OrderState
  <2>3. ASSUME s.failures + 1 < MaxPaymentFailures, NEW f, b = <<f>>, f.type = "PAYMENT_FAILED",
               Replay(s, b) = [s EXCEPT !.failures = s.failures + 1]
        PROVE  /\ Allowed(m.order, Replay(s, b))
               /\ \A e \in ToSet(b) : e.type # "CANCELLED"
    <3>1. Replay(s, b) \in OrderState
      BY <1>0, <2>2, <2>3, MaxPaymentFailuresAssumption DEF OrderState
    <3>2. Allowed(m.order, Replay(s, b))
      BY <1>0, <2>1, <2>3, <3>1
         DEF s, Allowed, OrderState, OrderStatus, Succeeded, Promising, Paid
    <3>3. ToSet(b) = {f}
      BY <2>3, SetOfOne
    <3>. QED
      BY <2>3, <3>2, <3>3
  <2>4. ASSUME NEW f, NEW c, b = <<f, c>>, f.type = "PAYMENT_FAILED", c.payment = s.payment,
               Replay(s, b) = [s EXCEPT !.failures = s.failures + 1, !.status = "CANCELLED"]
        PROVE  /\ Allowed(m.order, Replay(s, b))
               /\ \A e \in ToSet(b) : e.type = "CANCELLED" =>
                    /\ Replay(s, b).status = "CANCELLED"
                    /\ e.payment \in Payments \union {NoPayment}
    <3>0. s.failures + 1 \in 0 .. MaxPaymentFailures
      BY <2>2, MaxPaymentFailuresAssumption
    <3>1. Replay(s, b) \in OrderState /\ Replay(s, b).status = "CANCELLED"
      BY <1>0, <2>4, <3>0 DEF OrderState, OrderStatus
    <3>2. Allowed(m.order, Replay(s, b))
      BY <1>0, <2>1, <3>1 DEF s, Allowed, Promising, Paid
    <3>3. ToSet(b) = {f, c}
      BY <2>4, SetOfTwo
    <3>. QED
      BY <1>0, <2>4, <3>1, <3>2, <3>3 DEF OrderState
  <2>. QED
    BY <2>1, <2>3, <2>4
<1>. QED
  BY <1>0, <1>1, CommandIsOrderStep DEF s, p, OnPaymentFailed

-----------------------------------------------------------------------------
(* Payments.                                                               *)
LEMMA PaymentCommandStep ==
  ASSUME OrdersInv, NEW y \in Payments, NEW from, "NONE" \notin from,
         NEW p \in Payment, p.status # "NONE", p.order = pay[y].order,
         NEW handled \in SUBSET msgs, NEW out, PaymentCommand(y, from, p, handled, out),
         from \intersect {"COMPLETED", "REFUNDED"} # {} => p.status = "REFUNDED",
         \A m \in out : /\ m.type \in {"PAYMENT_COMPLETED", "PAYMENT_FAILED"}
                        /\ m = PaymentMessage(m.type, y)
                        /\ m.type = "PAYMENT_COMPLETED" => p.status = "COMPLETED"
  PROVE  \E q : PaymentStep(y, q)
<1>0. /\ pay \in [Payments -> Payment]
      /\ troubles \in 0 .. MaxTroubles /\ forgone \in SUBSET Payments
      /\ pay[y].status # "NONE" => pay[y].order \in Orders
  BY DEF OrdersInv, TypeOK, PaymentsHaveOrders
<1>1. CASE /\ pay[y].status \in from
           /\ pay' = [pay EXCEPT ![y] = p]
           /\ Settle(handled, out)
           /\ UNCHANGED <<order, stockVars, forgone>>
  <2>1. msgs' \subseteq msgs \union out /\ troubles' \in 0 .. MaxTroubles
    BY <1>0, <1>1, SettleTypes
  <2>2. p.order \in Orders
    BY <1>0, <1>1
  <2>3. ASSUME NEW m \in out
        PROVE  /\ m \in Message /\ m.type \in {"PAYMENT_COMPLETED", "PAYMENT_FAILED"}
               /\ m.payment = y /\ m.order = p.order /\ m.order \in Orders
               /\ m.type = "PAYMENT_COMPLETED" => p.status = "COMPLETED"
    BY <2>2 DEF PaymentMessage, Message
  <2>4. pay[y].status \in {"COMPLETED", "REFUNDED"} => p.status = "REFUNDED"
    BY <1>1
  <2>. QED
    BY <1>0, <1>1, <2>1, <2>2, <2>3, <2>4 DEF PaymentStep, stockVars
<1>2. CASE /\ Refused(handled, pay[y].status \notin from) /\ UNCHANGED <<pay, order, stockVars>>
           /\ forgone' = forgone \union IF pay[y].status \in from THEN RefundsIn(handled) ELSE {}
  <2>1. msgs' \subseteq msgs /\ troubles' \in 0 .. MaxTroubles
    BY <1>0, <1>2, RefusedTypes
  <2>2. pay' = [pay EXCEPT ![y] = pay[y]]
    BY <1>0, <1>2
  <2>3. forgone' \in SUBSET Payments
    BY <1>0, <1>2 DEF RefundsIn, OrdersInv, MessagesTellTheTruth
  <2>4. PaymentStep(y, pay[y])
    BY <1>0, <1>2, <2>1, <2>2, <2>3 DEF PaymentStep, stockVars
  <2>. QED
    BY <2>4
<1>. QED
  BY <1>1, <1>2 DEF PaymentCommand

LEMMA PaymentSteps ==
  ASSUME OrdersInv, NEW y \in Payments,
         \/ \E o \in Orders : CreatePayment(y, o)
         \/ ProcessPayment(y) \/ CompletePayment(y) \/ FailPayment(y)
         \/ \E amount \in Refunds, handled \in SUBSET msgs : RefundPayment(y, amount, handled)
  PROVE  \E p : PaymentStep(y, p)
<1>0. \A status \in PaymentStatus : /\ Now(y, status) \in Payment
                                    /\ Now(y, status).status = status
                                    /\ Now(y, status).order = pay[y].order
  BY DEF Now, Payment, OrdersInv, TypeOK
<1>. USE DEF PaymentStatus
<1>1. ASSUME NEW o \in Orders, CreatePayment(y, o) PROVE \E p : PaymentStep(y, p)
  <2> DEFINE p == [order |-> o, status |-> "PENDING", refunded |-> "undefined"]
  <2>1. troubles \in 0 .. MaxTroubles /\ forgone \in SUBSET Payments
    BY DEF OrdersInv, TypeOK
  <2>2. PaymentStep(y, p)
    BY <1>1, <2>1 DEF CreatePayment, PaymentStep, stockVars, Payment, Refunds
  <2>. QED
    BY <2>2
<1>2. CASE ProcessPayment(y)
  <2> DEFINE from == {"PENDING"}
  <2>1. PaymentCommand(y, from, Now(y, "PROCESSING"), {}, {})
    BY <1>2 DEF ProcessPayment
  <2>2. "NONE" \notin from /\ from \intersect {"COMPLETED", "REFUNDED"} = {}
    OBVIOUS
  <2> HIDE DEF from
  <2>. QED
    BY <1>0, <2>1, <2>2, PaymentCommandStep
<1>3. CASE CompletePayment(y)
  <2> DEFINE from == {"PROCESSING"}
             out == {PaymentMessage("PAYMENT_COMPLETED", y)}
  <2>1. PaymentCommand(y, from, Now(y, "COMPLETED"), {}, out)
    BY <1>3 DEF CompletePayment
  <2>2. \A m \in out : /\ m.type = "PAYMENT_COMPLETED"
                       /\ m = PaymentMessage(m.type, y)
    BY DEF PaymentMessage
  <2>3. "NONE" \notin from /\ from \intersect {"COMPLETED", "REFUNDED"} = {}
    OBVIOUS
  <2> HIDE DEF from, out
  <2>. QED
    BY <1>0, <2>1, <2>2, <2>3, PaymentCommandStep
<1>4. CASE FailPayment(y)
  <2> DEFINE from == {"PENDING", "PROCESSING"}
             out == {PaymentMessage("PAYMENT_FAILED", y)}
  <2>1. PaymentCommand(y, from, Now(y, "FAILED"), {}, out)
    BY <1>4 DEF FailPayment
  <2>2. \A m \in out : /\ m.type = "PAYMENT_FAILED"
                       /\ m = PaymentMessage(m.type, y)
    BY DEF PaymentMessage
  <2>3. "NONE" \notin from /\ from \intersect {"COMPLETED", "REFUNDED"} = {}
    OBVIOUS
  <2> HIDE DEF from, out
  <2>. QED
    BY <1>0, <2>1, <2>2, <2>3, PaymentCommandStep
<1>5. ASSUME NEW amount \in Refunds, NEW handled \in SUBSET msgs, RefundPayment(y, amount, handled)
      PROVE  \E p : PaymentStep(y, p)
  <2> DEFINE from == {"COMPLETED"}
             q == Now(y, "REFUNDED")
             r == [q EXCEPT !.refunded = amount]
  <2>1. PaymentCommand(y, from, r, handled, {}) /\ "NONE" \notin from
    BY <1>5 DEF RefundPayment
  <2>2. q \in Payment /\ q.status = "REFUNDED" /\ q.order = pay[y].order
    BY <1>0
  <2> HIDE DEF from, q
  <2>3. r \in Payment /\ r.status = "REFUNDED" /\ r.order = pay[y].order
    BY <2>2 DEF Payment
  <2> HIDE DEF r
  <2>. QED
    BY <2>1, <2>3, PaymentCommandStep
<1>. QED
  BY <1>1, <1>2, <1>3, <1>4, <1>5

(* An unknown payment's message is dropped.                                *)
LEMMA UnknownStep ==
  ASSUME OrdersInv, NEW m \in msgs, PaymentUnknown(m)
  PROVE  OrderStep(m.order, order[m.order])
<1>1. order \in [Orders -> OrderState] /\ m.order \in Orders
  BY MessageTypes DEF OrdersInv, TypeOK
<1>2. order' = [order EXCEPT ![m.order] = order[m.order]]
  BY <1>1 DEF PaymentUnknown
<1>3. troubles' \in 0 .. MaxTroubles
  BY SpendTypes DEF PaymentUnknown, OrdersInv, TypeOK
<1>4. forgone \in SUBSET Payments
  BY DEF OrdersInv, TypeOK
<1>. QED
  BY <1>2, <1>3, <1>4 DEF PaymentUnknown, OrderStep, stockVars

-----------------------------------------------------------------------------
(* Counting pieces.                                                        *)
LEMMA PiecesCount ==
  ASSUME NEW p \in Products, NEW o \in Orders
  PROVE  /\ IsFiniteSet(Pieces(p, o))
         /\ Cardinality(Pieces(p, o)) = Quantity[o][p]
         /\ Quantity[o][p] \in Nat
<1> DEFINE n == Quantity[o][p]
<1>1. n \in Nat
  BY QuantityAssumption
<1> HIDE DEF n
<1>2. IsFiniteSet(1 .. n) /\ Cardinality(1 .. n) = n
  <2>1. Cardinality(1 .. n) = IF 1 > n THEN 0 ELSE n - 1 + 1
    BY <1>1, FS_Interval
  <2>. QED
    BY <1>1, <2>1, FS_Interval
<1>3. IsFiniteSet({o}) /\ Cardinality({o}) = 1
  BY FS_Singleton
<1>4. IsFiniteSet({o} \X (1 .. n)) /\ Cardinality({o} \X (1 .. n)) = 1 * n
  <2> DEFINE I == 1 .. n
             O == {o}
  <2>1. IsFiniteSet(I) /\ Cardinality(I) = n /\ IsFiniteSet(O) /\ Cardinality(O) = 1
    BY <1>2, <1>3
  <2> HIDE DEF I, O
  <2>2. IsFiniteSet(O \X I) /\ Cardinality(O \X I) = Cardinality(O) * Cardinality(I)
    BY <2>1, FS_Product
  <2> QED BY <2>1, <2>2 DEF I, O
<1>5. 1 * n = n
  BY <1>1
<1>6. Pieces(p, o) = {o} \X (1 .. n)
  BY DEF Pieces, n
<1>7. IsFiniteSet(Pieces(p, o)) /\ Cardinality(Pieces(p, o)) = n
  BY <1>4, <1>5, <1>6
<1>. QED
  BY <1>1, <1>7 DEF n

(* Reserving for an order without a reservation adds its pieces.           *)
LEMMA ReservingAddsUp ==
  ASSUME inv \in [Products -> Inventory], PromisesAddUp,
         NEW p \in Products, NEW o \in Orders, CanReserve(p, o), Take(p, o)
  PROVE  /\ inv' \in [Products -> Inventory] /\ PromisesAddUp'
         /\ \A q \in Products, b \in Orders :
              inv'[q].resv[b] = IF q = p /\ b = o THEN "PENDING" ELSE inv[q].resv[b]
<1> DEFINE new == [reserved |-> inv[p].reserved + Quantity[o][p],
                   resv |-> [inv[p].resv EXCEPT ![o] = "PENDING"]]
<1>0. /\ Quantity[o][p] \in Nat /\ inv[p].reserved \in Nat
      /\ inv[p].resv \in [Orders -> {"NONE", "PENDING", "RELEASED"}]
      /\ IsFiniteSet(Pieces(p, o)) /\ Cardinality(Pieces(p, o)) = Quantity[o][p]
      /\ TotalStock[p] \in Nat
  BY PiecesCount, TotalStockAssumption DEF Inventory
<1>1. inv' = [inv EXCEPT ![p] = new]
  BY DEF Take
<1>2. new \in Inventory
  BY <1>0 DEF Inventory
<1>3. \A q \in Products, b \in Orders :
        inv'[q].resv[b] = IF q = p /\ b = o THEN "PENDING" ELSE inv[q].resv[b]
  <2>1. inv'[p].resv = [inv[p].resv EXCEPT ![o] = "PENDING"]
    BY <1>1
  <2>2. \A q \in Products : q # p => inv'[q] = inv[q]
    BY <1>1
  <2>. QED
    BY <1>0, <2>1, <2>2
<1>4. ASSUME NEW q \in Products, q # p
      PROVE  Promised(q)' = Promised(q) /\ inv'[q] = inv[q]
  BY <1>1, <1>4 DEF Promised
<1>5. inv[p].resv[o] = "NONE" /\ inv[p].reserved + Quantity[o][p] <= TotalStock[p]
  BY <1>0 DEF CanReserve, Available
<1>6. Promised(p)' = Promised(p) \union Pieces(p, o)
  <2>1. {b \in Orders : inv'[p].resv[b] = "PENDING"} =
          {b \in Orders : inv[p].resv[b] = "PENDING"} \union {o}
    BY <1>3
  <2>. QED
    BY <2>1 DEF Promised, Pieces
<1>7. Promised(p) \intersect Pieces(p, o) = {}
  BY <1>5 DEF Promised, Pieces
<1>8. IsFiniteSet(Promised(p)) /\ inv[p].reserved = Cardinality(Promised(p))
  BY DEF PromisesAddUp
<1>9. IsFiniteSet(Promised(p)') /\ inv'[p].reserved = Cardinality(Promised(p)')
  <2>1. /\ IsFiniteSet(Promised(p)')
        /\ Cardinality(Promised(p)') = Cardinality(Promised(p)) + Quantity[o][p] - Cardinality({})
    BY <1>0, <1>6, <1>7, <1>8, FS_Union
  <2>2. inv'[p].reserved = inv[p].reserved + Quantity[o][p]
    BY <1>1
  <2>. QED
    BY <1>0, <1>8, <2>1, <2>2, FS_EmptySet
<1>10. inv'[p].reserved <= TotalStock[p]
  BY <1>1, <1>5
<1>11. PromisesAddUp'
  <2>. SUFFICES ASSUME NEW q \in Products
                PROVE  /\ IsFiniteSet(Promised(q)')
                       /\ inv'[q].reserved = Cardinality(Promised(q)')
                       /\ inv'[q].reserved <= TotalStock[q]
    BY DEF PromisesAddUp
  <2>1. CASE q = p
    BY <1>9, <1>10, <2>1
  <2>2. CASE q # p
    BY <1>4, <2>2 DEF PromisesAddUp
  <2>. QED
    BY <2>1, <2>2
<1>. QED
  BY <1>1, <1>2, <1>3, <1>11

(* Releasing a pending reservation takes them away.                        *)
LEMMA ReleasingAddsUp ==
  ASSUME inv \in [Products -> Inventory], PromisesAddUp,
         NEW p \in Products, NEW o \in Orders, Releasable(p, o), GiveBack(p, o)
  PROVE  /\ inv' \in [Products -> Inventory] /\ PromisesAddUp'
         /\ \A q \in Products, b \in Orders :
              inv'[q].resv[b] = IF q = p /\ b = o THEN "RELEASED" ELSE inv[q].resv[b]
<1> DEFINE new == [reserved |-> inv[p].reserved - Quantity[o][p],
                   resv |-> [inv[p].resv EXCEPT ![o] = "RELEASED"]]
<1>0. /\ Quantity[o][p] \in Nat /\ inv[p].reserved \in Nat
      /\ inv[p].resv \in [Orders -> {"NONE", "PENDING", "RELEASED"}]
      /\ IsFiniteSet(Pieces(p, o)) /\ Cardinality(Pieces(p, o)) = Quantity[o][p]
      /\ TotalStock[p] \in Nat
  BY PiecesCount, TotalStockAssumption DEF Inventory
<1>1. inv' = [inv EXCEPT ![p] = new]
  BY DEF GiveBack
<1>3. \A q \in Products, b \in Orders :
        inv'[q].resv[b] = IF q = p /\ b = o THEN "RELEASED" ELSE inv[q].resv[b]
  <2>1. inv'[p].resv = [inv[p].resv EXCEPT ![o] = "RELEASED"]
    BY <1>1
  <2>2. \A q \in Products : q # p => inv'[q] = inv[q]
    BY <1>1
  <2>. QED
    BY <1>0, <2>1, <2>2
<1>4. ASSUME NEW q \in Products, q # p
      PROVE  Promised(q)' = Promised(q) /\ inv'[q] = inv[q]
  BY <1>1, <1>4 DEF Promised
<1>5. inv[p].resv[o] = "PENDING"
  BY DEF Releasable
<1>6. Promised(p)' = Promised(p) \ Pieces(p, o)
  <2>1. {b \in Orders : inv'[p].resv[b] = "PENDING"} =
          {b \in Orders : inv[p].resv[b] = "PENDING"} \ {o}
    BY <1>3
  <2>. QED
    BY <2>1 DEF Promised, Pieces
<1>7. Promised(p) \intersect Pieces(p, o) = Pieces(p, o)
  BY <1>5 DEF Promised, Pieces
<1>8. /\ IsFiniteSet(Promised(p)) /\ inv[p].reserved = Cardinality(Promised(p))
      /\ inv[p].reserved <= TotalStock[p]
  BY DEF PromisesAddUp
<1>9. IsFiniteSet(Promised(p)') /\ inv'[p].reserved = Cardinality(Promised(p)')
  <2>1. /\ IsFiniteSet(Promised(p)')
        /\ Cardinality(Promised(p)') = Cardinality(Promised(p)) - Quantity[o][p]
    <3> DEFINE P == Promised(p)
               G == Pieces(p, o)
    <3>1. IsFiniteSet(P)
      BY <1>8
    <3> HIDE DEF P, G
    <3>2. IsFiniteSet(P \ G) /\ Cardinality(P \ G) = Cardinality(P) - Cardinality(P \intersect G)
      BY <3>1, FS_Difference
    <3>. QED
      BY <1>0, <1>6, <1>7, <3>2 DEF P, G
  <2>2. inv'[p].reserved = inv[p].reserved - Quantity[o][p]
    BY <1>1
  <2>. QED
    BY <1>8, <2>1, <2>2
<1>10. inv'[p].reserved \in Nat /\ inv'[p].reserved <= TotalStock[p]
  <2>1. inv'[p].reserved = inv[p].reserved - Quantity[o][p]
    BY <1>1
  <2>2. inv'[p].reserved \in Nat
    BY <1>9, FS_CardinalityType
  <2>. QED
    BY <1>0, <1>8, <2>1, <2>2
<1>11. new \in Inventory
  BY <1>0, <1>1, <1>10 DEF Inventory
<1>12. PromisesAddUp'
  <2>. SUFFICES ASSUME NEW q \in Products
                PROVE  /\ IsFiniteSet(Promised(q)')
                       /\ inv'[q].reserved = Cardinality(Promised(q)')
                       /\ inv'[q].reserved <= TotalStock[q]
    BY DEF PromisesAddUp
  <2>1. CASE q = p
    BY <1>9, <1>10, <2>1
  <2>2. CASE q # p
    BY <1>4, <2>2 DEF PromisesAddUp
  <2>. QED
    BY <2>1, <2>2
<1>. QED
  BY <1>1, <1>3, <1>11, <1>12

-----------------------------------------------------------------------------
(* The admin panel's steps keep the types and the count of the pieces.     *)
OnlyReleases(o) ==
  \A q \in Products, b \in Orders :
    \/ inv'[q].resv[b] = inv[q].resv[b]
    \/ b = o /\ inv'[q].resv[b] = "RELEASED" /\ inv[q].resv[b] = "PENDING"

StockStep ==
  /\ inv' \in [Products -> Inventory]
  /\ rows' \subseteq Products \X Orders /\ jobs' \subseteq Products \X Orders
  /\ run' \in [Runs -> Run \union {NoRun}]
  /\ PromisesAddUp'
  /\ \A m \in msgs' \ msgs :
       m \in Message /\ m.type \in {"STOCK_RESERVED", "STOCK_FAILED"} /\ m.order \in Orders
  /\ troubles' \in 0 .. MaxTroubles
  /\ UNCHANGED <<order, pay, forgone>>

LEMMA StockTypes ==
  ASSUME IInv
  PROVE  /\ inv \in [Products -> Inventory]
         /\ rows \subseteq Products \X Orders /\ jobs \subseteq Products \X Orders
         /\ run \in [Runs -> Run \union {NoRun}]
         /\ troubles \in 0 .. MaxTroubles
         /\ PromisesAddUp
         /\ order \in [Orders -> OrderState]
BY DEF IInv, OrdersInv, StockInv, TypeOK

LEMMA SameInvAddsUp == PromisesAddUp /\ inv' = inv => PromisesAddUp'
BY DEF PromisesAddUp, Promised

LEMMA ReleaseStep ==
  ASSUME IInv, NEW o \in Orders, ReleaseByOrder(o)
  PROVE  /\ inv' \in [Products -> Inventory] /\ PromisesAddUp'
         /\ troubles' \in 0 .. MaxTroubles
         /\ OnlyReleases(o)
<1>1. CASE UNCHANGED <<inv, troubles>> \/ (Spend("conflict") /\ UNCHANGED inv)
  BY <1>1, StockTypes, SpendTypes, SameInvAddsUp DEF OnlyReleases
<1>2. ASSUME NEW p \in Products, Releasable(p, o), UNCHANGED troubles, GiveBack(p, o)
      PROVE  /\ inv' \in [Products -> Inventory] /\ PromisesAddUp'
             /\ troubles' \in 0 .. MaxTroubles
             /\ OnlyReleases(o)
  <2>1. /\ inv' \in [Products -> Inventory] /\ PromisesAddUp'
        /\ \A q \in Products, b \in Orders :
             inv'[q].resv[b] = IF q = p /\ b = o THEN "RELEASED" ELSE inv[q].resv[b]
    BY <1>2, StockTypes, ReleasingAddsUp
  <2>2. OnlyReleases(o)
    BY <1>2, <2>1 DEF OnlyReleases, Releasable
  <2>. QED
    BY <1>2, <2>1, <2>2, StockTypes
<1>. QED
  BY <1>1, <1>2 DEF ReleaseByOrder

LEMMA StartRunStep ==
  ASSUME IInv, NEW r \in Runs, NEW m \in msgs, StartRun(r, m)
  PROVE  StockStep
<1>1. m.order \in Orders
  BY MessageTypes DEF IInv
<1>2. [order |-> m.order, left |-> Ordered(m.order), ok |-> {}, bad |-> FALSE] \in Run
  BY <1>1 DEF Run, Ordered
<1>3. troubles' \in 0 .. MaxTroubles
  BY StockTypes, SpendTypes DEF StartRun
<1>. QED
  BY <1>2, <1>3, StockTypes, SameInvAddsUp DEF StartRun, StockStep

(* The run after trying product p.                                         *)
LEMMA TriedFacts ==
  ASSUME IInv, NEW r \in Runs, run[r] # NoRun, NEW p \in run[r].left,
         NEW ok \in BOOLEAN, Tried(r, p, ok)
  PROVE  /\ run' \in [Runs -> Run \union {NoRun}]
         /\ run'[r] \in Run /\ run'[r].order = run[r].order
         /\ run'[r].left = run[r].left \ {p}
         /\ run'[r].ok = IF ok THEN run[r].ok \union {p} ELSE run[r].ok
         /\ ~run'[r].bad => ~run[r].bad /\ ok
         /\ \A s \in Runs : s # r => run'[s] = run[s]
<1> DEFINE u == [order |-> run[r].order, left |-> run[r].left \ {p},
                 ok |-> IF ok THEN run[r].ok \union {p} ELSE run[r].ok,
                 bad |-> run[r].bad \/ ~ok]
<1>1. run[r] \in Run /\ run \in [Runs -> Run \union {NoRun}]
  BY StockTypes
<1>2. run[r].bad \in BOOLEAN
  BY <1>1, Zenon DEF Run
<1>3. u \in Run
  BY <1>1, <1>2 DEF Run
<1>5. run' = [run EXCEPT ![r] = u]
  BY Zenon DEF Tried
<1>6. /\ u.order = run[r].order /\ u.left = run[r].left \ {p}
      /\ u.ok = IF ok THEN run[r].ok \union {p} ELSE run[r].ok
  OBVIOUS
<1>7. u.bad = (run[r].bad \/ ~ok)
  BY Zenon
<1>8. ~u.bad => ~run[r].bad /\ ok
  BY <1>7, Zenon
<1> HIDE DEF u
<1>9. /\ run'[r] = u /\ run' \in [Runs -> Run \union {NoRun}]
      /\ \A s \in Runs : s # r => run'[s] = run[s]
  BY <1>1, <1>3, <1>5
<1>. QED
  BY <1>3, <1>6, <1>8, <1>9

LEMMA ReserveStep ==
  ASSUME IInv, NEW r \in Runs, NEW p \in Products, Reserve(r, p)
  PROVE  StockStep
<1>1. run[r] \in Run /\ run[r].order \in Orders
  BY StockTypes DEF Reserve, Run
<1>2. inv' \in [Products -> Inventory] /\ PromisesAddUp'
  BY <1>1, StockTypes, ReservingAddsUp, SameInvAddsUp DEF Reserve
<1>3. troubles' \in 0 .. MaxTroubles
  BY StockTypes, SpendTypes DEF Reserve
<1>4. jobs' \subseteq Products \X Orders
  <2>1. jobs' = jobs \/ jobs' = jobs \union {<<p, run[r].order>>}
    BY DEF Reserve
  <2>. QED
    BY <1>1, <2>1, StockTypes
<1>5. run' \in [Runs -> Run \union {NoRun}]
  <2>1. Tried(r, p, TRUE) \/ Tried(r, p, FALSE)
    BY DEF Reserve
  <2>2. run[r] # NoRun /\ p \in run[r].left
    BY DEF Reserve
  <2>. QED
    BY <2>1, <2>2, TriedFacts
<1>. QED
  BY <1>2, <1>3, <1>4, <1>5, StockTypes DEF Reserve, StockStep

LEMMA ProjectStep ==
  ASSUME IInv, NEW p \in Products, NEW o \in Orders, Project(p, o)
  PROVE  StockStep
BY StockTypes, SameInvAddsUp DEF Project, StockStep

LEMMA CompensateStep ==
  ASSUME IInv, NEW r \in Runs, Compensate(r)
  PROVE  StockStep
<1>1. run[r] \in Run /\ run[r].order \in Orders
  BY StockTypes DEF Compensate, Run
<1>2. run' \in [Runs -> Run \union {NoRun}]
  BY <1>1, StockTypes DEF Compensate, Run
<1>. QED
  BY <1>1, <1>2, StockTypes, ReleaseStep DEF Compensate, StockStep

LEMMA FinishRunStep ==
  ASSUME IInv, NEW r \in Runs, FinishRun(r)
  PROVE  StockStep
<1>1. run[r] \in Run /\ run[r].order \in Orders
  BY StockTypes DEF FinishRun, Run
<1>2. run' \in [Runs -> Run \union {NoRun}] /\ troubles' \in 0 .. MaxTroubles
  BY StockTypes, SpendTypes DEF FinishRun
<1>3. \A m \in msgs' \ msgs :
        /\ m = About(IF AllSuccessful(r) THEN "STOCK_RESERVED" ELSE "STOCK_FAILED", run[r].order)
        /\ m \in Message /\ m.type \in {"STOCK_RESERVED", "STOCK_FAILED"} /\ m.order \in Orders
  BY <1>1 DEF FinishRun, About, Message
<1>. QED
  BY <1>2, <1>3, StockTypes, SameInvAddsUp DEF FinishRun, StockStep

LEMMA HandleOrderCancelledStep ==
  ASSUME IInv, NEW m \in msgs, HandleOrderCancelled(m)
  PROVE  StockStep
<1>1. m.order \in Orders
  BY MessageTypes DEF IInv
<1>. QED
  BY <1>1, StockTypes, ReleaseStep DEF HandleOrderCancelled, StockStep

LEMMA CrashStep ==
  ASSUME IInv, Crash
  PROVE  StockStep
<1>1. troubles' \in 0 .. MaxTroubles
  BY StockTypes, SpendTypes DEF Crash
<1>. QED
  BY <1>1, StockTypes, SameInvAddsUp DEF Crash, StockStep

-----------------------------------------------------------------------------
(* Every step keeps the invariant.                                         *)
LEMMA OrderStepFacts ==
  ASSUME IInv, NEW o \in Orders, NEW n, OrderStep(o, n)
  PROVE  /\ \A b \in Orders : order[b].status = "CANCELLED" => order'[b] = order[b]
         /\ \A b \in Orders : order'[b] = order[b] \/ (b = o /\ order'[b] = n /\ Allowed(o, n))
         /\ \A m \in msgs' : m \in msgs \/ (OrderMessage(m, o, n) /\ order'[o] = n)
         /\ order' \in [Orders -> OrderState]
         /\ UNCHANGED <<pay, inv, rows, jobs, run>>
<1>1. order' = [order EXCEPT ![o] = n] /\ order \in [Orders -> OrderState]
  BY StockTypes DEF OrderStep
<1>2. order'[o] = n /\ \A b \in Orders : b # o => order'[b] = order[b]
  BY <1>1
<1>3. CASE n = order[o] /\ msgs' \subseteq msgs
  <2>1. order' = order
    BY <1>1, <1>3
  <2>. QED
    BY <1>1, <1>3, <2>1 DEF OrderStep
<1>4. CASE Allowed(o, n) /\ \A m \in msgs' \ msgs : OrderMessage(m, o, n)
  <2>1. n \in OrderState /\ order[o].status # "CANCELLED"
    BY <1>4 DEF Allowed
  <2>. QED
    BY <1>1, <1>2, <1>4, <2>1 DEF OrderStep
<1>. QED
  BY <1>3, <1>4 DEF OrderStep

LEMMA OrderStepInv ==
  ASSUME IInv, NEW o \in Orders, NEW n, OrderStep(o, n)
  PROVE  IInv'
<1>0. /\ \A b \in Orders : order[b].status = "CANCELLED" => order'[b] = order[b]
      /\ \A b \in Orders : order'[b] = order[b] \/ (b = o /\ order'[b] = n /\ Allowed(o, n))
      /\ \A m \in msgs' : m \in msgs \/ (OrderMessage(m, o, n) /\ order'[o] = n)
      /\ order' \in [Orders -> OrderState]
      /\ UNCHANGED <<pay, inv, rows, jobs, run>>
  BY OrderStepFacts
<1>1. TypeOK'
  <2>1. msgs' \subseteq Message
    BY <1>0 DEF OrderMessage, IInv, OrdersInv, TypeOK
  <2>2. troubles' \in 0 .. MaxTroubles
    BY DEF OrderStep
  <2>3. forgone' \in SUBSET Payments
    BY DEF OrderStep
  <2>. QED
    BY <1>0, <2>1, <2>2, <2>3 DEF IInv, OrdersInv, TypeOK
<1>2. FailuresCancel'
  BY <1>0 DEF Allowed, IInv, OrdersInv, FailuresCancel
<1>3. PaymentsHaveOrders'
  BY <1>0 DEF IInv, OrdersInv, PaymentsHaveOrders
<1>4. MessagesTellTheTruth'
  <2>. SUFFICES ASSUME NEW m \in msgs'
                PROVE  /\ m.order \in Orders
                       /\ m.type = "ORDER_CANCELLED" => order'[m.order].status = "CANCELLED"
                       /\ m.type \in {"REFUND", "PAYMENT_COMPLETED", "PAYMENT_FAILED"} =>
                            m.payment \in Payments
                       /\ m.type = "PAYMENT_COMPLETED" =>
                            /\ pay'[m.payment].order = m.order
                            /\ pay'[m.payment].status \in {"COMPLETED", "REFUNDED"}
    BY DEF MessagesTellTheTruth
  <2>1. CASE m \in msgs
    BY <1>0, <2>1 DEF IInv, OrdersInv, MessagesTellTheTruth
  <2>2. CASE OrderMessage(m, o, n) /\ order'[o] = n
    BY <2>2 DEF OrderMessage
  <2>. QED
    BY <1>0, <2>1, <2>2
<1>5. PaidOrderHasCompletedPayment'
  <2>. SUFFICES ASSUME NEW b \in Orders, order'[b].status \in Paid
                PROVE  /\ order'[b].payment \in Payments
                       /\ pay[order'[b].payment].order = b
                       /\ pay[order'[b].payment].status \in {"COMPLETED", "REFUNDED"}
    BY <1>0 DEF PaidOrderHasCompletedPayment, Paid
  <2>1. \/ order[b].status \in Paid /\ order'[b].payment = order[b].payment
        \/ \E m \in msgs : /\ m.type = "PAYMENT_COMPLETED" /\ m.order = b
                           /\ m.payment = order'[b].payment
    BY <1>0 DEF Allowed
  <2>2. CASE order[b].status \in Paid /\ order'[b].payment = order[b].payment
    BY <2>2 DEF IInv, PaidOrderHasCompletedPayment, Paid
  <2>3. ASSUME NEW m \in msgs, m.type = "PAYMENT_COMPLETED", m.order = b,
               m.payment = order'[b].payment
        PROVE  /\ order'[b].payment \in Payments
               /\ pay[order'[b].payment].order = b
               /\ pay[order'[b].payment].status \in {"COMPLETED", "REFUNDED"}
    BY <2>3 DEF IInv, OrdersInv, MessagesTellTheTruth
  <2>. QED
    BY <2>1, <2>2, <2>3
<1>6. RunsKeepCount'
  BY <1>0 DEF IInv, StockInv, RunsKeepCount
<1>7. HopefulRunsHold'
  BY <1>0, StockTypes DEF IInv, StockInv, HopefulRunsHold, MaySucceed, Run
<1>8. SuccessIsKept'
  <2>1. ASSUME NEW b \in Orders, Succeeded(b)', order'[b].status # "CANCELLED"
        PROVE  Succeeded(b)
    <3>1. CASE \E m \in msgs' : m.type = "STOCK_RESERVED" /\ m.order = b
      BY <1>0, <3>1 DEF OrderMessage, Succeeded
    <3>2. CASE order'[b].status \in Promising
      BY <1>0, <3>2 DEF Allowed, Succeeded
    <3>. QED
      BY <2>1, <3>1, <3>2 DEF Succeeded
  <2>2. \A b \in Orders : order'[b].status # "CANCELLED" => order[b].status # "CANCELLED"
    BY <1>0
  <2>. QED
    BY <1>0, <2>1, <2>2 DEF IInv, StockInv, SuccessIsKept
<1>9. PromisesAddUp'
  BY <1>0, StockTypes, SameInvAddsUp
<1>. QED
  BY <1>1, <1>2, <1>3, <1>4, <1>5, <1>6, <1>7, <1>8, <1>9 DEF IInv, OrdersInv, StockInv

LEMMA PaymentStepInv ==
  ASSUME IInv, NEW y \in Payments, NEW p, PaymentStep(y, p)
  PROVE  IInv'
<1>0. /\ pay \in [Payments -> Payment]
      /\ UNCHANGED <<order, inv, rows, jobs, run>>
      /\ pay' = [pay EXCEPT ![y] = p]
  BY DEF PaymentStep, IInv, OrdersInv, TypeOK
<1>1. TypeOK'
  <2>1. msgs' \subseteq Message
    BY DEF PaymentStep, IInv, OrdersInv, TypeOK
  <2>. QED
    BY <1>0, <2>1 DEF PaymentStep, IInv, OrdersInv, TypeOK
<1>2. FailuresCancel'
  BY <1>0 DEF IInv, OrdersInv, FailuresCancel
<1>3. PaymentsHaveOrders'
  BY <1>0 DEF PaymentStep, IInv, OrdersInv, PaymentsHaveOrders
<1>4. \A x \in Payments : pay[x].status \in {"COMPLETED", "REFUNDED"} =>
        pay'[x].order = pay[x].order /\ pay'[x].status \in {"COMPLETED", "REFUNDED"}
  BY <1>0 DEF PaymentStep
<1>5. MessagesTellTheTruth'
  <2>. SUFFICES ASSUME NEW m \in msgs'
                PROVE  /\ m.order \in Orders
                       /\ m.type = "ORDER_CANCELLED" => order'[m.order].status = "CANCELLED"
                       /\ m.type \in {"REFUND", "PAYMENT_COMPLETED", "PAYMENT_FAILED"} =>
                            m.payment \in Payments
                       /\ m.type = "PAYMENT_COMPLETED" =>
                            /\ pay'[m.payment].order = m.order
                            /\ pay'[m.payment].status \in {"COMPLETED", "REFUNDED"}
    BY DEF MessagesTellTheTruth
  <2>1. CASE m \in msgs
    BY <1>0, <1>4, <2>1 DEF IInv, OrdersInv, MessagesTellTheTruth
  <2>2. CASE m \notin msgs
    BY <1>0, <2>2 DEF PaymentStep
  <2>. QED
    BY <2>1, <2>2
<1>6. PaidOrderHasCompletedPayment'
  BY <1>0, <1>4 DEF IInv, PaidOrderHasCompletedPayment
<1>7. RunsKeepCount'
  BY <1>0 DEF IInv, StockInv, RunsKeepCount
<1>8. HopefulRunsHold'
  BY <1>0 DEF IInv, StockInv, HopefulRunsHold, MaySucceed
<1>9. SuccessIsKept'
  <2>1. \A m \in msgs' : m.type = "STOCK_RESERVED" => m \in msgs
    BY DEF PaymentStep
  <2>. QED
    BY <1>0, <2>1 DEF IInv, StockInv, SuccessIsKept, Succeeded
<1>10. PromisesAddUp'
  BY <1>0, StockTypes, SameInvAddsUp
<1>. QED
  BY <1>1, <1>2, <1>3, <1>5, <1>6, <1>7, <1>8, <1>9, <1>10 DEF IInv, OrdersInv, StockInv

(* A step of the admin panel leaves what is said of orders and payments.   *)
LEMMA StockStepInv ==
  ASSUME IInv, StockStep
  PROVE  OrdersInv' /\ PaidOrderHasCompletedPayment' /\ PromisesAddUp'
<1>1. TypeOK'
  BY DEF StockStep, IInv, OrdersInv, TypeOK
<1>2. FailuresCancel' /\ PaymentsHaveOrders' /\ PaidOrderHasCompletedPayment'
  BY DEF StockStep, IInv, OrdersInv, FailuresCancel, PaymentsHaveOrders,
         PaidOrderHasCompletedPayment
<1>3. MessagesTellTheTruth'
  BY DEF StockStep, IInv, OrdersInv, MessagesTellTheTruth
<1>. QED
  BY <1>1, <1>2, <1>3 DEF OrdersInv, StockStep

(* What the invariant says of a run.                                       *)
LEMMA RunFacts ==
  ASSUME IInv, NEW r \in Runs, run[r] # NoRun
  PROVE  /\ run[r] \in Run /\ run[r].order \in Orders
         /\ run[r].left \subseteq Ordered(run[r].order)
         /\ run[r].ok \subseteq Ordered(run[r].order)
         /\ run[r].ok \intersect run[r].left = {}
         /\ ~run[r].bad => run[r].ok = Ordered(run[r].order) \ run[r].left
         /\ \A p \in run[r].ok : inv[p].resv[run[r].order] # "NONE"
         /\ \A s \in Runs : s # r /\ run[s] # NoRun /\ run[s].order = run[r].order =>
              run[s].ok \intersect run[r].ok = {}
         /\ MaySucceed(r) /\ order[run[r].order].status # "CANCELLED" =>
              \A p \in run[r].ok : inv[p].resv[run[r].order] = "PENDING"
<1>1. run[r] \in Run /\ run[r].order \in Orders
  BY StockTypes DEF Run
<1>2. RunsKeepCount /\ HopefulRunsHold
  BY DEF IInv, StockInv
<1>. QED
  BY <1>1, <1>2 DEF RunsKeepCount, HopefulRunsHold

LEMMA SuccessFacts ==
  ASSUME IInv, NEW o \in Orders, Succeeded(o), order[o].status # "CANCELLED"
  PROVE  /\ \A p \in Ordered(o) : inv[p].resv[o] = "PENDING"
         /\ \A r \in Runs : run[r] # NoRun /\ run[r].order = o => run[r].ok = {}
BY DEF IInv, StockInv, SuccessIsKept

(* Runs and reservations after a step.                                     *)
RunsInv == RunsKeepCount /\ HopefulRunsHold /\ SuccessIsKept

LEMMA StartRunInv ==
  ASSUME IInv, NEW r \in Runs, NEW m \in msgs, StartRun(r, m)
  PROVE  RunsInv'
<1> DEFINE u == [order |-> m.order, left |-> Ordered(m.order), ok |-> {}, bad |-> FALSE]
<1>1. /\ run' = [run EXCEPT ![r] = u] /\ run \in [Runs -> Run \union {NoRun}]
      /\ UNCHANGED <<order, pay, inv, rows, jobs, msgs>>
  BY StockTypes DEF StartRun
<1>2. /\ u.order = m.order /\ u.left = Ordered(m.order) /\ u.ok = {} /\ ~u.bad
      /\ u \in Run
  BY MessageTypes DEF IInv, Run, Ordered
<1> HIDE DEF u
<1>3. run'[r] = u /\ \A s \in Runs : s # r => run'[s] = run[s]
  BY <1>1
<1>4. RunsKeepCount'
  BY <1>1, <1>2, <1>3 DEF IInv, StockInv, RunsKeepCount
<1>5. HopefulRunsHold'
  BY <1>1, <1>2, <1>3 DEF IInv, StockInv, HopefulRunsHold, MaySucceed
<1>6. SuccessIsKept'
  BY <1>1, <1>2, <1>3 DEF IInv, StockInv, SuccessIsKept, Succeeded
<1>. QED
  BY <1>4, <1>5, <1>6 DEF RunsInv

LEMMA TakeFacts ==
  ASSUME IInv, NEW p \in Products, NEW o \in Orders, CanReserve(p, o), Take(p, o)
  PROVE  /\ inv[p].resv[o] = "NONE"
         /\ \A q \in Products, b \in Orders :
              inv'[q].resv[b] = IF q = p /\ b = o THEN "PENDING" ELSE inv[q].resv[b]
BY StockTypes, ReservingAddsUp DEF CanReserve

LEMMA ReserveSuccessInv ==
  ASSUME IInv, NEW r \in Runs, run[r] # NoRun, NEW p \in run[r].left,
         CanReserve(p, run[r].order), Take(p, run[r].order), Tried(r, p, TRUE),
         UNCHANGED <<order, msgs>>
  PROVE  RunsInv'
<1> DEFINE o == run[r].order
<1>0. o \in Orders /\ p \in Products /\ p \in Ordered(o)
  BY RunFacts DEF Ordered
<1>1. /\ inv[p].resv[o] = "NONE"
      /\ \A q \in Products, b \in Orders :
           inv'[q].resv[b] = IF q = p /\ b = o THEN "PENDING" ELSE inv[q].resv[b]
  BY <1>0, TakeFacts
<1>2. /\ run'[r] \in Run
      /\ run'[r].order = o /\ run'[r].left = run[r].left \ {p}
      /\ run'[r].ok = run[r].ok \union {p}
      /\ ~run'[r].bad => ~run[r].bad
      /\ \A s \in Runs : s # r => run'[s] = run[s]
  BY TriedFacts
<1>3. \A b \in Orders : Ordered(b) \subseteq Products
  BY DEF Ordered
<1> HIDE DEF o
<1>4. RunsKeepCount'
  <2>. SUFFICES ASSUME NEW t \in Runs, run'[t] # NoRun
                PROVE  /\ run'[t].left \subseteq Ordered(run'[t].order)
                       /\ run'[t].ok \subseteq Ordered(run'[t].order)
                       /\ run'[t].ok \intersect run'[t].left = {}
                       /\ ~run'[t].bad =>
                            run'[t].ok = Ordered(run'[t].order) \ run'[t].left
                       /\ \A q \in run'[t].ok : inv'[q].resv[run'[t].order] # "NONE"
                       /\ \A s \in Runs :
                            s # t /\ run'[s] # NoRun /\ run'[s].order = run'[t].order =>
                              run'[s].ok \intersect run'[t].ok = {}
    BY DEF RunsKeepCount
  <2>1. run[t] # NoRun /\ run'[t].order = run[t].order /\ run[t].order \in Orders
    BY <1>2, RunFacts DEF o
  <2>2. /\ run'[t].left \subseteq Ordered(run'[t].order)
        /\ run'[t].ok \subseteq Ordered(run'[t].order)
        /\ run'[t].ok \intersect run'[t].left = {}
    BY <1>0, <1>2, <2>1, RunFacts DEF o
  <2>3. ~run'[t].bad => run'[t].ok = Ordered(run'[t].order) \ run'[t].left
    BY <1>0, <1>2, <2>1, RunFacts DEF o
  <2>4. \A q \in run'[t].ok : inv'[q].resv[run'[t].order] # "NONE"
    <3>1. \A q \in run[t].ok : q \in Products /\ inv[q].resv[run[t].order] # "NONE"
      BY <1>3, <2>1, RunFacts
    <3>. QED
      BY <1>0, <1>1, <1>2, <2>1, <3>1 DEF o
  <2>5. \A s \in Runs : s # r /\ run[s] # NoRun /\ run[s].order = o =>
          p \notin run[s].ok /\ run[s].ok \intersect run[r].ok = {}
    BY <1>1, RunFacts DEF o
  <2>6. \A s \in Runs : s # t /\ run'[s] # NoRun /\ run'[s].order = run'[t].order =>
          run'[s].ok \intersect run'[t].ok = {}
    <3>1. \A s \in Runs : s # t /\ run[s] # NoRun /\ run[s].order = run[t].order =>
            run[s].ok \intersect run[t].ok = {}
      BY <2>1, RunFacts
    <3>. QED
      BY <1>2, <2>1, <2>5, <3>1 DEF o
  <2>. QED
    BY <2>2, <2>3, <2>4, <2>6
<1>5. HopefulRunsHold'
  <2>. SUFFICES ASSUME NEW t \in Runs, MaySucceed(t)',
                       order[run'[t].order].status # "CANCELLED", NEW q \in run'[t].ok
                PROVE  inv'[q].resv[run'[t].order] = "PENDING"
    BY DEF HopefulRunsHold
  <2>1. run[t] # NoRun /\ run'[t].order = run[t].order /\ run[t].order \in Orders
    BY <1>2, RunFacts DEF MaySucceed, o
  <2>2. run[t].left \subseteq Products /\ run[t].ok \subseteq Products
    BY <1>3, <2>1, RunFacts
  <2>3. \A x \in run[t].left : inv[x].resv[run[t].order] = "NONE"
    BY <1>1, <1>2, <2>1, <2>2 DEF MaySucceed, o
  <2>4. MaySucceed(t)
    BY <1>2, <2>1, <2>3 DEF MaySucceed
  <2>5. \A x \in run[t].ok : inv[x].resv[run[t].order] = "PENDING"
    BY <2>1, <2>4, RunFacts
  <2>. QED
    BY <1>0, <1>1, <1>2, <2>1, <2>2, <2>5 DEF o
<1>6. SuccessIsKept'
  <2>. SUFFICES ASSUME NEW b \in Orders, Succeeded(b)', order[b].status # "CANCELLED"
                PROVE  /\ \A q \in Ordered(b) : inv'[q].resv[b] = "PENDING"
                       /\ \A t \in Runs : run'[t] # NoRun /\ run'[t].order = b =>
                            run'[t].ok = {}
    BY DEF SuccessIsKept
  <2>1. Succeeded(b)
    BY DEF Succeeded
  <2>2. b # o
    BY <1>0, <1>1, <2>1, SuccessFacts
  <2>. QED
    BY <1>1, <1>2, <1>3, <2>1, <2>2, SuccessFacts
<1>. QED
  BY <1>4, <1>5, <1>6 DEF RunsInv

LEMMA ReserveFailureInv ==
  ASSUME IInv, NEW r \in Runs, run[r] # NoRun, NEW p \in run[r].left, Tried(r, p, FALSE),
         UNCHANGED inv \/ (CanReserve(p, run[r].order) /\ Take(p, run[r].order)),
         UNCHANGED <<order, msgs>>
  PROVE  RunsInv'
<1> DEFINE o == run[r].order
<1>0. o \in Orders /\ p \in Products
  BY RunFacts DEF Ordered
<1>1. \A q \in Products, b \in Orders :
        \/ inv'[q].resv[b] = inv[q].resv[b]
        \/ inv[q].resv[b] = "NONE" /\ inv'[q].resv[b] = "PENDING"
  <2>1. CASE UNCHANGED inv
    BY <2>1
  <2>2. CASE CanReserve(p, o) /\ Take(p, o)
    BY <1>0, <2>2, TakeFacts
  <2>. QED
    BY <2>1, <2>2
<1>2. /\ run'[r] \in Run
      /\ run'[r].order = o /\ run'[r].left = run[r].left \ {p}
      /\ run'[r].ok = run[r].ok
      /\ run'[r].bad
      /\ \A s \in Runs : s # r => run'[s] = run[s]
  BY TriedFacts
<1>3. \A b \in Orders : Ordered(b) \subseteq Products
  BY DEF Ordered
<1> HIDE DEF o
<1>4. \A t \in Runs : run'[t] # NoRun =>
        /\ run[t] # NoRun /\ run'[t].order = run[t].order /\ run[t].order \in Orders
        /\ run'[t].ok = run[t].ok /\ run'[t].left \subseteq run[t].left
        /\ ~run'[t].bad => run'[t] = run[t]
  BY <1>2, RunFacts DEF o
<1>5. \A t \in Runs : run[t] # NoRun =>
        \A q \in run[t].ok : q \in Products /\ inv[q].resv[run[t].order] # "NONE"
  BY <1>3, RunFacts
<1>6. RunsKeepCount'
  <2>. SUFFICES ASSUME NEW t \in Runs, run'[t] # NoRun
                PROVE  /\ run'[t].left \subseteq Ordered(run'[t].order)
                       /\ run'[t].ok \subseteq Ordered(run'[t].order)
                       /\ run'[t].ok \intersect run'[t].left = {}
                       /\ ~run'[t].bad =>
                            run'[t].ok = Ordered(run'[t].order) \ run'[t].left
                       /\ \A q \in run'[t].ok : inv'[q].resv[run'[t].order] # "NONE"
                       /\ \A s \in Runs :
                            s # t /\ run'[s] # NoRun /\ run'[s].order = run'[t].order =>
                              run'[s].ok \intersect run'[t].ok = {}
    BY DEF RunsKeepCount
  <2>1. \A q \in run'[t].ok : inv'[q].resv[run'[t].order] # "NONE"
    BY <1>1, <1>4, <1>5
  <2>2. /\ run'[t].left \subseteq Ordered(run'[t].order)
        /\ run'[t].ok \subseteq Ordered(run'[t].order)
        /\ run'[t].ok \intersect run'[t].left = {}
        /\ ~run'[t].bad => run'[t].ok = Ordered(run'[t].order) \ run'[t].left
    BY <1>4, RunFacts
  <2>3. \A s \in Runs : s # t /\ run'[s] # NoRun /\ run'[s].order = run'[t].order =>
          run'[s].ok \intersect run'[t].ok = {}
    BY <1>4, RunFacts
  <2>. QED
    BY <2>1, <2>2, <2>3
<1>7. HopefulRunsHold'
  <2>. SUFFICES ASSUME NEW t \in Runs, MaySucceed(t)',
                       order[run'[t].order].status # "CANCELLED", NEW q \in run'[t].ok
                PROVE  inv'[q].resv[run'[t].order] = "PENDING"
    BY DEF HopefulRunsHold
  <2>1. run[t] # NoRun /\ run'[t] = run[t] /\ run[t].order \in Orders
    BY <1>4 DEF MaySucceed
  <2>2. run[t].left \subseteq Products /\ run[t].ok \subseteq Products
    BY <1>3, <2>1, RunFacts
  <2>3. \A x \in run[t].left : inv[x].resv[run[t].order] = "NONE"
    BY <1>1, <2>1, <2>2 DEF MaySucceed
  <2>4. MaySucceed(t)
    BY <2>1, <2>3 DEF MaySucceed
  <2>5. inv[q].resv[run[t].order] = "PENDING"
    BY <2>1, <2>4, RunFacts
  <2>. QED
    BY <1>1, <2>1, <2>2, <2>5
<1>8. SuccessIsKept'
  BY <1>1, <1>3, <1>4, SuccessFacts DEF SuccessIsKept, Succeeded
<1>. QED
  BY <1>6, <1>7, <1>8 DEF RunsInv

LEMMA ReserveInv ==
  ASSUME IInv, NEW r \in Runs, NEW p \in Products, Reserve(r, p)
  PROVE  RunsInv'
<1>1. run[r] # NoRun /\ p \in run[r].left /\ UNCHANGED <<order, msgs>>
  BY DEF Reserve
<1>2. CASE CanReserve(p, run[r].order) /\ Take(p, run[r].order) /\ Tried(r, p, TRUE)
  BY <1>1, <1>2, ReserveSuccessInv
<1>3. CASE /\ UNCHANGED inv \/ (CanReserve(p, run[r].order) /\ Take(p, run[r].order))
           /\ Tried(r, p, FALSE)
  BY <1>1, <1>3, ReserveFailureInv
<1>. QED
  BY <1>2, <1>3 DEF Reserve

LEMMA ProjectInv ==
  ASSUME IInv, NEW p \in Products, NEW o \in Orders, Project(p, o)
  PROVE  RunsInv'
<1>1. UNCHANGED <<order, inv, run, msgs>>
  BY DEF Project
<1>2. RunsKeepCount'
  BY <1>1 DEF IInv, StockInv, RunsKeepCount
<1>3. HopefulRunsHold'
  BY <1>1 DEF IInv, StockInv, HopefulRunsHold, MaySucceed
<1>4. SuccessIsKept'
  BY <1>1 DEF IInv, StockInv, SuccessIsKept, Succeeded
<1>. QED
  BY <1>2, <1>3, <1>4 DEF RunsInv

(* A run that compensates has reserved something no hopeful run has.       *)
LEMMA CompensateInv ==
  ASSUME IInv, NEW r \in Runs, Compensate(r)
  PROVE  RunsInv'
<1> DEFINE o == run[r].order
<1>0. /\ run[r] # NoRun /\ run[r].bad /\ o \in Orders /\ run[r] \in Run
      /\ UNCHANGED <<order, msgs>>
  BY RunFacts DEF Compensate, AllSuccessful
<1>1. PICK p \in run[r].ok : run' = [run EXCEPT ![r].ok = @ \ {p}]
  BY DEF Compensate
<1>2. /\ run'[r] # NoRun => run'[r].order = o /\ run'[r].left = run[r].left
      /\ run'[r] # NoRun => run'[r].ok = run[r].ok \ {p}
      /\ run'[r].bad
      /\ \A s \in Runs : s # r => run'[s] = run[s]
  BY <1>0, <1>1, StockTypes DEF Run
<1>3. OnlyReleases(o)
  BY <1>0, ReleaseStep DEF Compensate
<1>4. \A b \in Orders : Ordered(b) \subseteq Products
  BY DEF Ordered
<1> HIDE DEF o
<1>5. \A t \in Runs : run'[t] # NoRun =>
        /\ run[t] # NoRun /\ run'[t].order = run[t].order /\ run[t].order \in Orders
        /\ run'[t].ok \subseteq run[t].ok /\ run'[t].left = run[t].left
        /\ ~run'[t].bad => t # r /\ run'[t] = run[t]
  BY <1>0, <1>2, RunFacts DEF o
<1>6. \A t \in Runs : run[t] # NoRun =>
        \A q \in run[t].ok : q \in Products /\ inv[q].resv[run[t].order] # "NONE"
  BY <1>4, RunFacts
<1>7. RunsKeepCount'
  <2>. SUFFICES ASSUME NEW t \in Runs, run'[t] # NoRun
                PROVE  /\ run'[t].left \subseteq Ordered(run'[t].order)
                       /\ run'[t].ok \subseteq Ordered(run'[t].order)
                       /\ run'[t].ok \intersect run'[t].left = {}
                       /\ ~run'[t].bad =>
                            run'[t].ok = Ordered(run'[t].order) \ run'[t].left
                       /\ \A q \in run'[t].ok : inv'[q].resv[run'[t].order] # "NONE"
                       /\ \A s \in Runs :
                            s # t /\ run'[s] # NoRun /\ run'[s].order = run'[t].order =>
                              run'[s].ok \intersect run'[t].ok = {}
    BY DEF RunsKeepCount
  <2>1. \A q \in run'[t].ok : inv'[q].resv[run'[t].order] # "NONE"
    BY <1>3, <1>5, <1>6 DEF OnlyReleases
  <2>2. /\ run'[t].left \subseteq Ordered(run'[t].order)
        /\ run'[t].ok \subseteq Ordered(run'[t].order)
        /\ run'[t].ok \intersect run'[t].left = {}
        /\ ~run'[t].bad => run'[t].ok = Ordered(run'[t].order) \ run'[t].left
    BY <1>5, RunFacts
  <2>3. \A s \in Runs : s # t /\ run'[s] # NoRun /\ run'[s].order = run'[t].order =>
          run'[s].ok \intersect run'[t].ok = {}
    BY <1>5, RunFacts
  <2>. QED
    BY <2>1, <2>2, <2>3
<1>8. HopefulRunsHold'
  <2>. SUFFICES ASSUME NEW t \in Runs, MaySucceed(t)',
                       order[run'[t].order].status # "CANCELLED", NEW q \in run'[t].ok
                PROVE  inv'[q].resv[run'[t].order] = "PENDING"
    BY <1>0 DEF HopefulRunsHold
  <2>1. /\ run[t] # NoRun /\ run'[t] = run[t] /\ run[t].order \in Orders
        /\ t # r /\ ~run[t].bad
    BY <1>5 DEF MaySucceed
  <2>2. run[t].left \subseteq Products /\ run[t].ok \subseteq Products
    BY <1>4, <2>1, RunFacts
  <2>3. \A x \in run[t].left : inv[x].resv[run[t].order] = "NONE"
    BY <1>3, <2>1, <2>2 DEF MaySucceed, OnlyReleases
  <2>4. inv[q].resv[run[t].order] = "PENDING"
    BY <2>1, <2>3, RunFacts DEF MaySucceed
  <2>5. run[t].order # o
    <3>. SUFFICES ASSUME run[t].order = o PROVE FALSE
      OBVIOUS
    <3>1. p \in Ordered(o) /\ inv[p].resv[o] # "NONE"
      BY <1>0, RunFacts DEF o
    <3>2. p \in run[t].ok
      BY <2>1, <2>3, <3>1, RunFacts
    <3>. QED
      BY <1>0, <2>1, <3>2, RunFacts DEF o
  <2>. QED
    BY <1>3, <2>1, <2>2, <2>4, <2>5 DEF OnlyReleases
<1>9. SuccessIsKept'
  <2>. SUFFICES ASSUME NEW b \in Orders, Succeeded(b)', order[b].status # "CANCELLED"
                PROVE  /\ \A q \in Ordered(b) : inv'[q].resv[b] = "PENDING"
                       /\ \A t \in Runs : run'[t] # NoRun /\ run'[t].order = b =>
                            run'[t].ok = {}
    BY <1>0 DEF SuccessIsKept
  <2>1. Succeeded(b)
    BY <1>0 DEF Succeeded
  <2>2. b # o
    BY <1>0, <2>1, SuccessFacts DEF o
  <2>3. /\ \A q \in Ordered(b) : inv[q].resv[b] = "PENDING"
        /\ \A t \in Runs : run[t] # NoRun /\ run[t].order = b => run[t].ok = {}
    BY <2>1, SuccessFacts
  <2>. QED
    BY <1>3, <1>4, <1>5, <2>2, <2>3 DEF OnlyReleases
<1>. QED
  BY <1>7, <1>8, <1>9 DEF RunsInv

LEMMA FinishRunInv ==
  ASSUME IInv, NEW r \in Runs, FinishRun(r)
  PROVE  RunsInv'
<1> DEFINE o == run[r].order
<1>0. /\ run[r] # NoRun /\ run[r].left = {} /\ o \in Orders
      /\ run \in [Runs -> Run \union {NoRun}]
      /\ UNCHANGED <<order, inv>>
  BY RunFacts, StockTypes DEF FinishRun
<1>1. run'[r] = NoRun /\ \A s \in Runs : s # r => run'[s] = run[s]
  BY <1>0 DEF FinishRun
<1>2. \A m \in msgs' \ msgs : m.type = "STOCK_RESERVED" => ~run[r].bad /\ m.order = o
  BY DEF FinishRun, About, AllSuccessful
<1>3. RunsKeepCount'
  BY <1>0, <1>1 DEF IInv, StockInv, RunsKeepCount
<1>4. HopefulRunsHold'
  BY <1>0, <1>1 DEF IInv, StockInv, HopefulRunsHold, MaySucceed
<1>5. SuccessIsKept'
  <2>. SUFFICES ASSUME NEW b \in Orders, Succeeded(b)', order[b].status # "CANCELLED"
                PROVE  /\ \A q \in Ordered(b) : inv[q].resv[b] = "PENDING"
                       /\ \A t \in Runs : run'[t] # NoRun /\ run'[t].order = b =>
                            run'[t].ok = {}
    BY <1>0 DEF SuccessIsKept
  <2>1. CASE Succeeded(b)
    BY <1>1, <2>1, SuccessFacts
  <2>2. CASE ~Succeeded(b)
    <3>1. b = o /\ ~run[r].bad
      BY <1>0, <1>2, <2>2 DEF Succeeded
    <3>2. run[r].ok = Ordered(b) /\ MaySucceed(r)
      <4>1. run[r].ok = Ordered(run[r].order) \ run[r].left
        BY <1>0, <3>1, RunFacts
      <4>2. run[r].ok = Ordered(b)
        BY <1>0, <3>1, <4>1
      <4>3. MaySucceed(r)
        BY <1>0, <3>1 DEF MaySucceed
      <4>. QED
        BY <4>2, <4>3
    <3>3. \A q \in Ordered(b) : inv[q].resv[b] = "PENDING"
      BY <1>0, <3>1, <3>2, RunFacts
    <3>4. ASSUME NEW t \in Runs, run'[t] # NoRun, run'[t].order = b PROVE run'[t].ok = {}
      <4>1. t # r /\ run'[t] = run[t] /\ run[t] # NoRun
        BY <1>1, <3>4
      <4>2. run[t].ok \subseteq Ordered(b) /\ run[t].ok \intersect run[r].ok = {}
        BY <1>0, <3>1, <3>4, <4>1, RunFacts
      <4>. QED
        BY <3>2, <4>1, <4>2
    <3>. QED
      BY <3>3, <3>4
  <2>. QED
    BY <2>1, <2>2
<1>. QED
  BY <1>3, <1>4, <1>5 DEF RunsInv

LEMMA HandleOrderCancelledInv ==
  ASSUME IInv, NEW m \in msgs, HandleOrderCancelled(m)
  PROVE  RunsInv'
<1>0. /\ m.order \in Orders /\ order[m.order].status = "CANCELLED"
      /\ UNCHANGED <<order, run>> /\ msgs' \subseteq msgs
  BY DEF HandleOrderCancelled, IInv, OrdersInv, MessagesTellTheTruth
<1>1. OnlyReleases(m.order)
  BY <1>0, ReleaseStep DEF HandleOrderCancelled
<1>2. \A b \in Orders : Ordered(b) \subseteq Products
  BY DEF Ordered
<1>3. \A t \in Runs : run[t] # NoRun =>
        /\ run[t].order \in Orders /\ run[t].left \subseteq Products
        /\ run[t].ok \subseteq Products
  BY <1>2, RunFacts
<1>4. RunsKeepCount'
  <2>1. \A t \in Runs : run[t] # NoRun =>
          \A q \in run[t].ok : inv'[q].resv[run[t].order] # "NONE"
    BY <1>1, <1>3, RunFacts DEF OnlyReleases
  <2>. QED
    BY <1>0, <2>1 DEF IInv, StockInv, RunsKeepCount
<1>5. HopefulRunsHold'
  <2>. SUFFICES ASSUME NEW t \in Runs, MaySucceed(t)', order[run[t].order].status # "CANCELLED",
                       NEW q \in run[t].ok
                PROVE  inv'[q].resv[run[t].order] = "PENDING"
    BY <1>0 DEF HopefulRunsHold
  <2>1. run[t] # NoRun /\ run[t].order # m.order
    BY <1>0 DEF MaySucceed
  <2>2. MaySucceed(t)
    BY <1>0, <1>1, <1>3, <2>1 DEF MaySucceed, OnlyReleases
  <2>3. inv[q].resv[run[t].order] = "PENDING"
    BY <2>1, <2>2, RunFacts
  <2>. QED
    BY <1>1, <1>3, <2>1, <2>3 DEF OnlyReleases
<1>6. SuccessIsKept'
  <2>. SUFFICES ASSUME NEW b \in Orders, Succeeded(b)', order[b].status # "CANCELLED"
                PROVE  /\ \A q \in Ordered(b) : inv'[q].resv[b] = "PENDING"
                       /\ \A t \in Runs : run[t] # NoRun /\ run[t].order = b => run[t].ok = {}
    BY <1>0 DEF SuccessIsKept
  <2>1. Succeeded(b) /\ b # m.order
    BY <1>0 DEF Succeeded
  <2>. QED
    BY <1>1, <1>2, <2>1, SuccessFacts DEF OnlyReleases
<1>. QED
  BY <1>4, <1>5, <1>6 DEF RunsInv

LEMMA CrashInv ==
  ASSUME IInv, Crash
  PROVE  RunsInv'
<1>1. (\A r \in Runs : run'[r] = NoRun) /\ UNCHANGED <<order, inv, msgs>>
  BY DEF Crash
<1>2. RunsKeepCount' /\ HopefulRunsHold'
  BY <1>1 DEF RunsKeepCount, HopefulRunsHold, MaySucceed
<1>3. SuccessIsKept'
  BY <1>1, SuccessFacts DEF SuccessIsKept, Succeeded
<1>. QED
  BY <1>2, <1>3 DEF RunsInv

LEMMA AdminPanelInv ==
  ASSUME IInv, StockStep, RunsInv'
  PROVE  IInv'
BY StockStepInv DEF IInv, StockInv, RunsInv

-----------------------------------------------------------------------------
LEMMA InitInv == Init => IInv
<1>. SUFFICES ASSUME Init PROVE IInv
  OBVIOUS
<1>1. \A o \in Orders : Cardinality(Ordered(o)) \in Nat
  BY QuantityAssumption, FS_CardinalityType
<1>2. \A o \in Orders :
        /\ order[o] \in OrderState /\ order[o].status = "DRAFT" /\ order[o].failures = 0
  <2>1. order = [o \in Orders |-> [NewOrder EXCEPT !.items = Cardinality(Ordered(o))]]
    BY DEF Init
  <2>. QED
    BY <1>1, <2>1, MaxPaymentFailuresAssumption DEF NewOrder, OrderState, OrderStatus
<1>3. order \in [Orders -> OrderState]
  <2>1. order = [o \in Orders |-> [NewOrder EXCEPT !.items = Cardinality(Ordered(o))]]
    BY DEF Init
  <2>2. order = [o \in Orders |-> order[o]]
    BY <2>1
  <2>. QED
    BY <1>2, <2>2
<1>4. pay \in [Payments -> Payment]
      /\ \A y \in Payments : pay[y].status = "NONE"
  <2>1. pay = [y \in Payments |-> [order |-> NoOrder, status |-> "NONE", refunded |-> "undefined"]]
    BY DEF Init
  <2>. QED
    BY <2>1 DEF PaymentStatus, Payment, Refunds
<1>5. /\ inv \in [Products -> Inventory]
      /\ \A p \in Products : inv[p].reserved = 0 /\ \A o \in Orders : inv[p].resv[o] = "NONE"
  <2> DEFINE none == [o \in Orders |-> "NONE"]
  <2>1. inv = [p \in Products |-> [reserved |-> 0, resv |-> none]]
    BY Zenon DEF Init
  <2>2. none \in [Orders -> {"NONE", "PENDING", "RELEASED"}] /\ \A o \in Orders : none[o] = "NONE"
    OBVIOUS
  <2> HIDE DEF none
  <2>. QED
    BY <2>1, <2>2 DEF Inventory
<1>6. rows = {} /\ jobs = {} /\ msgs = {} /\ troubles = MaxTroubles /\ forgone = {}
      /\ run \in [Runs -> {NoRun}]
  <2>1. run = [r \in Runs |-> NoRun]
    BY DEF Init
  <2>2. rows = {} /\ jobs = {} /\ msgs = {} /\ troubles = MaxTroubles /\ forgone = {}
    BY Zenon DEF Init
  <2>. QED
    BY <2>1, <2>2
<1>7. TypeOK
  BY <1>3, <1>4, <1>5, <1>6, MaxTroublesAssumption DEF TypeOK
<1>8. FailuresCancel /\ PaymentsHaveOrders /\ MessagesTellTheTruth
  BY <1>2, <1>4, <1>6, MaxPaymentFailuresAssumption
     DEF FailuresCancel, PaymentsHaveOrders, MessagesTellTheTruth
<1>9. PaidOrderHasCompletedPayment
  BY <1>2 DEF PaidOrderHasCompletedPayment
<1>10. RunsKeepCount /\ HopefulRunsHold
  BY <1>6 DEF RunsKeepCount, HopefulRunsHold, MaySucceed
<1>11. SuccessIsKept
  BY <1>2, <1>6 DEF SuccessIsKept, Succeeded, Promising
<1>12. PromisesAddUp
  <2>. SUFFICES ASSUME NEW p \in Products
                PROVE  /\ IsFiniteSet(Promised(p))
                       /\ inv[p].reserved = Cardinality(Promised(p))
                       /\ inv[p].reserved <= TotalStock[p]
    BY DEF PromisesAddUp
  <2>1. Promised(p) = {}
    BY <1>5 DEF Promised
  <2>. QED
    BY <1>5, <2>1, FS_EmptySet, TotalStockAssumption
<1>. QED
  BY <1>7, <1>8, <1>9, <1>10, <1>11, <1>12 DEF IInv, OrdersInv, StockInv

LEMMA StutterInv == IInv /\ UNCHANGED vars => IInv'
<1>. SUFFICES ASSUME IInv, UNCHANGED vars PROVE IInv'
  OBVIOUS
<1>1. UNCHANGED <<order, pay, inv, rows, jobs, run, msgs, troubles, forgone>>
  BY DEF vars
<1>2. TypeOK' /\ FailuresCancel' /\ PaymentsHaveOrders' /\ MessagesTellTheTruth'
      /\ PaidOrderHasCompletedPayment'
  BY <1>1 DEF IInv, OrdersInv, TypeOK, FailuresCancel, PaymentsHaveOrders,
              MessagesTellTheTruth, PaidOrderHasCompletedPayment
<1>3. RunsKeepCount'
  BY <1>1 DEF IInv, StockInv, RunsKeepCount
<1>4. HopefulRunsHold'
  BY <1>1 DEF IInv, StockInv, HopefulRunsHold, MaySucceed
<1>5. SuccessIsKept'
  BY <1>1 DEF IInv, StockInv, SuccessIsKept, Succeeded
<1>6. PromisesAddUp'
  BY <1>1, StockTypes, SameInvAddsUp
<1>. QED
  BY <1>2, <1>3, <1>4, <1>5, <1>6 DEF IInv, OrdersInv, StockInv

LEMMA NextInv == IInv /\ Next => IInv'
<1>. SUFFICES ASSUME IInv, Next PROVE IInv'
  OBVIOUS
<1>1. OrdersInv
  BY DEF IInv
<1>2. CASE Client
  <2>1. ASSUME NEW o \in Orders, ConfirmOrder(o) \/ CancelOrder(o) \/ ShipOrder(o)
        PROVE  IInv'
    BY <1>1, <2>1, ConfirmStep, CancelStep, ShipStep, OrderStepInv
  <2>2. ASSUME NEW y \in Payments,
               \/ \E o \in Orders : CreatePayment(y, o)
               \/ ProcessPayment(y) \/ CompletePayment(y) \/ FailPayment(y)
               \/ RefundPayment(y, "something", {})
        PROVE  IInv'
    BY <1>1, <2>2, PaymentSteps, PaymentStepInv DEF Refunds
  <2>. QED
    BY <1>2, <2>1, <2>2 DEF Client
<1>3. ASSUME NEW m \in msgs, Deliver(m) PROVE IInv'
  <2>1. m.order \in Orders
    BY <1>1, MessageTypes
  <2>2. CASE OnInventoryReserved(m) \/ OnInventoryFailed(m)
    BY <1>1, <2>1, <2>2, MarkInventoryReservedStep, MarkInventoryFailedStep, OrderStepInv
  <2>3. CASE OnPaymentCompleted(m) \/ OnPaymentFailed(m)
    BY <1>1, <2>1, <2>3, MarkPaidStep, RecordPaymentFailedStep, OrderStepInv
  <2>4. CASE OnOrderCancelled(m)
    <3>1. m.payment \in Payments /\ RefundPayment(m.payment, "nothing", {m})
      BY <1>1, <2>4 DEF OnOrderCancelled, OrdersInv, MessagesTellTheTruth
    <3>2. "nothing" \in Refunds /\ {m} \in SUBSET msgs
      BY <1>3 DEF Refunds
    <3>. QED
      BY <1>1, <3>1, <3>2, PaymentSteps, PaymentStepInv
  <2>5. CASE HandleOrderCancelled(m)
    BY <2>5, HandleOrderCancelledStep, HandleOrderCancelledInv, AdminPanelInv
  <2>6. ASSUME NEW r \in Runs, StartRun(r, m) PROVE IInv'
    BY <2>6, StartRunStep, StartRunInv, AdminPanelInv
  <2>. QED
    BY <1>3, <2>2, <2>3, <2>4, <2>5, <2>6 DEF Deliver
<1>4. ASSUME NEW m \in msgs, PaymentUnknown(m) PROVE IInv'
  BY <1>1, <1>4, MessageTypes, UnknownStep, OrderStepInv
<1>5. ASSUME NEW r \in Runs, Continue(r) PROVE IInv'
  <2>1. ASSUME NEW p \in Products, Reserve(r, p) PROVE IInv'
    BY <2>1, ReserveStep, ReserveInv, AdminPanelInv
  <2>2. CASE Compensate(r)
    BY <2>2, CompensateStep, CompensateInv, AdminPanelInv
  <2>3. CASE FinishRun(r)
    BY <2>3, FinishRunStep, FinishRunInv, AdminPanelInv
  <2>. QED
    BY <1>5, <2>1, <2>2, <2>3 DEF Continue
<1>6. ASSUME NEW p \in Products, NEW o \in Orders, Project(p, o) PROVE IInv'
  BY <1>6, ProjectStep, ProjectInv, AdminPanelInv
<1>7. CASE Crash
  BY <1>7, CrashStep, CrashInv, AdminPanelInv
<1>. QED
  BY <1>2, <1>3, <1>4, <1>5, <1>6, <1>7 DEF Next

(* The inductive invariant: what the theorems below follow from.           *)
THEOREM FulfilmentInvariant == Spec => []IInv
<1>1. IInv /\ [Next]_vars => IInv'
  BY NextInv, StutterInv
<1>. QED
  BY <1>1, InitInv, PTL DEF Spec

(* Every variable keeps its type: orders, payments, inventories, runs and  *)
(* messages are what the classes and the message contracts declare.        *)
THEOREM TypeCorrect == Spec => []TypeOK
<1>1. IInv => TypeOK
  BY DEF IInv, OrdersInv
<1>. QED
  BY <1>1, FulfilmentInvariant, PTL

(* handleOrderConfirmed, its compensation, OrderCancelled and the order's  *)
(* own states together never promise stock twice, never promise more than  *)
(* there is, and never let an order pass for reserved, paid or shipped     *)
(* whose stock is not held.                                                *)
THEOREM StockIsHeld == Spec => []PromisedStockIsHeld
<1>1. IInv => PromisedStockIsHeld
  <2>. SUFFICES ASSUME IInv PROVE PromisedStockIsHeld
    OBVIOUS
  <2>1. \A p \in Products : /\ inv[p].reserved = Cardinality(Promised(p))
                            /\ inv[p].reserved <= TotalStock[p]
    BY StockTypes DEF PromisesAddUp
  <2>2. \A o \in Orders : order[o].status \in {"INVENTORY_RESERVED", "PAID", "SHIPPED"} =>
          \A p \in Ordered(o) : inv[p].resv[o] = "PENDING"
    BY SuccessFacts DEF Succeeded, Promising
  <2>. QED
    BY <2>1, <2>2 DEF PromisedStockIsHeld
<1>. QED
  BY <1>1, FulfilmentInvariant, PTL

(* on-payment-events marks an order paid only by a payment that was        *)
(* completed for that order.                                               *)
THEOREM PaidByItsPayment == Spec => []PaidOrderHasCompletedPayment
<1>1. IInv => PaidOrderHasCompletedPayment
  BY DEF IInv
<1>. QED
  BY <1>1, FulfilmentInvariant, PTL
=============================================================================
