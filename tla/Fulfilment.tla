----------------------------- MODULE Fulfilment -----------------------------
(***************************************************************************)
(* How the services fulfil an order together.  The order service keeps the *)
(* orders and the payments, the admin panel keeps the stock; they talk     *)
(* through outboxes and RabbitMQ.                                          *)
(*                                                                         *)
(*   order    -- CONFIRMED, CANCELLED -->    admin panel: reserve, release *)
(*   admin    -- RESERVED, FAILED -->        order service: mark the order *)
(*   payment  -- COMPLETED, FAILED -->       order service: mark the order *)
(*   order    -- CANCELLED -->               order service: refund         *)
(*                                                                         *)
(* A command is one step here: AggregateStore implements serial execution. *)
(* Messages are delivered in any order, and again when the consumer loses  *)
(* its connection or its process before it acknowledges.  Orders start as  *)
(* drafts with their items; clients issue commands at any time, checkout   *)
(* being one of the orders they may issue them in.                         *)
(***************************************************************************)
EXTENDS OrderAggregate, FiniteSets

CONSTANTS Orders,         \* order identifiers
          Products,       \* products, each with one inventory
          Quantity,       \* Quantity[o][p]: ordered, summed over o's items
          TotalStock,     \* TotalStock[p]
          Runs,           \* deliveries of CONFIRMED handled at the same time
          NoRun,          \* a free place for one
          NoOrder,        \* order of a payment that does not exist
          Troubles,       \* what may go wrong, see Spend
          MaxTroubles     \* bound: how often

Ordered(o) == {p \in Products : Quantity[o][p] > 0}

ASSUME QuantityAssumption ==
  /\ Quantity \in [Orders -> [Products -> Nat]]
  /\ \A o \in Orders : Ordered(o) # {} /\ IsFiniteSet(Ordered(o))
ASSUME TotalStockAssumption == TotalStock \in [Products -> Nat]
ASSUME MaxTroublesAssumption == MaxTroubles \in Nat

VARIABLES
  order,      \* order[o]: the Order aggregate
  pay,        \* pay[y]: the Payment aggregate
  inv,        \* inv[p]: the Inventory aggregate of product p
  rows,       \* table stock_reservations: the <<product, order>> it lists
  jobs,       \* StockReserved events whose projection has not run yet
  run,        \* run[r]: a run of handleOrderConfirmed
  msgs,       \* messages in an outbox or a queue
  troubles,   \* how often something may still go wrong
  forgone     \* history: payments whose refund, due to a cancellation, was
              \* not announced or failed

vars == <<order, pay, inv, rows, jobs, run, msgs, troubles, forgone>>
stockVars == <<inv, rows, jobs, run>>

-----------------------------------------------------------------------------
PaymentStatus == {"NONE", "PENDING", "PROCESSING", "COMPLETED", "FAILED", "REFUNDED"}

(* refundedAmount: undefined, 0 or more.                                   *)
Refunds == {"undefined", "nothing", "something"}

Payment == [order : Orders \union {NoOrder}, status : PaymentStatus, refunded : Refunds]

(* reserved: reservedStock; resv[o]: the status of o's reservation.        *)
Inventory == [reserved : Nat, resv : [Orders -> {"NONE", "PENDING", "RELEASED"}]]

(* left: products not tried yet; ok: reserved by this run and not yet      *)
(* compensated; bad: some product could not be reserved.                   *)
Run == [order : Orders, left : SUBSET Products, ok : SUBSET Products, bad : BOOLEAN]

Message == [type : {"ORDER_CONFIRMED", "ORDER_CANCELLED", "REFUND", "STOCK_RESERVED",
                    "STOCK_FAILED", "PAYMENT_COMPLETED", "PAYMENT_FAILED"},
            order : Orders \union {NoOrder}, payment : Payments \union {NoPayment}]

About(t, o) == [type |-> t, order |-> o, payment |-> NoPayment]

Available(p) == TotalStock[p] - inv[p].reserved

Init ==
  /\ order = [o \in Orders |-> [NewOrder EXCEPT !.items = Cardinality(Ordered(o))]]
  /\ pay = [y \in Payments |-> [order |-> NoOrder, status |-> "NONE", refunded |-> "undefined"]]
  /\ inv = [p \in Products |-> [reserved |-> 0, resv |-> [o \in Orders |-> "NONE"]]]
  /\ rows = {} /\ jobs = {}
  /\ run = [r \in Runs |-> NoRun]
  /\ msgs = {}
  /\ troubles = MaxTroubles /\ forgone = {}

(* Something goes wrong:                                                   *)
(*   "conflict"    the command ends in a ConcurrencyException              *)
(*   "outbox"      events are stored, their outbox rows are refused        *)
(*   "redelivery"  connection or process lost after the work, before ack   *)
(*   "crash"       the admin panel's process dies                          *)
(*   "lag"         the payment is not in the read model yet                *)
Spend(t) == t \in Troubles /\ troubles > 0 /\ troubles' = troubles - 1

(* A consumer has done its work on the messages handled ({} for a client), *)
(* which puts out new ones.                                                *)
Settle(handled, out) ==
  \/ msgs' = (msgs \ handled) \union out /\ UNCHANGED troubles
  \/ handled # {} /\ Spend("redelivery") /\ msgs' = msgs \union out
  \/ out # {} /\ Spend("outbox") /\ msgs' = msgs \ handled

(* A command that fails is logged and its message is acknowledged.         *)
Refused(handled, refused) ==
  /\ handled # {}
  /\ msgs' = msgs \ handled
  /\ (refused /\ UNCHANGED troubles) \/ (~refused /\ Spend("conflict"))

-----------------------------------------------------------------------------
(* The order service.                                                      *)

(* Messages the consumers care about: CANCELLED goes to the admin panel    *)
(* and, with its payment, to the order service itself.                     *)
Announced(o, batch) ==
  LET raised(t) == {e \in ToSet(batch) : e.type = t}
  IN {About("ORDER_CONFIRMED", o) : e \in raised("CONFIRMED")}
     \union {About("ORDER_CANCELLED", o) : e \in raised("CANCELLED")}
     \union {[About("REFUND", o) EXCEPT !.payment = e.payment] :
               e \in {c \in raised("CANCELLED") : c.payment # NoPayment}}

RefundsIn(messages) == {m.payment : m \in {n \in messages : n.type = "REFUND"}}

OrderCommand(o, batches, handled) ==
  /\ \/ \E batch \in batches :
          /\ order' = [order EXCEPT ![o] = Replay(@, batch)]
          /\ Settle(handled, Announced(o, batch))
          /\ forgone' = forgone \union RefundsIn(Announced(o, batch) \ msgs')
     \/ Refused(handled, batches = {}) /\ UNCHANGED <<order, forgone>>
  /\ UNCHANGED <<pay, stockVars>>

(* Clients of the order API.                                               *)
ConfirmOrder(o) == OrderCommand(o, Confirm(order[o]), {})
CancelOrder(o) == OrderCommand(o, Cancel(order[o]), {})
ShipOrder(o) == OrderCommand(o, Ship(order[o]), {})

OnInventoryReserved(m) ==
  /\ m \in msgs /\ m.type = "STOCK_RESERVED"
  /\ OrderCommand(m.order, MarkInventoryReserved(order[m.order]), {m})

OnInventoryFailed(m) ==
  /\ m \in msgs /\ m.type = "STOCK_FAILED"
  /\ OrderCommand(m.order, MarkInventoryFailed(order[m.order]), {m})

(* A payment missing from the read model: a warning, and the message is    *)
(* acknowledged.                                                           *)
PaymentUnknown(m) ==
  /\ m \in msgs /\ m.type \in {"PAYMENT_COMPLETED", "PAYMENT_FAILED"}
  /\ Spend("lag")
  /\ msgs' = msgs \ {m}
  /\ UNCHANGED <<order, pay, stockVars, forgone>>

OnPaymentCompleted(m) ==
  /\ m \in msgs /\ m.type = "PAYMENT_COMPLETED"
  /\ OrderCommand(m.order, MarkPaid(order[m.order], m.payment), {m})

OnPaymentFailed(m) ==
  /\ m \in msgs /\ m.type = "PAYMENT_FAILED"
  /\ OrderCommand(m.order, RecordPaymentFailed(order[m.order], m.payment), {m})

-----------------------------------------------------------------------------
(* Payments.  Definitions named Faulty... are slips the code could have    *)
(* had; each, in the place of the definition after it, makes a property    *)
(* below fail.                                                             *)
PaymentCommand(y, from, payment, handled, out) ==
  /\ \/ /\ pay[y].status \in from
        /\ pay' = [pay EXCEPT ![y] = payment]
        /\ Settle(handled, out) /\ UNCHANGED forgone
     \/ /\ Refused(handled, pay[y].status \notin from) /\ UNCHANGED pay
        /\ forgone' = forgone \union IF pay[y].status \in from THEN RefundsIn(handled) ELSE {}
  /\ UNCHANGED <<order, stockVars>>

Now(y, status) == [pay[y] EXCEPT !.status = status]

PaymentMessage(t, y) == [type |-> t, order |-> pay[y].order, payment |-> y]

CreatePayment(y, o) ==
  /\ pay[y].status = "NONE"
  /\ pay' = [pay EXCEPT ![y] = [order |-> o, status |-> "PENDING", refunded |-> "undefined"]]
  /\ UNCHANGED <<order, stockVars, msgs, troubles, forgone>>

ProcessPayment(y) == PaymentCommand(y, {"PENDING"}, Now(y, "PROCESSING"), {}, {})

CompletePayment(y) ==
  PaymentCommand(y, {"PROCESSING"}, Now(y, "COMPLETED"), {},
                 {PaymentMessage("PAYMENT_COMPLETED", y)})

(* A completed payment may still fail.                                     *)
FaultyFailPayment(y) ==
  PaymentCommand(y, {"PENDING", "PROCESSING", "COMPLETED"}, Now(y, "FAILED"), {},
                 {PaymentMessage("PAYMENT_FAILED", y)})

FailPayment(y) ==
  PaymentCommand(y, {"PENDING", "PROCESSING"}, Now(y, "FAILED"), {},
                 {PaymentMessage("PAYMENT_FAILED", y)})

RefundPayment(y, amount, handled) ==
  PaymentCommand(y, {"COMPLETED"}, [Now(y, "REFUNDED") EXCEPT !.refunded = amount], handled, {})

(* The handler asks for a refund of 0; one that fails is only logged.      *)
OnOrderCancelled(m) ==
  /\ m \in msgs /\ m.type = "REFUND"
  /\ RefundPayment(m.payment, "nothing", {m})

-----------------------------------------------------------------------------
(* The admin panel: OrderEventHandler and the inventory aggregates.        *)

(* CONFIRMED is delivered.  A second delivery while the first one is still *)
(* being handled needs a lost connection.                                  *)
StartRun(r, m) ==
  /\ m \in msgs /\ m.type = "ORDER_CONFIRMED"
  /\ run[r] = NoRun
  /\ IF \E other \in Runs : run[other] # NoRun /\ run[other].order = m.order
     THEN Spend("redelivery") ELSE UNCHANGED troubles
  /\ run' = [run EXCEPT ![r] = [order |-> m.order, left |-> Ordered(m.order),
                                ok |-> {}, bad |-> FALSE]]
  /\ UNCHANGED <<order, pay, inv, rows, jobs, msgs, forgone>>

(* Once an order had a reservation, released or not, it gets no other one. *)
CanReserve(p, o) ==
  /\ Quantity[o][p] <= Available(p)
  /\ inv[p].resv[o] = "NONE"

Take(p, o) ==
  inv' = [inv EXCEPT ![p] = [reserved |-> @.reserved + Quantity[o][p],
                             resv |-> [@.resv EXCEPT ![o] = "PENDING"]]]

Tried(r, p, ok) ==
  run' = [run EXCEPT ![r] = [order |-> @.order, left |-> @.left \ {p},
                            ok |-> IF ok THEN @.ok \union {p} ELSE @.ok,
                            bad |-> @.bad \/ ~ok]]

(* ReserveStockByProduct for the next product.  Whatever makes the command *)
(* fail counts as "not reserved", also when the reservation is stored and  *)
(* only its outbox row is refused; the event is then not emitted.          *)
Reserve(r, p) ==
  /\ run[r] # NoRun /\ p \in run[r].left
  /\ \/ /\ CanReserve(p, run[r].order) /\ Take(p, run[r].order)
        /\ \/ /\ Tried(r, p, TRUE)
              /\ jobs' = jobs \union {<<p, run[r].order>>} /\ UNCHANGED troubles
           \/ Spend("outbox") /\ Tried(r, p, FALSE) /\ UNCHANGED jobs
     \/ /\ Tried(r, p, FALSE)
        /\ (~CanReserve(p, run[r].order) /\ UNCHANGED troubles) \/ Spend("conflict")
        /\ UNCHANGED <<inv, jobs>>
  /\ UNCHANGED <<order, pay, rows, msgs, forgone>>

(* The projection of StockReserved lists the reservation.                  *)
Project(p, o) ==
  /\ <<p, o>> \in jobs
  /\ rows' = rows \union {<<p, o>>}
  /\ jobs' = jobs \ {<<p, o>>}
  /\ UNCHANGED <<order, pay, inv, run, msgs, troubles, forgone>>

(* A reservation is released whatever its status.                          *)
FaultyReleasable(p, o) == TRUE

Releasable(p, o) == inv[p].resv[o] = "PENDING"

GiveBack(p, o) ==
  inv' = [inv EXCEPT ![p] = [reserved |-> @.reserved - Quantity[o][p],
                             resv |-> [@.resv EXCEPT ![o] = "RELEASED"]]]

(* ReleaseReservationByOrder: of the rows that list o, one is read (which  *)
(* one is the database's choice) and that reservation is released; nothing *)
(* happens when there is no row or the aggregate refuses.                  *)
ReleaseByOrder(o) ==
  \/ /\ \E p \in Products :
          /\ <<p, o>> \in rows
          /\ IF Releasable(p, o) THEN GiveBack(p, o) ELSE UNCHANGED inv
     /\ UNCHANGED troubles
  \/ /\ {p \in Products : <<p, o>> \in rows} = {}
     /\ UNCHANGED <<inv, troubles>>
  \/ Spend("conflict") /\ UNCHANGED inv

(* "some" in the place of "every".                                         *)
FaultyAllSuccessful(r) == run[r].ok # {}

AllSuccessful(r) == ~run[r].bad

(* One round of the compensation: as many releases as reservations of this *)
(* run succeeded.                                                          *)
Compensate(r) ==
  /\ run[r] # NoRun /\ run[r].left = {} /\ ~AllSuccessful(r)
  /\ \E p \in run[r].ok : run' = [run EXCEPT ![r].ok = @ \ {p}]
  /\ ReleaseByOrder(run[r].order)
  /\ UNCHANGED <<order, pay, rows, jobs, msgs, forgone>>

(* The outcome is put in the outbox and the message acknowledged; when the *)
(* outbox refuses it the message goes back to its queue.                   *)
FinishRun(r) ==
  LET m == About("ORDER_CONFIRMED", run[r].order)
      outcome == About(IF AllSuccessful(r) THEN "STOCK_RESERVED" ELSE "STOCK_FAILED",
                       run[r].order)
  IN /\ run[r] # NoRun /\ run[r].left = {}
     /\ AllSuccessful(r) \/ run[r].ok = {}
     /\ run' = [run EXCEPT ![r] = NoRun]
     /\ \/ msgs' = (msgs \ {m}) \union {outcome} /\ UNCHANGED troubles
        \/ Spend("redelivery") /\ msgs' = msgs \union {outcome}
        \/ Spend("outbox") /\ UNCHANGED msgs
     /\ UNCHANGED <<order, pay, inv, rows, jobs, forgone>>

(* CANCELLED is delivered: one release, acknowledged whatever it returns.  *)
HandleOrderCancelled(m) ==
  /\ m \in msgs /\ m.type = "ORDER_CANCELLED"
  /\ ReleaseByOrder(m.order)
  /\ msgs' = msgs \ {m}
  /\ UNCHANGED <<order, pay, rows, jobs, run, forgone>>

(* The process dies: runs and pending projections are gone, unacknowledged *)
(* messages are not.                                                       *)
Crash ==
  /\ Spend("crash")
  /\ run' = [r \in Runs |-> NoRun]
  /\ jobs' = {}
  /\ UNCHANGED <<order, pay, inv, rows, msgs, forgone>>

-----------------------------------------------------------------------------
Client ==
  \/ \E o \in Orders : ConfirmOrder(o) \/ CancelOrder(o) \/ ShipOrder(o)
  \/ \E y \in Payments : \/ \E o \in Orders : CreatePayment(y, o)
                         \/ ProcessPayment(y) \/ CompletePayment(y) \/ FailPayment(y)
                         \/ RefundPayment(y, "something", {})

(* The consumers at work on message m.                                     *)
Deliver(m) ==
  \/ OnInventoryReserved(m) \/ OnInventoryFailed(m)
  \/ OnPaymentCompleted(m) \/ OnPaymentFailed(m)
  \/ OnOrderCancelled(m) \/ HandleOrderCancelled(m)
  \/ \E r \in Runs : StartRun(r, m)

Continue(r) == (\E p \in Products : Reserve(r, p)) \/ Compensate(r) \/ FinishRun(r)

Next ==
  \/ Client
  \/ \E m \in msgs : Deliver(m) \/ PaymentUnknown(m)
  \/ \E r \in Runs : Continue(r)
  \/ \E p \in Products, o \in Orders : Project(p, o)
  \/ Crash

Spec == Init /\ [][Next]_vars

(* Consumers keep consuming and a handler that has begun goes on; clients  *)
(* need not do anything.                                                   *)
Fairness ==
  /\ \A m \in Message : WF_vars(m \in msgs /\ Deliver(m))
  /\ \A r \in Runs : WF_vars(Continue(r))
  /\ \A p \in Products, o \in Orders : WF_vars(Project(p, o))

FairSpec == Spec /\ Fairness

-----------------------------------------------------------------------------
TypeOK ==
  /\ order \in [Orders -> OrderState]
  /\ pay \in [Payments -> Payment]
  /\ inv \in [Products -> Inventory]
  /\ rows \subseteq Products \X Orders
  /\ jobs \subseteq Products \X Orders
  /\ run \in [Runs -> Run \union {NoRun}]
  /\ msgs \subseteq Message
  /\ troubles \in 0 .. MaxTroubles
  /\ forgone \subseteq Payments

(* The pieces of p that pending reservations promise: o's first, second,.. *)
Pieces(p, o) == {o} \X (1 .. Quantity[o][p])
Promised(p) == UNION {Pieces(p, o) : o \in {b \in Orders : inv[p].resv[b] = "PENDING"}}

(* Stock is promised once and kept: what pending reservations add up to is *)
(* the reserved stock and never more than there is, and an order that the  *)
(* order service takes for reserved, paid or shipped has the stock of      *)
(* every one of its products, whatever is lost, repeated or compensated    *)
(* between the two services.                                               *)
PromisedStockIsHeld ==
  /\ \A p \in Products :
       /\ inv[p].reserved = Cardinality(Promised(p))
       /\ inv[p].reserved <= TotalStock[p]
  /\ \A o \in Orders : order[o].status \in {"INVENTORY_RESERVED", "PAID", "SHIPPED"} =>
       \A p \in Ordered(o) : inv[p].resv[o] = "PENDING"

(* A paid or shipped order was paid by a completed payment made for it,    *)
(* which a client may have had refunded since.                             *)
PaidOrderHasCompletedPayment ==
  \A o \in Orders : order[o].status \in {"PAID", "SHIPPED"} =>
    /\ order[o].payment \in Payments
    /\ pay[order[o].payment].order = o
    /\ pay[order[o].payment].status \in {"COMPLETED", "REFUNDED"}

(* on-order-events.handler.ts: the payment of a cancelled order becomes    *)
(* REFUNDED in the end, unless the cancellation was not announced (its     *)
(* outbox row refused) or the refund ended in a ConcurrencyException, which*)
(* only leaves a line in a log.  How much is refunded is another matter:   *)
(* the handler asks for an amount of 0.                                    *)
CancelledOrderIsRefunded ==
  \A o \in Orders, y \in Payments :
    (order[o].status = "CANCELLED" /\ order[o].payment = y)
      ~> (pay[y].status = "REFUNDED" \/ y \in forgone)

(* order-event.handler.ts:242: handling OrderCancelled "releases any       *)
(* reserved inventory": none that the read model lists is left pending.    *)
CancellingReleasesAnyReserved ==
  [][\A m \in msgs \ msgs' : m.type = "ORDER_CANCELLED" =>
       \A p \in Products : <<p, m.order>> \in rows => inv'[p].resv[m.order] # "PENDING"]_vars
=============================================================================
