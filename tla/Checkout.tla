------------------------------ MODULE Checkout ------------------------------
(***************************************************************************)
(* CheckoutUseCase of the order service: it reads the order from the read  *)
(* model, creates and processes a payment of the total it read and         *)
(* confirms the order.  One order; its clients and the projection go on    *)
(* meanwhile.  A command is one step (AggregateStore is about its races),  *)
(* the projection handles the events in order (ReadModels is about the     *)
(* others).  Items cost 1 each.                                            *)
(***************************************************************************)
EXTENDS Naturals, Sequences, SequencesExt

CONSTANTS Checkouts,        \* calls of execute; each draws a paymentId of its own
          CheckoutItems,    \* bound: items of the order
          MaxCheckoutFaults \* bound: database errors and crashes

ASSUME CheckoutAssumption == {CheckoutItems, MaxCheckoutFaults} \subseteq Nat

VARIABLES
  orderLog,       \* events of the order
  orderRow,       \* the order in the read model, its items and its version
  payLog,         \* payLog[c]: events of the payment of checkout c
  amount,         \* amount[c]: what that payment is about
  checkout,       \* what each call does, the row it read and its answer
  checkoutFaults  \* faults that may still happen

checkoutVars == <<orderLog, orderRow, payLog, amount, checkout, checkoutFaults>>

Order == INSTANCE OrderAggregate
           WITH Payments <- {}, NoPayment <- "none", MaxPaymentFailures <- 3, MaxItems <- CheckoutItems
Payment == INSTANCE PaymentAggregate WITH PaymentAmount <- 1

NoOrderRow == [at |-> 0, status |-> "none", items |-> 0, total |-> 0]

CheckoutInit ==
  /\ orderLog = <<>> /\ orderRow = NoOrderRow
  /\ payLog = [c \in Checkouts |-> <<>>] /\ amount = [c \in Checkouts |-> 0]
  /\ checkout = [c \in Checkouts |-> [doing |-> "idle", seen |-> NoOrderRow, said |-> "nothing"]]
  /\ checkoutFaults = MaxCheckoutFaults

-----------------------------------------------------------------------------
(* Commands of clients on the order.                                       *)
ChangeOrder ==
  /\ \E name \in {"CreateOrder", "AddItem", "Confirm", "Cancel"} :
       \E batch \in Order!OrderRaises(orderLog, [name |-> name]) : orderLog' = orderLog \o batch
  /\ UNCHANGED <<orderRow, payLog, amount, checkout, checkoutFaults>>

(* Payments are listed in their read model: a client may fail or complete  *)
(* one (that nobody else processes it is assumed).                         *)
ChangePayment(c) ==
  /\ payLog[c] # <<>>
  /\ LET p == Payment!PaymentFrom(payLog[c])
     IN \E batch \in Payment!FailPayment(p) \union Payment!CompletePayment(p) :
          payLog' = [payLog EXCEPT ![c] = @ \o batch]
  /\ UNCHANGED <<orderLog, orderRow, amount, checkout, checkoutFaults>>

(* OrderProjection: an item has its row before the order has its total.    *)
ProjectOrder ==
  /\ orderRow.at < Len(orderLog)
  /\ LET type == orderLog[orderRow.at + 1].type
     IN orderRow' =
          IF type = "ITEM_ADDED" /\ orderRow.items = orderRow.total
          THEN [orderRow EXCEPT !.items = @ + 1]
          ELSE [at |-> orderRow.at + 1, items |-> orderRow.items, total |-> orderRow.items,
                status |-> CASE type = "CREATED" -> "DRAFT"
                             [] type = "CONFIRMED" -> "AWAITING_INVENTORY"
                             [] type = "CANCELLED" -> "CANCELLED"
                             [] OTHER -> orderRow.status]
  /\ UNCHANGED <<orderLog, payLog, amount, checkout, checkoutFaults>>

-----------------------------------------------------------------------------
Goes(c, doing) == checkout' = [checkout EXCEPT ![c].doing = doing]

Answers(c, said) == checkout' = [checkout EXCEPT ![c].doing = "answered", ![c].said = said]

Fault == checkoutFaults > 0 /\ checkoutFaults' = checkoutFaults - 1

(* GetOrderByIdQuery and the three checks; a query that throws is caught.  *)
StepFetchOrder(c) ==
  /\ checkout[c].doing = "idle"
  /\ \/ /\ checkout' = [checkout EXCEPT ![c] =
               IF orderRow.status # "DRAFT" \/ orderRow.items = 0
               THEN [doing |-> "answered", seen |-> orderRow, said |-> "failure"]
               ELSE [doing |-> "read", seen |-> orderRow, said |-> "nothing"]]
        /\ UNCHANGED checkoutFaults
     \/ Answers(c, "failure") /\ Fault
  /\ UNCHANGED <<orderLog, orderRow, payLog, amount>>

(* A command that fails has stored its event when only the outbox refused  *)
(* it: log' is either.                                                     *)
StepCreatePayment(c) ==
  /\ checkout[c].doing = "read"
  /\ LET created == [payLog EXCEPT ![c] = <<Payment!PaymentEvent("CREATED", 0)>>]
     IN \/ payLog' = created /\ Goes(c, "created") /\ UNCHANGED checkoutFaults
        \/ payLog' \in {payLog, created} /\ Answers(c, "failure") /\ Fault
  /\ amount' = [amount EXCEPT ![c] = checkout[c].seen.total]
  /\ UNCHANGED <<orderLog, orderRow>>

StepProcessPayment(c) ==
  /\ checkout[c].doing = "created"
  /\ LET batches == Payment!ProcessPayment(Payment!PaymentFrom(payLog[c]))
         processed == {[payLog EXCEPT ![c] = @ \o batch] : batch \in batches}
     IN \/ payLog' \in processed /\ Goes(c, "processed") /\ UNCHANGED checkoutFaults
        \/ batches = {} /\ Answers(c, "failure of payment") /\ UNCHANGED <<payLog, checkoutFaults>>
        \/ payLog' \in processed \union {payLog} /\ Answers(c, "failure of payment") /\ Fault
  /\ UNCHANGED <<orderLog, orderRow, amount>>

(* A slip this code could have had: the result of the command is ignored,  *)
(* as the other endpoints of the controller do.                            *)
FaultyStepConfirmOrder(c) ==
  /\ checkout[c].doing = "processed"
  /\ orderLog' \in {orderLog} \union {orderLog \o batch : batch \in
                                        Order!OrderRaises(orderLog, [name |-> "Confirm"])}
  /\ Answers(c, "success")
  /\ UNCHANGED <<orderRow, payLog, amount, checkoutFaults>>

(* Nothing is refunded when the order cannot be confirmed.                 *)
StepConfirmOrder(c) ==
  /\ checkout[c].doing = "processed"
  /\ LET batches == Order!OrderRaises(orderLog, [name |-> "Confirm"])
         confirmed == {orderLog \o batch : batch \in batches}
     IN \/ orderLog' \in confirmed /\ Answers(c, "success") /\ UNCHANGED checkoutFaults
        \/ batches = {} /\ Answers(c, "failure of payment") /\ UNCHANGED <<orderLog, checkoutFaults>>
        \/ orderLog' \in confirmed \union {orderLog} /\ Answers(c, "failure of payment") /\ Fault
  /\ UNCHANGED <<orderRow, payLog, amount>>

(* The process dies: calls are lost between their commands.                *)
CrashCheckouts ==
  /\ Fault
  /\ checkout' = [c \in Checkouts |->
                    IF checkout[c].doing \in {"idle", "answered"} THEN checkout[c]
                    ELSE [checkout[c] EXCEPT !.doing = "lost"]]
  /\ UNCHANGED <<orderLog, orderRow, payLog, amount>>

CheckoutNext ==
  \/ ChangeOrder \/ ProjectOrder \/ CrashCheckouts
  \/ \E c \in Checkouts : ChangePayment(c) \/ StepFetchOrder(c) \/ StepCreatePayment(c)
                          \/ StepProcessPayment(c) \/ StepConfirmOrder(c)

-----------------------------------------------------------------------------
CheckoutTypeOK ==
  /\ orderRow.at \in 0 .. Len(orderLog) /\ orderRow.items \in orderRow.total .. CheckoutItems
  /\ amount \in [Checkouts -> 0 .. CheckoutItems]
  /\ \A c \in Checkouts :
       /\ checkout[c].doing \in {"idle", "read", "created", "processed", "answered", "lost"}
       /\ checkout[c].said \in {"nothing", "success", "failure", "failure of payment"}

(* checkout.use-case.ts:70-167: whatever happens to the order and the      *)
(* payment meanwhile, one checkout of an order succeeds at the most; it    *)
(* has its payment in process, of what was confirmed unless the read model *)
(* showed less of the order; and an answer without a paymentId means that  *)
(* no money was asked for.                                                 *)
CheckoutIsPaidFor ==
  LET processed(c) == \E e \in ToSet(payLog[c]) : e.type = "PROCESSING"
      succeeded == {c \in Checkouts : checkout[c].said = "success"}
      added(from) == {v \in from .. Len(orderLog) : orderLog[v].type = "ITEM_ADDED"}
  IN /\ \A c, other \in succeeded : c = other
     /\ \A c \in succeeded :
          LET seen == checkout[c].seen
          IN \E e \in ToSet(orderLog) :
               /\ e.type = "CONFIRMED" /\ processed(c)
               /\ added(seen.at + 1) = {} => amount[c] = e.n
     /\ \A c \in Checkouts : checkout[c].said = "failure" => ~processed(c)
=============================================================================
