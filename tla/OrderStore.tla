----------------------------- MODULE OrderStore -----------------------------
(***************************************************************************)
(* The order service's write side: the handlers of order.handlers.ts run   *)
(* concurrently on Order aggregates kept in the event store.  The          *)
(* properties are about the streams that result.                           *)
(***************************************************************************)
EXTENDS AggregateStore, OrderAggregate

(* The positions of the events of one type in a stream.                    *)
At(s, t) == {v \in DOMAIN s : s[v].type = t}

(* CONFIRMED carries exactly the items added to the order: an item never   *)
(* slips in between the decision to confirm and the stored confirmation.   *)
ConfirmedItemsAreTheItemsAdded ==
  \A a \in Aggregates : \A v \in At(events[a], "CONFIRMED") :
    /\ events[a][v].n = Cardinality(At(events[a], "ITEM_ADDED"))
    /\ \A i \in At(events[a], "ITEM_ADDED") : i < v

(* An order is paid at most once and shipped only when paid and not        *)
(* cancelled, whatever commands race.                                      *)
ShippedOrderWasPaid ==
  \A a \in Aggregates :
    LET s == events[a] IN
    /\ Cardinality(At(s, "PAID")) <= 1
    /\ At(s, "SHIPPED") # {} =>
         /\ At(s, "PAID") # {}
         /\ At(s, "CANCELLED") = {}

(* Cancellation is final and names the payment to refund: the cancellation *)
(* of a paid order carries its payment, so that it can be refunded.        *)
CancellationIsFinalAndRefundable ==
  \A a \in Aggregates : \A v \in At(events[a], "CANCELLED") :
    /\ v = Len(events[a])
    /\ events[a][v].payment =
         IF At(events[a], "PAID") = {} THEN NoPayment
         ELSE events[a][CHOOSE p \in At(events[a], "PAID") : TRUE].payment

(* Failed payments are counted without loss (1, 2, 3, ...) although the    *)
(* notifications race, and the last permitted one cancels the order.       *)
PaymentFailuresAreCounted ==
  \A a \in Aggregates : \A v \in At(events[a], "PAYMENT_FAILED") :
    /\ events[a][v].n = Cardinality({u \in At(events[a], "PAYMENT_FAILED") : u <= v})
    /\ events[a][v].n <= MaxPaymentFailures
    /\ events[a][v].n = MaxPaymentFailures =>
         v < Len(events[a]) /\ events[a][v + 1].type = "CANCELLED"

(* Whatever commands race, the stream of an order tells one life: paid     *)
(* once before it ships, cancelled for good, its failed payments counted.  *)
OrderLifeCycle ==
  ShippedOrderWasPaid /\ CancellationIsFinalAndRefundable /\ PaymentFailuresAreCounted
=============================================================================
