-------------------------- MODULE PaymentAggregate --------------------------
(***************************************************************************)
(* The Payment aggregate of the order service and its command handlers:    *)
(* how events change it and the batches a command may raise.  Of the       *)
(* transaction id, the failure reason and the processing time only their   *)
(* presence counts.                                                        *)
(***************************************************************************)
EXTENDS Naturals, Sequences, SequencesExt

CONSTANTS PaymentAmount \* amount.value of the payment

ASSUME PaymentAmountAssumption == PaymentAmount \in Nat \ {0}

PaymentStatuses == {"PENDING", "PROCESSING", "COMPLETED", "FAILED", "REFUNDED"}

(* amount: of REFUNDED.                                                    *)
PaymentEvent(t, amount) == [type |-> t, amount |-> amount]

(* Field initialisers of the class.                                        *)
NewPayment == [status |-> "PENDING", transaction |-> FALSE, reason |-> FALSE,
               refunded |-> 0, processed |-> FALSE]

PaymentApply(p, e) ==
  CASE e.type = "CREATED"    -> [p EXCEPT !.status = "PENDING"]
    [] e.type = "PROCESSING" -> [p EXCEPT !.status = "PROCESSING"]
    [] e.type = "COMPLETED"  -> [p EXCEPT !.status = "COMPLETED", !.transaction = TRUE,
                                          !.processed = TRUE]
    [] e.type = "FAILED"     -> [p EXCEPT !.status = "FAILED", !.reason = TRUE,
                                          !.processed = TRUE]
    [] e.type = "REFUNDED"   -> [p EXCEPT !.status = "REFUNDED", !.refunded = e.amount]

PaymentFrom(history) == FoldLeft(PaymentApply, NewPayment, history)

(* A snapshot's fields stand for the events up to its version.             *)
PaymentFromSnapshot(fields, later) == FoldLeft(PaymentApply, fields, later)

-----------------------------------------------------------------------------
(* The methods: the statuses each one accepts and the event it raises.     *)
PaymentRaises(p, t, from, amount) ==
  IF p.status \in from THEN {<<PaymentEvent(t, amount)>>} ELSE {}

ProcessPayment(p) == PaymentRaises(p, "PROCESSING", {"PENDING"}, 0)

CompletePayment(p) == PaymentRaises(p, "COMPLETED", {"PROCESSING"}, 0)

FailPayment(p) == PaymentRaises(p, "FAILED", {"PENDING", "PROCESSING"}, 0)

RefundPayment(p, amount) ==
  IF amount > PaymentAmount THEN {} ELSE PaymentRaises(p, "REFUNDED", {"COMPLETED"}, amount)

(* The handlers: Create refuses a payment that exists, the others one that *)
(* does not; then load, the method, save.                                  *)
PaymentBatches(history) ==
  LET p == PaymentFrom(history)
  IN IF history = <<>> THEN {<<PaymentEvent("CREATED", 0)>>}
     ELSE ProcessPayment(p) \union CompletePayment(p) \union FailPayment(p)
          \union UNION {RefundPayment(p, amount) : amount \in 0 .. (PaymentAmount + 1)}
=============================================================================
