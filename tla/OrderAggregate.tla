--------------------------- MODULE OrderAggregate ---------------------------
(***************************************************************************)
(* The Order aggregate of the order service: its state, how events change  *)
(* it (apply) and which events each method raises.  Amounts, names and     *)
(* tracking numbers do not influence any guard; an order's items are       *)
(* represented by their number.                                            *)
(***************************************************************************)
EXTENDS Naturals, Sequences, SequencesExt

CONSTANTS Payments,             \* payment identifiers
          NoPayment,            \* paymentId is undefined
          MaxPaymentFailures,   \* MAX_PAYMENT_FAILURES
          MaxItems              \* bound: items of an order

ASSUME MaxPaymentFailuresAssumption == MaxPaymentFailures \in Nat \ {0}

OrderStatus == {"DRAFT", "AWAITING_INVENTORY", "INVENTORY_RESERVED",
                "INVENTORY_FAILED", "PAID", "SHIPPED", "CANCELLED"}

OrderEventType == {"CREATED", "ITEM_ADDED", "CONFIRMED", "INVENTORY_RESERVED",
                   "INVENTORY_FAILED", "PAID", "PAYMENT_FAILED", "CANCELLED",
                   "SHIPPED"}

(* payment: the paymentId carried by PAID, PAYMENT_FAILED and CANCELLED;   *)
(* n: the number of items CONFIRMED carries, the failureCount of           *)
(* PAYMENT_FAILED.                                                         *)
OrderEvents == [type : OrderEventType, payment : Payments \union {NoPayment},
                n : 0 .. (MaxItems + MaxPaymentFailures)]

Event(t) == [type |-> t, payment |-> NoPayment, n |-> 0]

-----------------------------------------------------------------------------
OrderState == [status : OrderStatus, items : Nat, failures : 0 .. MaxPaymentFailures,
               payment : Payments \union {NoPayment}]

(* Field initialisers of the class.                                        *)
NewOrder == [status |-> "DRAFT", items |-> 0, payment |-> NoPayment, failures |-> 0]

Apply(o, e) ==
  CASE e.type = "CREATED"            -> [o EXCEPT !.status = "DRAFT", !.items = 0]
    [] e.type = "ITEM_ADDED"         -> [o EXCEPT !.items = @ + 1]
    [] e.type = "CONFIRMED"          -> [o EXCEPT !.status = "AWAITING_INVENTORY"]
    [] e.type = "INVENTORY_RESERVED" -> [o EXCEPT !.status = "INVENTORY_RESERVED"]
    [] e.type = "INVENTORY_FAILED"   -> [o EXCEPT !.status = "INVENTORY_FAILED"]
    [] e.type = "PAID"               -> [o EXCEPT !.status = "PAID", !.payment = e.payment]
    [] e.type = "PAYMENT_FAILED"     -> [o EXCEPT !.failures = e.n]
    [] e.type = "CANCELLED"          -> [o EXCEPT !.status = "CANCELLED"]
    [] e.type = "SHIPPED"            -> [o EXCEPT !.status = "SHIPPED"]

(* applyEvent, for one event after the other.                              *)
Replay(o, batch) == FoldLeft(Apply, o, batch)

(* fromEvents / loadFromHistory *)
Rehydrate(history) == Replay(NewOrder, history)

-----------------------------------------------------------------------------
(* One operator per method: the batches it may raise, {} when it throws.   *)
(* Definitions named Faulty... are slips the code could have had; each one *)
(* in the place of the definition after it makes a property of OrderStore  *)
(* fail.                                                                   *)
When(guard, batch) == IF guard THEN {batch} ELSE {}

(* Items are accepted in any status.                                       *)
FaultyAddItem(o) == When(o.items < MaxItems, <<Event("ITEM_ADDED")>>)

(* The number of items is a bound of the model.                            *)
AddItem(o) == When(o.status = "DRAFT" /\ o.items < MaxItems, <<Event("ITEM_ADDED")>>)

Confirm(o) ==
  When(o.status = "DRAFT" /\ o.items # 0, <<[Event("CONFIRMED") EXCEPT !.n = o.items]>>)

MarkInventoryReserved(o) ==
  When(o.status = "AWAITING_INVENTORY", <<Event("INVENTORY_RESERVED")>>)

MarkInventoryFailed(o) ==
  When(o.status = "AWAITING_INVENTORY", <<Event("INVENTORY_FAILED")>>)

(* The cancellation does not say what to refund.                           *)
FaultyCancel(o) ==
  When(o.status \notin {"CANCELLED", "SHIPPED", "DELIVERED"}, <<Event("CANCELLED")>>)

Cancel(o) ==
  When(o.status \notin {"CANCELLED", "SHIPPED", "DELIVERED"},
       <<[Event("CANCELLED") EXCEPT !.payment = o.payment]>>)

(* A second payment is accepted.                                           *)
FaultyMarkPaid(o, p) ==
  When(o.status \in {"INVENTORY_RESERVED", "PAID"}, <<[Event("PAID") EXCEPT !.payment = p]>>)

MarkPaid(o, p) ==
  When(o.status = "INVENTORY_RESERVED", <<[Event("PAID") EXCEPT !.payment = p]>>)

Ship(o) == When(o.status = "PAID", <<Event("SHIPPED")>>)

(* The failure that reaches the maximum also cancels the order.            *)
RecordPaymentFailed(o, p) ==
  LET failed == [Event("PAYMENT_FAILED") EXCEPT !.payment = p, !.n = o.failures + 1]
  IN IF o.status # "INVENTORY_RESERVED" THEN {}
     ELSE IF failed.n < MaxPaymentFailures THEN {<<failed>>}
     ELSE {<<failed>> \o cancel : cancel \in Cancel(Apply(o, failed))}

-----------------------------------------------------------------------------
(* The command handlers: load, "not found" when there is no event, then    *)
(* the method; CreateOrder refuses an id that exists.                      *)
OrderCommands ==
  [name : {"CreateOrder", "AddItem", "Confirm", "MarkInventoryReserved",
           "MarkInventoryFailed", "Cancel", "Ship"}, payment : {NoPayment}]
  \union [name : {"MarkPaid", "RecordPaymentFailed"}, payment : Payments]

OrderRaises(history, c) ==
  LET o == Rehydrate(history)
  IN IF history = <<>> THEN When(c.name = "CreateOrder", <<Event("CREATED")>>)
     ELSE CASE c.name = "CreateOrder"           -> {}
            [] c.name = "AddItem"               -> AddItem(o)
            [] c.name = "Confirm"               -> Confirm(o)
            [] c.name = "MarkInventoryReserved" -> MarkInventoryReserved(o)
            [] c.name = "MarkInventoryFailed"   -> MarkInventoryFailed(o)
            [] c.name = "Cancel"                -> Cancel(o)
            [] c.name = "Ship"                  -> Ship(o)
            [] c.name = "MarkPaid"              -> MarkPaid(o, c.payment)
            [] c.name = "RecordPaymentFailed"   -> RecordPaymentFailed(o, c.payment)
=============================================================================
