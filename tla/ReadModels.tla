----------------------------- MODULE ReadModels -----------------------------
(***************************************************************************)
(* The projections of the order service: consumers that write the events   *)
(* of an aggregate into a read model.  One aggregate is followed, seen by  *)
(* the consumer of one queue:                                              *)
(*   "order"    OrderProjection        tables orders and order_items       *)
(*   "history"  OrderHistoryProjection table order_history                 *)
(*   "payment"  PaymentProjection      table payments                      *)
(*   "product"  ProductProjection      table products                      *)
(* A queue delivers up to Prefetch messages at a time, in any order; the   *)
(* handlers await the database between their steps.                        *)
(***************************************************************************)
EXTENDS OrderAggregate, PaymentAggregate, ProductAggregate, FiniteSets

CONSTANTS Prefetch,           \* messages a queue delivers before an ack
          ProjectionRetries,  \* maxRetries of the subscriptions
          MaxEvents,          \* bound: events of the aggregate, per projection
          MaxOvertaken,       \* bound: waiting deliveries overtaken by a later one
          MaxFaults           \* bound: database errors and lost connections

Kinds == {"order", "history", "payment", "product"}

ASSUME ReadModelAssumption ==
  {Prefetch, ProjectionRetries, MaxOvertaken, MaxFaults} \subseteq Nat /\ MaxEvents \in [Kinds -> Nat]

VARIABLES
  kind,     \* whose projection it is
  stream,   \* the events of the aggregate, stream[v] with version v
  sent,     \* versions published; 0 is the poison event of the test API
  queue,    \* deliveries waiting
  working,  \* deliveries being handled, with what their handler has read
  shown,    \* the row of the read model and the version it carries
  items,    \* rows of order_items
  entries,  \* order_history, in the order of occurred_at
  dead,     \* versions in the dead letter queue
  faults,   \* faults that may still happen
  serial    \* history: see Begin

readModelVars == <<kind, stream, sent, queue, working, shown, items, entries, dead, faults, serial>>

NoRow == [at |-> 0]

(* Type of the event a delivery carries.                                   *)
EventAt(v) == IF v = 0 THEN [type |-> "TEST_POISON_EVENT"] ELSE stream[v]

AggregateView(k, history) ==
  CASE k = "order"   -> LET o == Rehydrate(history)
                        IN [status |-> o.status, items |-> o.items,
                            tracking |-> o.status = "SHIPPED"]
    [] k = "payment" -> PaymentFrom(history)
    [] k = "product" -> ProductFrom(history)
    [] k = "history" -> {}

Batches ==
  CASE kind \in {"order", "history"} ->
         UNION {OrderRaises(stream, c) : c \in OrderCommands}
    [] kind = "payment" -> PaymentBatches(stream)
    [] kind = "product" -> ProductBatches(stream)

-----------------------------------------------------------------------------
ReadModelInit ==
  /\ kind \in Kinds
  /\ stream = <<>> /\ sent = {} /\ queue = {} /\ working = {} /\ dead = {}
  /\ shown = NoRow /\ items = 0 /\ entries = <<>>
  /\ faults = MaxFaults
  /\ serial = [last |-> 0, inOrder |-> TRUE, once |-> TRUE]

(* Commands on the aggregate, before its events are published: as a queue  *)
(* delivers what it holds in any order, the projections do not tell when.  *)
RaiseEvents ==
  /\ sent = {}
  /\ \E batch \in Batches :
       /\ batch # <<>> /\ Len(stream) + Len(batch) <= MaxEvents[kind]
       /\ stream' = stream \o batch
  /\ UNCHANGED <<kind, sent, queue, working, shown, items, entries, dead, faults, serial>>

PublishEvents ==
  /\ sent = {} /\ stream # <<>>
  /\ sent' = 1 .. Len(stream)
  /\ queue' = [at : sent', tries : {0}]
  /\ UNCHANGED <<kind, stream, working, shown, items, entries, dead, faults, serial>>

(* TestController.triggerDlq *)
PublishPoison ==
  /\ kind = "payment" /\ sent # {} /\ 0 \notin sent
  /\ sent' = sent \union {0}
  /\ queue' = queue \union {[at |-> 0, tries |-> 0]}
  /\ UNCHANGED <<kind, stream, working, shown, items, entries, dead, faults, serial>>

-----------------------------------------------------------------------------
(* handleEvent is called.  serial remembers whether the handlers ran one   *)
(* after the other in the order of the versions (a version may be repeated *)
(* at once), and whether none was repeated; the poison event does not      *)
(* count.  Once out of order, no more needs to be remembered.              *)
OutOfOrder == [last |-> 0, inOrder |-> FALSE, once |-> FALSE]

Begin(d) ==
  /\ d \in queue /\ Cardinality(working) < Prefetch
  /\ Cardinality({earlier \in queue : earlier.at < d.at}) <= MaxOvertaken
  /\ queue' = queue \ {d}
  /\ working' = working \union {[at |-> d.at, tries |-> d.tries, doing |-> "begun",
                                 read |-> NoRow, items |-> 0]}
  /\ serial' = IF d.at = 0 \/ ~serial.inOrder THEN serial
               ELSE IF d.at \in serial.last .. serial.last + 1 /\ \A w \in working : w.at = 0
               THEN [serial EXCEPT !.last = d.at, !.once = @ /\ d.at # serial.last]
               ELSE OutOfOrder
  /\ UNCHANGED <<kind, stream, sent, shown, items, entries, dead, faults>>

(* A slip this code could have had: one retry too many.                    *)
FaultyThrows(w) ==
  /\ working' = working \ {w}
  /\ IF w.tries <= ProjectionRetries
     THEN queue' = queue \union {[at |-> w.at, tries |-> w.tries + 1]} /\ UNCHANGED dead
     ELSE dead' = dead \union {w.at} /\ UNCHANGED queue

(* The handler of w throws: the message is republished with a higher retry *)
(* count or rejected to the dead letter exchange.                          *)
Throws(w) ==
  /\ working' = working \ {w}
  /\ IF w.tries < ProjectionRetries
     THEN queue' = queue \union {[at |-> w.at, tries |-> w.tries + 1]} /\ UNCHANGED dead
     ELSE dead' = dead \union {w.at} /\ UNCHANGED queue

(* The handler of w returns and the message is acknowledged, unless the    *)
(* connection is lost first.                                               *)
Returns(w) ==
  /\ working' = working \ {w}
  /\ UNCHANGED dead
  /\ \/ UNCHANGED <<queue, faults>>
     \/ /\ faults > 0 /\ faults' = faults - 1
        /\ queue' = queue \union {[at |-> w.at, tries |-> w.tries]}

(* A statement fails, or the process dies between two of them.             *)
Interrupted(w) ==
  /\ w \in working /\ faults > 0 /\ faults' = faults - 1
  /\ \/ Throws(w) /\ serial' = IF w.tries < ProjectionRetries THEN serial ELSE OutOfOrder
     \/ /\ working' = working \ {w}
        /\ queue' = queue \union {[at |-> w.at, tries |-> w.tries]}
        /\ UNCHANGED <<dead, serial>>
  /\ UNCHANGED <<kind, stream, sent, shown, items, entries>>

Type(w) == EventAt(w.at).type

(* The statement of handler w that comes next.                             *)
SavesItem(w) == kind = "order" /\ Type(w) = "ITEM_ADDED" /\ w.doing = "begun"

Creates(w) == kind # "history" /\ Type(w) = "CREATED"

Ignores(w) == \/ kind = "order" /\ Type(w) = "PAYMENT_FAILED"
              \/ kind = "history" /\ Type(w) \in {"PAID", "PAYMENT_FAILED"}

Reads(w) ==
  /\ ~SavesItem(w) /\ ~Creates(w) /\ ~Ignores(w) /\ Type(w) # "TEST_POISON_EVENT"
  /\ w.doing # "read"
  /\ kind = "history" => Type(w) = "CANCELLED"

(* No case of the switch, or findById found no row: nothing to do.         *)
Skip(w) ==
  /\ w \in working
  /\ Ignores(w) \/ (kind # "history" /\ w.doing = "read" /\ w.read = NoRow)
  /\ Returns(w)
  /\ UNCHANGED <<kind, stream, sent, shown, items, entries, serial>>

Poisoned(w) ==
  /\ w \in working /\ Type(w) = "TEST_POISON_EVENT"
  /\ Throws(w)
  /\ UNCHANGED <<kind, stream, sent, shown, items, entries, faults, serial>>

(* saveItem: every call adds a row, its id is random; order_items.order_id *)
(* refers to a row of orders.                                              *)
SaveItem(w) ==
  /\ w \in working /\ SavesItem(w)
  /\ IF shown = NoRow THEN Throws(w) /\ UNCHANGED items
     ELSE /\ items' = items + 1
          /\ working' = (working \ {w}) \union {[w EXCEPT !.doing = "saved"]}
          /\ UNCHANGED <<queue, dead>>
  /\ UNCHANGED <<kind, stream, sent, shown, entries, faults, serial>>

(* findById, findLatestByOrderId *)
ReadRow(w) ==
  /\ w \in working /\ Reads(w)
  /\ working' = (working \ {w}) \union
                  {[w EXCEPT !.doing = "read", !.read = shown,
                             !.items = IF kind = "history" THEN Len(entries) ELSE items]}
  /\ UNCHANGED <<kind, stream, sent, queue, shown, items, entries, dead, faults, serial>>

-----------------------------------------------------------------------------
(* What the handlers write: the whole row, copied from the one they read   *)
(* but for what the event says.                                            *)
OrderRow(w) ==
  LET to(status) == [w.read.view EXCEPT !.status = status]
  IN CASE Type(w) = "CREATED" -> [status |-> "DRAFT", items |-> 0, tracking |-> FALSE]
       [] Type(w) = "ITEM_ADDED" -> [w.read.view EXCEPT !.items = w.items]
       [] Type(w) = "CONFIRMED" -> to("AWAITING_INVENTORY")
       [] Type(w) = "SHIPPED" -> [to("SHIPPED") EXCEPT !.tracking = TRUE]
       [] OTHER -> to(Type(w))

PaymentRow(w) ==
  LET to == [w.read.view EXCEPT !.status = Type(w)]
      cleared == [to EXCEPT !.reason = FALSE, !.refunded = 0]
  IN CASE Type(w) = "CREATED" -> [status |-> "PENDING", transaction |-> FALSE,
                                  reason |-> FALSE, refunded |-> 0, processed |-> FALSE]
       [] Type(w) = "PROCESSING" -> to
       [] Type(w) = "COMPLETED" -> [cleared EXCEPT !.transaction = TRUE, !.processed = TRUE]
       [] Type(w) = "FAILED" -> [cleared EXCEPT !.reason = TRUE, !.processed = TRUE]
       [] Type(w) = "REFUNDED" -> [cleared EXCEPT !.refunded = EventAt(w.at).amount]

ProductRow(w) ==
  LET e == EventAt(w.at)
  IN CASE e.type = "CREATED" -> [name |-> e.name, level |-> e.level, active |-> TRUE]
       [] e.type = "UPDATED" -> [w.read.view EXCEPT !.name = IF e.name = 0 THEN @ ELSE e.name]
       [] e.type = "STOCK_UPDATED" -> [w.read.view EXCEPT !.level = e.level]
       [] OTHER -> [w.read.view EXCEPT !.active = e.type = "ACTIVATED"]

(* A slip this code could have had: no trigger.                            *)
FaultyRefused(w) == FALSE

(* The trigger of table orders: an update must raise the version.          *)
Refused(w) == shown # NoRow /\ w.at <= shown.at

(* upsert                                                                  *)
Writes(w, k) ==
  /\ w \in working /\ kind = k
  /\ Creates(w) \/ (w.doing = "read" /\ w.read # NoRow)

Stored(w, view) == shown' = [at |-> w.at, view |-> view] /\ Returns(w)

WriteOrder(w) ==
  /\ Writes(w, "order")
  /\ IF Refused(w) THEN Throws(w) /\ UNCHANGED <<shown, faults>> ELSE Stored(w, OrderRow(w))
  /\ UNCHANGED <<kind, stream, sent, items, entries, serial>>

(* The tables of payments and products have no version.                    *)
WritePayment(w) ==
  /\ Writes(w, "payment") /\ Stored(w, PaymentRow(w))
  /\ UNCHANGED <<kind, stream, sent, items, entries, serial>>

WriteProduct(w) ==
  /\ Writes(w, "product") /\ Stored(w, ProductRow(w))
  /\ UNCHANGED <<kind, stream, sent, items, entries, serial>>

(* previousState and newState of an entry.                                 *)
HistoryEntry(w) ==
  LET entry(from, to) == [at |-> w.at, from |-> from, to |-> to]
  IN CASE Type(w) = "CREATED" -> entry("none", "DRAFT")
       [] Type(w) = "ITEM_ADDED" -> entry("DRAFT", "DRAFT")
       [] Type(w) = "CONFIRMED" -> entry("DRAFT", "CONFIRMED")
       [] Type(w) = "SHIPPED" -> entry("CONFIRMED", "SHIPPED")
       [] Type(w) = "CANCELLED" -> entry(IF w.items = 0 THEN "UNKNOWN" ELSE entries[w.items].to,
                                         "CANCELLED")
       [] OTHER -> entry("AWAITING_INVENTORY", Type(w))

(* create *)
WriteHistory(w) ==
  /\ w \in working /\ kind = "history" /\ ~Ignores(w) /\ ~Reads(w)
  /\ entries' = Append(entries, HistoryEntry(w))
  /\ Returns(w)
  /\ UNCHANGED <<kind, stream, sent, shown, items, serial>>

-----------------------------------------------------------------------------
Handle(w) == Skip(w) \/ Poisoned(w) \/ SaveItem(w) \/ ReadRow(w)
             \/ WriteOrder(w) \/ WritePayment(w) \/ WriteProduct(w) \/ WriteHistory(w)

(* The consumer and its handlers at work.                                  *)
ProjectionStep == (\E d \in queue : Begin(d)) \/ (\E w \in working : Handle(w))

ReadModelNext ==
  \/ RaiseEvents \/ PublishEvents \/ PublishPoison
  \/ ProjectionStep
  \/ \E w \in working : Interrupted(w)

-----------------------------------------------------------------------------
(* Types.                                                                  *)
Deliveries == [at : 0 .. MaxEvents[kind], tries : 0 .. ProjectionRetries]

ReadModelTypeOK ==
  /\ Len(stream) <= MaxEvents[kind] /\ sent \subseteq 0 .. Len(stream)
  /\ queue \subseteq Deliveries
  /\ {[at |-> w.at, tries |-> w.tries] : w \in working} \subseteq Deliveries
  /\ Cardinality(working) <= Prefetch
  /\ dead \subseteq sent /\ shown.at \in sent \union {0}
  /\ items \in Nat /\ faults \in 0 .. MaxFaults

(* Whatever order the events of an order arrive in, and however often, its *)
(* row tells the status the order had at the version the row carries.      *)
OrderRowIsItsVersion ==
  kind = "order" /\ shown # NoRow =>
    LET then == AggregateView("order", SubSeq(stream, 1, shown.at))
    IN shown.view.status = then.status /\ shown.view.tracking = then.tracking

Drained == sent # {} /\ queue = {} /\ working = {}

(* "Event handlers that update read models" (README.md:85): when the       *)
(* events were handled one after the other, each perhaps more than once,   *)
(* the read model ends as the aggregate: the row shows its state, and the  *)
(* history has its entries in order, one for each event handled.           *)
DrainedReadModelFollows ==
  Drained /\ serial.inOrder =>
    LET now == AggregateView(kind, stream)
        recorded == {v \in 1 .. Len(stream) : stream[v].type \notin {"PAID", "PAYMENT_FAILED"}}
    IN CASE kind = "order" ->
              /\ shown.view.status = now.status /\ shown.view.tracking = now.tracking
              /\ shown.view.items >= now.items
              /\ serial.once => shown.view.items = now.items
         [] kind = "history" ->
              /\ \A i \in 2 .. Len(entries) : entries[i - 1].at <= entries[i].at
              /\ {entry.at : entry \in ToSet(entries)} = recorded
              /\ serial.once => Len(entries) = Cardinality(recorded)
              /\ \A entry \in ToSet(entries) : entry.from # "UNKNOWN"
         [] OTHER -> shown.view = now

(* A read model shows a state the aggregate had, and the last one when its *)
(* events came in order.                                                   *)
ReadModelFollows == OrderRowIsItsVersion /\ DrainedReadModelFollows
=============================================================================
