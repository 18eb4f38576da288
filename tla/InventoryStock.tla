--------------------------- MODULE InventoryStock ---------------------------
(***************************************************************************)
(* The stock of the admin panel: Inventory aggregates, their command       *)
(* handlers, the lookup of an inventory by its product and the projection  *)
(* that keeps tables inventory_read_model and stock_reservations.  A       *)
(* command is one step (AggregateStore is about its races); it emits its   *)
(* events in the process, where the projection's handlers run next to each *)
(* other, awaiting the database between their statements.                  *)
(***************************************************************************)
EXTENDS Naturals, Sequences, SequencesExt, FiniteSetsExt

CONSTANTS Inventories,   \* inventory identifiers
          ProductOf,     \* productId of each one
          StockOrders,   \* orders that reserve stock
          NoStockOrder,  \* an event that is about no order
          Quantities,    \* quantities asked for
          EventLimit,    \* limit of getEventsByAggregateType, 1000
          MaxStockLog,   \* bound: events of all inventories
          MaxProjecting, \* bound: projection handlers at work
          MaxLost        \* bound: events stored and never emitted

ASSUME StockAssumption ==
  /\ Quantities \subseteq Nat /\ {EventLimit, MaxStockLog, MaxProjecting, MaxLost} \subseteq Nat

VARIABLES
  stockLog,    \* events of type Inventory in the event store, oldest first
  projecting,  \* projection handlers at work: the event, what they do next
  stockRow,    \* table inventory_read_model
  listed,      \* table stock_reservations
  lost,        \* how many events were stored but not emitted
  overlapped   \* history: two handlers of an inventory have run together

stockVars == <<stockLog, projecting, stockRow, listed, lost, overlapped>>

(* total: newTotal, initialStock or newTotalStock; quantity: of the order. *)
StockEvent(i, t, o, quantity, total) ==
  [inv |-> i, type |-> t, order |-> o, quantity |-> quantity, total |-> total]

-----------------------------------------------------------------------------
(* The aggregate.                                                          *)
NewInventory ==
  [total |-> 0, reserved |-> 0, resv |-> [o \in StockOrders |-> [status |-> "NONE", quantity |-> 0]]]

StockApply(s, e) ==
  CASE e.type = "CREATED"  -> [s EXCEPT !.total = e.total, !.reserved = 0]
    [] e.type = "ADDED"    -> [s EXCEPT !.total = e.total]
    [] e.type = "RESERVED" -> [s EXCEPT !.reserved = @ + e.quantity,
                                        !.resv[e.order] = [status |-> "PENDING", quantity |-> e.quantity]]
    [] e.type = "CONFIRMED" -> [s EXCEPT !.total = e.total, !.resv[e.order].status = "CONFIRMED",
                                         !.reserved = @ - s.resv[e.order].quantity]
    [] e.type = "RELEASED" -> [s EXCEPT !.resv[e.order].status = "RELEASED",
                                        !.reserved = @ - s.resv[e.order].quantity]
    [] e.type = "RESERVATION_FAILED" -> s

StockFrom(history) == FoldLeft(StockApply, NewInventory, history)

Keeping(i, history, e) == IF e.inv = i THEN Append(history, e) ELSE history

(* getEvents: those of one aggregate.                                      *)
History(i, events) ==
  LET kept[n \in 0 .. Len(events)] ==
        IF n = 0 THEN <<>> ELSE Keeping(i, kept[n - 1], events[n])
  IN kept[Len(events)]

Stock(i) == StockFrom(History(i, stockLog))

Free(s) == s.total - s.reserved

(* The methods: the events a call may raise, {} when it throws.            *)
AddStock(i, s, quantity) ==
  {StockEvent(i, "ADDED", NoStockOrder, quantity, s.total + q) : q \in {quantity} \ {0}}

(* Too little stock is an event; only then is a reservation that exists    *)
(* refused, whatever became of it.                                         *)
ReserveStock(i, s, o, quantity) ==
  IF quantity > Free(s) THEN {StockEvent(i, "RESERVATION_FAILED", o, quantity, s.total)}
  ELSE IF s.resv[o].status # "NONE" THEN {}
  ELSE {StockEvent(i, "RESERVED", o, quantity, s.total)}

(* A slip this code could have had: any reservation can be confirmed.      *)
FaultyConfirmReservation(i, s, o) ==
  IF s.resv[o].status = "NONE" THEN {}
  ELSE {StockEvent(i, "CONFIRMED", o, s.resv[o].quantity, s.total - s.resv[o].quantity)}

ConfirmReservation(i, s, o) ==
  IF s.resv[o].status # "PENDING" THEN {}
  ELSE {StockEvent(i, "CONFIRMED", o, s.resv[o].quantity, s.total - s.resv[o].quantity)}

ReleaseReservation(i, s, o) ==
  IF s.resv[o].status # "PENDING" THEN {}
  ELSE {StockEvent(i, "RELEASED", o, s.resv[o].quantity, s.total)}

-----------------------------------------------------------------------------
(* getEventsByAggregateType: the latest EventLimit events.                 *)
Fetched ==
  SubSeq(stockLog, IF Len(stockLog) <= EventLimit THEN 1 ELSE Len(stockLog) - EventLimit + 1,
         Len(stockLog))

(* findByProductId: of the inventories whose creation was fetched and has  *)
(* the product, the one with the latest event; {} when there is none.      *)
FindByProductId(p) ==
  LET created == {i \in Inventories : ProductOf[i] = p /\
                    \E e \in ToSet(Fetched) : e.inv = i /\ e.type = "CREATED"}
      last(i) == Max({n \in 1 .. Len(Fetched) : Fetched[n].inv = i})
  IN {i \in created : \A other \in created : last(other) <= last(i)}

-----------------------------------------------------------------------------
StockInit ==
  /\ stockLog = <<>> /\ projecting = {} /\ lost = 0 /\ overlapped = FALSE
  /\ stockRow = [i \in Inventories |-> [kept |-> FALSE]]
  /\ listed = [i \in Inventories |-> [o \in StockOrders |-> "NONE"]]

(* saveInventory: the event is stored, put in the outbox and emitted;      *)
(* when the outbox refuses it, or the process dies, it is not emitted.     *)
(* Nothing listens to a failed reservation but the log.                    *)
SaveInventory(events) ==
  /\ Len(stockLog) < MaxStockLog /\ Cardinality(projecting) < MaxProjecting
  /\ \E e \in events :
       LET job == [inv |-> e.inv, at |-> Len(History(e.inv, stockLog)) + 1, doing |-> "begun",
                   read |-> [kept |-> FALSE]]
       IN /\ stockLog' = Append(stockLog, e)
          /\ \/ /\ projecting' = IF e.type = "RESERVATION_FAILED" THEN projecting
                                 ELSE projecting \union {job}
                /\ overlapped' = (overlapped \/ \E other \in projecting : other.inv = e.inv)
                /\ UNCHANGED lost
             \/ /\ lost < MaxLost
                /\ lost' = lost + 1
                /\ UNCHANGED <<projecting, overlapped>>
  /\ UNCHANGED <<stockRow, listed>>

Exists(i) == History(i, stockLog) # <<>>

(* The handlers.  An inventory can be created for any product.             *)
CreateInventory(i) ==
  /\ ~Exists(i)
  /\ SaveInventory({StockEvent(i, "CREATED", NoStockOrder, 0, n) : n \in Quantities})

AddStockTo(i) ==
  Exists(i) /\ SaveInventory(UNION {AddStock(i, Stock(i), n) : n \in Quantities})

ReserveStockOf(i, o) ==
  Exists(i) /\ SaveInventory(UNION {ReserveStock(i, Stock(i), o, n) : n \in Quantities \ {0}})

(* The aggregate is rebuilt from the events that were fetched and saved    *)
(* against the version of the last of them.                                *)
ReserveByProduct(p, o) ==
  \E i \in FindByProductId(p) :
    /\ Len(History(i, Fetched)) = Len(History(i, stockLog))
    /\ SaveInventory(UNION {ReserveStock(i, StockFrom(History(i, Fetched)), o, n) :
                              n \in Quantities \ {0}})

ConfirmStock(i, o) == Exists(i) /\ SaveInventory(ConfirmReservation(i, Stock(i), o))

ReleaseStock(i, o) == Exists(i) /\ SaveInventory(ReleaseReservation(i, Stock(i), o))

(* getReservationByOrderId returns one of the rows, whatever its status.   *)
ReleaseByOrder(o) == \E i \in {j \in Inventories : listed[j][o] # "NONE"} : ReleaseStock(i, o)

-----------------------------------------------------------------------------
(* InventoryProjection.                                                    *)
EventOf(job) == History(job.inv, stockLog)[job.at]

Proceed(job, doing, read) ==
  projecting' = (projecting \ {job}) \union {[job EXCEPT !.doing = doing, !.read = read]}

Handled(job) == projecting' = projecting \ {job}

(* onInventoryItemCreated.  product_id is unique: the row of a second      *)
(* inventory of a product is refused, and the error logged.                *)
ProjectCreated(job) ==
  LET i == job.inv
  IN /\ EventOf(job).type = "CREATED"
     /\ Handled(job)
     /\ IF \E j \in Inventories \ {i} : ProductOf[j] = ProductOf[i] /\ stockRow[j].kept
        THEN UNCHANGED stockRow
        ELSE stockRow' = [stockRow EXCEPT ![i] = [kept |-> TRUE, total |-> EventOf(job).total, reserved |-> 0]]
     /\ UNCHANGED listed

(* findById; without a row the event is dropped.                           *)
FindRow(job) ==
  /\ EventOf(job).type # "CREATED" /\ job.doing = "begun"
  /\ IF ~stockRow[job.inv].kept THEN Handled(job) ELSE Proceed(job, "read", stockRow[job.inv])
  /\ UNCHANGED <<stockRow, listed>>

(* A slip this code could have had: what a confirmation takes stays        *)
(* reserved.                                                               *)
FaultyChangedRow(job) ==
  LET e == EventOf(job)
  IN [kept |-> TRUE,
      total |-> IF e.type \in {"ADDED", "CONFIRMED"} THEN e.total ELSE job.read.total,
      reserved |-> CASE e.type = "RESERVED" -> job.read.reserved + e.quantity
                     [] e.type = "RELEASED" -> job.read.reserved - e.quantity
                     [] OTHER -> job.read.reserved]

(* The row as it was read, changed by the event.                           *)
ChangedRow(job) ==
  LET e == EventOf(job)
  IN [kept |-> TRUE,
      total |-> IF e.type \in {"ADDED", "CONFIRMED"} THEN e.total ELSE job.read.total,
      reserved |-> CASE e.type = "RESERVED" -> job.read.reserved + e.quantity
                     [] e.type = "ADDED" -> job.read.reserved
                     [] OTHER -> job.read.reserved - e.quantity]

(* upsert *)
UpsertRow(job) ==
  /\ job.doing = "read"
  /\ stockRow' = [stockRow EXCEPT ![job.inv] = ChangedRow(job)]
  /\ IF EventOf(job).type = "ADDED" THEN Handled(job) ELSE Proceed(job, "upserted", [kept |-> FALSE])
  /\ UNCHANGED listed

(* saveReservation inserts or resets, updateReservationStatus changes the  *)
(* row when there is one.                                                  *)
ListReservation(job) ==
  LET e == EventOf(job)
  IN /\ job.doing = "upserted"
     /\ listed' = [listed EXCEPT ![job.inv][e.order] =
                     IF e.type = "RESERVED" THEN "PENDING"
                     ELSE IF @ = "NONE" THEN "NONE" ELSE e.type]
     /\ Handled(job)
     /\ UNCHANGED stockRow

ProjectStock ==
  /\ \E job \in projecting : \/ ProjectCreated(job) \/ FindRow(job)
                             \/ UpsertRow(job) \/ ListReservation(job)
  /\ UNCHANGED <<stockLog, lost, overlapped>>

StockCommand ==
  \/ \E i \in Inventories : CreateInventory(i) \/ AddStockTo(i)
  \/ \E i \in Inventories, o \in StockOrders : ReserveStockOf(i, o) \/ ConfirmStock(i, o) \/ ReleaseStock(i, o)
  \/ \E i \in Inventories, o \in StockOrders : ReserveByProduct(ProductOf[i], o)
  \/ \E o \in StockOrders : ReleaseByOrder(o)

StockNext == StockCommand \/ ProjectStock

StockSpec == StockInit /\ [][StockNext]_stockVars

-----------------------------------------------------------------------------
StockTypeOK ==
  /\ Len(stockLog) <= MaxStockLog
  /\ lost \in 0 .. MaxLost
  /\ DOMAIN stockRow = Inventories
  /\ listed \in [Inventories -> [StockOrders -> {"NONE", "PENDING", "CONFIRMED", "RELEASED"}]]
  /\ overlapped \in BOOLEAN

(* findByProductId never rebuilds an inventory from a part of its events,  *)
(* however many there are: the fetched events are the latest.              *)
LookupIsWhole ==
  \A i \in Inventories : \A found \in FindByProductId(ProductOf[i]) :
    History(found, Fetched) = History(found, stockLog)

(* What has come in by event e, on top of n.                               *)
Coming(n, e) ==
  n + (CASE e.type = "CREATED" -> e.total [] e.type = "ADDED" -> e.quantity [] OTHER -> 0)

(* inventory.aggregate.ts: stock is neither promised nor handed out twice: *)
(* what is reserved is what the pending reservations ask for and never     *)
(* more than there is, and stock leaves once for a confirmed one; that     *)
(* holds for stock found by product too, as its lookup is whole.           *)
StockIsNeverOversold ==
  LookupIsWhole /\
  \A i \in Inventories :
    LET s == Stock(i)
        sum(status) == MapThenSumSet(LAMBDA o : s.resv[o].quantity,
                                     {o \in StockOrders : s.resv[o].status = status})
        come == FoldLeft(Coming, 0, History(i, stockLog))
    IN /\ s.reserved = sum("PENDING") /\ s.reserved <= s.total
       /\ s.total + sum("CONFIRMED") = come

(* inventory.projection.ts: as long as no event is lost and no two of an   *)
(* inventory are handled together, the read model ends as the aggregates,  *)
(* an inventory of its own product having its row and every reservation    *)
(* its status.                                                             *)
StockRowFollows ==
  projecting = {} /\ lost = 0 /\ ~overlapped =>
    \A i \in {j \in Inventories : Exists(j)} :
      IF \A other \in Inventories \ {i} : Exists(other) => ProductOf[other] # ProductOf[i]
      THEN /\ stockRow[i].total = Stock(i).total
           /\ stockRow[i].reserved = Stock(i).reserved
           /\ \A o \in StockOrders : listed[i][o] = Stock(i).resv[o].status
      ELSE \A o \in StockOrders : listed[i][o] \in {"NONE", Stock(i).resv[o].status}
=============================================================================
