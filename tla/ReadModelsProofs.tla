-------------------------- MODULE ReadModelsProofs --------------------------
(***************************************************************************)
(* Theorems about the read models of the order service, for any number of  *)
(* events, handlers, retries and faults, and about the types of all parts  *)
(* of the services.                                                        *)
(***************************************************************************)
EXTENDS ServicesProofs, OutboxProofs

StreamKind == IF kind = "history" THEN "order" ELSE kind

Reached(k, b) ==
  CASE k = "order"   -> Rehydrate(b)
    [] k = "payment" -> PaymentFrom(b)
    [] k = "product" -> ProductFrom(b)

StateAt(k, b, v) == Reached(k, SubSeq(b, 1, v))

StatesOf(k) ==
  CASE k = "order"   -> [status : OrderStatus, items : Nat, failures : Nat, payment : Payments \union {NoPayment}]
    [] k = "payment" -> [status : PaymentStatuses, transaction : BOOLEAN, reason : BOOLEAN, refunded : Nat,
                         processed : BOOLEAN]
    [] k = "product" -> [name : Nat, level : Levels \union {0}, active : BOOLEAN]

EventsOf(k) ==
  CASE k = "order"   -> [type : OrderEventType, payment : Payments \union {NoPayment}, n : Nat]
    [] k = "payment" -> [type : {"CREATED", "PROCESSING", "COMPLETED", "FAILED", "REFUNDED"}, amount : Nat]
    [] k = "product" -> [type : {"CREATED", "UPDATED", "STOCK_UPDATED", "ACTIVATED", "DEACTIVATED", "DELETED"},
                         name : Nat, level : Levels \union {0}]

(* Nothing follows a shipment, items are added to drafts, and what is not a*)
(* draft any more does not become one again.                               *)
OrderEventFits(before, e) ==
  /\ before.status # "SHIPPED"
  /\ e.type = "ITEM_ADDED" => before.status = "DRAFT"

(* A payment has failed or been refunded once at most, and last.           *)
PaymentEventFits(before, e) ==
  /\ before.status \in {"PENDING", "PROCESSING", "COMPLETED"}
  /\ ~before.reason /\ before.refunded = 0

EventFits(k, before, e) ==
  CASE k = "order"   -> OrderEventFits(before, e)
    [] k = "payment" -> PaymentEventFits(before, e)
    [] k = "product" -> TRUE

Open(k, s) == k = "payment" /\ s.status \in {"PENDING", "PROCESSING", "COMPLETED"} => ~s.reason /\ s.refunded = 0

Lawful(k, b) ==
  /\ b \in Seq(EventsOf(k))
  /\ \A v \in 0 .. Len(b) : StateAt(k, b, v) \in StatesOf(k) /\ Open(k, StateAt(k, b, v))
  /\ \A v \in 1 .. Len(b) : /\ b[v].type = "CREATED" <=> v = 1
                            /\ EventFits(k, StateAt(k, b, v - 1), b[v])
  /\ k = "order" => \A v \in 0 .. Len(b) : \A u \in 0 .. v :
                      StateAt(k, b, v).status = "DRAFT" => StateAt(k, b, u).status = "DRAFT"

State(v) == StateAt(StreamKind, stream, v)

-----------------------------------------------------------------------------
Views ==
  CASE kind = "order"   -> [status : OrderStatus, items : Nat, tracking : BOOLEAN]
    [] kind = "payment" -> StatesOf("payment")
    [] kind = "product" -> StatesOf("product")
    [] kind = "history" -> {}

Rows == [at : 1 .. Len(stream), view : Views]

IsRow(r) == r = NoRow \/ r \in Rows

Works == [at : sent, tries : Nat, doing : {"begun", "saved", "read"}, read : Rows \union {NoRow}, items : Nat]

HistoryStates == OrderStatus \union OrderEventType \union {"none", "UNKNOWN"}

HistoryEntries == [at : 1 .. Len(stream), from : HistoryStates, to : HistoryStates]

Quiet == queue = {} /\ working = {} /\ dead = {} /\ shown = NoRow /\ items = 0 /\ entries = <<>>
         /\ serial = [last |-> 0, inOrder |-> TRUE, once |-> TRUE]

ReadModelTypes ==
  /\ kind \in Kinds /\ Lawful(StreamKind, stream)
  /\ \/ sent = {} /\ Quiet
     \/ stream # <<>> /\ sent \in {1 .. Len(stream), 0 .. Len(stream)}
  /\ 0 \in sent => kind = "payment"
  /\ queue \subseteq [at : sent, tries : Nat] /\ working \subseteq Works
  /\ IsRow(shown) /\ items \in Nat /\ entries \in Seq(HistoryEntries)
  /\ serial \in [last : Nat, inOrder : BOOLEAN, once : BOOLEAN]

(* A handler that has read is one that had to.                             *)
ReadersRead ==
  \A w \in working :
    /\ w.doing = "read" => /\ ~Creates(w) /\ ~Ignores(w) /\ w.at # 0
                           /\ kind = "history" => Type(w) = "CANCELLED"
    /\ w.doing = "saved" => kind = "order" /\ Type(w) = "ITEM_ADDED"
    /\ kind = "history" => w.items \in 0 .. Len(entries)

(* What the row of an order says, and what its handlers have read.         *)
RowTells(r) ==
  r # NoRow => /\ r.view.status = State(r.at).status
               /\ r.view.tracking = (State(r.at).status = "SHIPPED")

RowsTell ==
  kind = "order" =>
    RowTells(shown) /\ \A w \in working : RowTells(w.read) /\ w.read.at <= shown.at

-----------------------------------------------------------------------------
Recorded(v) == {u \in 1 .. v : stream[u].type \notin {"PAID", "PAYMENT_FAILED"}}

Exactly(x, n) == IF serial.once THEN x = n ELSE x >= n

(* The read model shows the first v events.                                *)
Shows(v) ==
  CASE kind = "order"   -> IF v = 0 THEN shown = NoRow
                           ELSE /\ shown.at \in 1 .. v /\ State(shown.at).status = State(v).status
                                /\ Exactly(shown.view.items, State(v).items)
    [] kind = "history" -> /\ \A i \in 1 .. Len(entries) : entries[i].from # "UNKNOWN" /\ entries[i].to # "UNKNOWN"
                           /\ \A i, j \in 1 .. Len(entries) : i <= j => entries[i].at <= entries[j].at
                           /\ {entries[i].at : i \in 1 .. Len(entries)} = Recorded(v)
                           /\ serial.once => Len(entries) = Cardinality(Recorded(v))
    [] OTHER            -> IF v = 0 THEN shown = NoRow ELSE shown.at # 0 /\ shown.view = State(v)

ItemSaved(w) == Type(w) = "ITEM_ADDED" /\ w.doing # "begun"

(* The rows of order_items, as far as the handler of w has come.           *)
ItemsMatch(w) == Exactly(items, State(IF ItemSaved(w) THEN serial.last ELSE serial.last - 1).items)

(* The last event begun has been dealt with.                               *)
Done ==
  /\ Shows(serial.last)
  /\ kind = "order" => Exactly(items, State(serial.last).items)
  /\ \A w \in working : w.at # 0 => ~serial.once

(* The last event begun is in a handler, or will be again.                 *)
Underway ==
  /\ serial.last > 0 /\ Shows(serial.last - 1)
  /\ \E x \in queue \union working : x.at = serial.last
  /\ kind = "order" =>
       /\ items >= State(serial.last - 1).items
       /\ \A w \in working : w.at # 0 => ItemsMatch(w)

(* An earlier event waits: when it is begun the order will be lost.        *)
Doomed == \E d \in queue : d.at \in 1 .. serial.last - 1

InHandNow(w) ==
  /\ w.at = serial.last
  /\ w.doing = "read" => /\ w.read = shown
                         /\ kind = "order" => w.items = items
                         /\ kind = "history" => w.items = Len(entries)

HandledInOrder ==
  serial.inOrder =>
    /\ serial.last \in 0 .. Len(stream)
    /\ sent # {} => \A v \in serial.last + 1 .. Len(stream) : \E d \in queue : d.at = v
    /\ \A w, x \in working : w.at # 0 /\ x.at # 0 => w = x
    /\ \A w \in working : w.at # 0 => InHandNow(w)
    /\ Doomed \/ Done \/ Underway

ReadModelInv == ReadModelTypes /\ ReadersRead /\ RowsTell /\ HandledInOrder

LEMMA OrderFolds ==
  ASSUME NEW S, NEW b \in Seq(S) PROVE FoldsTo("order", NewOrder, b, Rehydrate(b))
<1> DEFINE n == Len(b)
           Is(f) == f = [s \in SUBSET (1 .. n) |->
                           IF s = {} THEN NewOrder ELSE Apply(f[s \ {Max(s)}], b[Max(s)])]
<1>a. \A y, e : FoldStep("order", y, e) = Apply(y, e)
  BY DEF FoldStep
<1>1. \A f : Is(f) <=> Folding("order", NewOrder, b, f, n)
  BY <1>a DEF Folding
<1>2. \E f : Is(f)
  <2> HIDE DEF Is
  <2>1. n \in Nat
    OBVIOUS
  <2>2. PICK f : Folding("order", NewOrder, b, f, n)
    BY <2>1, FoldingExists
  <2> QED BY <1>1, <2>2
<1>3. DOMAIN b = 1 .. n
  OBVIOUS
<1>4. Rehydrate(b) = (CHOOSE f : Is(f))[UpTo(n)]
  BY <1>3 DEF Rehydrate, Replay, FoldLeft, MapThenFoldSet, UpTo
<1> HIDE DEF Is
<1> QED BY <1>1, <1>2, <1>4 DEF FoldsTo

LEMMA PaymentFolds ==
  ASSUME NEW S, NEW b \in Seq(S) PROVE FoldsTo("payment", NewPayment, b, PaymentFrom(b))
<1> DEFINE n == Len(b)
           Is(f) == f = [s \in SUBSET (1 .. n) |->
                           IF s = {} THEN NewPayment ELSE PaymentApply(f[s \ {Max(s)}], b[Max(s)])]
<1>a. \A y, e : FoldStep("payment", y, e) = PaymentApply(y, e)
  BY DEF FoldStep
<1>1. \A f : Is(f) <=> Folding("payment", NewPayment, b, f, n)
  BY <1>a DEF Folding
<1>2. \E f : Is(f)
  <2> HIDE DEF Is
  <2>1. n \in Nat
    OBVIOUS
  <2>2. PICK f : Folding("payment", NewPayment, b, f, n)
    BY <2>1, FoldingExists
  <2> QED BY <1>1, <2>2
<1>3. DOMAIN b = 1 .. n
  OBVIOUS
<1>4. PaymentFrom(b) = (CHOOSE f : Is(f))[UpTo(n)]
  BY <1>3 DEF PaymentFrom, FoldLeft, MapThenFoldSet, UpTo
<1> HIDE DEF Is
<1> QED BY <1>1, <1>2, <1>4 DEF FoldsTo

FirstProduct == [name |-> 0, level |-> 0, active |-> TRUE]

LEMMA ProductFolds ==
  ASSUME NEW S, NEW b \in Seq(S) PROVE FoldsTo("product", FirstProduct, b, ProductFrom(b))
<1> DEFINE n == Len(b)
           Is(f) == f = [s \in SUBSET (1 .. n) |->
                           IF s = {} THEN FirstProduct ELSE ProductApply(f[s \ {Max(s)}], b[Max(s)])]
<1>a. \A y, e : FoldStep("product", y, e) = ProductApply(y, e)
  BY DEF FoldStep
<1>1. \A f : Is(f) <=> Folding("product", FirstProduct, b, f, n)
  BY <1>a DEF Folding
<1>2. \E f : Is(f)
  <2> HIDE DEF Is
  <2>1. n \in Nat
    OBVIOUS
  <2>2. PICK f : Folding("product", FirstProduct, b, f, n)
    BY <2>1, FoldingExists
  <2> QED BY <1>1, <2>2
<1>3. DOMAIN b = 1 .. n
  OBVIOUS
<1>4. ProductFrom(b) = (CHOOSE f : Is(f))[UpTo(n)]
  BY <1>3 DEF ProductFrom, FoldLeft, MapThenFoldSet, UpTo, FirstProduct
<1> HIDE DEF Is
<1> QED BY <1>1, <1>2, <1>4 DEF FoldsTo

Streams == {"order", "payment", "product"}

FirstState(k) ==
  CASE k = "order" -> NewOrder [] k = "payment" -> NewPayment [] k = "product" -> FirstProduct

LEMMA ReachedFolds ==
  ASSUME NEW k \in Streams, NEW S, NEW b \in Seq(S) PROVE FoldsTo(k, FirstState(k), b, Reached(k, b))
<1>1. CASE k = "order"
  BY <1>1, OrderFolds DEF Reached, FirstState
<1>2. CASE k = "payment"
  BY <1>2, PaymentFolds DEF Reached, FirstState
<1>3. CASE k = "product"
  BY <1>3, ProductFolds DEF Reached, FirstState
<1> QED BY <1>1, <1>2, <1>3 DEF Streams

LEMMA ReachedAppend ==
  ASSUME NEW k \in Streams, NEW S, NEW b \in Seq(S), NEW e \in S
  PROVE  Reached(k, Append(b, e)) = FoldStep(k, Reached(k, b), e)
<1>1. Append(b, e) \in Seq(S)
  OBVIOUS
<1>2. FoldsTo(k, FirstState(k), b, Reached(k, b))
  BY ReachedFolds
<1>3. FoldsTo(k, FirstState(k), Append(b, e), Reached(k, Append(b, e)))
  BY <1>1, ReachedFolds
<1> QED BY <1>2, <1>3, FoldsToStep

LEMMA ReachedStart == ASSUME NEW k \in Streams PROVE Reached(k, <<>>) = FirstState(k)
<1>1. <<>> \in Seq({})
  OBVIOUS
<1>2. FoldsTo(k, FirstState(k), <<>>, Reached(k, <<>>))
  BY <1>1, ReachedFolds
<1> QED BY <1>2, FoldsToStart

(* The beginnings of a stream.                                             *)
LEMMA Beginnings ==
  ASSUME NEW S, NEW b \in Seq(S)
  PROVE  /\ SubSeq(b, 1, 0) = <<>> /\ SubSeq(b, 1, Len(b)) = b
         /\ \A v \in 0 .. Len(b) : SubSeq(b, 1, v) \in Seq(S)
         /\ \A v \in 1 .. Len(b) : SubSeq(b, 1, v) = Append(SubSeq(b, 1, v - 1), b[v])
         /\ \A e \in S : \A v \in 0 .. Len(b) : SubSeq(Append(b, e), 1, v) = SubSeq(b, 1, v)
OBVIOUS

LEMMA StatesStep ==
  ASSUME NEW k \in Streams, NEW S, NEW b \in Seq(S)
  PROVE  /\ StateAt(k, b, 0) = FirstState(k) /\ StateAt(k, b, Len(b)) = Reached(k, b)
         /\ \A v \in 1 .. Len(b) : StateAt(k, b, v) = FoldStep(k, StateAt(k, b, v - 1), b[v])
         /\ \A e \in S : /\ \A v \in 0 .. Len(b) : StateAt(k, Append(b, e), v) = StateAt(k, b, v)
                         /\ StateAt(k, Append(b, e), Len(b) + 1) = FoldStep(k, Reached(k, b), e)
<1>1. StateAt(k, b, 0) = FirstState(k) /\ StateAt(k, b, Len(b)) = Reached(k, b)
  BY Beginnings, ReachedStart DEF StateAt
<1>2. ASSUME NEW v \in 1 .. Len(b) PROVE StateAt(k, b, v) = FoldStep(k, StateAt(k, b, v - 1), b[v])
  <2>1. SubSeq(b, 1, v) = Append(SubSeq(b, 1, v - 1), b[v]) /\ b[v] \in S /\ v - 1 \in 0 .. Len(b)
    BY Beginnings
  <2>2. SubSeq(b, 1, v - 1) \in Seq(S)
    BY <2>1, Beginnings
  <2> QED BY <2>1, <2>2, ReachedAppend DEF StateAt
<1>3. ASSUME NEW e \in S PROVE /\ \A v \in 0 .. Len(b) : StateAt(k, Append(b, e), v) = StateAt(k, b, v)
                               /\ StateAt(k, Append(b, e), Len(b) + 1) = FoldStep(k, Reached(k, b), e)
  <2>1. \A v \in 0 .. Len(b) : SubSeq(Append(b, e), 1, v) = SubSeq(b, 1, v)
    BY Beginnings
  <2>2. Append(b, e) \in Seq(S) /\ Len(Append(b, e)) = Len(b) + 1
    OBVIOUS
  <2>3. SubSeq(Append(b, e), 1, Len(b) + 1) = Append(b, e)
    BY <2>2, Beginnings
  <2> QED BY <2>1, <2>3, ReachedAppend DEF StateAt
<1> QED BY <1>1, <1>2, <1>3
LEMMA StepsFit ==
  ASSUME NEW k \in Streams, NEW s \in StatesOf(k), NEW e \in EventsOf(k), Open(k, s), EventFits(k, s, e),
         e.type = "CREATED" => s = FirstState(k)
  PROVE  /\ FoldStep(k, s, e) \in StatesOf(k) /\ Open(k, FoldStep(k, s, e))
         /\ k = "order" /\ FoldStep(k, s, e).status = "DRAFT" => s.status = "DRAFT"
<1>1. CASE k = "order"
  <2>1. s \in [status : OrderStatus, items : Nat, failures : Nat, payment : Payments \union {NoPayment}]
    BY <1>1 DEF StatesOf
  <2>2. e \in [type : OrderEventType, payment : Payments \union {NoPayment}, n : Nat]
    BY <1>1 DEF EventsOf
  <2>3. FoldStep(k, s, e) = Apply(s, e)
    BY <1>1 DEF FoldStep
  <2>4. Apply(s, e) \in [status : OrderStatus, items : Nat, failures : Nat, payment : Payments \union {NoPayment}]
    <3>1. CASE e.type = "CREATED"
      BY <2>1, <2>2, <3>1 DEF Apply, OrderStatus
    <3>2. CASE e.type = "ITEM_ADDED"
      BY <2>1, <2>2, <3>2 DEF Apply, OrderStatus
    <3>3. CASE e.type = "CONFIRMED"
      BY <2>1, <2>2, <3>3 DEF Apply, OrderStatus
    <3>4. CASE e.type = "INVENTORY_RESERVED"
      BY <2>1, <2>2, <3>4 DEF Apply, OrderStatus
    <3>5. CASE e.type = "INVENTORY_FAILED"
      BY <2>1, <2>2, <3>5 DEF Apply, OrderStatus
    <3>6. CASE e.type = "PAID"
      BY <2>1, <2>2, <3>6 DEF Apply, OrderStatus
    <3>7. CASE e.type = "PAYMENT_FAILED"
      BY <2>1, <2>2, <3>7 DEF Apply, OrderStatus
    <3>8. CASE e.type = "CANCELLED"
      BY <2>1, <2>2, <3>8 DEF Apply, OrderStatus
    <3>9. CASE e.type = "SHIPPED"
      BY <2>1, <2>2, <3>9 DEF Apply, OrderStatus
    <3> QED BY <2>2, <3>1, <3>2, <3>3, <3>4, <3>5, <3>6, <3>7, <3>8, <3>9 DEF OrderEventType
  <2>5. Apply(s, e).status = "DRAFT" => s.status = "DRAFT"
    <3>1. CASE e.type = "CREATED"
      BY <1>1, <3>1 DEF FirstState, NewOrder
    <3>2. CASE e.type # "CREATED"
      BY <2>1, <2>2, <3>2 DEF Apply, OrderEventType, OrderStatus
    <3> QED BY <3>1, <3>2
  <2> QED BY <1>1, <2>3, <2>4, <2>5 DEF StatesOf, Open
<1>2. CASE k = "payment"
  <2>1. s \in [status : PaymentStatuses, transaction : BOOLEAN, reason : BOOLEAN, refunded : Nat, processed : BOOLEAN]
    BY <1>2 DEF StatesOf
  <2>2. e \in [type : {"CREATED", "PROCESSING", "COMPLETED", "FAILED", "REFUNDED"}, amount : Nat]
    BY <1>2 DEF EventsOf
  <2>3. FoldStep(k, s, e) = PaymentApply(s, e)
    BY <1>2 DEF FoldStep
  <2>4. ~s.reason /\ s.refunded = 0
    BY <1>2 DEF EventFits, PaymentEventFits
  <2>5. PaymentApply(s, e)
          \in [status : PaymentStatuses, transaction : BOOLEAN, reason : BOOLEAN, refunded : Nat, processed : BOOLEAN]
    BY <2>1, <2>2 DEF PaymentApply, PaymentStatuses
  <2>6. PaymentApply(s, e).status \in {"PENDING", "PROCESSING", "COMPLETED"}
          => ~PaymentApply(s, e).reason /\ PaymentApply(s, e).refunded = 0
    BY <2>1, <2>2, <2>4 DEF PaymentApply, PaymentStatuses
  <2> QED BY <1>2, <2>3, <2>5, <2>6 DEF StatesOf, Open
<1>3. CASE k = "product"
  <2>1. s \in [name : Nat, level : Levels \union {0}, active : BOOLEAN]
    BY <1>3 DEF StatesOf
  <2>2. e \in [type : {"CREATED", "UPDATED", "STOCK_UPDATED", "ACTIVATED", "DEACTIVATED", "DELETED"},
               name : Nat, level : Levels \union {0}]
    BY <1>3 DEF EventsOf
  <2>3. FoldStep(k, s, e) = ProductApply(s, e)
    BY <1>3 DEF FoldStep
  <2>4. ProductApply(s, e) \in [name : Nat, level : Levels \union {0}, active : BOOLEAN]
    BY <2>1, <2>2 DEF ProductApply
  <2> QED BY <1>3, <2>3, <2>4 DEF StatesOf, Open
<1> QED BY <1>1, <1>2, <1>3 DEF Streams

LEMMA FirstStatesFit ==
  ASSUME NEW k \in Streams
  PROVE  FirstState(k) \in StatesOf(k) /\ Open(k, FirstState(k)) /\ (k = "order" => FirstState(k).status = "DRAFT")
<1>1. CASE k = "order"
  BY <1>1 DEF FirstState, StatesOf, Open, NewOrder, OrderStatus
<1>2. CASE k = "payment"
  BY <1>2 DEF FirstState, StatesOf, Open, NewPayment, PaymentStatuses
<1>3. CASE k = "product"
  BY <1>3 DEF FirstState, StatesOf, Open, FirstProduct
<1> QED BY <1>1, <1>2, <1>3 DEF Streams

LEMMA NothingIsLawful == ASSUME NEW k \in Streams PROVE Lawful(k, <<>>)
<1>1. <<>> \in Seq(EventsOf(k)) /\ Len(<<>>) = 0 /\ (\A v \in 0 .. 0 : v = 0) /\ (\A v \in 1 .. 0 : FALSE)
  OBVIOUS
<1>2. StateAt(k, <<>>, 0) = FirstState(k)
  BY <1>1, StatesStep
<1> QED BY <1>1, <1>2, FirstStatesFit DEF Lawful

LEMMA LawfulGrows ==
  ASSUME NEW k \in Streams, NEW b, Lawful(k, b), NEW e \in EventsOf(k),
         e.type = "CREATED" <=> b = <<>>, EventFits(k, Reached(k, b), e)
  PROVE  Lawful(k, Append(b, e)) /\ Append(b, e) # <<>> /\ Reached(k, Append(b, e)) = FoldStep(k, Reached(k, b), e)
<1> DEFINE n == Len(b)
           c == Append(b, e)
           s == Reached(k, b)
           t == FoldStep(k, s, e)
<1>1. b \in Seq(EventsOf(k)) /\ n \in Nat /\ c \in Seq(EventsOf(k)) /\ Len(c) = n + 1 /\ c[n + 1] = e /\ c # <<>>
      /\ \A v \in 1 .. n : c[v] = b[v]
  BY DEF Lawful
<1>2. /\ \A v \in 0 .. n : StateAt(k, c, v) = StateAt(k, b, v)
      /\ StateAt(k, c, n + 1) = t /\ StateAt(k, b, n) = s /\ StateAt(k, b, 0) = FirstState(k)
  BY <1>1, StatesStep
<1>3. s \in StatesOf(k) /\ Open(k, s)
  <2>1. n \in 0 .. n
    BY <1>1
  <2> QED BY <1>2, <2>1 DEF Lawful
<1>4. e.type = "CREATED" => s = FirstState(k)
  BY ReachedStart
<1>5. t \in StatesOf(k) /\ Open(k, t) /\ (k = "order" /\ t.status = "DRAFT" => s.status = "DRAFT")
  BY <1>3, <1>4, StepsFit
<1>6. Reached(k, c) = t
  BY <1>1, ReachedAppend
<1> HIDE DEF c, s, t
<1>7. ASSUME NEW v \in 0 .. Len(c) PROVE StateAt(k, c, v) \in StatesOf(k) /\ Open(k, StateAt(k, c, v))
  <2>1. CASE v \in 0 .. n
    BY <1>2, <2>1 DEF Lawful
  <2>2. CASE v = n + 1
    BY <1>2, <1>5, <2>2
  <2> QED BY <1>1, <2>1, <2>2
<1>8. ASSUME NEW v \in 1 .. Len(c)
      PROVE  (c[v].type = "CREATED" <=> v = 1) /\ EventFits(k, StateAt(k, c, v - 1), c[v])
  <2>1. CASE v \in 1 .. n
    <3>1. c[v] = b[v] /\ v - 1 \in 0 .. n
      BY <1>1, <2>1
    <3> QED BY <1>2, <2>1, <3>1 DEF Lawful
  <2>2. CASE v = n + 1
    <3>1. v - 1 = n /\ n \in 0 .. n /\ c[v] = e /\ (v = 1 <=> b = <<>>)
      BY <1>1, <2>2
    <3>2. StateAt(k, c, v - 1) = s
      BY <1>2, <3>1
    <3> QED BY <3>1, <3>2 DEF s
  <2> QED BY <1>1, <2>1, <2>2
<1>9. ASSUME k = "order", NEW v \in 0 .. Len(c), NEW u \in 0 .. v, StateAt(k, c, v).status = "DRAFT"
      PROVE  StateAt(k, c, u).status = "DRAFT"
  <2>1. CASE v \in 0 .. n
    <3>1. u \in 0 .. n
      BY <1>1, <2>1
    <3> QED BY <1>2, <1>9, <2>1, <3>1 DEF Lawful
  <2>2. CASE v = n + 1
    <3>1. s.status = "DRAFT"
      BY <1>2, <1>5, <1>9, <2>2
    <3>2. CASE u = n + 1
      BY <1>9, <2>2, <3>2
    <3>3. CASE u # n + 1
      <4>1. u \in 0 .. n /\ n \in 0 .. n
        BY <1>1, <2>2, <3>3
      <4>2. StateAt(k, b, n).status = "DRAFT"
        BY <1>2, <3>1
      <4>3. StateAt(k, b, u).status = "DRAFT"
        BY <1>9, <4>1, <4>2 DEF Lawful
      <4> QED BY <1>2, <4>1, <4>3
    <3> QED BY <3>2, <3>3
  <2> QED BY <1>1, <2>1, <2>2
<1>10. Lawful(k, c)
  BY <1>1, <1>7, <1>8, <1>9 DEF Lawful
<1> QED BY <1>1, <1>6, <1>10 DEF c, s, t

(* The batches of the commands.                                            *)
LEMMA OneMore == ASSUME NEW S, NEW b \in Seq(S), NEW e \in S PROVE b \o <<e>> = Append(b, e)
OBVIOUS

LEMMA TwoMore ==
  ASSUME NEW S, NEW b \in Seq(S), NEW e \in S, NEW f \in S
  PROVE  b \o (<<e>> \o <<f>>) = Append(Append(b, e), f)
<1>1. <<e>> \in Seq(S) /\ <<f>> \in Seq(S) /\ b \o <<e>> = Append(b, e) /\ Append(b, e) \in Seq(S)
  OBVIOUS
<1>2. b \o (<<e>> \o <<f>>) = (b \o <<e>>) \o <<f>>
  BY <1>1
<1> QED BY <1>1, <1>2, OneMore

LEMMA OrderBatchIsLawful ==
  ASSUME NEW b, Lawful("order", b), NEW c \in OrderCommands, NEW more \in OrderRaises(b, c)
  PROVE  Lawful("order", b \o more)
<1> DEFINE o == Rehydrate(b)
           E == EventsOf("order")
<1>0. "order" \in Streams /\ MaxPaymentFailures \in Nat
  BY MaxPaymentFailuresAssumption DEF Streams
<1>1. b \in Seq(E) /\ Len(b) \in Nat
  BY DEF Lawful
<1>2. o = Reached("order", b) /\ o = StateAt("order", b, Len(b))
  BY <1>0, <1>1, StatesStep DEF Reached
<1>3. o \in [status : OrderStatus, items : Nat, failures : Nat, payment : Payments \union {NoPayment}]
  <2>1. Len(b) \in 0 .. Len(b)
    BY <1>1
  <2> QED BY <1>2, <2>1 DEF Lawful, StatesOf
<1>4. ASSUME NEW e \in E, e.type = "CREATED" <=> b = <<>>, OrderEventFits(o, e)
      PROVE  Lawful("order", b \o <<e>>) /\ b \o <<e>> = Append(b, e)
             /\ Rehydrate(Append(b, e)) = Apply(o, e)
  <2>1. EventFits("order", Reached("order", b), e)
    BY <1>2, <1>4 DEF EventFits
  <2>2. Lawful("order", Append(b, e)) /\ Reached("order", Append(b, e)) = FoldStep("order", Reached("order", b), e)
    BY <1>0, <1>4, <2>1, LawfulGrows
  <2>3. b \o <<e>> = Append(b, e)
    BY <1>1, OneMore
  <2> QED BY <1>2, <2>2, <2>3 DEF Reached, FoldStep
<1> HIDE DEF o
<1>5. \A t \in OrderEventType : \A p \in Payments \union {NoPayment} : \A m \in Nat :
        [type |-> t, payment |-> p, n |-> m] \in E
  BY DEF EventsOf
<1>6. CASE b = <<>>
  <2>1. more = <<Event("CREATED")>>
    BY <1>6 DEF OrderRaises, When
  <2>2. Event("CREATED") \in E /\ Event("CREATED").type = "CREATED"
    BY <1>5 DEF Event, OrderEventType
  <2>3. o.status = "DRAFT"
    BY <1>0, <1>2, <1>6, ReachedStart DEF FirstState, NewOrder
  <2> QED BY <1>4, <1>6, <2>1, <2>2, <2>3 DEF OrderEventFits
<1>7. CASE b # <<>> /\ c.name # "RecordPaymentFailed"
  <2>1. \E e \in E : /\ more = <<e>> /\ e.type # "CREATED" /\ o.status # "SHIPPED"
                     /\ e.type = "ITEM_ADDED" => o.status = "DRAFT"
    <3> DEFINE made(t, p, m) == [type |-> t, payment |-> p, n |-> m]
    <3>1. \A t \in OrderEventType : \A p \in Payments \union {NoPayment} : \A m \in Nat :
            made(t, p, m) \in E /\ made(t, p, m).type = t
      BY <1>5
    <3>2. Event("ITEM_ADDED") = made("ITEM_ADDED", NoPayment, 0)
          /\ [Event("CONFIRMED") EXCEPT !.n = o.items] = made("CONFIRMED", NoPayment, o.items)
          /\ Event("INVENTORY_RESERVED") = made("INVENTORY_RESERVED", NoPayment, 0)
          /\ Event("INVENTORY_FAILED") = made("INVENTORY_FAILED", NoPayment, 0)
          /\ [Event("CANCELLED") EXCEPT !.payment = o.payment] = made("CANCELLED", o.payment, 0)
          /\ Event("SHIPPED") = made("SHIPPED", NoPayment, 0)
          /\ \A p \in Payments : [Event("PAID") EXCEPT !.payment = p] = made("PAID", p, 0)
      BY DEF Event
    <3>3. o.items \in Nat /\ o.payment \in Payments \union {NoPayment} /\ 0 \in Nat
      BY <1>3
    <3>4. {"ITEM_ADDED", "CONFIRMED", "INVENTORY_RESERVED", "INVENTORY_FAILED", "CANCELLED", "SHIPPED", "PAID"}
            \subseteq OrderEventType
      BY DEF OrderEventType
    <3> HIDE DEF made
    <3>5. more \in CASE c.name = "CreateOrder"           -> {}
                      [] c.name = "AddItem"               -> AddItem(o)
                      [] c.name = "Confirm"               -> Confirm(o)
                      [] c.name = "MarkInventoryReserved" -> MarkInventoryReserved(o)
                      [] c.name = "MarkInventoryFailed"   -> MarkInventoryFailed(o)
                      [] c.name = "Cancel"                -> Cancel(o)
                      [] c.name = "Ship"                  -> Ship(o)
                      [] c.name = "MarkPaid"              -> MarkPaid(o, c.payment)
                      [] c.name = "RecordPaymentFailed"   -> RecordPaymentFailed(o, c.payment)
      BY <1>7 DEF OrderRaises, o
    <3>6. \/ c.name \in {"CreateOrder", "AddItem", "Confirm", "MarkInventoryReserved", "MarkInventoryFailed",
                         "Cancel", "Ship"}
          \/ c.name = "MarkPaid" /\ c.payment \in Payments
      BY <1>7 DEF OrderCommands
    <3>7. CASE c.name = "CreateOrder"
      BY <3>5, <3>7
    <3>8. CASE c.name = "AddItem"
      BY <3>1, <3>2, <3>3, <3>4, <3>5, <3>8, SMTT(20) DEF AddItem, When
    <3>9. CASE c.name = "Confirm"
      BY <3>1, <3>2, <3>3, <3>4, <3>5, <3>9, SMTT(20) DEF Confirm, When
    <3>10. CASE c.name = "MarkInventoryReserved"
      BY <3>1, <3>2, <3>3, <3>4, <3>5, <3>10, SMTT(20) DEF MarkInventoryReserved, When
    <3>11. CASE c.name = "MarkInventoryFailed"
      BY <3>1, <3>2, <3>3, <3>4, <3>5, <3>11 DEF MarkInventoryFailed, When
    <3>12. CASE c.name = "Cancel"
      BY <3>1, <3>2, <3>3, <3>4, <3>5, <3>12 DEF Cancel, When
    <3>13. CASE c.name = "Ship"
      BY <3>1, <3>2, <3>3, <3>4, <3>5, <3>13, SMTT(20) DEF Ship, When
    <3>14. CASE c.name = "MarkPaid"
      BY <3>1, <3>2, <3>3, <3>4, <3>5, <3>6, <3>14, SMTT(20) DEF MarkPaid, When
    <3> QED BY <3>6, <3>7, <3>8, <3>9, <3>10, <3>11, <3>12, <3>13, <3>14
  <2>2. PICK e \in E : /\ more = <<e>> /\ e.type # "CREATED" /\ o.status # "SHIPPED"
                       /\ e.type = "ITEM_ADDED" => o.status = "DRAFT"
    BY <2>1
  <2> QED BY <1>4, <1>7, <2>2 DEF OrderEventFits
<1>8. CASE b # <<>> /\ c.name = "RecordPaymentFailed"
  <2> DEFINE failed == [type |-> "PAYMENT_FAILED", payment |-> c.payment, n |-> o.failures + 1]
             p == Apply(o, failed)
  <2>1. c.payment \in Payments
    BY <1>8 DEF OrderCommands
  <2>2. failed \in E /\ failed.type = "PAYMENT_FAILED"
    <3>1. o.failures + 1 \in Nat /\ "PAYMENT_FAILED" \in OrderEventType
      BY <1>3 DEF OrderEventType
    <3> QED BY <1>5, <2>1, <3>1
  <2>3. more \in RecordPaymentFailed(o, c.payment)
    BY <1>8 DEF OrderRaises, o
  <2>4. [Event("PAYMENT_FAILED") EXCEPT !.payment = c.payment, !.n = o.failures + 1] = failed
    <3> DEFINE paid == [Event("PAYMENT_FAILED") EXCEPT !.payment = c.payment]
    <3>1. paid = [type |-> "PAYMENT_FAILED", payment |-> c.payment, n |-> 0]
      BY DEF Event
    <3> HIDE DEF paid
    <3>2. [paid EXCEPT !.n = o.failures + 1] = failed
      BY <3>1
    <3> QED BY <3>2 DEF paid
  <2>5. o.status = "INVENTORY_RESERVED"
        /\ (more = <<failed>> \/ \E cancel \in Cancel(p) : more = <<failed>> \o cancel)
    BY <2>3, <2>4 DEF RecordPaymentFailed
  <2>6. Lawful("order", b \o <<failed>>) /\ b \o <<failed>> = Append(b, failed) /\ Rehydrate(Append(b, failed)) = p
    BY <1>4, <1>8, <2>2, <2>5 DEF OrderEventFits
  <2>7. CASE more = <<failed>>
    BY <2>6, <2>7
  <2>8. CASE \E cancel \in Cancel(p) : more = <<failed>> \o cancel
    <3> DEFINE d == Append(b, failed)
               cancelled == [type |-> "CANCELLED", payment |-> p.payment, n |-> 0]
    <3>1. p.status = "INVENTORY_RESERVED" /\ p.payment \in Payments \union {NoPayment}
      BY <1>3, <2>2, <2>5 DEF Apply
    <3>2. [Event("CANCELLED") EXCEPT !.payment = p.payment] = cancelled
      BY DEF Event
    <3>3. more = <<failed>> \o <<cancelled>>
      BY <2>8, <3>2 DEF Cancel, When
    <3>4. cancelled \in E /\ cancelled.type = "CANCELLED"
      <4>1. "CANCELLED" \in OrderEventType /\ 0 \in Nat
        BY DEF OrderEventType
      <4> QED BY <1>5, <3>1, <4>1
    <3>5. Lawful("order", d) /\ d # <<>> /\ Reached("order", d) = p
      <4>1. d # <<>>
        BY <1>1, <2>2
      <4>2. Lawful("order", d)
        BY <2>6
      <4>3. Reached("order", d) = p
        BY <2>6 DEF Reached
      <4> QED BY <4>1, <4>2, <4>3
    <3> HIDE DEF failed, p, cancelled
    <3>6. b \o more = Append(d, cancelled)
      BY <1>1, <2>2, <3>3, <3>4, TwoMore
    <3> HIDE DEF d
    <3>7. EventFits("order", Reached("order", d), cancelled)
      BY <3>1, <3>4, <3>5 DEF EventFits, OrderEventFits
    <3>8. Lawful("order", Append(d, cancelled))
      BY <1>0, <3>4, <3>5, <3>7, LawfulGrows
    <3> QED BY <3>6, <3>8
  <2> QED BY <2>5, <2>7, <2>8
<1> QED BY <1>6, <1>7, <1>8
LEMMA PaymentBatchIsLawful ==
  ASSUME NEW b, Lawful("payment", b), NEW more \in PaymentBatches(b)
  PROVE  Lawful("payment", b \o more)
<1> DEFINE p == PaymentFrom(b)
           E == EventsOf("payment")
<1>0. "payment" \in Streams
  BY DEF Streams
<1>1. b \in Seq(E) /\ Len(b) \in Nat
  BY DEF Lawful
<1>2. p = Reached("payment", b) /\ p = StateAt("payment", b, Len(b))
  BY <1>0, <1>1, StatesStep DEF Reached
<1>3. Open("payment", p)
  <2>1. Len(b) \in 0 .. Len(b)
    BY <1>1
  <2> QED BY <1>2, <2>1 DEF Lawful
<1>4. \E e \in E : /\ more = <<e>> /\ (e.type = "CREATED" <=> b = <<>>)
                   /\ p.status \in {"PENDING", "PROCESSING", "COMPLETED"}
  <2> DEFINE made(t, m) == [type |-> t, amount |-> m]
  <2>1. \A t \in {"CREATED", "PROCESSING", "COMPLETED", "FAILED", "REFUNDED"} : \A m \in Nat :
          made(t, m) \in E /\ made(t, m).type = t /\ PaymentEvent(t, m) = made(t, m)
    BY DEF EventsOf, PaymentEvent
  <2> HIDE DEF made
  <2>2. CASE b = <<>>
    <3>1. more = <<PaymentEvent("CREATED", 0)>>
      BY <2>2 DEF PaymentBatches
    <3>2. p.status = "PENDING"
      BY <1>0, <1>2, <2>2, ReachedStart DEF FirstState, NewPayment
    <3> QED BY <2>1, <2>2, <3>1, <3>2
  <2>3. CASE b # <<>>
    <3> HIDE DEF p
    <3>1. more \in ProcessPayment(p) \union CompletePayment(p) \union FailPayment(p)
                     \union UNION {RefundPayment(p, m) : m \in 0 .. (PaymentAmount + 1)}
      BY <2>3 DEF PaymentBatches, p
    <3>2. CASE more \in ProcessPayment(p)
      BY <2>1, <2>3, <3>2 DEF ProcessPayment, PaymentRaises
    <3>3. CASE more \in CompletePayment(p)
      BY <2>1, <2>3, <3>3 DEF CompletePayment, PaymentRaises
    <3>4. CASE more \in FailPayment(p)
      BY <2>1, <2>3, <3>4 DEF FailPayment, PaymentRaises
    <3>5. CASE more \in UNION {RefundPayment(p, m) : m \in 0 .. (PaymentAmount + 1)}
      <4>1. PICK m \in 0 .. (PaymentAmount + 1) : more \in RefundPayment(p, m)
        BY <3>5
      <4>2. m \in Nat
        BY PaymentAmountAssumption
      <4> QED BY <2>1, <2>3, <4>1, <4>2 DEF RefundPayment, PaymentRaises
    <3> QED BY <3>1, <3>2, <3>3, <3>4, <3>5
  <2> QED BY <2>2, <2>3
<1>5. PICK e \in E : /\ more = <<e>> /\ (e.type = "CREATED" <=> b = <<>>)
                     /\ p.status \in {"PENDING", "PROCESSING", "COMPLETED"}
  BY <1>4
<1>6. EventFits("payment", Reached("payment", b), e)
  BY <1>2, <1>3, <1>5 DEF EventFits, PaymentEventFits, Open
<1>7. Lawful("payment", Append(b, e))
  BY <1>0, <1>5, <1>6, LawfulGrows
<1>8. b \o more = Append(b, e)
  BY <1>1, <1>5, OneMore
<1> QED BY <1>7, <1>8

(* At most one event.                                                      *)
Perhaps(E) == {<<>>} \union {<<e>> : e \in E}

LEMMA ProductGrows ==
  ASSUME NEW b, Lawful("product", b), b # <<>>, NEW E, E \subseteq EventsOf("product"),
         \A e \in E : e.type # "CREATED", NEW more \in Perhaps(E)
  PROVE  Lawful("product", b \o more) /\ b \o more # <<>>
<1>0. "product" \in Streams /\ b \in Seq(EventsOf("product"))
  BY DEF Streams, Lawful
<1>1. CASE more = <<>>
  <2>1. b \o <<>> = b
    BY <1>0
  <2> QED BY <1>1, <2>1
<1>2. CASE more # <<>>
  <2>1. PICK e \in E : more = <<e>>
    BY <1>2 DEF Perhaps
  <2>2. EventFits("product", Reached("product", b), e) /\ e \in EventsOf("product") /\ e.type # "CREATED"
    BY <2>1 DEF EventFits
  <2>3. Lawful("product", Append(b, e)) /\ Append(b, e) # <<>>
    BY <1>0, <2>2, LawfulGrows
  <2>4. b \o more = Append(b, e)
    BY <1>0, <2>1, <2>2, OneMore
  <2> QED BY <2>3, <2>4
<1> QED BY <1>1, <1>2

ProductChanges == {e \in EventsOf("product") : e.type # "CREATED"}

LEMMA ProductChangesFacts ==
  /\ \A t \in {"UPDATED", "STOCK_UPDATED", "ACTIVATED", "DEACTIVATED", "DELETED"} :
       \A label \in Nat : \A level \in Levels \union {0} : ProductEvent(t, label, level) \in ProductChanges
  /\ \A label \in Nat : ProductEvent("CREATED", label, 0) \in EventsOf("product")
                       /\ ProductEvent("CREATED", label, 0).type = "CREATED"
  /\ \A e \in ProductChanges : <<e>> \in Perhaps(ProductChanges)
  /\ <<>> \in Perhaps(ProductChanges)
  /\ \A p : \A active \in BOOLEAN : SetActive(p, active) \subseteq Perhaps(ProductChanges)
  /\ \A level \in Levels : UpdateStock(level) \subseteq Perhaps(ProductChanges)
<1>1. \A t \in {"UPDATED", "STOCK_UPDATED", "ACTIVATED", "DEACTIVATED", "DELETED"} :
        \A label \in Nat : \A level \in Levels \union {0} : ProductEvent(t, label, level) \in ProductChanges
  BY DEF ProductEvent, EventsOf, ProductChanges
<1>2. \A label \in Nat : ProductEvent("CREATED", label, 0) \in EventsOf("product")
                        /\ ProductEvent("CREATED", label, 0).type = "CREATED"
  BY DEF ProductEvent, EventsOf
<1>3. (\A e \in ProductChanges : <<e>> \in Perhaps(ProductChanges)) /\ <<>> \in Perhaps(ProductChanges)
  BY DEF Perhaps
<1> DEFINE C == ProductChanges
<1> HIDE DEF C
<1>4. ASSUME NEW p, NEW active \in BOOLEAN PROVE SetActive(p, active) \subseteq Perhaps(ProductChanges)
  <2>1. 0 \in Nat /\ 0 \in Levels \union {0}
    OBVIOUS
  <2>2. <<ProductEvent("ACTIVATED", 0, 0)>> \in Perhaps(ProductChanges)
        /\ <<ProductEvent("DEACTIVATED", 0, 0)>> \in Perhaps(ProductChanges)
    BY <1>1, <1>3, <2>1
  <2> QED BY <1>3, <2>2 DEF SetActive
<1>5. ASSUME NEW level \in Levels PROVE UpdateStock(level) \subseteq Perhaps(ProductChanges)
  <2>1. <<ProductEvent("STOCK_UPDATED", 0, level)>> \in Perhaps(ProductChanges)
    BY <1>1, <1>3
  <2> QED BY <2>1 DEF UpdateStock
<1> QED BY <1>1, <1>2, <1>3, <1>4, <1>5

LEMMA Regroup ==
  ASSUME NEW S, NEW x \in Seq(S), NEW y \in Seq(S), NEW z \in Seq(S)
  PROVE  x \o y \in Seq(S) /\ (x \o y) \o z = x \o (y \o z)
OBVIOUS

Joined(x, y) == x \o y

LEMMA RegroupAll ==
  ASSUME NEW S, NEW b \in Seq(S), NEW x \in Seq(S), NEW y \in Seq(S), NEW z \in Seq(S)
  PROVE  Joined(Joined(Joined(b, x), y), z) = Joined(b, Joined(Joined(x, y), z))
<1> DEFINE t == x \o y
<1>1. t \in Seq(S)
  OBVIOUS
<1>2. (b \o x) \o y = b \o t
  BY Regroup
<1> HIDE DEF t
<1>3. (b \o t) \o z = b \o (t \o z)
  BY <1>1, Regroup, SMTT(30)
<1>4. ((b \o x) \o y) \o z = b \o (t \o z)
  BY <1>2, <1>3
<1> QED BY <1>4 DEF t, Joined

LEMMA ProductBatchIsLawful ==
  ASSUME NEW b, Lawful("product", b), NEW more \in ProductBatches(b)
  PROVE  Lawful("product", b \o more)
<1>0. /\ "product" \in Streams /\ b \in Seq(EventsOf("product")) /\ 0 \in Nat /\ 0 \in Levels \union {0}
      /\ Names \subseteq Nat
  BY ProductAssumption DEF Streams, Lawful
<1> DEFINE C == ProductChanges
<1>1. C \subseteq EventsOf("product") /\ \A e \in C : e.type # "CREATED"
  BY DEF ProductChanges
<1> HIDE DEF C
<1>2. CASE b = <<>>
  <2>1. PICK label \in Names : more = <<ProductEvent("CREATED", label, 0)>>
    BY <1>2 DEF ProductBatches, CreateProduct
  <2> DEFINE e == ProductEvent("CREATED", label, 0)
  <2>2. e \in EventsOf("product") /\ e.type = "CREATED" /\ EventFits("product", Reached("product", b), e)
    BY <1>0, ProductChangesFacts DEF EventFits
  <2> HIDE DEF e
  <2>3. Lawful("product", Append(b, e))
    BY <1>0, <1>2, <2>2, LawfulGrows
  <2>4. b \o more = Append(b, e)
    BY <1>0, <2>1, <2>2, OneMore DEF e
  <2> QED BY <2>3, <2>4
<1>3. CASE b # <<>>
  <2>1. more \in UpdateProduct(ProductFrom(b)) \union DeleteProduct \union UpdateProductStock
    BY <1>3 DEF ProductBatches
  <2>2. CASE more \in DeleteProduct
    <3>1. more \in Perhaps(C)
      BY <1>0, <2>2, ProductChangesFacts DEF DeleteProduct, C
    <3> QED BY <1>1, <1>3, <3>1, ProductGrows
  <2>3. CASE more \in UpdateProductStock
    <3>1. more \in Perhaps(C)
      BY <2>3, ProductChangesFacts DEF UpdateProductStock, C
    <3> QED BY <1>1, <1>3, <3>1, ProductGrows
  <2>4. CASE more \in UpdateProduct(ProductFrom(b))
    <3> DEFINE acts == {<<>>} \union UNION {SetActive(ProductFrom(b), active) : active \in BOOLEAN}
               levs == {<<>>} \union UNION {UpdateStock(level) : level \in Levels}
               labs == Names \union {0}
    <3>0. acts \subseteq Perhaps(C) /\ levs \subseteq Perhaps(C) /\ labs \subseteq Nat
      BY <1>0, ProductChangesFacts DEF C
    <3> DEFINE all(x, y, z) == <<ProductEvent("UPDATED", x, 0)>> \o y \o z
    <3>1. UpdateProduct(ProductFrom(b)) = {all(x, y, z) : x \in labs, y \in acts, z \in levs}
      BY DEF UpdateProduct
    <3> HIDE DEF acts, levs, labs, all
    <3>9. PICK label \in labs, activation \in acts, levels \in levs : more = all(label, activation, levels)
      BY <2>4, <3>1
    <3> DEFINE named == <<ProductEvent("UPDATED", label, 0)>>
    <3>2. named \in Perhaps(C)
      BY <1>0, <3>0, ProductChangesFacts DEF C
    <3>3. activation \in Perhaps(C) /\ levels \in Perhaps(C)
      BY <3>0
    <3> HIDE DEF named
    <3>4. ASSUME NEW x \in Perhaps(C) PROVE x \in Seq(EventsOf("product"))
      <4>1. CASE x = <<>>
        BY <4>1
      <4>2. CASE x # <<>>
        <5>1. PICK e \in C : x = <<e>>
          BY <4>2 DEF Perhaps
        <5>2. e \in EventsOf("product")
          BY <1>1
        <5> QED BY <5>1, <5>2
      <4> QED BY <4>1, <4>2
    <3>5. Lawful("product", b \o named) /\ b \o named # <<>>
      BY <1>1, <1>3, <3>2, ProductGrows
    <3>6. Lawful("product", (b \o named) \o activation) /\ (b \o named) \o activation # <<>>
      BY <1>1, <3>3, <3>5, ProductGrows
    <3>7. Lawful("product", ((b \o named) \o activation) \o levels)
      BY <1>1, <3>3, <3>6, ProductGrows
    <3>8. ((b \o named) \o activation) \o levels = b \o ((named \o activation) \o levels)
      <4>1. named \in Seq(EventsOf("product")) /\ activation \in Seq(EventsOf("product"))
            /\ levels \in Seq(EventsOf("product"))
        BY <3>2, <3>3, <3>4
      <4>2. Joined(Joined(Joined(b, named), activation), levels)
              = Joined(b, Joined(Joined(named, activation), levels))
        BY <1>0, <4>1, RegroupAll
      <4> QED BY <4>2 DEF Joined
    <3> QED BY <3>9, <3>7, <3>8 DEF named, all
  <2> QED BY <2>1, <2>2, <2>3, <2>4
<1> QED BY <1>2, <1>3

LEMMA BatchesAreLawful ==
  ASSUME kind \in Kinds, Lawful(StreamKind, stream), NEW more \in Batches
  PROVE  Lawful(StreamKind, stream \o more)
<1>1. CASE kind \in {"order", "history"}
  <2>1. PICK c \in OrderCommands : more \in OrderRaises(stream, c)
    BY <1>1 DEF Batches
  <2>2. StreamKind = "order"
    BY <1>1 DEF StreamKind
  <2> QED BY <2>1, <2>2, OrderBatchIsLawful
<1>2. CASE kind = "payment"
  BY <1>2, PaymentBatchIsLawful DEF Batches, StreamKind
<1>3. CASE kind = "product"
  BY <1>3, ProductBatchIsLawful DEF Batches, StreamKind
<1> QED BY <1>1, <1>2, <1>3 DEF Kinds
-----------------------------------------------------------------------------
LEMMA KindsHaveStreams == ASSUME kind \in Kinds PROVE StreamKind \in Streams
BY DEF Kinds, Streams, StreamKind

(* The states of the aggregate, one event after the other.                 *)
LEMMA StatesFollow ==
  ASSUME ReadModelTypes
  PROVE  /\ StreamKind \in Streams /\ stream \in Seq(EventsOf(StreamKind)) /\ Len(stream) \in Nat
         /\ State(0) = FirstState(StreamKind) /\ State(Len(stream)) = Reached(StreamKind, stream)
         /\ \A v \in 0 .. Len(stream) : State(v) \in StatesOf(StreamKind) /\ Open(StreamKind, State(v))
         /\ \A v \in 1 .. Len(stream) :
              /\ State(v) = FoldStep(StreamKind, State(v - 1), stream[v]) /\ State(v - 1) \in StatesOf(StreamKind)
              /\ stream[v] \in EventsOf(StreamKind) /\ (stream[v].type = "CREATED" <=> v = 1)
              /\ EventFits(StreamKind, State(v - 1), stream[v])
<1>1. StreamKind \in Streams
  BY KindsHaveStreams DEF ReadModelTypes
<1>2. Lawful(StreamKind, stream)
  BY DEF ReadModelTypes
<1>3. stream \in Seq(EventsOf(StreamKind)) /\ Len(stream) \in Nat
  BY <1>2 DEF Lawful
<1>4. /\ State(0) = FirstState(StreamKind) /\ State(Len(stream)) = Reached(StreamKind, stream)
      /\ \A v \in 1 .. Len(stream) : State(v) = FoldStep(StreamKind, State(v - 1), stream[v])
  BY <1>1, <1>3, StatesStep DEF State
<1>5. \A v \in 0 .. Len(stream) : State(v) \in StatesOf(StreamKind) /\ Open(StreamKind, State(v))
  BY <1>2 DEF Lawful, State
<1>6. ASSUME NEW v \in 1 .. Len(stream)
      PROVE  /\ State(v - 1) \in StatesOf(StreamKind)
             /\ stream[v] \in EventsOf(StreamKind) /\ (stream[v].type = "CREATED" <=> v = 1)
             /\ EventFits(StreamKind, State(v - 1), stream[v])
  <2>1. v - 1 \in 0 .. Len(stream)
    BY <1>3
  <2>2. stream[v] \in EventsOf(StreamKind)
    BY <1>3
  <2>3. (stream[v].type = "CREATED" <=> v = 1) /\ EventFits(StreamKind, State(v - 1), stream[v])
    BY <1>2 DEF Lawful, State
  <2> QED BY <1>5, <2>1, <2>2, <2>3
<1> QED BY <1>1, <1>3, <1>4, <1>5, <1>6

(* The states of an order.                                                 *)
LEMMA OrderStates ==
  ASSUME ReadModelTypes, kind \in {"order", "history"}
  PROVE  /\ State(0).items = 0
         /\ \A v \in 0 .. Len(stream) : State(v).status \in OrderStatus /\ State(v).items \in Nat
         /\ \A v \in 1 .. Len(stream) :
              /\ stream[v].type \in OrderEventType /\ State(v) = Apply(State(v - 1), stream[v])
              /\ State(v - 1) \in StatesOf("order") /\ State(v - 1).status # "SHIPPED"
              /\ stream[v].type = "ITEM_ADDED" =>
                   /\ State(v).items = State(v - 1).items + 1 /\ State(v).status = "DRAFT"
                   /\ \A u \in 0 .. v - 1 : State(u).status = "DRAFT"
              /\ stream[v].type = "CREATED" => State(v).items = 0 /\ State(v).status = "DRAFT"
              /\ stream[v].type \notin {"CREATED", "ITEM_ADDED"} => State(v).items = State(v - 1).items
              /\ stream[v].type = "CONFIRMED" => State(v).status = "AWAITING_INVENTORY"
              /\ stream[v].type = "PAYMENT_FAILED" => State(v).status = State(v - 1).status
              /\ stream[v].type \notin {"CREATED", "ITEM_ADDED", "CONFIRMED", "PAYMENT_FAILED"} =>
                   State(v).status = stream[v].type
<1>1. StreamKind = "order"
  BY DEF StreamKind
<1>2. State(0).items = 0
  BY <1>1, StatesFollow DEF FirstState, NewOrder
<1>3. ASSUME NEW v \in 0 .. Len(stream) PROVE State(v).status \in OrderStatus /\ State(v).items \in Nat
  BY <1>1, StatesFollow DEF StatesOf
<1>4. ASSUME NEW v \in 1 .. Len(stream)
      PROVE  /\ stream[v].type \in OrderEventType /\ State(v) = Apply(State(v - 1), stream[v])
             /\ State(v - 1) \in StatesOf("order") /\ State(v - 1).status # "SHIPPED"
             /\ stream[v].type = "ITEM_ADDED" => State(v - 1).status = "DRAFT"
  BY <1>1, StatesFollow DEF FoldStep, EventsOf, EventFits, OrderEventFits
<1>5. ASSUME NEW v \in 1 .. Len(stream)
      PROVE  /\ stream[v].type = "ITEM_ADDED" => State(v).items = State(v - 1).items + 1
                                                 /\ State(v).status = State(v - 1).status
             /\ stream[v].type = "CREATED" => State(v).items = 0 /\ State(v).status = "DRAFT"
             /\ stream[v].type \notin {"CREATED", "ITEM_ADDED"} => State(v).items = State(v - 1).items
             /\ stream[v].type = "CONFIRMED" => State(v).status = "AWAITING_INVENTORY"
             /\ stream[v].type = "PAYMENT_FAILED" => State(v).status = State(v - 1).status
             /\ stream[v].type \notin {"CREATED", "ITEM_ADDED", "CONFIRMED", "PAYMENT_FAILED"} =>
                  State(v).status = stream[v].type
  <2> PICK s, e : s = State(v - 1) /\ e = stream[v]
    OBVIOUS
  <2>1. s \in [status : OrderStatus, items : Nat, failures : Nat, payment : Payments \union {NoPayment}]
        /\ e.type \in OrderEventType /\ State(v) = Apply(s, e)
    BY <1>4 DEF StatesOf
  <2>2. /\ e.type = "ITEM_ADDED" => Apply(s, e).items = s.items + 1 /\ Apply(s, e).status = s.status
        /\ e.type = "CREATED" => Apply(s, e).items = 0 /\ Apply(s, e).status = "DRAFT"
        /\ e.type \notin {"CREATED", "ITEM_ADDED"} => Apply(s, e).items = s.items
        /\ e.type = "CONFIRMED" => Apply(s, e).status = "AWAITING_INVENTORY"
        /\ e.type = "PAYMENT_FAILED" => Apply(s, e).status = s.status
        /\ e.type \notin {"CREATED", "ITEM_ADDED", "CONFIRMED", "PAYMENT_FAILED"} => Apply(s, e).status = e.type
    BY <2>1 DEF Apply, OrderEventType
  <2> QED BY <2>1, <2>2
<1>6. ASSUME NEW v \in 1 .. Len(stream), stream[v].type = "ITEM_ADDED", NEW u \in 0 .. v - 1
      PROVE  State(u).status = "DRAFT"
  <2>1. v - 1 \in 0 .. Len(stream) /\ State(v - 1).status = "DRAFT"
    BY <1>4, <1>6, StatesFollow
  <2> QED BY <1>1, <1>6, <2>1 DEF ReadModelTypes, Lawful, State
<1> QED BY <1>2, <1>3, <1>4, <1>5, <1>6

(* The handlers and what they handle.                                      *)
LEMMA WorkFacts ==
  ASSUME ReadModelTypes, NEW w \in working
  PROVE  /\ sent # {} /\ w \in Works /\ w.at \in sent /\ w.at \in 0 .. Len(stream) /\ w.tries \in Nat
         /\ w.at = 0 => kind = "payment" /\ Type(w) = "TEST_POISON_EVENT"
         /\ w.at # 0 => /\ w.at \in 1 .. Len(stream) /\ Type(w) = stream[w.at].type /\ EventAt(w.at) = stream[w.at]
                        /\ Type(w) # "TEST_POISON_EVENT" /\ (Type(w) = "CREATED" <=> w.at = 1)
<1>1. w \in Works /\ sent # {}
  <2>1. /\ working \subseteq Works /\ (Quiet => working = {})
        /\ \/ sent = {} /\ Quiet
           \/ stream # <<>> /\ sent \in {1 .. Len(stream), 0 .. Len(stream)}
    BY DEF ReadModelTypes, Quiet
  <2>2. stream # <<>> => 1 \in 1 .. Len(stream) /\ 1 \in 0 .. Len(stream)
    BY StatesFollow
  <2> QED BY <2>1, <2>2
<1>2. w.at \in sent /\ w.tries \in Nat
  BY <1>1 DEF Works
<1>3. w.at \in 0 .. Len(stream) /\ (w.at = 0 => kind = "payment")
  BY <1>1, <1>2, StatesFollow DEF ReadModelTypes
<1>4. w.at = 0 => Type(w) = "TEST_POISON_EVENT"
  BY DEF Type, EventAt
<1>5. ASSUME w.at # 0
      PROVE  /\ w.at \in 1 .. Len(stream) /\ Type(w) = stream[w.at].type /\ EventAt(w.at) = stream[w.at]
             /\ Type(w) # "TEST_POISON_EVENT" /\ (Type(w) = "CREATED" <=> w.at = 1)
  <2>1. w.at \in 1 .. Len(stream) /\ Type(w) = stream[w.at].type /\ EventAt(w.at) = stream[w.at]
    BY <1>3, <1>5, StatesFollow DEF Type, EventAt
  <2>2. stream[w.at] \in EventsOf(StreamKind) /\ (stream[w.at].type = "CREATED" <=> w.at = 1)
    BY <2>1, StatesFollow
  <2>3. stream[w.at].type # "TEST_POISON_EVENT"
    BY <2>2, StatesFollow DEF Streams, EventsOf, OrderEventType
  <2> QED BY <2>1, <2>2, <2>3
<1> QED BY <1>1, <1>2, <1>3, <1>4, <1>5
-----------------------------------------------------------------------------
LEMMA UnsentIsQuiet == ASSUME ReadModelTypes, sent = {} PROVE Quiet
<1>1. (sent = {} /\ Quiet) \/ (stream # <<>> /\ sent \in {1 .. Len(stream), 0 .. Len(stream)})
  BY DEF ReadModelTypes
<1>2. stream # <<>> => 1 \in 1 .. Len(stream) /\ 1 \in 0 .. Len(stream)
  BY StatesFollow
<1> QED BY <1>1, <1>2

(* Nothing has been handled yet.                                           *)
LEMMA QuietIsInOrder == ReadModelTypes /\ sent = {} => Done /\ HandledInOrder
<1> SUFFICES ASSUME ReadModelTypes, sent = {} PROVE Done /\ HandledInOrder
  OBVIOUS
<1>1. Quiet
  BY UnsentIsQuiet
<1>2. /\ queue = {} /\ working = {} /\ shown = NoRow /\ items = 0 /\ entries = <<>>
      /\ serial.last = 0 /\ serial.once = TRUE /\ kind \in Kinds
  BY <1>1 DEF Quiet, ReadModelTypes
<1>3. Shows(0)
  <2>1. CASE kind = "history"
    <3>1. Recorded(0) = {}
      BY DEF Recorded
    <3>2. Len(entries) = 0 /\ (\A i \in 1 .. Len(entries) : FALSE)
      BY <1>2
    <3>3. {entries[i].at : i \in 1 .. Len(entries)} = {} /\ Cardinality({}) = 0
      BY <3>2, FS_EmptySet
    <3> QED BY <2>1, <3>1, <3>2, <3>3 DEF Shows
  <2>2. CASE kind # "history"
    BY <1>2, <2>2 DEF Shows
  <2> QED BY <2>1, <2>2
<1>4. kind = "order" => Exactly(items, State(0).items)
  BY <1>2, OrderStates DEF Exactly
<1>5. Done
  BY <1>2, <1>3, <1>4 DEF Done
<1>6. 0 \in 0 .. Len(stream)
  BY StatesFollow
<1> QED BY <1>2, <1>5, <1>6 DEF HandledInOrder

LEMMA InitReadModels == ReadModelInit => ReadModelInv
<1> SUFFICES ASSUME ReadModelInit PROVE ReadModelInv
  OBVIOUS
<1>1. /\ kind \in Kinds /\ stream = <<>> /\ sent = {} /\ queue = {} /\ working = {} /\ dead = {}
      /\ shown = NoRow /\ items = 0 /\ entries = <<>> /\ serial = [last |-> 0, inOrder |-> TRUE, once |-> TRUE]
  BY DEF ReadModelInit
<1>2. Lawful(StreamKind, <<>>)
  BY <1>1, KindsHaveStreams, NothingIsLawful
<1>3. ReadModelTypes
  BY <1>1, <1>2 DEF ReadModelTypes, Quiet, IsRow
<1>4. ReadersRead /\ RowsTell
  BY <1>1 DEF ReadersRead, RowsTell, RowTells
<1> QED BY <1>1, <1>3, <1>4, QuietIsInOrder DEF ReadModelInv


(* The same in the next state.                                             *)
LEMMA QuietNext == (ReadModelTypes /\ sent = {} => Done /\ HandledInOrder)'
BY QuietIsInOrder, PTL

LEMMA RaiseKeeps == ReadModelInv /\ RaiseEvents => ReadModelInv'
<1> SUFFICES ASSUME ReadModelInv, RaiseEvents PROVE ReadModelInv'
  OBVIOUS
<1>1. /\ sent = {} /\ sent' = {} /\ kind' = kind /\ queue' = queue /\ working' = working /\ shown' = shown
      /\ items' = items /\ entries' = entries /\ dead' = dead /\ serial' = serial
  BY DEF RaiseEvents
<1>2. ReadModelTypes
  BY DEF ReadModelInv
<1>3. Quiet
  BY <1>1, <1>2, UnsentIsQuiet
<1>4. Lawful(StreamKind, stream)'
  <2>1. PICK more \in Batches : stream' = stream \o more
    BY DEF RaiseEvents
  <2>2. kind \in Kinds /\ Lawful(StreamKind, stream)
    BY <1>2 DEF ReadModelTypes
  <2>3. Lawful(StreamKind, stream \o more)
    BY <2>2, BatchesAreLawful
  <2>4. StreamKind' = StreamKind
    BY <1>1 DEF StreamKind
  <2> QED BY <2>1, <2>3, <2>4
<1>5. queue = {} /\ working = {} /\ dead = {} /\ shown = NoRow /\ items = 0 /\ entries = <<>> /\ kind \in Kinds
      /\ serial = [last |-> 0, inOrder |-> TRUE, once |-> TRUE]
  BY <1>2, <1>3 DEF Quiet, ReadModelTypes
<1>6. ReadModelTypes'
  BY <1>1, <1>4, <1>5 DEF ReadModelTypes, Quiet, IsRow, NoRow
<1>7. ReadersRead' /\ RowsTell'
  BY <1>1, <1>5 DEF ReadersRead, RowsTell, RowTells, NoRow
<1> QED BY <1>1, <1>6, <1>7, QuietNext DEF ReadModelInv

-----------------------------------------------------------------------------
(* The aggregate and its events stay as they are.                          *)
SameEvents == kind' = kind /\ stream' = stream /\ sent' = sent

LEMMA StreamMeaning ==
  ASSUME kind' = kind, stream' = stream
  PROVE  /\ StreamKind' = StreamKind /\ Lawful(StreamKind, stream)' = Lawful(StreamKind, stream)
         /\ \A v : State(v)' = State(v) /\ Recorded(v)' = Recorded(v)
         /\ Rows' = Rows /\ HistoryEntries' = HistoryEntries
         /\ \A w : /\ Type(w)' = Type(w) /\ Creates(w)' = Creates(w) /\ Ignores(w)' = Ignores(w)
                   /\ ItemSaved(w)' = ItemSaved(w)
         /\ \A r : RowTells(r)' = RowTells(r)
<1>1. StreamKind' = StreamKind
  BY DEF StreamKind
<1>2. Lawful(StreamKind, stream)' = Lawful(StreamKind, stream)
  BY <1>1
<1>3. \A v : State(v)' = State(v) /\ Recorded(v)' = Recorded(v)
  BY <1>1 DEF State, Recorded
<1>4. Views' = Views
  BY DEF Views
<1>5. Rows' = Rows /\ HistoryEntries' = HistoryEntries
  BY <1>4 DEF Rows, HistoryEntries
<1>6. \A w : Type(w)' = Type(w)
  BY DEF Type, EventAt
<1>7. \A w : Creates(w)' = Creates(w) /\ Ignores(w)' = Ignores(w) /\ ItemSaved(w)' = ItemSaved(w)
  BY <1>6 DEF Creates, Ignores, ItemSaved
<1>8. \A r : RowTells(r)' = RowTells(r)
  BY <1>3 DEF RowTells
<1> QED BY <1>1, <1>2, <1>3, <1>5, <1>6, <1>7, <1>8

LEMMA SameMeaning ==
  ASSUME SameEvents
  PROVE  /\ StreamKind' = StreamKind /\ Lawful(StreamKind, stream)' = Lawful(StreamKind, stream)
         /\ \A v : State(v)' = State(v) /\ Recorded(v)' = Recorded(v)
         /\ Rows' = Rows /\ Works' = Works /\ HistoryEntries' = HistoryEntries
         /\ \A w : /\ Type(w)' = Type(w) /\ Creates(w)' = Creates(w) /\ Ignores(w)' = Ignores(w)
                   /\ ItemSaved(w)' = ItemSaved(w)
         /\ \A r : RowTells(r)' = RowTells(r)
<1>1. kind' = kind /\ stream' = stream /\ sent' = sent
  BY DEF SameEvents
<1>2. Works' = Works
  BY <1>1, StreamMeaning DEF Works
<1> QED BY <1>1, <1>2, StreamMeaning

LEMMA TypesKept ==
  ASSUME ReadModelTypes, SameEvents, sent # {},
         queue' \subseteq [at : sent, tries : Nat], working' \subseteq Works, IsRow(shown'),
         items' \in Nat, entries' \in Seq(HistoryEntries),
         serial' \in [last : Nat, inOrder : BOOLEAN, once : BOOLEAN]
  PROVE  ReadModelTypes'
<1>1. kind' = kind /\ stream' = stream /\ sent' = sent
  BY DEF SameEvents
<1>2. /\ kind \in Kinds /\ Lawful(StreamKind, stream) /\ (0 \in sent => kind = "payment")
      /\ stream # <<>> /\ sent \in {1 .. Len(stream), 0 .. Len(stream)}
  BY DEF ReadModelTypes
<1>3. IsRow(shown)'
  BY SameMeaning DEF IsRow, NoRow
<1> QED BY <1>1, <1>2, <1>3, SameMeaning DEF ReadModelTypes

(* The handler of w is done, perhaps to be called again.                   *)
Leaves(w) ==
  /\ working' = working \ {w}
  /\ queue' \in {queue, queue \union {[at |-> w.at, tries |-> w.tries]},
                 queue \union {[at |-> w.at, tries |-> w.tries + 1]}}

(* The handler of w goes on as x.                                          *)
GoesOn(w, x) == working' = (working \ {w}) \union {x} /\ queue' = queue /\ x.at = w.at

LEMMA LeavingTypes ==
  ASSUME ReadModelTypes, NEW w \in working, Leaves(w)
  PROVE  queue' \subseteq [at : sent, tries : Nat] /\ working' \subseteq Works /\ queue \subseteq queue'
<1>1. w.at \in sent /\ w.tries \in Nat /\ w.tries + 1 \in Nat
  BY WorkFacts
<1>2. queue \subseteq [at : sent, tries : Nat] /\ working \subseteq Works
  BY DEF ReadModelTypes
<1>3. [at |-> w.at, tries |-> w.tries] \in [at : sent, tries : Nat]
      /\ [at |-> w.at, tries |-> w.tries + 1] \in [at : sent, tries : Nat]
  BY <1>1
<1>4. queue' \subseteq [at : sent, tries : Nat] /\ queue \subseteq queue'
  BY <1>2, <1>3 DEF Leaves
<1>5. working' \subseteq Works
  BY <1>2 DEF Leaves
<1> QED BY <1>4, <1>5

(* What handlers that have read rely on.                                   *)
LEMMA ReadersKept ==
  ASSUME ReadersRead, SameEvents, 0 .. Len(entries) \subseteq 0 .. Len(entries'),
         \A w \in working' \ working :
           /\ w.doing = "read" => /\ ~Creates(w) /\ ~Ignores(w) /\ w.at # 0
                                  /\ kind = "history" => Type(w) = "CANCELLED"
           /\ w.doing = "saved" => kind = "order" /\ Type(w) = "ITEM_ADDED"
           /\ kind = "history" => w.items \in 0 .. Len(entries')
  PROVE  ReadersRead'
<1>1. kind' = kind
  BY DEF SameEvents
<1> QED BY <1>1, SameMeaning DEF ReadersRead

LEMMA RowsKept ==
  ASSUME RowsTell, SameEvents, shown' = shown,
         \A w \in working' : w \in working \/ w.read \in {NoRow, shown} \/ \E x \in working : w.read = x.read,
         ReadModelTypes
  PROVE  RowsTell'
<1> SUFFICES ASSUME kind = "order"
             PROVE  RowTells(shown)' /\ \A w \in working' : RowTells(w.read)' /\ w.read.at <= shown.at
  BY DEF RowsTell, SameEvents
<1>1. RowTells(shown) /\ \A w \in working : RowTells(w.read) /\ w.read.at <= shown.at
  BY DEF RowsTell
<1>2. RowTells(NoRow) /\ NoRow.at = 0 /\ shown.at \in Nat
  <2>1. shown = NoRow \/ shown.at \in 1 .. Len(stream)
    BY DEF ReadModelTypes, IsRow, Rows
  <2> QED BY <2>1, StatesFollow DEF RowTells, NoRow
<1>3. RowTells(shown)'
  BY <1>1, SameMeaning
<1>4. ASSUME NEW w \in working' PROVE RowTells(w.read) /\ w.read.at <= shown.at
  <2>1. CASE w \in working
    BY <1>1, <2>1
  <2>2. CASE w.read = NoRow
    BY <1>2, <2>2
  <2>3. CASE w.read = shown
    BY <1>1, <1>2, <2>3
  <2>4. CASE \E x \in working : w.read = x.read
    BY <1>1, <2>4
  <2> QED BY <2>1, <2>2, <2>3, <2>4
<1> QED BY <1>3, <1>4, SameMeaning

-----------------------------------------------------------------------------
SameRow == shown' = shown /\ items' = items /\ entries' = entries

LEMMA SameShown ==
  ASSUME kind' = kind, stream' = stream, shown' = shown, entries' = entries, serial' = serial, NEW v
  PROVE  Shows(v)' = Shows(v)
<1>1. \A u : State(u)' = State(u) /\ Recorded(u)' = Recorded(u)
  BY StreamMeaning
<1>2. \A x, n : Exactly(x, n)' = Exactly(x, n)
  BY DEF Exactly
<1> QED BY <1>1, <1>2 DEF Shows

LEMMA SameShows ==
  ASSUME kind' = kind, stream' = stream, SameRow, serial' = serial, NEW v
  PROVE  /\ Shows(v)' = Shows(v) /\ Exactly(items, State(v).items)' = Exactly(items, State(v).items)
         /\ \A w : ItemsMatch(w)' = ItemsMatch(w)
<1>1. kind' = kind /\ shown' = shown /\ items' = items /\ entries' = entries
  BY DEF SameRow
<1>2. ASSUME NEW w PROVE ItemsMatch(w)' = ItemsMatch(w)
  <2>1. ItemSaved(w)' = ItemSaved(w)
    BY StreamMeaning
  <2>2. CASE ItemSaved(w)
    BY <1>1, <2>1, <2>2, StreamMeaning DEF ItemsMatch, Exactly
  <2>3. CASE ~ItemSaved(w)
    BY <1>1, <2>1, <2>3, StreamMeaning DEF ItemsMatch, Exactly
  <2> QED BY <2>2, <2>3
<1>3. Exactly(items, State(v).items)' = Exactly(items, State(v).items)
  BY <1>1, StreamMeaning DEF Exactly
<1> QED BY <1>1, <1>2, <1>3, SameShown

(* A repetition only loosens what must be shown.                           *)
LEMMA ShowsLess ==
  ASSUME kind' = kind, stream' = stream, SameRow, ReadModelTypes, serial'.once => serial.once,
         NEW v \in 0 .. Len(stream)
  PROVE  /\ Shows(v) => Shows(v)'
         /\ Exactly(items, State(v).items) => Exactly(items, State(v).items)'
<1>1. shown' = shown /\ items' = items /\ entries' = entries /\ items \in Nat /\ kind \in Kinds
  BY DEF SameRow, ReadModelTypes
<1>2. \A u : State(u)' = State(u) /\ Recorded(u)' = Recorded(u)
  BY StreamMeaning
<1>3. Exactly(items, State(v).items) => Exactly(items, State(v).items)'
  BY <1>1, <1>2 DEF Exactly
<1>4. CASE kind = "order"
  <2>1. ASSUME shown.at \in 1 .. v PROVE shown.view.items \in Nat
    <3>1. shown \in Rows
      BY <2>1 DEF ReadModelTypes, IsRow, NoRow
    <3> QED BY <1>4, <3>1 DEF Rows, Views
  <2>2. ASSUME shown.at \in 1 .. v, Exactly(shown.view.items, State(v).items)
        PROVE  Exactly(shown.view.items, State(v).items)'
    BY <1>1, <1>2, <2>1, <2>2 DEF Exactly
  <2> QED BY <1>1, <1>2, <1>3, <1>4, <2>2 DEF Shows
<1>5. CASE kind = "history"
  BY <1>1, <1>2, <1>3, <1>5 DEF Shows
<1>6. CASE kind \in {"payment", "product"}
  BY <1>1, <1>2, <1>3, <1>6 DEF Shows
<1> QED BY <1>1, <1>4, <1>5, <1>6 DEF Kinds

(* When the handlers ran in order, there is one at most.                   *)
LEMMA Alone ==
  ASSUME ReadModelInv, serial.inOrder, NEW w \in working, w.at # 0
  PROVE  /\ w.at = serial.last /\ serial.last \in 1 .. Len(stream) /\ InHandNow(w)
         /\ \A x \in working : x = w \/ x.at = 0
<1>1. HandledInOrder /\ ReadModelTypes
  BY DEF ReadModelInv
<1>2. InHandNow(w) /\ \A x \in working : x = w \/ x.at = 0
  BY <1>1 DEF HandledInOrder
<1>3. w.at = serial.last
  BY <1>2 DEF InHandNow
<1>4. w.at \in 1 .. Len(stream)
  BY <1>1, WorkFacts
<1> QED BY <1>2, <1>3, <1>4

LEMMA DoomedStays == ASSUME Doomed, queue \subseteq queue', serial' = serial PROVE Doomed'
BY DEF Doomed

(* The delivery in hand is dealt with.                                     *)
LEMMA LeavesInOrder ==
  ASSUME ReadModelInv, NEW w \in working, w.at # 0, Leaves(w), SameEvents, serial' = serial,
         serial.inOrder /\ (Done \/ Underway) =>
           /\ Shows(serial.last)'
           /\ kind = "order" => Exactly(items, State(serial.last).items)'
  PROVE  HandledInOrder'
<1> SUFFICES ASSUME serial.inOrder
             PROVE  /\ serial.last \in 0 .. Len(stream')
                    /\ sent' # {} => \A v \in serial.last + 1 .. Len(stream') : \E d \in queue' : d.at = v
                    /\ \A y \in working' : y.at = 0
                    /\ Doomed' \/ Done'
  BY DEF HandledInOrder
<1>1. HandledInOrder /\ ReadModelTypes /\ kind' = kind /\ stream' = stream /\ sent' = sent
  BY DEF ReadModelInv, SameEvents
<1>2. queue \subseteq queue'
  BY <1>1, LeavingTypes
<1>3. \A y \in working' : y.at = 0
  BY Alone DEF Leaves
<1>4. serial.last \in 0 .. Len(stream)
      /\ (sent # {} => \A v \in serial.last + 1 .. Len(stream) : \E d \in queue : d.at = v)
      /\ (Doomed \/ Done \/ Underway)
  BY <1>1 DEF HandledInOrder
<1>5. CASE Doomed
  BY <1>1, <1>2, <1>3, <1>4, <1>5, DoomedStays
<1>6. CASE Done \/ Underway
  <2>1. Shows(serial.last)' /\ (kind' = "order" => Exactly(items, State(serial.last).items)')
    BY <1>1, <1>6
  <2>2. Done'
    BY <1>3, <2>1 DEF Done
  <2> QED BY <1>1, <1>2, <1>3, <1>4, <2>2
<1> QED BY <1>4, <1>5, <1>6

(* The delivery goes back to the queue, or was not an event.               *)
LEMMA ReturnedInOrder ==
  ASSUME ReadModelInv, NEW w \in working, Leaves(w), SameEvents, SameRow, serial' = serial,
         w.at = 0 \/ \E d \in queue' : d.at = w.at
  PROVE  HandledInOrder'
<1> SUFFICES ASSUME serial.inOrder PROVE HandledInOrder'
  BY DEF HandledInOrder
<1>1. HandledInOrder /\ ReadModelTypes /\ kind' = kind /\ stream' = stream /\ sent' = sent
      /\ shown' = shown /\ items' = items /\ entries' = entries
  BY DEF ReadModelInv, SameEvents, SameRow
<1>2. queue \subseteq queue' /\ working' \subseteq working
  BY <1>1, LeavingTypes DEF Leaves
<1>3. /\ serial.last \in 0 .. Len(stream)
      /\ sent # {} => \A v \in serial.last + 1 .. Len(stream) : \E d \in queue : d.at = v
      /\ \A x, y \in working : x.at # 0 /\ y.at # 0 => x = y
      /\ \A y \in working : y.at # 0 => InHandNow(y)
      /\ Doomed \/ Done \/ Underway
  BY <1>1 DEF HandledInOrder
<1>4. Doomed => Doomed'
  BY <1>2, DoomedStays
<1>5. \A v : State(v)' = State(v) /\ Shows(v)' = Shows(v)
             /\ Exactly(items, State(v).items)' = Exactly(items, State(v).items)
  BY <1>1, SameMeaning, SameShows
<1>6. Done => Done'
  BY <1>1, <1>2, <1>5 DEF Done
<1>7. ASSUME Underway PROVE Underway'
  <2>1. serial.last > 0 /\ Shows(serial.last - 1)'
    BY <1>5, <1>7 DEF Underway
  <2>2. \E x \in queue' \union working' : x.at = serial.last
    <3>1. PICK x \in queue \union working : x.at = serial.last
      BY <1>7 DEF Underway
    <3>2. CASE x = w
      <4>1. w.at # 0
        BY <2>1, <3>1, <3>2
      <4> QED BY <3>1, <3>2, <4>1
    <3>3. CASE x # w
      BY <1>2, <3>1, <3>3 DEF Leaves
    <3> QED BY <3>2, <3>3
  <2>3. kind = "order" => /\ items >= State(serial.last - 1).items
                          /\ \A y \in working' : y.at # 0 => ItemsMatch(y)'
    BY <1>1, <1>2, <1>7, SameShows DEF Underway
  <2> QED BY <1>1, <1>5, <2>1, <2>2, <2>3 DEF Underway
<1>8. \A y \in working' : y.at # 0 => InHandNow(y)'
  BY <1>1, <1>2, <1>3 DEF InHandNow
<1> QED BY <1>1, <1>2, <1>3, <1>4, <1>6, <1>7, <1>8 DEF HandledInOrder

(* The handler in hand goes on.                                            *)
LEMMA GoesOnInOrder ==
  ASSUME ReadModelInv, NEW w \in working, NEW x, w.at # 0, GoesOn(w, x), SameEvents, serial' = serial,
         serial.inOrder => InHandNow(x)' /\ (Done => Done') /\ (Underway => Underway')
  PROVE  HandledInOrder'
<1> SUFFICES ASSUME serial.inOrder PROVE HandledInOrder'
  BY DEF HandledInOrder
<1>1. HandledInOrder /\ ReadModelTypes /\ kind' = kind /\ stream' = stream /\ sent' = sent /\ queue' = queue
  BY DEF ReadModelInv, SameEvents, GoesOn
<1>2. \A y \in working' : y = x \/ y.at = 0
  BY Alone DEF GoesOn
<1>3. /\ serial.last \in 0 .. Len(stream)
      /\ sent # {} => \A v \in serial.last + 1 .. Len(stream) : \E d \in queue : d.at = v
      /\ Doomed \/ Done \/ Underway
  BY <1>1 DEF HandledInOrder
<1>4. Doomed => Doomed'
  BY <1>1, DoomedStays
<1> QED BY <1>1, <1>2, <1>3, <1>4 DEF HandledInOrder

-----------------------------------------------------------------------------
LEMMA PublishKeeps == ReadModelInv /\ PublishEvents => ReadModelInv'
<1> SUFFICES ASSUME ReadModelInv, PublishEvents PROVE ReadModelInv'
  OBVIOUS
<1>1. /\ sent = {} /\ stream # <<>> /\ sent' = 1 .. Len(stream) /\ queue' = [at : sent', tries : {0}]
      /\ kind' = kind /\ stream' = stream /\ working' = working /\ shown' = shown /\ items' = items
      /\ entries' = entries /\ serial' = serial
  BY DEF PublishEvents
<1>2. ReadModelTypes
  BY DEF ReadModelInv
<1>3. working = {} /\ shown = NoRow /\ items = 0 /\ entries = <<>>
      /\ serial.last = 0 /\ serial \in [last : Nat, inOrder : BOOLEAN, once : BOOLEAN]
  <2>1. Quiet
    BY <1>1, <1>2, UnsentIsQuiet
  <2>2. serial \in [last : Nat, inOrder : BOOLEAN, once : BOOLEAN]
    BY <1>2 DEF ReadModelTypes
  <2> QED BY <2>1, <2>2 DEF Quiet
<1>4. kind \in Kinds /\ Lawful(StreamKind, stream)'
  BY <1>1, <1>2, StreamMeaning DEF ReadModelTypes
<1>5. Len(stream) \in Nat
  BY <1>2, StatesFollow
<1>6. ReadModelTypes'
  <2>1. 0 \notin sent'
    BY <1>1, <1>5
  <2>2. queue' \subseteq [at : sent', tries : Nat] /\ working' \subseteq Works'
    BY <1>1, <1>3
  <2>3. IsRow(shown)' /\ items' \in Nat /\ entries' \in Seq(HistoryEntries')
    BY <1>1, <1>3 DEF IsRow, NoRow
  <2> QED BY <1>1, <1>3, <1>4, <2>1, <2>2, <2>3 DEF ReadModelTypes
<1>7. ReadersRead' /\ RowsTell'
  BY <1>1, <1>3 DEF ReadersRead, RowsTell, RowTells, NoRow
<1>8. HandledInOrder'
  <2>1. Done
    BY <1>1, <1>2, QuietIsInOrder
  <2>2. \A v : Shows(v)' = Shows(v) /\ Exactly(items, State(v).items)' = Exactly(items, State(v).items)
    BY <1>1, SameShows DEF SameRow
  <2>3. Done'
    BY <1>1, <2>1, <2>2 DEF Done
  <2>4. ASSUME NEW v \in 1 .. Len(stream) PROVE \E d \in queue' : d.at = v
    <3>1. [at |-> v, tries |-> 0] \in queue'
      BY <1>1
    <3> QED BY <3>1
  <2> QED BY <1>1, <1>3, <1>5, <2>3, <2>4 DEF HandledInOrder
<1> QED BY <1>6, <1>7, <1>8 DEF ReadModelInv

LEMMA PoisonKeeps == ReadModelInv /\ PublishPoison => ReadModelInv'
<1> SUFFICES ASSUME ReadModelInv, PublishPoison PROVE ReadModelInv'
  OBVIOUS
<1>1. /\ kind = "payment" /\ sent # {} /\ 0 \notin sent /\ sent' = sent \union {0}
      /\ queue' = queue \union {[at |-> 0, tries |-> 0]}
      /\ kind' = kind /\ stream' = stream /\ working' = working /\ shown' = shown /\ items' = items
      /\ entries' = entries /\ serial' = serial
  BY DEF PublishPoison
<1>2. ReadModelTypes /\ ReadersRead /\ RowsTell /\ HandledInOrder
  BY DEF ReadModelInv
<1>3. /\ kind \in Kinds /\ Lawful(StreamKind, stream) /\ stream # <<>>
      /\ sent \in {1 .. Len(stream), 0 .. Len(stream)}
      /\ queue \subseteq [at : sent, tries : Nat] /\ working \subseteq Works
      /\ IsRow(shown) /\ items \in Nat /\ entries \in Seq(HistoryEntries)
      /\ serial \in [last : Nat, inOrder : BOOLEAN, once : BOOLEAN]
  BY <1>1, <1>2 DEF ReadModelTypes
<1>4. Len(stream) \in Nat
  BY <1>2, StatesFollow
<1>5. ReadModelTypes'
  <2>1. sent' = 0 .. Len(stream)
    BY <1>1, <1>3, <1>4
  <2>2. queue' \subseteq [at : sent', tries : Nat]
    <3>1. [at |-> 0, tries |-> 0] \in [at : sent', tries : Nat]
      BY <1>1
    <3> QED BY <1>1, <1>3, <3>1
  <2>3. working' \subseteq Works'
    <3>1. Works \subseteq Works'
      BY <1>1, StreamMeaning DEF Works, NoRow
    <3> QED BY <1>1, <1>3, <3>1
  <2>4. Lawful(StreamKind, stream)' /\ IsRow(shown)' /\ items' \in Nat /\ entries' \in Seq(HistoryEntries')
    BY <1>1, <1>3, StreamMeaning DEF IsRow, NoRow
  <2> QED BY <1>1, <1>3, <2>1, <2>2, <2>3, <2>4 DEF ReadModelTypes
<1>6. ReadersRead' /\ RowsTell'
  BY <1>1, <1>2, StreamMeaning DEF ReadersRead, RowsTell
<1>7. ASSUME serial.inOrder PROVE HandledInOrder'
  <2>1. \A v : Shows(v)' = Shows(v) /\ Exactly(items, State(v).items)' = Exactly(items, State(v).items)
    BY <1>1, SameShows DEF SameRow
  <2>2. Done => Done'
    BY <1>1, <2>1 DEF Done
  <2>3. Underway => Underway'
    BY <1>1, <2>1 DEF Underway
  <2>4. Doomed => Doomed'
    BY <1>1, DoomedStays
  <2>5. \A w : InHandNow(w)' = InHandNow(w)
    BY <1>1 DEF InHandNow
  <2> QED BY <1>1, <1>2, <1>7, <2>2, <2>3, <2>4, <2>5 DEF HandledInOrder
<1>8. HandledInOrder'
  BY <1>1, <1>7 DEF HandledInOrder
<1> QED BY <1>5, <1>6, <1>8 DEF ReadModelInv

LEMMA BeginKeeps == ASSUME ReadModelInv, NEW d \in queue, Begin(d) PROVE ReadModelInv'
<1> DEFINE w == [at |-> d.at, tries |-> d.tries, doing |-> "begun", read |-> NoRow, items |-> 0]
           follows == d.at \in serial.last .. serial.last + 1 /\ \A x \in working : x.at = 0
<1>1. /\ queue' = queue \ {d} /\ working' = working \union {w}
      /\ serial' = IF d.at = 0 \/ ~serial.inOrder THEN serial
                   ELSE IF follows THEN [serial EXCEPT !.last = d.at, !.once = @ /\ d.at # serial.last]
                   ELSE OutOfOrder
      /\ kind' = kind /\ stream' = stream /\ sent' = sent /\ shown' = shown /\ items' = items /\ entries' = entries
  BY DEF Begin
<1>2. ReadModelTypes /\ ReadersRead /\ RowsTell /\ HandledInOrder /\ SameEvents
  BY <1>1 DEF ReadModelInv, SameEvents
<1>3. /\ queue \subseteq [at : sent, tries : Nat] /\ working \subseteq Works
      /\ IsRow(shown) /\ items \in Nat /\ entries \in Seq(HistoryEntries)
      /\ serial \in [last : Nat, inOrder : BOOLEAN, once : BOOLEAN]
  BY <1>2 DEF ReadModelTypes
<1>4. /\ d.at \in sent /\ d.tries \in Nat /\ sent # {}
      /\ sent \in {1 .. Len(stream), 0 .. Len(stream)} /\ Len(stream) \in Nat
  <2>1. d.at \in sent /\ d.tries \in Nat /\ sent # {}
    BY <1>3
  <2>2. (sent = {} /\ Quiet) \/ (stream # <<>> /\ sent \in {1 .. Len(stream), 0 .. Len(stream)})
    BY <1>2 DEF ReadModelTypes
  <2> QED BY <1>2, <2>1, <2>2, StatesFollow
<1>5. d.at \in 0 .. Len(stream)
  BY <1>4
<1>6. /\ w.at = d.at /\ w.doing = "begun" /\ w.read = NoRow /\ w.items = 0 /\ w \in Works
  BY <1>4 DEF Works
<1> HIDE DEF w
<1>7. ReadModelTypes'
  <2>1. serial' \in [last : Nat, inOrder : BOOLEAN, once : BOOLEAN]
    <3>1. d.at \in Nat
      BY <1>5
    <3>2. [serial EXCEPT !.last = d.at, !.once = @ /\ d.at # serial.last]
            \in [last : Nat, inOrder : BOOLEAN, once : BOOLEAN]
      BY <1>3, <3>1
    <3> QED BY <1>1, <1>3, <3>2 DEF OutOfOrder
  <2>2. queue' \subseteq [at : sent, tries : Nat] /\ working' \subseteq Works
    BY <1>1, <1>3, <1>6
  <2> QED BY <1>1, <1>2, <1>3, <1>4, <2>1, <2>2, TypesKept DEF IsRow
<1>8. ReadersRead' /\ RowsTell'
  <2>1. ReadersRead'
    BY <1>1, <1>2, <1>3, <1>6, ReadersKept
  <2>2. RowsTell'
    BY <1>1, <1>2, <1>6, RowsKept
  <2> QED BY <2>1, <2>2
<1>9. ASSUME serial'.inOrder PROVE HandledInOrder'
  <2>1. serial.inOrder /\ serial.last \in Nat
    BY <1>1, <1>3, <1>9 DEF OutOfOrder
  <2>2. /\ serial.last \in 0 .. Len(stream)
        /\ \A v \in serial.last + 1 .. Len(stream) : \E e \in queue : e.at = v
        /\ \A x, y \in working : x.at # 0 /\ y.at # 0 => x = y
        /\ \A x \in working : x.at # 0 => InHandNow(x)
        /\ Doomed \/ Done \/ Underway
    BY <1>2, <1>4, <2>1 DEF HandledInOrder
  <2>3. CASE d.at = 0
    <3>1. serial' = serial
      BY <1>1, <2>3
    <3>2. \A v : Shows(v)' = Shows(v) /\ Exactly(items, State(v).items)' = Exactly(items, State(v).items)
                 /\ \A x : ItemsMatch(x)' = ItemsMatch(x)
      BY <1>1, <3>1, SameShows DEF SameRow
    <3>3. \A v \in Nat \ {0} : (\E e \in queue : e.at = v) => \E e \in queue' : e.at = v
      BY <1>1, <2>3
    <3>4. Doomed => Doomed'
      <4>1. \A v \in 1 .. serial.last - 1 : v \in Nat \ {0}
        BY <2>1
      <4> QED BY <3>1, <3>3, <4>1 DEF Doomed
    <3>5. Done => Done'
      BY <1>1, <1>6, <2>3, <3>1, <3>2 DEF Done
    <3>6. ASSUME Underway PROVE Underway'
      <4>1. serial.last > 0 /\ \E x \in queue \union working : x.at = serial.last
        BY <3>6 DEF Underway
      <4>2. \E x \in queue' \union working' : x.at = serial.last
        BY <1>1, <2>3, <4>1
      <4> QED BY <1>1, <1>6, <2>3, <3>1, <3>2, <3>6, <4>2, StreamMeaning DEF Underway
    <3>7. \A v \in serial.last + 1 .. Len(stream) : \E e \in queue' : e.at = v
      <4>1. \A v \in serial.last + 1 .. Len(stream) : v \in Nat \ {0}
        BY <2>1
      <4> QED BY <2>2, <3>3, <4>1
    <3>8. \A x, y \in working' : x.at # 0 /\ y.at # 0 => x = y
      BY <1>1, <1>6, <2>2, <2>3
    <3>9. \A x \in working' : x.at # 0 => InHandNow(x)'
      BY <1>1, <1>6, <2>2, <2>3, <3>1 DEF InHandNow
    <3> QED BY <1>1, <2>2, <3>1, <3>4, <3>5, <3>6, <3>7, <3>8, <3>9 DEF HandledInOrder
  <2>4. CASE d.at # 0
    <3>1. follows /\ serial' = [serial EXCEPT !.last = d.at, !.once = @ /\ d.at # serial.last]
      BY <1>1, <1>9, <2>1, <2>4 DEF OutOfOrder
    <3>0. PICK n \in Nat : n = serial.last
      BY <2>1
    <3>2. /\ serial'.last = d.at /\ serial'.once = (serial.once /\ d.at # n)
          /\ d.at \in 1 .. Len(stream) /\ (d.at = n \/ d.at = n + 1)
      <4> DEFINE next == [serial EXCEPT !.last = d.at]
      <4>1. /\ next \in [last : Nat, inOrder : BOOLEAN, once : BOOLEAN]
            /\ next.last = d.at /\ next.once = serial.once
        BY <1>3, <1>5
      <4>2. serial' = [next EXCEPT !.once = serial.once /\ d.at # n]
        BY <3>0, <3>1
      <4> HIDE DEF next
      <4>3. serial'.last = d.at /\ serial'.once = (serial.once /\ d.at # n)
        BY <4>1, <4>2
      <4>4. d.at \in 1 .. Len(stream) /\ (d.at = n \/ d.at = n + 1)
        BY <1>4, <1>5, <2>1, <2>4, <3>0, <3>1
      <4> QED BY <4>3, <4>4
    <3>3. \A x \in working : x.at = 0
      BY <3>1
    <3>4. /\ \A x, y \in working' : x.at # 0 /\ y.at # 0 => x = y
          /\ \A x \in working' : x.at # 0 => x = w
          /\ InHandNow(w)'
      BY <1>1, <1>6, <3>2, <3>3 DEF InHandNow
    <3>5. \A v \in serial'.last + 1 .. Len(stream) : \E e \in queue' : e.at = v
      <4> SUFFICES ASSUME NEW v \in serial'.last + 1 .. Len(stream) PROVE \E e \in queue' : e.at = v
        OBVIOUS
      <4>1. v \in serial.last + 1 .. Len(stream) /\ v # d.at
        BY <1>4, <2>1, <3>0, <3>2
      <4> QED BY <1>1, <2>2, <4>1
    <3>6. ASSUME Doomed PROVE Doomed'
      <4>1. PICK e \in queue : e.at \in 1 .. n - 1
        BY <3>0, <3>6 DEF Doomed
      <4>2. e # d /\ e.at \in 1 .. d.at - 1
        BY <1>4, <1>5, <3>2, <4>1
      <4> QED BY <1>1, <3>2, <4>1, <4>2 DEF Doomed
    <3>7. \A v \in 0 .. Len(stream) : /\ Shows(v) => Shows(v)'
                                      /\ Exactly(items, State(v).items) => Exactly(items, State(v).items)'
      BY <1>1, <1>2, <3>2, ShowsLess DEF SameRow
    <3>8. n \in 0 .. Len(stream) /\ Len(stream) \in Nat /\ (Doomed \/ Done \/ Underway)
      BY <1>4, <2>2, <3>0
    <3>9. w \in working' /\ w.at = d.at /\ ~ItemSaved(w)'
      BY <1>1, <1>6 DEF ItemSaved
    <3>10. CASE d.at = n
      <4>1. serial'.last = n /\ n > 0 /\ serial'.once = FALSE
        <5>1. serial'.last = n /\ n > 0
          BY <3>2, <3>10
        <5>2. (serial.once /\ d.at # n) = FALSE
          BY <3>10
        <5> QED BY <3>2, <5>1, <5>2
      <4>2. ASSUME Done PROVE Done'
        <5>1. Shows(n) /\ (kind = "order" => Exactly(items, State(n).items))
          BY <3>0, <4>2 DEF Done
        <5>2. Shows(n)' /\ (kind = "order" => Exactly(items, State(n).items)')
          BY <3>7, <3>8, <5>1
        <5> QED BY <1>1, <4>1, <5>2 DEF Done
      <4>3. ASSUME Underway PROVE Underway'
        <5>1. Shows(n - 1) /\ (kind = "order" => items >= State(n - 1).items)
          BY <3>0, <4>3 DEF Underway
        <5>2. n - 1 \in 0 .. Len(stream)
          BY <3>8, <4>1
        <5>3. Shows(n - 1)'
          BY <3>7, <5>1, <5>2
        <5>4. kind = "order" => items' >= State(n - 1)'.items
          BY <1>1, <5>1, StreamMeaning
        <5>5. kind = "order" => ItemsMatch(w)'
          BY <1>1, <3>9, <4>1, <5>1, StreamMeaning DEF ItemsMatch, Exactly
        <5> QED BY <1>1, <3>4, <3>9, <3>10, <4>1, <5>3, <5>4, <5>5 DEF Underway
      <4> QED BY <1>1, <2>2, <3>4, <3>5, <3>6, <3>8, <4>1, <4>2, <4>3 DEF HandledInOrder
    <3>11. CASE d.at = n + 1
      <4>1. serial'.last = n + 1 /\ serial'.once = serial.once /\ n + 1 > 0 /\ (n + 1) - 1 = n
            /\ n + 1 \in 0 .. Len(stream)
        <5>1. serial'.once = serial.once
          <6>1. d.at # n
            BY <3>0, <3>11
          <6>2. serial.once \in BOOLEAN
            BY <1>3
          <6> QED BY <3>2, <6>1, <6>2
        <5> QED BY <3>2, <3>8, <3>11, <5>1
      <4>2. ASSUME Underway PROVE Doomed'
        <5>1. PICK x \in queue \union working : x.at = n
          BY <3>0, <4>2 DEF Underway
        <5>2. n > 0
          BY <3>0, <4>2 DEF Underway
        <5>3. x \in queue' /\ x.at \in 1 .. (n + 1) - 1
          BY <1>1, <3>3, <3>8, <3>11, <5>1, <5>2
        <5> QED BY <4>1, <5>3 DEF Doomed
      <4>3. ASSUME Done PROVE Underway'
        <5>1. Shows(n) /\ (kind = "order" => Exactly(items, State(n).items))
          BY <3>0, <4>3 DEF Done
        <5>2. Shows(n)' /\ (kind = "order" => Exactly(items, State(n).items)')
          BY <3>7, <3>8, <5>1
        <5>3. kind = "order" => items' >= State(n)'.items
          <6>1. State(n)' = State(n) /\ items \in Nat
            BY <1>1, <1>3, StreamMeaning
          <6> QED BY <1>1, <5>1, <6>1 DEF Exactly
        <5>4. kind = "order" => ItemsMatch(w)'
          BY <3>9, <4>1, <5>2 DEF ItemsMatch, Exactly
        <5> QED BY <1>1, <3>4, <3>9, <3>11, <4>1, <5>2, <5>3, <5>4 DEF Underway
      <4> QED BY <1>1, <2>2, <3>4, <3>5, <3>6, <3>8, <4>1, <4>2, <4>3 DEF HandledInOrder
    <3> QED BY <3>2, <3>10, <3>11
  <2> QED BY <2>3, <2>4
<1>10. HandledInOrder'
  BY <1>9 DEF HandledInOrder
<1> QED BY <1>7, <1>8, <1>10 DEF ReadModelInv

-----------------------------------------------------------------------------
LEMMA HandlersLeave ==
  ASSUME NEW w PROVE (Throws(w) => Leaves(w)) /\ (Returns(w) => Leaves(w))
<1>1. Throws(w) => Leaves(w)
  BY DEF Throws, Leaves
<1>2. Returns(w) => Leaves(w)
  BY DEF Returns, Leaves
<1> QED BY <1>1, <1>2

(* A handler that leaves without a trace.                                  *)
LEMMA LeavingKeeps ==
  ASSUME ReadModelInv, NEW w \in working, Leaves(w), SameEvents, SameRow,
         serial' \in {serial, OutOfOrder}, HandledInOrder'
  PROVE  ReadModelInv'
<1>1. ReadModelTypes /\ ReadersRead /\ RowsTell /\ shown' = shown /\ items' = items /\ entries' = entries
      /\ working' \subseteq working
  BY DEF ReadModelInv, SameRow, Leaves
<1>2. /\ IsRow(shown) /\ items \in Nat /\ entries \in Seq(HistoryEntries)
      /\ serial \in [last : Nat, inOrder : BOOLEAN, once : BOOLEAN]
  BY <1>1 DEF ReadModelTypes
<1>3. serial' \in [last : Nat, inOrder : BOOLEAN, once : BOOLEAN]
  <2>1. OutOfOrder \in [last : Nat, inOrder : BOOLEAN, once : BOOLEAN]
    BY DEF OutOfOrder
  <2> QED BY <1>2, <2>1
<1>4. ReadModelTypes'
  <2>1. sent # {} /\ queue' \subseteq [at : sent, tries : Nat] /\ working' \subseteq Works
    BY <1>1, WorkFacts, LeavingTypes
  <2> QED BY <1>1, <1>2, <1>3, <2>1, TypesKept DEF IsRow
<1>5. ReadersRead'
  BY <1>1, ReadersKept
<1>6. RowsTell'
  BY <1>1, RowsKept
<1> QED BY <1>4, <1>5, <1>6 DEF ReadModelInv

LEMMA InterruptedKeeps == ASSUME ReadModelInv, NEW w \in working, Interrupted(w) PROVE ReadModelInv'
<1>1. SameEvents /\ SameRow
  BY DEF Interrupted, SameEvents, SameRow
<1>2. CASE Throws(w) /\ w.tries < ProjectionRetries /\ serial' = serial
  <2>1. Leaves(w)
    BY <1>2, HandlersLeave
  <2>2. [at |-> w.at, tries |-> w.tries + 1] \in queue'
    BY <1>2 DEF Throws
  <2>3. HandledInOrder'
    BY <1>1, <1>2, <2>1, <2>2, ReturnedInOrder
  <2> QED BY <1>1, <1>2, <2>1, <2>3, LeavingKeeps
<1>3. CASE Throws(w) /\ serial' = OutOfOrder
  <2>1. Leaves(w)
    BY <1>3, HandlersLeave
  <2>2. HandledInOrder'
    BY <1>3 DEF HandledInOrder, OutOfOrder
  <2> QED BY <1>1, <1>3, <2>1, <2>2, LeavingKeeps
<1>4. CASE /\ working' = working \ {w} /\ queue' = queue \union {[at |-> w.at, tries |-> w.tries]}
           /\ serial' = serial
  <2>1. Leaves(w)
    BY <1>4 DEF Leaves
  <2>2. [at |-> w.at, tries |-> w.tries] \in queue'
    BY <1>4
  <2>3. HandledInOrder'
    BY <1>1, <1>4, <2>1, <2>2, ReturnedInOrder
  <2> QED BY <1>1, <1>4, <2>1, <2>3, LeavingKeeps
<1> QED BY <1>2, <1>3, <1>4 DEF Interrupted

LEMMA PoisonedKeeps == ASSUME ReadModelInv, NEW w \in working, Poisoned(w) PROVE ReadModelInv'
<1>1. SameEvents /\ SameRow /\ Leaves(w) /\ serial' = serial
  BY HandlersLeave DEF Poisoned, SameEvents, SameRow
<1>2. w.at = 0
  BY WorkFacts DEF Poisoned, ReadModelInv
<1>3. HandledInOrder'
  BY <1>1, <1>2, ReturnedInOrder
<1> QED BY <1>1, <1>3, LeavingKeeps

(* A row there has been is there.                                          *)
LEMMA RowIsThere ==
  ASSUME ReadModelTypes, kind # "history", NEW v \in 1 .. Len(stream), Shows(v)
  PROVE  shown # NoRow /\ shown.at \in 1 .. Len(stream)
<1>1. kind \in {"order", "payment", "product"} /\ v # 0 /\ Len(stream) \in Nat
  BY StatesFollow DEF ReadModelTypes, Kinds
<1>2. shown = NoRow \/ shown.at \in 1 .. Len(stream)
  BY DEF ReadModelTypes, IsRow, Rows
<1>3. CASE kind = "order"
  BY <1>1, <1>2, <1>3 DEF Shows, NoRow
<1>4. CASE kind # "order"
  BY <1>1, <1>2, <1>4 DEF Shows, NoRow
<1> QED BY <1>3, <1>4

LEMMA SkipKeeps == ASSUME ReadModelInv, NEW w \in working, Skip(w) PROVE ReadModelInv'
<1>1. SameEvents /\ SameRow /\ Leaves(w) /\ serial' = serial /\ kind' = kind /\ stream' = stream
  BY HandlersLeave DEF Skip, SameEvents, SameRow
<1>2. ReadModelTypes /\ ReadersRead
  BY DEF ReadModelInv
<1>3. CASE Ignores(w)
  <2>1. w.at # 0
    BY <1>2, <1>3, WorkFacts DEF Ignores
  <2>2. ASSUME serial.inOrder, Done \/ Underway
        PROVE  Shows(serial.last) /\ (kind = "order" => Exactly(items, State(serial.last).items))
    <3>0. PICK n : n = serial.last
      OBVIOUS
    <3>1. w.at = n /\ n \in 1 .. Len(stream) /\ stream[n].type = Type(w) /\ (Type(w) = "CREATED" <=> n = 1)
      BY <1>2, <2>1, <2>2, <3>0, Alone, WorkFacts
    <3>2. CASE Done
      BY <3>2 DEF Done
    <3>3. CASE Underway
      <4>1. Shows(n - 1) /\ (kind = "order" => ItemsMatch(w))
        BY <2>1, <3>0, <3>3 DEF Underway
      <4>2. n - 1 \in 1 .. Len(stream) /\ n - 1 # 0 /\ n # 0 /\ Len(stream) \in Nat /\ n \in Nat
        BY <1>2, <1>3, <3>1, StatesFollow DEF Ignores
      <4>3. CASE kind = "order"
        <5>1. stream[n].type = "PAYMENT_FAILED" /\ ~ItemSaved(w)
          BY <1>3, <3>1, <4>3 DEF Ignores, ItemSaved
        <5>2. State(n).status = State(n - 1).status /\ State(n).items = State(n - 1).items
          BY <1>2, <3>1, <4>3, <5>1, OrderStates
        <5>3. Exactly(items, State(n).items)
          BY <3>0, <4>1, <4>3, <5>1, <5>2 DEF ItemsMatch
        <5>4. shown.at \in 1 .. n - 1 /\ State(shown.at).status = State(n - 1).status
              /\ Exactly(shown.view.items, State(n - 1).items)
          BY <4>1, <4>2, <4>3 DEF Shows
        <5>5. shown.at \in 1 .. n
          BY <4>2, <5>4
        <5> QED BY <3>0, <4>2, <4>3, <5>2, <5>3, <5>4, <5>5 DEF Shows
      <4>4. CASE kind = "history"
        <5>1. stream[n].type \in {"PAID", "PAYMENT_FAILED"}
          BY <1>3, <3>1, <4>4 DEF Ignores
        <5>2. Recorded(n) = Recorded(n - 1)
          <6>1. \A u : u \in 1 .. n <=> u \in 1 .. n - 1 \/ u = n
            BY <4>2
          <6> QED BY <5>1, <6>1 DEF Recorded
        <5> QED BY <3>0, <4>1, <4>4, <5>2 DEF Shows
      <4> QED BY <1>3, <4>3, <4>4 DEF Ignores
    <3> QED BY <2>2, <3>2, <3>3
  <2>3. HandledInOrder'
    BY <1>1, <2>1, <2>2, LeavesInOrder, SameShows
  <2> QED BY <1>1, <2>3, LeavingKeeps
<1>4. CASE kind # "history" /\ w.doing = "read" /\ w.read = NoRow
  <2>1. w.at # 0 /\ ~Creates(w)
    BY <1>2, <1>4 DEF ReadersRead
  <2>2. ASSUME serial.inOrder, Done \/ Underway
        PROVE  Shows(serial.last) /\ (kind = "order" => Exactly(items, State(serial.last).items))
    <3>0. PICK n : n = serial.last
      OBVIOUS
    <3>1. w.at = n /\ n \in 1 .. Len(stream) /\ n # 1 /\ shown = NoRow
      BY <1>2, <1>4, <2>1, <2>2, <3>0, Alone, WorkFacts DEF Creates, InHandNow
    <3>2. CASE Done
      BY <3>2 DEF Done
    <3>3. CASE Underway
      <4>1. Shows(n - 1)
        BY <3>0, <3>3 DEF Underway
      <4>2. n - 1 \in 1 .. Len(stream)
        BY <1>2, <3>1, StatesFollow
      <4> QED BY <1>2, <1>4, <3>1, <4>1, <4>2, RowIsThere
    <3> QED BY <2>2, <3>2, <3>3
  <2>3. HandledInOrder'
    BY <1>1, <2>1, <2>2, LeavesInOrder, SameShows
  <2> QED BY <1>1, <2>3, LeavingKeeps
<1> QED BY <1>3, <1>4 DEF Skip

-----------------------------------------------------------------------------
(* A handler that goes on.                                                 *)
LEMMA GoingOnTypes ==
  ASSUME ReadModelTypes, NEW w \in working, NEW x \in Works, GoesOn(w, x)
  PROVE  queue' \subseteq [at : sent, tries : Nat] /\ working' \subseteq Works
BY DEF GoesOn, ReadModelTypes

LEMMA SaveItemKeeps == ASSUME ReadModelInv, NEW w \in working, SaveItem(w) PROVE ReadModelInv'
<1> DEFINE x == [w EXCEPT !.doing = "saved"]
<1>1. SameEvents /\ serial' = serial /\ kind' = kind /\ stream' = stream /\ shown' = shown /\ entries' = entries
  BY DEF SaveItem, SameEvents
<1>2. ReadModelTypes /\ ReadersRead /\ RowsTell
  BY DEF ReadModelInv
<1>3. kind = "order" /\ Type(w) = "ITEM_ADDED" /\ w.doing = "begun"
  BY DEF SaveItem, SavesItem
<1>4. w.at # 0 /\ w \in Works
  BY <1>2, <1>3, WorkFacts
<1>5. /\ IsRow(shown) /\ items \in Nat /\ entries \in Seq(HistoryEntries)
      /\ serial \in [last : Nat, inOrder : BOOLEAN, once : BOOLEAN]
  BY <1>2 DEF ReadModelTypes
<1>6. CASE shown = NoRow
  <2>1. Leaves(w) /\ SameRow
    BY <1>1, <1>6, HandlersLeave DEF SaveItem, SameRow
  <2>2. ASSUME serial.inOrder, Done \/ Underway
        PROVE  Shows(serial.last) /\ (kind = "order" => Exactly(items, State(serial.last).items))
    <3>0. PICK n : n = serial.last
      OBVIOUS
    <3>1. w.at = n /\ n \in 1 .. Len(stream) /\ n # 1
      BY <1>2, <1>3, <1>4, <2>2, <3>0, Alone, WorkFacts
    <3>2. CASE Done
      BY <3>2 DEF Done
    <3>3. CASE Underway
      <4>1. Shows(n - 1)
        BY <3>0, <3>3 DEF Underway
      <4>2. n - 1 \in 1 .. Len(stream)
        BY <1>2, <3>1, StatesFollow
      <4> QED BY <1>2, <1>3, <1>6, <4>1, <4>2, RowIsThere
    <3> QED BY <2>2, <3>2, <3>3
  <2>3. HandledInOrder'
    BY <1>1, <1>4, <2>1, <2>2, LeavesInOrder, SameShows
  <2> QED BY <1>1, <2>1, <2>3, LeavingKeeps
<1>7. CASE shown # NoRow
  <2>1. items' = items + 1 /\ GoesOn(w, x)
    BY <1>7 DEF SaveItem, GoesOn
  <2>2. x \in Works /\ x.at = w.at /\ x.doing = "saved" /\ x.read = w.read
    BY <1>4 DEF Works
  <2> HIDE DEF x
  <2>3. ReadModelTypes'
    <3>1. sent # {} /\ queue' \subseteq [at : sent, tries : Nat] /\ working' \subseteq Works /\ items' \in Nat
      BY <1>2, <1>5, <2>1, <2>2, WorkFacts, GoingOnTypes
    <3> QED BY <1>1, <1>2, <1>5, <3>1, TypesKept
  <2>4. ReadersRead'
    <3>1. Type(x) = "ITEM_ADDED"
      BY <1>3, <2>2 DEF Type
    <3> QED BY <1>1, <1>2, <1>3, <2>1, <2>2, <3>1, ReadersKept DEF GoesOn
  <2>5. RowsTell'
    BY <1>1, <1>2, <2>1, <2>2, RowsKept DEF GoesOn
  <2>6. ASSUME serial.inOrder PROVE InHandNow(x)' /\ (Done => Done') /\ (Underway => Underway')
    <3>0. PICK n : n = serial.last
      OBVIOUS
    <3>1. w.at = n /\ n \in 1 .. Len(stream) /\ stream[n].type = "ITEM_ADDED"
          /\ \A y \in working : y = w \/ y.at = 0
      BY <1>2, <1>3, <1>4, <2>6, <3>0, Alone, WorkFacts
    <3>2. InHandNow(x)'
      BY <1>1, <2>2, <3>0, <3>1 DEF InHandNow
    <3>3. State(n).items = State(n - 1).items + 1 /\ State(n).items \in Nat /\ n - 1 \in 0 .. Len(stream)
          /\ State(n - 1).items \in Nat
      <4>1. n - 1 \in 0 .. Len(stream) /\ n \in 0 .. Len(stream)
        BY <1>2, <3>1, StatesFollow
      <4> QED BY <1>2, <1>3, <3>1, <4>1, OrderStates
    <3>4. \A v : State(v)' = State(v) /\ Shows(v)' = Shows(v)
      BY <1>1, SameShown, StreamMeaning
    <3>5. \A y \in working' : y = x \/ y.at = 0
      BY <2>1, <3>1 DEF GoesOn
    <3>6. ASSUME Done PROVE Done'
      <4>1. Shows(n) /\ items >= State(n).items /\ ~serial.once
        BY <1>3, <1>4, <1>5, <3>0, <3>3, <3>6 DEF Done, Exactly
      <4>2. Exactly(items, State(n).items)'
        BY <1>1, <1>5, <2>1, <3>3, <3>4, <4>1 DEF Exactly
      <4> QED BY <1>1, <3>0, <3>4, <4>1, <4>2 DEF Done
    <3>7. ASSUME Underway PROVE Underway'
      <4>1. n > 0 /\ Shows(n - 1) /\ items >= State(n - 1).items /\ ItemsMatch(w)
        BY <1>3, <1>4, <3>0, <3>7 DEF Underway
      <4>2. Exactly(items, State(n - 1).items)
        BY <1>3, <3>0, <4>1 DEF ItemsMatch, ItemSaved
      <4>3. Exactly(items, State(n).items)'
        BY <1>1, <1>5, <2>1, <3>3, <3>4, <4>1, <4>2 DEF Exactly
      <4>4. ItemSaved(x)'
        BY <1>1, <1>3, <2>2, StreamMeaning DEF ItemSaved, Type
      <4>5. ItemsMatch(x)'
        BY <1>1, <3>0, <4>3, <4>4 DEF ItemsMatch
      <4>6. x \in working' /\ x.at = n
        BY <2>1, <2>2, <3>1 DEF GoesOn
      <4>7. items' >= State(n - 1)'.items
        BY <1>5, <2>1, <3>3, <3>4, <4>1
      <4> QED BY <1>1, <3>0, <3>4, <3>5, <4>1, <4>5, <4>6, <4>7 DEF Underway
    <3> QED BY <3>2, <3>6, <3>7
  <2>7. HandledInOrder'
    BY <1>1, <1>4, <2>1, <2>6, GoesOnInOrder
  <2> QED BY <2>3, <2>4, <2>5, <2>7 DEF ReadModelInv
<1> QED BY <1>6, <1>7

LEMMA ReadRowKeeps == ASSUME ReadModelInv, NEW w \in working, ReadRow(w) PROVE ReadModelInv'
<1>0. PICK m, r, x : /\ m = IF kind = "history" THEN Len(entries) ELSE items
                    /\ r = shown /\ x = [w EXCEPT !.doing = "read", !.read = r, !.items = m]
  OBVIOUS
<1>1. SameEvents /\ SameRow /\ serial' = serial /\ kind' = kind /\ stream' = stream /\ shown' = shown
      /\ items' = items /\ entries' = entries /\ GoesOn(w, x)
  <2>1. x.at = w.at
    BY <1>0
  <2> QED BY <1>0, <2>1 DEF ReadRow, SameEvents, SameRow, GoesOn
<1>2. ReadModelTypes /\ ReadersRead /\ RowsTell
  BY DEF ReadModelInv
<1>3. /\ ~SavesItem(w) /\ ~Creates(w) /\ ~Ignores(w) /\ Type(w) # "TEST_POISON_EVENT"
      /\ kind = "history" => Type(w) = "CANCELLED"
  BY DEF ReadRow, Reads
<1>4. w.at # 0 /\ w \in Works
  BY <1>2, <1>3, WorkFacts
<1>5. /\ IsRow(shown) /\ items \in Nat /\ entries \in Seq(HistoryEntries)
      /\ serial \in [last : Nat, inOrder : BOOLEAN, once : BOOLEAN]
  BY <1>2 DEF ReadModelTypes
<1>6. /\ x \in Works /\ x.at = w.at /\ x.doing = "read" /\ x.read = shown
      /\ kind = "order" => x.items = items
      /\ kind = "history" => x.items = Len(entries)
  <2>1. m \in Nat /\ r \in Rows \union {NoRow}
    BY <1>0, <1>5 DEF IsRow
  <2> DEFINE y == [w EXCEPT !.doing = "read"]
             z == [y EXCEPT !.read = r]
  <2>2. y \in Works /\ y.at = w.at /\ y.doing = "read"
    BY <1>4 DEF Works
  <2>3. x = [z EXCEPT !.items = m]
    BY <1>0
  <2> HIDE DEF y
  <2>4. z \in Works /\ z.at = w.at /\ z.doing = "read" /\ z.read = r
    BY <2>1, <2>2 DEF Works
  <2> HIDE DEF z
  <2>5. x \in Works /\ x.at = w.at /\ x.doing = "read" /\ x.read = r /\ x.items = m
    BY <2>1, <2>3, <2>4 DEF Works
  <2>6. (kind = "order" => m = items) /\ (kind = "history" => m = Len(entries))
    BY <1>0
  <2> QED BY <1>0, <2>5, <2>6
<1>7. ReadModelTypes'
  <2>1. sent # {} /\ queue' \subseteq [at : sent, tries : Nat] /\ working' \subseteq Works
    BY <1>1, <1>2, <1>6, WorkFacts, GoingOnTypes
  <2> QED BY <1>1, <1>2, <1>5, <2>1, TypesKept
<1>8. Creates(x) = Creates(w) /\ Ignores(x) = Ignores(w) /\ Type(x) = Type(w)
  BY <1>6 DEF Creates, Ignores, Type
<1>9. ReadersRead'
  BY <1>1, <1>2, <1>3, <1>4, <1>5, <1>6, <1>8, ReadersKept DEF GoesOn
<1>10. RowsTell'
  BY <1>1, <1>2, <1>6, RowsKept DEF GoesOn
<1>11. ASSUME serial.inOrder PROVE InHandNow(x)' /\ (Done => Done') /\ (Underway => Underway')
  <2>0. PICK n : n = serial.last
    OBVIOUS
  <2>1. w.at = n /\ \A y \in working : y = w \/ y.at = 0
    BY <1>4, <1>11, <2>0, Alone
  <2>2. InHandNow(x)'
    BY <1>1, <1>6, <2>0, <2>1 DEF InHandNow
  <2>3. \A y \in working' : y = x \/ y.at = 0
    BY <1>1, <2>1 DEF GoesOn
  <2>4. \A v : Shows(v)' = Shows(v) /\ Exactly(items, State(v).items)' = Exactly(items, State(v).items)
               /\ State(v)' = State(v) /\ \A y : ItemsMatch(y)' = ItemsMatch(y)
    BY <1>1, SameShows, StreamMeaning
  <2>5. ASSUME Done PROVE Done'
    BY <1>1, <1>4, <2>0, <2>4, <2>5 DEF Done
  <2>6. ASSUME Underway PROVE Underway'
    <3>1. n > 0 /\ Shows(n - 1) /\ (kind = "order" => items >= State(n - 1).items /\ ItemsMatch(w))
      BY <1>4, <2>0, <2>6 DEF Underway
    <3>2. kind = "order" => ItemSaved(x) = ItemSaved(w)
      BY <1>3, <1>6, <1>8 DEF ItemSaved, SavesItem
    <3>3. kind = "order" => ItemsMatch(x)
      BY <3>1, <3>2 DEF ItemsMatch
    <3>4. x \in working' /\ x.at = n
      BY <1>1, <1>6, <2>1 DEF GoesOn
    <3> QED BY <1>1, <2>0, <2>3, <2>4, <3>1, <3>3, <3>4 DEF Underway
  <2> QED BY <2>2, <2>5, <2>6
<1>12. HandledInOrder'
  BY <1>1, <1>4, <1>11, GoesOnInOrder
<1> QED BY <1>7, <1>9, <1>10, <1>12 DEF ReadModelInv

-----------------------------------------------------------------------------
(* What a handler of an order writes.                                      *)
LEMMA OrderRows ==
  ASSUME ReadModelTypes, ReadersRead, RowsTell, NEW w \in working, kind = "order",
         Creates(w) \/ (w.doing = "read" /\ w.read # NoRow), ~Refused(w)
  PROVE  /\ w.at \in 1 .. Len(stream) /\ shown.at < w.at
         /\ [at |-> w.at, view |-> OrderRow(w)] \in Rows
         /\ OrderRow(w).status = State(w.at).status
         /\ OrderRow(w).tracking = (State(w.at).status = "SHIPPED")
         /\ Type(w) = "CREATED" => OrderRow(w).items = 0
         /\ Type(w) = "ITEM_ADDED" => OrderRow(w).items = w.items
         /\ Type(w) \notin {"CREATED", "ITEM_ADDED"} =>
              OrderRow(w).items = w.read.view.items /\ Type(w) # "PAYMENT_FAILED"
<1>1. w.at \in 1 .. Len(stream) /\ Type(w) = stream[w.at].type /\ (Type(w) = "CREATED" <=> w.at = 1)
      /\ w \in Works /\ Len(stream) \in Nat
  BY WorkFacts, StatesFollow
<1>2. shown.at < w.at /\ shown.at \in Nat /\ (shown = NoRow \/ shown.at \in 1 .. Len(stream))
  <2>1. shown = NoRow \/ shown.at \in 1 .. Len(stream)
    BY DEF ReadModelTypes, IsRow, Rows
  <2>2. NoRow.at = 0
    BY DEF NoRow
  <2> QED BY <1>1, <2>1, <2>2 DEF Refused
<1>3. PICK t, s, o : t = Type(w) /\ s = State(w.at) /\ o = OrderRow(w)
  OBVIOUS
<1>4. /\ t \in OrderEventType /\ s.status \in OrderStatus
      /\ t = "ITEM_ADDED" => s.status = "DRAFT"
      /\ t = "CREATED" => s.status = "DRAFT"
      /\ t = "CONFIRMED" => s.status = "AWAITING_INVENTORY"
      /\ t \notin {"CREATED", "ITEM_ADDED", "CONFIRMED", "PAYMENT_FAILED"} => s.status = t
  <2>1. w.at \in 0 .. Len(stream)
    BY <1>1
  <2> QED BY <1>1, <1>3, <2>1, OrderStates
<1> DEFINE RowFits == /\ o \in [status : OrderStatus, items : Nat, tracking : BOOLEAN]
                      /\ o.status = s.status /\ o.tracking = (s.status = "SHIPPED")
                      /\ t = "CREATED" => o.items = 0
                      /\ t = "ITEM_ADDED" => o.items = w.items
                      /\ t \notin {"CREATED", "ITEM_ADDED"} => o.items = w.read.view.items /\ t # "PAYMENT_FAILED"
<1>5. ASSUME t = "CREATED" PROVE RowFits
  <2>1. o = [status |-> "DRAFT", items |-> 0, tracking |-> FALSE]
    BY <1>3, <1>5 DEF OrderRow
  <2>2. o.tracking = (s.status = "SHIPPED")
    BY <1>4, <1>5, <2>1
  <2> QED BY <1>4, <1>5, <2>1, <2>2 DEF OrderStatus
<1>6. ASSUME t # "CREATED" PROVE RowFits
  <2>1. w.doing = "read" /\ w.read # NoRow
    BY <1>3, <1>6 DEF Creates
  <2>2. PICK r, f, g : r = w.read /\ f = r.view /\ g = [f EXCEPT !.status = s.status]
    OBVIOUS
  <2>3. r \in Rows /\ w.items \in Nat
    BY <1>1, <2>1, <2>2 DEF Works
  <2>4. r.at \in 1 .. Len(stream) /\ f \in [status : OrderStatus, items : Nat, tracking : BOOLEAN]
    BY <2>2, <2>3 DEF Rows, Views
  <2>5. f.status = State(r.at).status /\ f.tracking = (State(r.at).status = "SHIPPED") /\ r.at <= shown.at
    BY <2>1, <2>2 DEF RowsTell, RowTells
  <2>6. r.at + 1 \in 1 .. Len(stream) /\ (r.at + 1) - 1 = r.at /\ r.at \in 0 .. w.at - 1
    BY <1>1, <1>2, <2>4, <2>5
  <2>7. State(r.at).status # "SHIPPED"
    <3>1. State((r.at + 1) - 1).status # "SHIPPED"
      BY <2>6, OrderStates
    <3> QED BY <2>6, <3>1
  <2>8. f.tracking = FALSE
    BY <2>5, <2>7
  <2>9. t # "PAYMENT_FAILED"
    BY <1>3, <2>1 DEF ReadersRead, Ignores
  <2>10. /\ g \in [status : OrderStatus, items : Nat, tracking : BOOLEAN]
         /\ g.status = s.status /\ g.items = f.items /\ g.tracking = FALSE
    BY <1>4, <2>2, <2>4, <2>8
  <2>11. CASE t = "ITEM_ADDED"
    <3>1. o = [f EXCEPT !.items = w.items]
      BY <1>3, <2>2, <2>11 DEF OrderRow
    <3>2. f.status = "DRAFT"
      BY <1>1, <1>3, <2>5, <2>6, <2>11, OrderStates
    <3>3. o \in [status : OrderStatus, items : Nat, tracking : BOOLEAN] /\ o.status = "DRAFT"
          /\ o.tracking = FALSE /\ o.items = w.items
      BY <2>3, <2>4, <2>8, <3>1, <3>2
    <3>4. (s.status = "SHIPPED") = FALSE
      BY <1>4, <2>11
    <3> QED BY <1>4, <2>11, <3>3, <3>4
  <2>12. CASE t = "SHIPPED"
    <3>1. s.status = "SHIPPED"
      BY <1>4, <2>12
    <3>2. OrderRow(w) = [[f EXCEPT !.status = "SHIPPED"] EXCEPT !.tracking = TRUE]
      BY <1>3, <2>2, <2>12 DEF OrderRow
    <3>3. o = [g EXCEPT !.tracking = TRUE]
      BY <1>3, <2>2, <3>1, <3>2
    <3>4. o \in [status : OrderStatus, items : Nat, tracking : BOOLEAN] /\ o.status = s.status
          /\ o.tracking = TRUE /\ o.items = f.items
      BY <2>10, <3>3
    <3>5. (s.status = "SHIPPED") = TRUE
      BY <3>1
    <3> QED BY <2>2, <2>12, <3>4, <3>5
  <2>13. CASE t \notin {"ITEM_ADDED", "SHIPPED"}
    <3>1. o = g
      BY <1>3, <1>4, <1>6, <2>2, <2>9, <2>13 DEF OrderRow
    <3>2. (s.status = "SHIPPED") = FALSE
      BY <1>4, <1>6, <2>9, <2>13
    <3> QED BY <1>6, <2>2, <2>9, <2>10, <2>13, <3>1, <3>2
  <2> QED BY <2>11, <2>12, <2>13
<1>7. RowFits
  BY <1>5, <1>6
<1>8. [at |-> w.at, view |-> o] \in Rows
  BY <1>1, <1>7 DEF Rows, Views
<1> QED BY <1>1, <1>2, <1>3, <1>7, <1>8

LEMMA WriteOrderKeeps == ASSUME ReadModelInv, NEW w \in working, WriteOrder(w) PROVE ReadModelInv'
<1>1. SameEvents /\ Leaves(w) /\ serial' = serial /\ kind' = kind /\ stream' = stream
      /\ items' = items /\ entries' = entries
  BY HandlersLeave DEF WriteOrder, Stored, SameEvents
<1>2. ReadModelTypes /\ ReadersRead /\ RowsTell /\ kind = "order"
      /\ (Creates(w) \/ (w.doing = "read" /\ w.read # NoRow))
  BY DEF ReadModelInv, WriteOrder, Writes
<1>3. w.at # 0
  BY <1>2, WorkFacts
<1>4. CASE Refused(w)
  <2>1. SameRow
    BY <1>1, <1>4 DEF WriteOrder, SameRow
  <2>2. ASSUME serial.inOrder, Done \/ Underway
        PROVE  Shows(serial.last) /\ (kind = "order" => Exactly(items, State(serial.last).items))
    <3>0. PICK n : n = serial.last
      OBVIOUS
    <3>1. w.at = n /\ n \in 1 .. Len(stream) /\ shown # NoRow /\ n <= shown.at
      BY <1>3, <1>4, <2>2, <3>0, Alone DEF Refused
    <3>2. CASE Done
      BY <3>2 DEF Done
    <3>3. CASE Underway
      <4>1. Shows(n - 1)
        BY <3>0, <3>3 DEF Underway
      <4>2. n \in Nat
        BY <1>2, <3>1, StatesFollow
      <4>3. shown = NoRow \/ shown.at \in 1 .. n - 1
        BY <1>2, <4>1 DEF Shows
      <4> QED BY <3>1, <4>2, <4>3
    <3> QED BY <2>2, <3>2, <3>3
  <2>3. HandledInOrder'
    BY <1>1, <1>3, <2>1, <2>2, LeavesInOrder, SameShows
  <2> QED BY <1>1, <2>1, <2>3, LeavingKeeps
<1>5. CASE ~Refused(w)
  <2>0. PICK o : o = OrderRow(w)
    OBVIOUS
  <2>1. shown' = [at |-> w.at, view |-> o]
    BY <1>5, <2>0 DEF WriteOrder, Stored
  <2>2. /\ w.at \in 1 .. Len(stream) /\ shown.at < w.at
        /\ [at |-> w.at, view |-> o] \in Rows
        /\ o.status = State(w.at).status
        /\ o.tracking = (State(w.at).status = "SHIPPED")
        /\ Type(w) = "CREATED" => o.items = 0
        /\ Type(w) = "ITEM_ADDED" => o.items = w.items
        /\ Type(w) \notin {"CREATED", "ITEM_ADDED"} => o.items = w.read.view.items /\ Type(w) # "PAYMENT_FAILED"
    BY <1>2, <1>5, <2>0, OrderRows
  <2>3. /\ items \in Nat /\ entries \in Seq(HistoryEntries)
        /\ serial \in [last : Nat, inOrder : BOOLEAN, once : BOOLEAN]
    BY <1>2 DEF ReadModelTypes
  <2>4. ReadModelTypes'
    <3>1. sent # {} /\ queue' \subseteq [at : sent, tries : Nat] /\ working' \subseteq Works /\ IsRow(shown')
      BY <1>1, <1>2, <2>1, <2>2, WorkFacts, LeavingTypes DEF IsRow
    <3> QED BY <1>1, <1>2, <2>3, <3>1, TypesKept
  <2>5. ReadersRead'
    BY <1>1, <1>2, ReadersKept DEF Leaves
  <2>6. RowsTell'
    <3>1. RowTells([at |-> w.at, view |-> o])
      BY <2>2 DEF RowTells
    <3>2. RowTells(shown)'
      BY <1>1, <2>1, <3>1, StreamMeaning
    <3>3. ASSUME NEW x \in working' PROVE RowTells(x.read)' /\ x.read.at <= shown'.at
      <4>1. RowTells(x.read) /\ x.read.at <= shown.at
        BY <1>1, <1>2, <3>3 DEF RowsTell, Leaves
      <4>2. x.read.at \in Nat /\ shown.at \in Nat /\ w.at \in Nat
        <5>1. x \in Works /\ IsRow(shown) /\ Len(stream) \in Nat
          BY <1>1, <1>2, <3>3, StatesFollow DEF Leaves, ReadModelTypes
        <5>2. \A r : r = NoRow \/ r \in Rows => r.at \in Nat
          BY <5>1 DEF NoRow, Rows
        <5>3. x.read \in Rows \union {NoRow} /\ (shown = NoRow \/ shown \in Rows)
          BY <5>1 DEF Works, IsRow
        <5> QED BY <2>2, <5>1, <5>2, <5>3
      <4>3. RowTells(x.read)'
        BY <1>1, <4>1, StreamMeaning
      <4>4. x.read.at <= shown'.at
        BY <2>1, <2>2, <4>1, <4>2
      <4> QED BY <4>3, <4>4
    <3> QED BY <3>2, <3>3 DEF RowsTell
  <2>7. ASSUME serial.inOrder, Done \/ Underway
        PROVE  Shows(serial.last)' /\ (kind = "order" => Exactly(items, State(serial.last).items)')
    <3>0. PICK n : n = serial.last
      OBVIOUS
    <3>1. /\ w.at = n /\ n \in 1 .. Len(stream) /\ stream[n].type = Type(w) /\ (Type(w) = "CREATED" <=> n = 1)
          /\ n \in Nat /\ (w.doing = "read" => w.read = shown /\ w.items = items)
      BY <1>2, <1>3, <2>7, <3>0, Alone, WorkFacts, StatesFollow DEF InHandNow
    <3>2. /\ n \in 0 .. Len(stream) /\ n - 1 \in 0 .. Len(stream) /\ State(n).items \in Nat /\ State(n - 1).items \in Nat
          /\ Type(w) = "CREATED" => State(n).items = 0 /\ State(n - 1).items = 0
          /\ Type(w) \notin {"CREATED", "ITEM_ADDED"} => State(n).items = State(n - 1).items
      <4>1. n \in 0 .. Len(stream) /\ n - 1 \in 0 .. Len(stream) /\ (n = 1 => n - 1 = 0)
        BY <1>2, <3>1, StatesFollow
      <4>2. State(0).items = 0
        BY <1>2, OrderStates
      <4>3. Type(w) = "CREATED" => State(n - 1).items = 0
        BY <3>1, <4>1, <4>2
      <4> QED BY <1>2, <3>1, <4>1, <4>3, OrderStates
    <3>3. w.doing # "read" => Type(w) = "CREATED"
      BY <1>2 DEF Creates
    <3>4. Exactly(items, State(n).items) /\ Exactly(o.items, State(n).items)
      <4>1. CASE Done
        <5>1. Exactly(items, State(n).items) /\ ~serial.once /\ Shows(n)
          BY <1>2, <1>3, <3>0, <4>1 DEF Done
        <5>2. CASE Type(w) = "CREATED"
          BY <2>2, <3>2, <5>1, <5>2 DEF Exactly
        <5>3. CASE Type(w) = "ITEM_ADDED"
          BY <2>2, <3>1, <3>3, <5>1, <5>3
        <5>4. CASE Type(w) \notin {"CREATED", "ITEM_ADDED"}
          <6>1. Exactly(shown.view.items, State(n).items)
            BY <1>2, <3>1, <5>1 DEF Shows
          <6> QED BY <2>2, <3>1, <3>3, <5>1, <5>4, <6>1
        <5> QED BY <5>2, <5>3, <5>4
      <4>2. CASE Underway
        <5>1. Shows(n - 1) /\ ItemsMatch(w)
          BY <1>2, <1>3, <3>0, <4>2 DEF Underway
        <5>2. CASE Type(w) = "CREATED"
          <6>1. Exactly(items, State(n - 1).items)
            BY <3>0, <5>1, <5>2 DEF ItemsMatch, ItemSaved
          <6>2. Exactly(items, State(n).items)
            BY <3>2, <5>2, <6>1 DEF Exactly
          <6>3. Exactly(o.items, State(n).items)
            BY <2>2, <3>2, <5>2 DEF Exactly
          <6> QED BY <6>2, <6>3
        <5>3. CASE Type(w) = "ITEM_ADDED"
          <6>1. w.doing = "read"
            BY <3>3, <5>3
          <6>2. Exactly(items, State(n).items)
            BY <3>0, <5>1, <5>3, <6>1 DEF ItemsMatch, ItemSaved
          <6> QED BY <2>2, <3>1, <5>3, <6>1, <6>2
        <5>4. CASE Type(w) \notin {"CREATED", "ITEM_ADDED"}
          <6>1. Exactly(items, State(n - 1).items)
            BY <3>0, <5>1, <5>4 DEF ItemsMatch, ItemSaved
          <6>2. n - 1 # 0
            BY <3>1, <5>4
          <6>3. Exactly(shown.view.items, State(n - 1).items)
            BY <1>2, <5>1, <6>2 DEF Shows
          <6> QED BY <2>2, <3>1, <3>2, <3>3, <5>4, <6>1, <6>3
        <5> QED BY <5>2, <5>3, <5>4
      <4> QED BY <2>7, <4>1, <4>2
    <3>5. Exactly(items, State(n).items)' /\ Exactly(shown.view.items, State(n).items)'
      BY <1>1, <2>1, <3>4, StreamMeaning DEF Exactly
    <3>6. shown'.at = n /\ State(n)' = State(n) /\ n # 0 /\ n \in 1 .. n
      BY <1>1, <2>1, <3>1, StreamMeaning
    <3>7. Shows(n)'
      BY <1>1, <1>2, <3>5, <3>6 DEF Shows
    <3> QED BY <1>1, <3>0, <3>5, <3>7
  <2>8. HandledInOrder'
    BY <1>1, <1>3, <2>7, LeavesInOrder
  <2> QED BY <2>4, <2>5, <2>6, <2>8 DEF ReadModelInv
<1> QED BY <1>4, <1>5

-----------------------------------------------------------------------------
(* What a handler of a payment or a product writes: the state the event    *)
(* leads to, from the row before it or, once more, from its own.           *)
RowLeads(w, o) ==
  /\ w.at \in 1 .. Len(stream) /\ [at |-> w.at, view |-> o] \in Rows
  /\ w.at = 1 => o = State(w.at)
  /\ w.at # 1 => /\ w.doing = "read" /\ w.read # NoRow
                 /\ w.read.view \in {State(w.at - 1), State(w.at)} => o = State(w.at)

(* A row of a payment and its state change alike.                          *)
PaymentView == [status : PaymentStatuses, transaction : BOOLEAN, reason : BOOLEAN, refunded : Nat, processed : BOOLEAN]

PaymentRowFrom(v, e) ==
  LET to == [v EXCEPT !.status = e.type]
      cleared == [to EXCEPT !.reason = FALSE, !.refunded = 0]
  IN CASE e.type = "PROCESSING" -> to
       [] e.type = "COMPLETED" -> [cleared EXCEPT !.transaction = TRUE, !.processed = TRUE]
       [] e.type = "FAILED" -> [cleared EXCEPT !.reason = TRUE, !.processed = TRUE]
       [] e.type = "REFUNDED" -> [cleared EXCEPT !.refunded = e.amount]

LEMMA SamePaymentRow ==
  ASSUME NEW x \in PaymentView, NEW y \in PaymentView,
         x.status = y.status, x.transaction = y.transaction, x.reason = y.reason, x.refunded = y.refunded,
         x.processed = y.processed
  PROVE  x = y
<1>1. x = [status |-> x.status, transaction |-> x.transaction, reason |-> x.reason, refunded |-> x.refunded,
           processed |-> x.processed]
  BY DEF PaymentView
<1>2. y = [status |-> y.status, transaction |-> y.transaction, reason |-> y.reason, refunded |-> y.refunded,
           processed |-> y.processed]
  BY DEF PaymentView
<1> QED BY ONLY x.status = y.status, x.transaction = y.transaction, x.reason = y.reason, x.refunded = y.refunded,
                x.processed = y.processed, <1>1, <1>2, Zenon

LEMMA PaymentRowsAgree ==
  ASSUME NEW v \in PaymentView, NEW s \in PaymentView, ~s.reason, s.refunded = 0,
         NEW e \in [type : {"PROCESSING", "COMPLETED", "FAILED", "REFUNDED"}, amount : Nat]
  PROVE  /\ PaymentRowFrom(v, e) \in PaymentView
         /\ v \in {s, PaymentApply(s, e)} => PaymentRowFrom(v, e) = PaymentApply(s, e)
<1>0. PICK to, cleared, o :
        /\ to = [v EXCEPT !.status = e.type]
        /\ cleared = [to EXCEPT !.reason = FALSE, !.refunded = 0]
        /\ o = CASE e.type = "PROCESSING" -> to
                 [] e.type = "COMPLETED" -> [cleared EXCEPT !.transaction = TRUE, !.processed = TRUE]
                 [] e.type = "FAILED" -> [cleared EXCEPT !.reason = TRUE, !.processed = TRUE]
                 [] e.type = "REFUNDED" -> [cleared EXCEPT !.refunded = e.amount]
        /\ o = PaymentRowFrom(v, e)
  BY DEF PaymentRowFrom
<1>1. PICK n : n = PaymentApply(s, e)
  OBVIOUS
<1>2. /\ n \in PaymentView /\ n.status = e.type
      /\ n.transaction = IF e.type = "COMPLETED" THEN TRUE ELSE s.transaction
      /\ n.reason = (e.type = "FAILED")
      /\ n.refunded = IF e.type = "REFUNDED" THEN e.amount ELSE 0
      /\ n.processed = IF e.type \in {"COMPLETED", "FAILED"} THEN TRUE ELSE s.processed
  <2>1. CASE e.type = "PROCESSING"
    BY <1>1, <2>1 DEF PaymentApply, PaymentView, PaymentStatuses
  <2>2. CASE e.type = "COMPLETED"
    BY <1>1, <2>2 DEF PaymentApply, PaymentView, PaymentStatuses
  <2>3. CASE e.type = "FAILED"
    BY <1>1, <2>3 DEF PaymentApply, PaymentView, PaymentStatuses
  <2>4. CASE e.type = "REFUNDED"
    BY <1>1, <2>4 DEF PaymentApply, PaymentView, PaymentStatuses
  <2> QED BY <2>1, <2>2, <2>3, <2>4
<1>3. /\ to \in PaymentView /\ to.status = e.type /\ to.transaction = v.transaction /\ to.reason = v.reason
      /\ to.refunded = v.refunded /\ to.processed = v.processed
  BY <1>0 DEF PaymentView, PaymentStatuses
<1>4. /\ cleared \in PaymentView /\ cleared.status = e.type /\ cleared.transaction = v.transaction
      /\ cleared.reason = FALSE /\ cleared.refunded = 0 /\ cleared.processed = v.processed
  <2> DEFINE c == [to EXCEPT !.reason = FALSE]
  <2>1. /\ c \in PaymentView /\ c.status = e.type /\ c.transaction = v.transaction
        /\ c.reason = FALSE /\ c.processed = v.processed
    BY <1>3 DEF PaymentView
  <2>2. cleared = [c EXCEPT !.refunded = 0]
    BY <1>0
  <2> HIDE DEF c
  <2> QED BY <2>1, <2>2 DEF PaymentView
<1>5. /\ o \in PaymentView /\ o.status = e.type
      /\ o.transaction = IF e.type = "COMPLETED" THEN TRUE ELSE v.transaction
      /\ o.reason = IF e.type = "FAILED" THEN TRUE ELSE IF e.type = "PROCESSING" THEN v.reason ELSE FALSE
      /\ o.refunded = IF e.type = "REFUNDED" THEN e.amount ELSE IF e.type = "PROCESSING" THEN v.refunded ELSE 0
      /\ o.processed = IF e.type \in {"COMPLETED", "FAILED"} THEN TRUE ELSE v.processed
  <2>1. CASE e.type = "PROCESSING"
    BY <1>0, <1>3, <2>1
  <2>2. CASE e.type = "COMPLETED"
    <3> DEFINE c == [cleared EXCEPT !.transaction = TRUE]
    <3>1. /\ c \in PaymentView /\ c.status = e.type /\ c.transaction = TRUE
          /\ c.reason = FALSE /\ c.refunded = 0
      BY <1>4 DEF PaymentView
    <3>2. o = [c EXCEPT !.processed = TRUE]
      BY <1>0, <2>2
    <3> HIDE DEF c
    <3> QED BY <2>2, <3>1, <3>2 DEF PaymentView
  <2>3. CASE e.type = "FAILED"
    <3> DEFINE c == [cleared EXCEPT !.reason = TRUE]
    <3>1. /\ c \in PaymentView /\ c.status = e.type /\ c.transaction = v.transaction
          /\ c.reason = TRUE /\ c.refunded = 0
      BY <1>4 DEF PaymentView
    <3>2. o = [c EXCEPT !.processed = TRUE]
      BY <1>0, <2>3
    <3> HIDE DEF c
    <3> QED BY <2>3, <3>1, <3>2 DEF PaymentView
  <2>4. CASE e.type = "REFUNDED"
    <3>1. o = [cleared EXCEPT !.refunded = e.amount]
      BY <1>0, <2>4
    <3> QED BY <1>4, <2>4, <3>1 DEF PaymentView
  <2> QED BY <2>1, <2>2, <2>3, <2>4
<1>6. ASSUME v \in {s, n} PROVE o = n
  <2>1. v.reason = FALSE \/ (v = n /\ v.reason = (e.type = "FAILED"))
    BY <1>2, <1>6 DEF PaymentView
  <2>2. o.status = n.status /\ o.refunded = n.refunded
    BY <1>2, <1>5, <1>6
  <2>3. o.transaction = n.transaction
    <3>1. CASE e.type = "COMPLETED"
      BY <1>2, <1>5, <3>1
    <3>2. CASE e.type # "COMPLETED" /\ v = s
      BY <1>2, <1>5, <3>2
    <3>3. CASE e.type # "COMPLETED" /\ v = n
      BY <1>5, <3>3
    <3> QED BY <1>6, <3>1, <3>2, <3>3
  <2>4. o.reason = n.reason
    <3>1. CASE e.type = "FAILED"
      BY <1>2, <1>5, <3>1
    <3>2. CASE e.type # "FAILED"
      <4>1. v.reason = FALSE /\ n.reason = FALSE
        BY <1>2, <1>6, <3>2 DEF PaymentView
      <4> QED BY <1>5, <3>2, <4>1
    <3> QED BY <3>1, <3>2
  <2>5. o.processed = n.processed
    <3>1. CASE e.type \in {"COMPLETED", "FAILED"}
      BY <1>2, <1>5, <3>1
    <3>2. CASE e.type \notin {"COMPLETED", "FAILED"} /\ v = s
      BY <1>2, <1>5, <3>2
    <3>3. CASE e.type \notin {"COMPLETED", "FAILED"} /\ v = n
      BY <1>5, <3>3
    <3> QED BY <1>6, <3>1, <3>2, <3>3
  <2> QED BY <1>2, <1>5, <2>2, <2>3, <2>4, <2>5, SamePaymentRow
<1> QED BY <1>0, <1>1, <1>5, <1>6

LEMMA PaymentRows ==
  ASSUME ReadModelTypes, ReadersRead, NEW w \in working, kind = "payment",
         Creates(w) \/ (w.doing = "read" /\ w.read # NoRow)
  PROVE  RowLeads(w, PaymentRow(w))
<1>1. w.at # 0
  BY DEF ReadersRead, Creates, Type, EventAt
<1>2. w.at \in 1 .. Len(stream) /\ Type(w) = stream[w.at].type /\ (Type(w) = "CREATED" <=> w.at = 1)
      /\ EventAt(w.at) = stream[w.at] /\ w \in Works /\ Len(stream) \in Nat /\ StreamKind = "payment"
  BY <1>1, WorkFacts, StatesFollow DEF StreamKind
<1>3. PICK s, e, n : s = State(w.at - 1) /\ e = stream[w.at] /\ n = State(w.at)
  OBVIOUS
<1>4. /\ s \in PaymentView /\ n = PaymentApply(s, e) /\ ~s.reason /\ s.refunded = 0
      /\ e \in [type : {"CREATED", "PROCESSING", "COMPLETED", "FAILED", "REFUNDED"}, amount : Nat]
      /\ w.at = 1 => s = NewPayment
  <2>1. s \in PaymentView /\ n = PaymentApply(s, e)
    BY <1>2, <1>3, StatesFollow DEF StatesOf, FoldStep, PaymentView
  <2>2. EventFits("payment", s, e)
    BY <1>2, <1>3, StatesFollow
  <2>3. ~s.reason /\ s.refunded = 0
    BY <2>2 DEF EventFits, PaymentEventFits
  <2>4. e \in [type : {"CREATED", "PROCESSING", "COMPLETED", "FAILED", "REFUNDED"}, amount : Nat]
    BY <1>2, <1>3, StatesFollow DEF EventsOf
  <2>5. w.at = 1 => s = NewPayment
    <3>1. w.at = 1 => w.at - 1 = 0
      OBVIOUS
    <3> QED BY <1>2, <1>3, <3>1, StatesFollow DEF FirstState
  <2> QED BY <2>1, <2>3, <2>4, <2>5
<1>5. PICK o : o = PaymentRow(w)
  OBVIOUS
<1>6. CASE w.at = 1
  <2>1. e.type = "CREATED"
    BY <1>2, <1>3, <1>6
  <2>2. o = [status |-> "PENDING", transaction |-> FALSE, reason |-> FALSE, refunded |-> 0, processed |-> FALSE]
    BY <1>2, <1>5, <1>6 DEF PaymentRow
  <2>3. n = o
    <3>1. n = [s EXCEPT !.status = "PENDING"] /\ s = o
      BY <1>4, <1>6, <2>1, <2>2 DEF PaymentApply, NewPayment
    <3>2. s.status = "PENDING" /\ s \in PaymentView
      BY <1>4, <2>2, <3>1
    <3>3. [s EXCEPT !.status = "PENDING"] = s
      BY <3>2 DEF PaymentView
    <3> QED BY <3>1, <3>3
  <2>4. o \in PaymentView
    BY <2>2 DEF PaymentStatuses, PaymentView
  <2>5. [at |-> w.at, view |-> o] \in Rows
    BY <1>2, <2>4 DEF Rows, Views, StatesOf, PaymentView
  <2> QED BY <1>2, <1>3, <1>5, <1>6, <2>3, <2>5 DEF RowLeads
<1>7. CASE w.at # 1
  <2>1. w.doing = "read" /\ w.read # NoRow
    BY <1>2, <1>7 DEF Creates
  <2>2. PICK v : v = w.read.view
    OBVIOUS
  <2>3. v \in PaymentView
    <3>1. w.read \in Rows
      BY <1>2, <2>1 DEF Works
    <3> QED BY <2>2, <3>1 DEF Rows, Views, StatesOf, PaymentView
  <2>4. e.type \in {"PROCESSING", "COMPLETED", "FAILED", "REFUNDED"}
    BY <1>2, <1>3, <1>4, <1>7
  <2>5. o = PaymentRowFrom(v, e)
    BY <1>2, <1>3, <1>5, <2>2, <2>4 DEF PaymentRow, PaymentRowFrom
  <2>6. e \in [type : {"PROCESSING", "COMPLETED", "FAILED", "REFUNDED"}, amount : Nat]
    BY <1>4, <2>4
  <2>7. o \in PaymentView /\ (v \in {s, n} => o = n)
    BY <1>4, <2>3, <2>5, <2>6, PaymentRowsAgree
  <2>8. [at |-> w.at, view |-> o] \in Rows
    BY <1>2, <2>7 DEF Rows, Views, StatesOf, PaymentView
  <2> QED BY <1>2, <1>3, <1>5, <1>7, <2>1, <2>2, <2>7, <2>8 DEF RowLeads
<1> QED BY <1>6, <1>7

(* A row of a product and its state change alike.                          *)
ProductView == [name : Nat, level : Levels \union {0}, active : BOOLEAN]

ProductRowFrom(v, e) ==
  CASE e.type = "UPDATED" -> [v EXCEPT !.name = IF e.name = 0 THEN @ ELSE e.name]
    [] e.type = "STOCK_UPDATED" -> [v EXCEPT !.level = e.level]
    [] OTHER -> [v EXCEPT !.active = e.type = "ACTIVATED"]

LEMMA SameProductRow ==
  ASSUME NEW x \in ProductView, NEW y \in ProductView, x.name = y.name, x.level = y.level, x.active = y.active
  PROVE  x = y
<1>1. x = [name |-> x.name, level |-> x.level, active |-> x.active]
  BY DEF ProductView
<1>2. y = [name |-> y.name, level |-> y.level, active |-> y.active]
  BY DEF ProductView
<1> QED BY ONLY x.name = y.name, x.level = y.level, x.active = y.active, <1>1, <1>2, Zenon

LEMMA ProductRowsAgree ==
  ASSUME NEW v \in ProductView, NEW s \in ProductView,
         NEW e \in [type : {"UPDATED", "STOCK_UPDATED", "ACTIVATED", "DEACTIVATED", "DELETED"},
                    name : Nat, level : Levels \union {0}]
  PROVE  /\ ProductRowFrom(v, e) \in ProductView
         /\ v \in {s, ProductApply(s, e)} => ProductRowFrom(v, e) = ProductApply(s, e)
<1>1. PICK n, o : n = ProductApply(s, e) /\ o = ProductRowFrom(v, e)
  OBVIOUS
<1>2. CASE e.type = "UPDATED"
  <2>1. CASE e.name = 0
    <3>1. n = s
      BY <1>1, <1>2, <2>1 DEF ProductApply
    <3>2. o = [v EXCEPT !.name = v.name]
      BY <1>1, <1>2, <2>1 DEF ProductRowFrom
    <3>3. o = v
      BY <3>2 DEF ProductView
    <3> QED BY <1>1, <3>1, <3>3
  <2>2. CASE e.name # 0
    <3>1. n = [s EXCEPT !.name = e.name] /\ o = [v EXCEPT !.name = e.name]
      BY <1>1, <1>2, <2>2 DEF ProductApply, ProductRowFrom
    <3>2. /\ n \in ProductView /\ n.name = e.name /\ n.level = s.level /\ n.active = s.active
          /\ o \in ProductView /\ o.name = e.name /\ o.level = v.level /\ o.active = v.active
      BY <3>1 DEF ProductView
    <3> QED BY <1>1, <3>2, SameProductRow
  <2> QED BY <2>1, <2>2
<1>3. CASE e.type = "STOCK_UPDATED"
  <2>1. n = [s EXCEPT !.level = e.level] /\ o = [v EXCEPT !.level = e.level]
    BY <1>1, <1>3 DEF ProductApply, ProductRowFrom
  <2>2. /\ n \in ProductView /\ n.name = s.name /\ n.level = e.level /\ n.active = s.active
        /\ o \in ProductView /\ o.name = v.name /\ o.level = e.level /\ o.active = v.active
    BY <2>1 DEF ProductView
  <2> QED BY <1>1, <2>2, SameProductRow
<1>4. CASE e.type \in {"ACTIVATED", "DEACTIVATED", "DELETED"}
  <2>1. PICK a \in BOOLEAN : a = (e.type = "ACTIVATED")
    OBVIOUS
  <2>2. n = [s EXCEPT !.active = a]
    <3>1. CASE e.type = "ACTIVATED"
      <4>1. a = TRUE
        BY <2>1, <3>1
      <4> QED BY <1>1, <3>1, <4>1 DEF ProductApply
    <3>2. CASE e.type \in {"DEACTIVATED", "DELETED"}
      <4>1. a = FALSE
        BY <2>1, <3>2
      <4> QED BY <1>1, <3>2, <4>1 DEF ProductApply
    <3> QED BY <1>4, <3>1, <3>2
  <2>3. o = [v EXCEPT !.active = a]
    BY <1>1, <1>4, <2>1 DEF ProductRowFrom
  <2>4. /\ n \in ProductView /\ n.name = s.name /\ n.level = s.level /\ n.active = a
        /\ o \in ProductView /\ o.name = v.name /\ o.level = v.level /\ o.active = a
    BY <2>2, <2>3 DEF ProductView
  <2> QED BY <1>1, <2>4, SameProductRow
<1> QED BY <1>2, <1>3, <1>4

LEMMA ProductRows ==
  ASSUME ReadModelTypes, ReadersRead, NEW w \in working, kind = "product",
         Creates(w) \/ (w.doing = "read" /\ w.read # NoRow)
  PROVE  RowLeads(w, ProductRow(w))
<1>1. w.at # 0
  BY DEF ReadersRead, Creates, Type, EventAt
<1>2. w.at \in 1 .. Len(stream) /\ Type(w) = stream[w.at].type /\ (Type(w) = "CREATED" <=> w.at = 1)
      /\ EventAt(w.at) = stream[w.at] /\ w \in Works /\ Len(stream) \in Nat /\ StreamKind = "product"
  BY <1>1, WorkFacts, StatesFollow DEF StreamKind
<1>3. PICK s, e, n, o : s = State(w.at - 1) /\ e = stream[w.at] /\ n = State(w.at) /\ o = ProductRow(w)
  OBVIOUS
<1>4. /\ s \in ProductView /\ n = ProductApply(s, e)
      /\ e \in [type : {"CREATED", "UPDATED", "STOCK_UPDATED", "ACTIVATED", "DEACTIVATED", "DELETED"},
                name : Nat, level : Levels \union {0}]
  BY <1>2, <1>3, StatesFollow DEF StatesOf, FoldStep, EventsOf, ProductView
<1>5. CASE w.at = 1
  <2>1. e.type = "CREATED"
    BY <1>2, <1>3, <1>5
  <2>2. o = [name |-> e.name, level |-> e.level, active |-> TRUE]
    BY <1>2, <1>3, <2>1 DEF ProductRow
  <2>3. n = o
    BY <1>4, <2>1, <2>2 DEF ProductApply
  <2>4. o \in ProductView
    BY <1>4, <2>2 DEF ProductView
  <2>5. [at |-> w.at, view |-> o] \in Rows
    BY <1>2, <2>4 DEF Rows, Views, StatesOf, ProductView
  <2> QED BY <1>2, <1>3, <1>5, <2>3, <2>5 DEF RowLeads
<1>6. CASE w.at # 1
  <2>1. w.doing = "read" /\ w.read # NoRow
    BY <1>2, <1>6 DEF Creates
  <2>2. PICK v : v = w.read.view
    OBVIOUS
  <2>3. v \in ProductView
    <3>1. w.read \in Rows
      BY <1>2, <2>1 DEF Works
    <3> QED BY <2>2, <3>1 DEF Rows, Views, StatesOf, ProductView
  <2>4. e.type \in {"UPDATED", "STOCK_UPDATED", "ACTIVATED", "DEACTIVATED", "DELETED"}
    BY <1>2, <1>3, <1>4, <1>6
  <2>5. o = ProductRowFrom(v, e)
    BY <1>2, <1>3, <2>2, <2>4 DEF ProductRow, ProductRowFrom
  <2>6. e \in [type : {"UPDATED", "STOCK_UPDATED", "ACTIVATED", "DEACTIVATED", "DELETED"},
               name : Nat, level : Levels \union {0}]
    BY <1>4, <2>4
  <2>7. o \in ProductView /\ (v \in {s, n} => o = n)
    BY <1>4, <2>3, <2>5, <2>6, ProductRowsAgree
  <2>8. [at |-> w.at, view |-> o] \in Rows
    BY <1>2, <2>7 DEF Rows, Views, StatesOf, ProductView
  <2> QED BY <1>2, <1>3, <1>6, <2>1, <2>2, <2>7, <2>8 DEF RowLeads
<1> QED BY <1>5, <1>6

(* The row of a payment or of a product is written.                        *)
LEMMA RowWritten ==
  ASSUME ReadModelInv, NEW w \in working, kind \in {"payment", "product"}, NEW o, RowLeads(w, o),
         shown' = [at |-> w.at, view |-> o], Leaves(w), SameEvents, serial' = serial,
         items' = items, entries' = entries
  PROVE  ReadModelInv'
<1>1. /\ ReadModelTypes /\ ReadersRead /\ kind' = kind /\ stream' = stream
      /\ w.at \in 1 .. Len(stream) /\ w.at # 0 /\ [at |-> w.at, view |-> o] \in Rows
  BY StatesFollow DEF ReadModelInv, SameEvents, RowLeads
<1>2. ReadModelTypes'
  <2>1. /\ items \in Nat /\ entries \in Seq(HistoryEntries)
        /\ serial \in [last : Nat, inOrder : BOOLEAN, once : BOOLEAN]
    BY <1>1 DEF ReadModelTypes
  <2>2. sent # {} /\ queue' \subseteq [at : sent, tries : Nat] /\ working' \subseteq Works /\ IsRow(shown')
    BY <1>1, WorkFacts, LeavingTypes DEF IsRow
  <2> QED BY <1>1, <2>1, <2>2, TypesKept
<1>3. ReadersRead'
  BY <1>1, ReadersKept DEF Leaves
<1>4. RowsTell'
  BY <1>1 DEF RowsTell
<1>5. ASSUME serial.inOrder, Done \/ Underway
      PROVE  Shows(serial.last)' /\ (kind = "order" => Exactly(items, State(serial.last).items)')
  <2>0. PICK n : n = serial.last
    OBVIOUS
  <2>1. w.at = n /\ n \in 1 .. Len(stream) /\ n \in Nat /\ n # 0 /\ (w.doing = "read" => w.read = shown)
    BY <1>1, <1>5, <2>0, Alone, StatesFollow DEF InHandNow
  <2>2. o = State(n)
    <3>1. CASE n = 1
      BY <2>1, <3>1 DEF RowLeads
    <3>2. CASE n # 1
      <4>1. w.doing = "read" /\ (w.read.view \in {State(n - 1), State(n)} => o = State(n)) /\ n - 1 # 0
        BY <2>1, <3>2 DEF RowLeads
      <4>2. Done => shown.view = State(n)
        BY <2>0, <2>1 DEF Done, Shows
      <4>3. Underway => shown.view = State(n - 1)
        BY <2>0, <4>1 DEF Underway, Shows
      <4> QED BY <1>5, <2>1, <4>1, <4>2, <4>3
    <3> QED BY <3>1, <3>2
  <2>3. shown'.at = n /\ shown'.view = State(n)'
    BY <1>1, <2>1, <2>2, StreamMeaning
  <2>4. kind' # "order" /\ kind' # "history"
    BY <1>1
  <2>5. Shows(n)'
    BY <2>1, <2>3, <2>4 DEF Shows
  <2> QED BY <2>0, <2>5
<1>6. HandledInOrder'
  BY <1>1, <1>5, LeavesInOrder
<1> QED BY <1>2, <1>3, <1>4, <1>6 DEF ReadModelInv

LEMMA WritePaymentKeeps == ASSUME ReadModelInv, NEW w \in working, WritePayment(w) PROVE ReadModelInv'
<1>1. SameEvents /\ Leaves(w) /\ serial' = serial /\ items' = items /\ entries' = entries
      /\ shown' = [at |-> w.at, view |-> PaymentRow(w)]
  BY HandlersLeave DEF WritePayment, Stored, SameEvents
<1>2. ReadModelTypes /\ ReadersRead /\ kind = "payment" /\ (Creates(w) \/ (w.doing = "read" /\ w.read # NoRow))
  BY DEF ReadModelInv, WritePayment, Writes
<1>3. RowLeads(w, PaymentRow(w))
  BY <1>2, PaymentRows
<1> QED BY <1>1, <1>2, <1>3, RowWritten

LEMMA WriteProductKeeps == ASSUME ReadModelInv, NEW w \in working, WriteProduct(w) PROVE ReadModelInv'
<1>1. SameEvents /\ Leaves(w) /\ serial' = serial /\ items' = items /\ entries' = entries
      /\ shown' = [at |-> w.at, view |-> ProductRow(w)]
  BY HandlersLeave DEF WriteProduct, Stored, SameEvents
<1>2. ReadModelTypes /\ ReadersRead /\ kind = "product" /\ (Creates(w) \/ (w.doing = "read" /\ w.read # NoRow))
  BY DEF ReadModelInv, WriteProduct, Writes
<1>3. RowLeads(w, ProductRow(w))
  BY <1>2, ProductRows
<1> QED BY <1>1, <1>2, <1>3, RowWritten

-----------------------------------------------------------------------------
(* What a handler of the history writes.                                   *)
LEMMA HistoryEntryFits ==
  ASSUME ReadModelTypes, ReadersRead, NEW w \in working, kind = "history", ~Ignores(w), ~Reads(w)
  PROVE  /\ w.at \in 1 .. Len(stream) /\ stream[w.at].type \notin {"PAID", "PAYMENT_FAILED"}
         /\ HistoryEntry(w) \in HistoryEntries /\ HistoryEntry(w).at = w.at /\ HistoryEntry(w).to # "UNKNOWN"
         /\ HistoryEntry(w).from = "UNKNOWN" =>
              /\ w.at # 1 /\ w.doing = "read"
              /\ w.items # 0 => entries[w.items].to = "UNKNOWN"
<1>1. /\ w.at # 0 /\ w.at \in 1 .. Len(stream) /\ Type(w) = stream[w.at].type
      /\ (Type(w) = "CREATED" <=> w.at = 1) /\ Type(w) # "TEST_POISON_EVENT"
  BY WorkFacts
<1>2. PICK t, o : t = Type(w) /\ o = HistoryEntry(w)
  OBVIOUS
<1>3. t \in OrderEventType /\ t \notin {"PAID", "PAYMENT_FAILED"}
  BY <1>1, <1>2, OrderStates DEF Ignores
<1>4. CASE t = "CANCELLED"
  <2>1. w.doing = "read"
    BY <1>1, <1>2, <1>4 DEF Reads, SavesItem, Creates
  <2>2. w.items \in 0 .. Len(entries) /\ entries \in Seq(HistoryEntries)
    BY DEF ReadersRead, ReadModelTypes
  <2>3. PICK f : f = IF w.items = 0 THEN "UNKNOWN" ELSE entries[w.items].to
    OBVIOUS
  <2>4. f \in HistoryStates
    <3>1. CASE w.items = 0
      BY <2>3, <3>1 DEF HistoryStates
    <3>2. CASE w.items # 0
      <4>1. w.items \in 1 .. Len(entries)
        BY <2>2, <3>2
      <4>2. entries[w.items] \in HistoryEntries
        BY <2>2, <4>1
      <4> QED BY <2>3, <3>2, <4>2 DEF HistoryEntries
    <3> QED BY <3>1, <3>2
  <2>5. o = [at |-> w.at, from |-> f, to |-> "CANCELLED"]
    BY <1>2, <1>4, <2>3 DEF HistoryEntry
  <2>6. o \in HistoryEntries
    BY <1>1, <2>4, <2>5 DEF HistoryEntries, HistoryStates, OrderEventType
  <2>7. o.from = "UNKNOWN" => (w.items # 0 => entries[w.items].to = "UNKNOWN")
    BY <2>3, <2>5
  <2> QED BY <1>1, <1>2, <1>3, <1>4, <2>1, <2>5, <2>6, <2>7
<1>5. CASE t # "CANCELLED"
  <2>1. t \in {"CREATED", "ITEM_ADDED", "CONFIRMED", "SHIPPED"} \/ o = [at |-> w.at, from |-> "AWAITING_INVENTORY", to |-> t]
    BY <1>2, <1>5 DEF HistoryEntry
  <2>2. \E f \in {"none", "DRAFT", "CONFIRMED", "AWAITING_INVENTORY"} :
          \E s \in {"DRAFT", "CONFIRMED", "SHIPPED", t} : o = [at |-> w.at, from |-> f, to |-> s]
    <3>1. CASE t = "CREATED"
      BY <1>2, <3>1 DEF HistoryEntry
    <3>2. CASE t = "ITEM_ADDED"
      BY <1>2, <3>2 DEF HistoryEntry
    <3>3. CASE t = "CONFIRMED"
      BY <1>2, <3>3 DEF HistoryEntry
    <3>4. CASE t = "SHIPPED"
      BY <1>2, <3>4 DEF HistoryEntry
    <3> QED BY <2>1, <3>1, <3>2, <3>3, <3>4
  <2>3. t \in HistoryStates /\ t # "UNKNOWN"
    BY <1>3 DEF HistoryStates, OrderEventType
  <2>4. o \in HistoryEntries /\ o.at = w.at /\ o.to # "UNKNOWN" /\ o.from # "UNKNOWN"
    <3>1. PICK f \in {"none", "DRAFT", "CONFIRMED", "AWAITING_INVENTORY"}, s \in {"DRAFT", "CONFIRMED", "SHIPPED", t} :
            o = [at |-> w.at, from |-> f, to |-> s]
      BY <2>2
    <3>2. f \in HistoryStates /\ s \in HistoryStates /\ s # "UNKNOWN" /\ f # "UNKNOWN"
      BY <2>3 DEF HistoryStates, OrderStatus, OrderEventType
    <3> QED BY <1>1, <3>1, <3>2 DEF HistoryEntries
  <2> QED BY <1>1, <1>2, <1>3, <2>4
<1> QED BY <1>4, <1>5

(* One more event to be recorded.                                          *)
LEMMA RecordedNext ==
  ASSUME NEW n \in Nat \ {0}, stream[n].type \notin {"PAID", "PAYMENT_FAILED"}
  PROVE  /\ Recorded(n) = Recorded(n - 1) \union {n} /\ n \notin Recorded(n - 1)
         /\ IsFiniteSet(Recorded(n - 1)) /\ Recorded(n) \subseteq 1 .. n
         /\ Cardinality(Recorded(n)) = Cardinality(Recorded(n - 1)) + 1
<1>1. \A u : u \in 1 .. n <=> u \in 1 .. n - 1 \/ u = n
  OBVIOUS
<1>2. Recorded(n) = Recorded(n - 1) \union {n}
  BY <1>1 DEF Recorded
<1>3. n \notin Recorded(n - 1) /\ Recorded(n) \subseteq 1 .. n /\ Recorded(n - 1) \subseteq 1 .. n - 1
  BY DEF Recorded
<1>4. IsFiniteSet(1 .. n - 1)
  BY FS_Interval
<1>5. IsFiniteSet(Recorded(n - 1))
  BY <1>3, <1>4, FS_Subset
<1>6. Cardinality(Recorded(n)) = Cardinality(Recorded(n - 1)) + 1
  BY <1>2, <1>3, <1>5, FS_AddElement
<1> QED BY <1>2, <1>3, <1>5, <1>6

(* The history with one entry more.                                        *)
LEMMA EntryAppended ==
  ASSUME NEW n \in Nat \ {0}, stream[n].type \notin {"PAID", "PAYMENT_FAILED"},
         kind = "history", kind' = kind, stream' = stream, serial' = serial,
         entries \in Seq(HistoryEntries), NEW o \in HistoryEntries, entries' = Append(entries, o),
         o.at = n, o.from # "UNKNOWN", o.to # "UNKNOWN",
         Shows(n - 1) \/ (Shows(n) /\ ~serial.once)
  PROVE  Shows(n)'
<1>1. PICK c \in Nat : c = Len(entries)
  OBVIOUS
<1>2. /\ Len(entries') = c + 1 /\ entries'[c + 1] = o /\ \A i \in 1 .. c : entries'[i] = entries[i]
  BY <1>1
<1>3. \A i \in 1 .. c + 1 : i \in 1 .. c \/ i = c + 1
  BY <1>1
<1>4. PICK m : m \in {n - 1, n} /\ Shows(m) /\ (m = n => ~serial.once)
  OBVIOUS
<1>5. /\ \A i \in 1 .. c : entries[i].from # "UNKNOWN" /\ entries[i].to # "UNKNOWN"
      /\ \A i, j \in 1 .. c : i <= j => entries[i].at <= entries[j].at
      /\ {entries[i].at : i \in 1 .. c} = Recorded(m)
      /\ serial.once => c = Cardinality(Recorded(m))
  BY <1>1, <1>4 DEF Shows
<1>6. /\ Recorded(n) = Recorded(n - 1) \union {n} /\ Recorded(n) \subseteq 1 .. n
      /\ Cardinality(Recorded(n)) = Cardinality(Recorded(n - 1)) + 1
  BY RecordedNext
<1>7. Recorded(m) \union {n} = Recorded(n)
  BY <1>4, <1>6
<1>8. \A i \in 1 .. c + 1 : entries'[i].from # "UNKNOWN" /\ entries'[i].to # "UNKNOWN"
  BY <1>2, <1>3, <1>5
<1>9. \A i, j \in 1 .. c + 1 : i <= j => entries'[i].at <= entries'[j].at
  <2>1. \A i \in 1 .. c : entries[i].at \in 1 .. n
    BY <1>5, <1>6, <1>7
  <2>2. ASSUME NEW i \in 1 .. c + 1, NEW j \in 1 .. c + 1, i <= j PROVE entries'[i].at <= entries'[j].at
    <3>1. CASE j \in 1 .. c
      <4>1. i \in 1 .. c
        BY <2>2, <3>1
      <4> QED BY <1>2, <1>5, <2>2, <3>1, <4>1
    <3>2. CASE j = c + 1 /\ i \in 1 .. c
      BY <1>2, <2>1, <3>2
    <3>3. CASE j = c + 1 /\ i = c + 1
      BY <1>2, <3>3
    <3> QED BY <1>3, <3>1, <3>2, <3>3
  <2> QED BY <2>2
<1>10. {entries'[i].at : i \in 1 .. c + 1} = Recorded(n)
  <2>1. \A i \in 1 .. c + 1 : entries'[i].at \in Recorded(n)
    BY <1>2, <1>3, <1>5, <1>7
  <2>2. ASSUME NEW u \in Recorded(n) PROVE \E i \in 1 .. c + 1 : entries'[i].at = u
    <3>1. CASE u \in Recorded(m)
      <4>1. PICK i \in 1 .. c : entries[i].at = u
        BY <1>5, <3>1
      <4>2. i \in 1 .. c + 1
        BY <1>1
      <4> QED BY <1>2, <4>1, <4>2
    <3>2. CASE u = n
      <4>1. c + 1 \in 1 .. c + 1
        BY <1>1
      <4> QED BY <1>2, <3>2, <4>1
    <3> QED BY <1>7, <2>2, <3>1, <3>2
  <2>3. PICK es : es = entries'
    OBVIOUS
  <2>4. \A i \in 1 .. c + 1 : es[i].at \in Recorded(n)
    BY <2>1, <2>3
  <2>5. \A u \in Recorded(n) : \E i \in 1 .. c + 1 : es[i].at = u
    BY <2>2, <2>3
  <2>6. {es[i].at : i \in 1 .. c + 1} = Recorded(n)
    BY <2>4, <2>5
  <2> QED BY <2>3, <2>6
<1>11. serial.once => c + 1 = Cardinality(Recorded(n))
  BY <1>4, <1>5, <1>6
<1>12. Recorded(n)' = Recorded(n)
  BY StreamMeaning
<1> QED BY <1>2, <1>8, <1>9, <1>10, <1>11, <1>12 DEF Shows

LEMMA WriteHistoryKeeps == ASSUME ReadModelInv, NEW w \in working, WriteHistory(w) PROVE ReadModelInv'
<1>0. PICK o : o = HistoryEntry(w)
  OBVIOUS
<1>1. SameEvents /\ Leaves(w) /\ serial' = serial /\ kind' = kind /\ stream' = stream
      /\ shown' = shown /\ items' = items /\ entries' = Append(entries, o)
  BY <1>0, HandlersLeave DEF WriteHistory, SameEvents
<1>2. ReadModelTypes /\ ReadersRead /\ RowsTell /\ kind = "history" /\ ~Ignores(w) /\ ~Reads(w)
  BY DEF ReadModelInv, WriteHistory
<1>3. /\ IsRow(shown) /\ items \in Nat /\ entries \in Seq(HistoryEntries)
      /\ serial \in [last : Nat, inOrder : BOOLEAN, once : BOOLEAN]
  BY <1>2 DEF ReadModelTypes
<1>4. /\ w.at \in 1 .. Len(stream) /\ stream[w.at].type \notin {"PAID", "PAYMENT_FAILED"}
      /\ o \in HistoryEntries /\ o.at = w.at /\ o.to # "UNKNOWN"
      /\ o.from = "UNKNOWN" => /\ w.at # 1 /\ w.doing = "read"
                               /\ w.items # 0 => entries[w.items].to = "UNKNOWN"
  BY <1>0, <1>2, HistoryEntryFits
<1>5. ReadModelTypes'
  <2>1. sent # {} /\ queue' \subseteq [at : sent, tries : Nat] /\ working' \subseteq Works
        /\ entries' \in Seq(HistoryEntries)
    BY <1>1, <1>2, <1>3, <1>4, WorkFacts, LeavingTypes
  <2> QED BY <1>1, <1>2, <1>3, <2>1, TypesKept
<1>6. ReadersRead'
  <2>1. 0 .. Len(entries) \subseteq 0 .. Len(entries')
    BY <1>1, <1>3, <1>4
  <2> QED BY <1>1, <1>2, <2>1, ReadersKept DEF Leaves
<1>7. RowsTell'
  BY <1>1, <1>2 DEF RowsTell
<1>8. ASSUME serial.inOrder, Done \/ Underway
      PROVE  Shows(serial.last)' /\ (kind = "order" => Exactly(items, State(serial.last).items)')
  <2>0. PICK n : n = serial.last
    OBVIOUS
  <2>1. /\ w.at = n /\ n \in 1 .. Len(stream) /\ n \in Nat \ {0} /\ w.at # 0
        /\ (w.doing = "read" => w.items = Len(entries))
    BY <1>2, <1>4, <1>8, <2>0, Alone, StatesFollow DEF InHandNow
  <2>2. PICK m : m \in {n - 1, n} /\ Shows(m) /\ (m = n => ~serial.once)
    BY <1>8, <2>0, <2>1 DEF Done, Underway
  <2>3. o.from # "UNKNOWN"
    <3> SUFFICES ASSUME o.from = "UNKNOWN" PROVE FALSE
      OBVIOUS
    <3>1. n # 1 /\ w.items = Len(entries) /\ (w.items # 0 => entries[w.items].to = "UNKNOWN")
      BY <1>4, <2>1
    <3>2. 1 \in 1 .. m /\ 1 \in 1 .. Len(stream)
      BY <1>2, <2>1, <2>2, <3>1, StatesFollow
    <3>3. 1 \in Recorded(m)
      <4>1. stream[1].type = "CREATED"
        BY <1>2, <3>2, StatesFollow
      <4> QED BY <3>2, <4>1 DEF Recorded
    <3>4. PICK i \in 1 .. Len(entries) : entries[i].at = 1
      BY <1>2, <2>2, <3>3 DEF Shows
    <3>5. Len(entries) \in 1 .. Len(entries) /\ Len(entries) # 0
      BY <1>3, <3>4
    <3>6. entries[Len(entries)].to # "UNKNOWN"
      BY <1>2, <2>2, <3>5 DEF Shows
    <3> QED BY <3>1, <3>5, <3>6
  <2>4. Shows(n)'
    BY <1>1, <1>2, <1>3, <1>4, <2>1, <2>2, <2>3, EntryAppended
  <2> QED BY <1>1, <1>2, <2>0, <2>4
<1>9. HandledInOrder'
  BY <1>1, <1>4, <1>8, LeavesInOrder
<1> QED BY <1>5, <1>6, <1>7, <1>9 DEF ReadModelInv

-----------------------------------------------------------------------------
LEMMA ReadModelUnchanged == ReadModelInv /\ UNCHANGED readModelVars => ReadModelInv'
<1> SUFFICES ASSUME ReadModelInv, UNCHANGED readModelVars PROVE ReadModelInv'
  OBVIOUS
<1>1. /\ kind' = kind /\ stream' = stream /\ sent' = sent /\ queue' = queue /\ working' = working
      /\ shown' = shown /\ items' = items /\ entries' = entries /\ dead' = dead /\ serial' = serial
      /\ SameEvents /\ SameRow
  BY DEF readModelVars, SameEvents, SameRow
<1>2. ReadModelTypes /\ ReadersRead /\ RowsTell /\ HandledInOrder
  BY DEF ReadModelInv
<1>3. ReadModelTypes'
  BY <1>1, <1>2, SameMeaning DEF ReadModelTypes, Quiet, IsRow, NoRow
<1>4. ReadersRead'
  BY <1>1, <1>2, ReadersKept
<1>5. RowsTell'
  BY <1>1, <1>2, RowsKept
<1>6. HandledInOrder'
  <2>1. \A v : State(v)' = State(v) /\ Shows(v)' = Shows(v)
               /\ Exactly(items, State(v).items)' = Exactly(items, State(v).items)
    BY <1>1, SameShows, StreamMeaning
  <2>2. \A w : ItemsMatch(w)' = ItemsMatch(w)
    BY <1>1, SameShows
  <2>3. Done => Done'
    BY <1>1, <2>1 DEF Done
  <2>4. Underway => Underway'
    BY <1>1, <2>1, <2>2 DEF Underway
  <2>5. Doomed => Doomed'
    BY <1>1, DoomedStays
  <2>6. \A w : InHandNow(w)' = InHandNow(w)
    BY <1>1 DEF InHandNow
  <2> QED BY <1>1, <1>2, <2>3, <2>4, <2>5, <2>6 DEF HandledInOrder
<1> QED BY <1>3, <1>4, <1>5, <1>6 DEF ReadModelInv

LEMMA ReadModelKeeps == ReadModelInv /\ [ReadModelNext]_readModelVars => ReadModelInv'
<1> SUFFICES ASSUME ReadModelInv, [ReadModelNext]_readModelVars PROVE ReadModelInv'
  OBVIOUS
<1>1. CASE RaiseEvents
  BY <1>1, RaiseKeeps
<1>2. CASE PublishEvents
  BY <1>2, PublishKeeps
<1>3. CASE PublishPoison
  BY <1>3, PoisonKeeps
<1>4. ASSUME NEW d \in queue, Begin(d) PROVE ReadModelInv'
  BY <1>4, BeginKeeps
<1>5. ASSUME NEW w \in working, Handle(w) PROVE ReadModelInv'
  <2>1. CASE Skip(w)
    BY <2>1, SkipKeeps
  <2>2. CASE Poisoned(w)
    BY <2>2, PoisonedKeeps
  <2>3. CASE SaveItem(w)
    BY <2>3, SaveItemKeeps
  <2>4. CASE ReadRow(w)
    BY <2>4, ReadRowKeeps
  <2>5. CASE WriteOrder(w)
    BY <2>5, WriteOrderKeeps
  <2>6. CASE WritePayment(w)
    BY <2>6, WritePaymentKeeps
  <2>7. CASE WriteProduct(w)
    BY <2>7, WriteProductKeeps
  <2>8. CASE WriteHistory(w)
    BY <2>8, WriteHistoryKeeps
  <2> QED BY <1>5, <2>1, <2>2, <2>3, <2>4, <2>5, <2>6, <2>7, <2>8 DEF Handle
<1>6. ASSUME NEW w \in working, Interrupted(w) PROVE ReadModelInv'
  BY <1>6, InterruptedKeeps
<1>7. CASE UNCHANGED readModelVars
  BY <1>7, ReadModelUnchanged
<1> QED BY <1>1, <1>2, <1>3, <1>4, <1>5, <1>6, <1>7 DEF ReadModelNext, ProjectionStep

(* What the projections show.                                              *)
LEMMA RowsTellVersions == ReadModelInv => OrderRowIsItsVersion
<1> SUFFICES ASSUME ReadModelInv, kind = "order", shown # NoRow
             PROVE  LET then == AggregateView("order", SubSeq(stream, 1, shown.at))
                    IN shown.view.status = then.status /\ shown.view.tracking = then.tracking
  BY DEF OrderRowIsItsVersion
<1>1. RowTells(shown)
  BY DEF ReadModelInv, RowsTell
<1>2. PICK o : o = Rehydrate(SubSeq(stream, 1, shown.at))
  OBVIOUS
<1>3. State(shown.at) = o
  BY <1>2 DEF State, StateAt, Reached, StreamKind
<1>4. shown.view.status = o.status /\ shown.view.tracking = (o.status = "SHIPPED")
  BY <1>1, <1>3 DEF RowTells
<1>5. AggregateView("order", SubSeq(stream, 1, shown.at))
        = [status |-> o.status, items |-> o.items, tracking |-> o.status = "SHIPPED"]
  BY <1>2 DEF AggregateView
<1> QED BY <1>4, <1>5

LEMMA DrainedIsDone ==
  ASSUME ReadModelInv, Drained, serial.inOrder
  PROVE  Done /\ serial.last = Len(stream) /\ Len(stream) \in Nat \ {0}
<1>1. sent # {} /\ queue = {} /\ working = {}
  BY DEF Drained
<1>2. ReadModelTypes /\ HandledInOrder
  BY DEF ReadModelInv
<1>3. Len(stream) \in Nat /\ stream # <<>> /\ stream \in Seq(EventsOf(StreamKind))
  BY <1>1, <1>2, StatesFollow DEF ReadModelTypes
<1>4. /\ serial.last \in 0 .. Len(stream) /\ (Doomed \/ Done \/ Underway)
      /\ \A v \in serial.last + 1 .. Len(stream) : \E d \in queue : d.at = v
  BY <1>1, <1>2 DEF HandledInOrder
<1>5. ~Doomed /\ ~Underway
  BY <1>1 DEF Doomed, Underway
<1>6. serial.last = Len(stream)
  <2> SUFFICES ASSUME serial.last # Len(stream) PROVE FALSE
    OBVIOUS
  <2>1. Len(stream) \in serial.last + 1 .. Len(stream)
    BY <1>3, <1>4
  <2> QED BY <1>1, <1>4, <2>1
<1>7. Len(stream) # 0
  BY <1>3
<1> QED BY <1>3, <1>4, <1>5, <1>6, <1>7

LEMMA DrainedRowsFollow == ReadModelInv => DrainedReadModelFollows
<1> SUFFICES ASSUME ReadModelInv, Drained, serial.inOrder PROVE DrainedReadModelFollows
  BY DEF DrainedReadModelFollows
<1>1. ReadModelTypes /\ RowsTell
  BY DEF ReadModelInv
<1>2. PICK n : n = Len(stream)
  OBVIOUS
<1>3. Done /\ serial.last = n /\ n \in Nat \ {0} /\ Shows(n) /\ n \in 1 .. Len(stream)
  <2>1. Done /\ serial.last = n /\ n \in Nat \ {0}
    BY <1>2, DrainedIsDone
  <2> QED BY <1>2, <2>1 DEF Done
<1>4. State(n) = Reached(StreamKind, stream) /\ State(n) \in StatesOf(StreamKind)
  <2>1. n \in 0 .. Len(stream)
    BY <1>3
  <2> QED BY <1>1, <1>2, <2>1, StatesFollow
<1>5. CASE kind = "order"
  <2>1. PICK o : o = Rehydrate(stream)
    OBVIOUS
  <2>2. State(n) = o /\ o.items \in Nat
    BY <1>4, <1>5, <2>1 DEF Reached, StreamKind, StatesOf
  <2>3. /\ shown.at \in 1 .. n /\ State(shown.at).status = o.status
        /\ Exactly(shown.view.items, o.items)
    BY <1>3, <1>5, <2>2 DEF Shows
  <2>4. shown # NoRow
    BY <2>3 DEF NoRow
  <2>5. shown.view.status = o.status /\ shown.view.tracking = (o.status = "SHIPPED")
    BY <1>1, <1>5, <2>3, <2>4 DEF RowsTell, RowTells
  <2>6. shown.view.items >= o.items /\ (serial.once => shown.view.items = o.items)
    BY <2>2, <2>3 DEF Exactly
  <2>7. AggregateView(kind, stream)
          = [status |-> o.status, items |-> o.items, tracking |-> o.status = "SHIPPED"]
    BY <1>5, <2>1 DEF AggregateView
  <2> QED BY <1>5, <2>5, <2>6, <2>7 DEF DrainedReadModelFollows
<1>6. CASE kind = "history"
  <2>1. PICK c \in Nat : c = Len(entries) /\ DOMAIN entries = 1 .. c
    BY <1>1 DEF ReadModelTypes
  <2>2. /\ \A i \in 1 .. c : entries[i].from # "UNKNOWN" /\ entries[i].to # "UNKNOWN"
        /\ \A i, j \in 1 .. c : i <= j => entries[i].at <= entries[j].at
        /\ {entries[i].at : i \in 1 .. c} = Recorded(n)
        /\ serial.once => c = Cardinality(Recorded(n))
    BY <1>3, <1>6, <2>1 DEF Shows
  <2>3. ToSet(entries) = {entries[i] : i \in 1 .. c}
    BY <2>1 DEF ToSet
  <2>4. \A i \in 2 .. Len(entries) : entries[i - 1].at <= entries[i].at
    <3>1. ASSUME NEW i \in 2 .. c PROVE entries[i - 1].at <= entries[i].at
      <4>1. i \in 1 .. c /\ i - 1 \in 1 .. c /\ i - 1 <= i
        BY <2>1
      <4> QED BY <2>2, <4>1
    <3> QED BY <2>1, <3>1
  <2>5. {entry.at : entry \in ToSet(entries)} = {entries[i].at : i \in 1 .. c}
    BY <2>3
  <2>6. \A entry \in ToSet(entries) : entry.from # "UNKNOWN"
    BY <2>2, <2>3
  <2>7. {v \in 1 .. Len(stream) : stream[v].type \notin {"PAID", "PAYMENT_FAILED"}} = Recorded(n)
    BY <1>2 DEF Recorded
  <2> QED BY <1>6, <2>1, <2>2, <2>4, <2>5, <2>6, <2>7 DEF DrainedReadModelFollows
<1>7. CASE kind \in {"payment", "product"}
  <2>1. shown.view = State(n)
    BY <1>3, <1>7 DEF Shows
  <2>2. AggregateView(kind, stream) = State(n)
    BY <1>4, <1>7 DEF AggregateView, Reached, StreamKind
  <2> QED BY <1>7, <2>1, <2>2 DEF DrainedReadModelFollows
<1>8. kind \in {"order", "history", "payment", "product"}
  BY <1>1 DEF ReadModelTypes, Kinds
<1> QED BY <1>5, <1>6, <1>7, <1>8

LEMMA ReadModelPartStep == [ServicesNext]_servicesVars => [ReadModelNext]_readModelVars
BY DEF ServicesNext, servicesVars, ordersVars

(* Whatever an aggregate has gone through, and however its events are      *)
(* delivered, retried, repeated and interrupted: the row of an order tells *)
(* the status of its version, and when the events have been handled one    *)
(* after the other the read model ends as the aggregate.                   *)
THEOREM ReadModelsFollow == ServicesSpec => []ReadModelFollows
<1>1. ServicesInit => ReadModelInv
  BY InitReadModels DEF ServicesInit
<1>2. ReadModelInv => ReadModelFollows
  BY RowsTellVersions, DrainedRowsFollow DEF ReadModelFollows
<1> QED BY <1>1, <1>2, ReadModelKeeps, ReadModelPartStep, PTL DEF ServicesSpec

-----------------------------------------------------------------------------
(* The read models: what a command raises are sequences of events; a queue *)
(* retries no more than it may.                                            *)
LEMMA BatchesAreSequences ==
  ASSUME NEW more \in Batches, kind \in Kinds
  PROVE  \E S : more \in Seq(S)
<1>1. ASSUME NEW x PROVE <<x>> \in Seq({x})
  OBVIOUS
<1>2. ASSUME NEW x, NEW y PROVE <<x>> \o <<y>> \in Seq({x, y})
  <2>1. <<x>> \in Seq({x, y}) /\ <<y>> \in Seq({x, y})
    OBVIOUS
  <2> QED BY <2>1
<1>3. CASE kind \in {"order", "history"}
  <2>1. PICK c \in OrderCommands : more \in OrderRaises(stream, c)
    BY <1>3 DEF Batches
  <2>2. \A guard, batch0 : more \in When(guard, batch0) => more = batch0
    BY DEF When
  <2> DEFINE o == Rehydrate(stream)
  <2>3. (\E x : more = <<x>>) \/ (\E x, y : more = <<x>> \o <<y>>)
    <3>1. CASE stream = <<>>
      <4>1. more \in When(c.name = "CreateOrder", <<Event("CREATED")>>)
        BY <2>1, <3>1 DEF OrderRaises
      <4> QED BY <2>2, <4>1
    <3>2. CASE stream # <<>>
      <4>1. c.name \in {"CreateOrder", "AddItem", "Confirm", "MarkInventoryReserved", "MarkInventoryFailed",
                        "Cancel", "Ship", "MarkPaid", "RecordPaymentFailed"}
        BY DEF OrderCommands
      <4>2. more \in CASE c.name = "CreateOrder"           -> {}
                      [] c.name = "AddItem"               -> AddItem(o)
                      [] c.name = "Confirm"               -> Confirm(o)
                      [] c.name = "MarkInventoryReserved" -> MarkInventoryReserved(o)
                      [] c.name = "MarkInventoryFailed"   -> MarkInventoryFailed(o)
                      [] c.name = "Cancel"                -> Cancel(o)
                      [] c.name = "Ship"                  -> Ship(o)
                      [] c.name = "MarkPaid"              -> MarkPaid(o, c.payment)
                      [] c.name = "RecordPaymentFailed"   -> RecordPaymentFailed(o, c.payment)
        BY <2>1, <3>2 DEF OrderRaises
      <4> HIDE DEF o
      <4>3. \/ more \in AddItem(o) \/ more \in Confirm(o) \/ more \in MarkInventoryReserved(o)
            \/ more \in MarkInventoryFailed(o) \/ more \in Cancel(o) \/ more \in Ship(o)
            \/ more \in MarkPaid(o, c.payment) \/ more \in RecordPaymentFailed(o, c.payment)
        BY <4>1, <4>2
      <4>4. more \in RecordPaymentFailed(o, c.payment) =>
              (\E x : more = <<x>>) \/ (\E x, y : more = <<x>> \o <<y>>)
        <5> DEFINE failed == [Event("PAYMENT_FAILED") EXCEPT !.payment = c.payment, !.n = o.failures + 1]
        <5>1. more \in RecordPaymentFailed(o, c.payment) =>
                more = <<failed>> \/ \E cancel \in Cancel(Apply(o, failed)) : more = <<failed>> \o cancel
          BY DEF RecordPaymentFailed
        <5> HIDE DEF failed
        <5>2. \A cancel \in Cancel(Apply(o, failed)) : \E y : cancel = <<y>>
          BY DEF Cancel, When
        <5> HAVE more \in RecordPaymentFailed(o, c.payment)
        <5>3. CASE more = <<failed>>
          BY <5>3
        <5>4. CASE \E cancel \in Cancel(Apply(o, failed)) : more = <<failed>> \o cancel
          <6>1. PICK cancel \in Cancel(Apply(o, failed)) : more = <<failed>> \o cancel
            BY <5>4
          <6>2. PICK y : cancel = <<y>>
            BY <5>2
          <6>3. more = <<failed>> \o <<y>>
            BY <6>1, <6>2
          <6> QED BY <6>3
        <5> QED BY <5>1, <5>3, <5>4
      <4>5. \/ \E x : more = <<x>>
            \/ more \in RecordPaymentFailed(o, c.payment)
        BY <2>2, <4>3, Zenon DEF AddItem, Confirm, MarkInventoryReserved, MarkInventoryFailed, Cancel, Ship, MarkPaid
      <4> QED BY <4>4, <4>5
    <3> QED BY <3>1, <3>2
  <2>4. CASE \E x : more = <<x>>
    <3>1. PICK x : more = <<x>>
      BY <2>4
    <3>2. <<x>> \in Seq({x})
      BY <1>1
    <3> QED BY <3>1, <3>2
  <2>5. CASE \E x, y : more = <<x>> \o <<y>>
    <3>1. PICK x, y : more = <<x>> \o <<y>>
      BY <2>5
    <3>2. <<x>> \o <<y>> \in Seq({x, y})
      BY <1>2
    <3> QED BY <3>1, <3>2
  <2> QED BY <2>3, <2>4, <2>5
<1>4. CASE kind = "payment"
  <2>1. more \in PaymentBatches(stream)
    BY <1>4 DEF Batches
  <2>2. ASSUME NEW p, NEW t, NEW from, NEW m, more \in PaymentRaises(p, t, from, m)
        PROVE  more = <<PaymentEvent(t, m)>>
    BY <2>2 DEF PaymentRaises
  <2>3. \E x : more = <<x>>
    <3> DEFINE p == PaymentFrom(stream)
    <3>1. CASE stream = <<>>
      BY <2>1, <3>1 DEF PaymentBatches
    <3>2. CASE stream # <<>>
      <4>1. \/ more \in ProcessPayment(p) \union CompletePayment(p) \union FailPayment(p)
            \/ \E m \in 0 .. (PaymentAmount + 1) : more \in RefundPayment(p, m)
        BY <2>1, <3>2 DEF PaymentBatches
      <4> HIDE DEF p
      <4>2. \E t, from, m : more \in PaymentRaises(p, t, from, m)
        BY <4>1 DEF ProcessPayment, CompletePayment, FailPayment, RefundPayment
      <4> QED BY <2>2, <4>2
    <3> QED BY <3>1, <3>2
  <2> QED BY <1>1, <2>3
<1>5. CASE kind = "product"
  <2>1. more \in ProductBatches(stream)
    BY <1>5 DEF Batches
  <2> DEFINE E == EventsOf("product")
  <2>0. 0 \in Nat /\ Names \subseteq Nat /\ ProductChanges \subseteq E
    BY ProductAssumption DEF ProductChanges
  <2>2. ASSUME NEW x \in Perhaps(ProductChanges) PROVE x \in Seq(E)
    <3>1. CASE x = <<>>
      BY <3>1
    <3>2. CASE x # <<>>
      <4>1. PICK e \in ProductChanges : x = <<e>>
        BY <3>2 DEF Perhaps
      <4>2. e \in E
        BY <2>0
      <4> HIDE DEF E
      <4> QED BY <4>1, <4>2
    <3> QED BY <3>1, <3>2
  <2> HIDE DEF E
  <2>3. CASE stream = <<>>
    BY <1>1, <2>1, <2>3 DEF ProductBatches, CreateProduct
  <2>4. CASE stream # <<>> /\ (more \in DeleteProduct \/ more \in UpdateProductStock)
    <3>1. more \in Perhaps(ProductChanges)
      BY <2>0, <2>4, ProductChangesFacts DEF DeleteProduct, UpdateProductStock
    <3> QED BY <2>2, <3>1
  <2>5. CASE stream # <<>> /\ more \in UpdateProduct(ProductFrom(stream))
    <3> DEFINE acts == {<<>>} \union UNION {SetActive(ProductFrom(stream), active) : active \in BOOLEAN}
               levs == {<<>>} \union UNION {UpdateStock(level) : level \in Levels}
               labs == Names \union {0}
               all(x, y, z) == <<ProductEvent("UPDATED", x, 0)>> \o y \o z
    <3>1. UpdateProduct(ProductFrom(stream)) = {all(x, y, z) : x \in labs, y \in acts, z \in levs}
      BY DEF UpdateProduct
    <3>2. acts \subseteq Perhaps(ProductChanges) /\ levs \subseteq Perhaps(ProductChanges) /\ labs \subseteq Nat
      BY <2>0, ProductChangesFacts
    <3> HIDE DEF acts, levs, labs, all
    <3>3. PICK x \in labs, y \in acts, z \in levs : more = all(x, y, z)
      BY <2>5, <3>1
    <3> DEFINE named == <<ProductEvent("UPDATED", x, 0)>>
    <3>4. named \in Perhaps(ProductChanges)
      BY <2>0, <3>2, ProductChangesFacts
    <3> HIDE DEF named
    <3>5. named \in Seq(E) /\ y \in Seq(E) /\ z \in Seq(E)
      BY <2>2, <3>2, <3>4
    <3>6. (named \o y) \o z \in Seq(E)
      BY <3>5
    <3> QED BY <3>3, <3>6 DEF named, all
  <2> QED BY <2>1, <2>3, <2>4, <2>5 DEF ProductBatches
<1> QED BY <1>3, <1>4, <1>5 DEF Kinds

(* The bounds the queue and the consumer keep.                             *)
QueueIsBounded ==
  /\ Len(stream) <= MaxEvents[kind] /\ faults \in 0 .. MaxFaults
  /\ \A d \in queue \union working : d.tries <= ProjectionRetries
  /\ IsFiniteSet(working) /\ Cardinality(working) <= Prefetch
  /\ dead \subseteq sent

LEMMA InitIsBounded == ReadModelInit => QueueIsBounded
<1> SUFFICES ASSUME ReadModelInit PROVE QueueIsBounded
  OBVIOUS
<1>1. /\ kind \in Kinds /\ stream = <<>> /\ queue = {} /\ working = {} /\ dead = {} /\ faults = MaxFaults
  BY DEF ReadModelInit
<1>2. MaxEvents[kind] \in Nat /\ MaxFaults \in Nat /\ Prefetch \in Nat /\ Len(<<>>) = 0
  BY <1>1, ReadModelAssumption
<1>3. IsFiniteSet({}) /\ Cardinality({}) = 0
  BY FS_EmptySet
<1> QED BY <1>1, <1>2, <1>3 DEF QueueIsBounded

(* One handler less, or another in its place.                              *)
LEMMA FewerHandlers ==
  ASSUME QueueIsBounded, NEW w \in working, NEW next, working' \in {working \ {w}, (working \ {w}) \union {next}}
  PROVE  IsFiniteSet(working') /\ Cardinality(working') <= Prefetch
<1>1. IsFiniteSet(working) /\ Cardinality(working) <= Prefetch /\ Prefetch \in Nat /\ Cardinality(working) \in Nat
  BY ReadModelAssumption, FS_CardinalityType DEF QueueIsBounded
<1> DEFINE rest == working \ {w}
<1>2. IsFiniteSet(rest) /\ Cardinality(rest) = Cardinality(working) - 1
  BY <1>1, FS_RemoveElement
<1> HIDE DEF rest
<1>3. IsFiniteSet(rest \union {next}) /\ Cardinality(rest \union {next}) \in Nat
  BY <1>2, FS_AddElement, FS_CardinalityType
<1>4. Cardinality(rest \union {next}) <= Cardinality(rest) + 1
  <2>1. Cardinality(rest) \in Nat
    BY <1>2, FS_CardinalityType
  <2>2. Cardinality(rest \union {next}) = IF next \in rest THEN Cardinality(rest) ELSE Cardinality(rest) + 1
    BY <1>2, FS_AddElement
  <2> QED BY <2>1, <2>2
<1>5. working' = rest \/ working' = rest \union {next}
  BY DEF rest
<1>6. CASE working' = rest
  BY <1>1, <1>2, <1>6
<1>7. CASE working' = rest \union {next}
  <2>1. Cardinality(rest \union {next}) <= Prefetch
    BY <1>1, <1>2, <1>3, <1>4
  <2> QED BY <1>3, <1>7, <2>1
<1> QED BY <1>5, <1>6, <1>7

LEMMA HandlingIsBounded ==
  ASSUME ReadModelTypes, QueueIsBounded, SameEvents, NEW w \in working, NEW next,
         \/ working' = working \ {w}
         \/ working' = (working \ {w}) \union {next} /\ next.tries = w.tries,
         \A d \in queue' : d \in queue \/ d.tries <= ProjectionRetries,
         dead' = dead \/ dead' = dead \union {w.at},
         faults' = faults \/ (faults > 0 /\ faults' = faults - 1)
  PROVE  QueueIsBounded'
<1>1. IsFiniteSet(working') /\ Cardinality(working') <= Prefetch
  <2>1. working' \in {working \ {w}, (working \ {w}) \union {next}}
    OBVIOUS
  <2> QED BY <2>1, FewerHandlers
<1>2. faults' \in 0 .. MaxFaults
  BY ReadModelAssumption DEF QueueIsBounded
<1>3. dead' \subseteq sent'
  BY WorkFacts DEF QueueIsBounded, SameEvents
<1>4. \A d \in queue' \union working' : d.tries <= ProjectionRetries
  BY DEF QueueIsBounded
<1>5. Len(stream') <= MaxEvents[kind']
  BY DEF QueueIsBounded, SameEvents
<1> QED BY <1>1, <1>2, <1>3, <1>4, <1>5 DEF QueueIsBounded

LEMMA LeavingIsBounded ==
  ASSUME ReadModelTypes, QueueIsBounded, NEW w \in working
  PROVE  /\ Throws(w) => /\ working' = working \ {w} /\ dead' \in {dead, dead \union {w.at}}
                         /\ \A d \in queue' : d \in queue \/ d.tries <= ProjectionRetries
         /\ Returns(w) => /\ working' = working \ {w} /\ dead' = dead
                          /\ faults' = faults \/ (faults > 0 /\ faults' = faults - 1)
                          /\ \A d \in queue' : d \in queue \/ d.tries <= ProjectionRetries
<1>1. w.tries \in Nat /\ w.tries <= ProjectionRetries /\ ProjectionRetries \in Nat
  BY WorkFacts, ReadModelAssumption DEF QueueIsBounded
<1> DEFINE again == [at |-> w.at, tries |-> w.tries + 1]
           same == [at |-> w.at, tries |-> w.tries]
<1>2. again.tries = w.tries + 1 /\ same.tries = w.tries
  OBVIOUS
<1>3. Throws(w) => /\ working' = working \ {w}
                   /\ \/ w.tries < ProjectionRetries /\ queue' = queue \union {again} /\ dead' = dead
                      \/ dead' = dead \union {w.at} /\ queue' = queue
  BY DEF Throws
<1>4. Returns(w) => /\ working' = working \ {w} /\ dead' = dead
                    /\ \/ queue' = queue /\ faults' = faults
                       \/ faults > 0 /\ faults' = faults - 1 /\ queue' = queue \union {same}
  BY DEF Returns
<1> HIDE DEF again, same
<1>5. w.tries < ProjectionRetries => again.tries <= ProjectionRetries
  BY <1>1, <1>2
<1> QED BY <1>1, <1>2, <1>3, <1>4, <1>5

LEMMA HandleIsBounded ==
  ASSUME ReadModelTypes, QueueIsBounded, NEW w \in working, Handle(w)
  PROVE  QueueIsBounded'
<1>1. SameEvents
  BY DEF Handle, Skip, Poisoned, SaveItem, ReadRow, WriteOrder, WritePayment, WriteProduct, WriteHistory, SameEvents
<1>2. w \in Works /\ w.tries \in Nat
  BY WorkFacts
<1>3. CASE Skip(w) \/ WritePayment(w) \/ WriteProduct(w) \/ WriteHistory(w)
  <2>1. Returns(w)
    BY <1>3 DEF Skip, WritePayment, WriteProduct, WriteHistory, Stored
  <2> QED BY <1>1, <2>1, LeavingIsBounded, HandlingIsBounded
<1>4. CASE Poisoned(w)
  <2>1. Throws(w) /\ faults' = faults
    BY <1>4 DEF Poisoned
  <2> QED BY <1>1, <2>1, LeavingIsBounded, HandlingIsBounded
<1>5. CASE WriteOrder(w)
  <2>1. (Throws(w) /\ faults' = faults) \/ Returns(w)
    BY <1>5 DEF WriteOrder, Stored
  <2> QED BY <1>1, <2>1, LeavingIsBounded, HandlingIsBounded
<1>6. CASE SaveItem(w)
  <2> DEFINE next == [w EXCEPT !.doing = "saved"]
  <2>1. /\ faults' = faults
        /\ \/ Throws(w)
           \/ working' = (working \ {w}) \union {next} /\ queue' = queue /\ dead' = dead
    BY <1>6 DEF SaveItem
  <2>2. next.tries = w.tries
    BY <1>2 DEF Works
  <2> HIDE DEF next
  <2>3. CASE Throws(w)
    BY <1>1, <2>1, <2>3, LeavingIsBounded, HandlingIsBounded
  <2>4. CASE working' = (working \ {w}) \union {next} /\ queue' = queue /\ dead' = dead
    BY <1>1, <2>1, <2>2, <2>4, HandlingIsBounded
  <2> QED BY <2>1, <2>3, <2>4
<1>7. CASE ReadRow(w)
  <2> DEFINE n == IF kind = "history" THEN Len(entries) ELSE items
             next == [w EXCEPT !.doing = "read", !.read = shown, !.items = n]
  <2>1. /\ faults' = faults /\ queue' = queue /\ dead' = dead
        /\ working' = (working \ {w}) \union {next}
    BY <1>7 DEF ReadRow
  <2> HIDE DEF n
  <2>2. next.tries = w.tries
    BY <1>2 DEF Works
  <2> HIDE DEF next
  <2> QED BY <1>1, <2>1, <2>2, HandlingIsBounded
<1> QED BY <1>3, <1>4, <1>5, <1>6, <1>7 DEF Handle

LEMMA InterruptedIsBounded ==
  ASSUME ReadModelTypes, QueueIsBounded, NEW w \in working, Interrupted(w)
  PROVE  QueueIsBounded'
<1>1. SameEvents /\ faults > 0 /\ faults' = faults - 1
  BY DEF Interrupted, SameEvents
<1>2. CASE Throws(w)
  BY <1>1, <1>2, LeavingIsBounded, HandlingIsBounded
<1>3. CASE /\ working' = working \ {w} /\ dead' = dead
           /\ queue' = queue \union {[at |-> w.at, tries |-> w.tries]}
  <2>1. w.tries <= ProjectionRetries
    BY DEF QueueIsBounded
  <2>2. \A d \in queue' : d \in queue \/ d.tries <= ProjectionRetries
    BY <1>3, <2>1
  <2> QED BY <1>1, <1>3, <2>2, HandlingIsBounded
<1> QED BY <1>2, <1>3 DEF Interrupted

LEMMA QueueStaysBounded ==
  ReadModelTypes /\ ReadModelTypes' /\ QueueIsBounded /\ [ReadModelNext]_readModelVars => QueueIsBounded'
<1> SUFFICES ASSUME ReadModelTypes, ReadModelTypes', QueueIsBounded, [ReadModelNext]_readModelVars
             PROVE  QueueIsBounded'
  OBVIOUS
<1>0. /\ kind \in Kinds /\ Prefetch \in Nat /\ ProjectionRetries \in Nat /\ MaxEvents[kind] \in Nat
      /\ stream \in Seq(EventsOf(StreamKind)) /\ Len(stream) \in Nat
  BY ReadModelAssumption, StatesFollow DEF ReadModelTypes
<1>1. CASE RaiseEvents
  <2>1. PICK more \in Batches : Len(stream) + Len(more) <= MaxEvents[kind] /\ stream' = stream \o more
    BY <1>1 DEF RaiseEvents
  <2>2. PICK S : more \in Seq(S)
    BY <1>0, BatchesAreSequences
  <2>3. Len(stream \o more) = Len(stream) + Len(more)
    <3> DEFINE T == EventsOf(StreamKind) \union S
    <3>1. stream \in Seq(T) /\ more \in Seq(T)
      BY <1>0, <2>2
    <3> HIDE DEF T
    <3> QED BY <3>1
  <2>4. kind' = kind /\ queue' = queue /\ working' = working /\ dead' = dead /\ sent' = sent /\ faults' = faults
    BY <1>1 DEF RaiseEvents
  <2> QED BY <2>1, <2>3, <2>4 DEF QueueIsBounded
<1>2. CASE PublishEvents
  <2>1. /\ sent = {} /\ kind' = kind /\ stream' = stream /\ working' = working /\ dead' = dead /\ faults' = faults
        /\ \A d \in queue' : d.tries = 0
    BY <1>2 DEF PublishEvents
  <2>2. \A d \in queue' \union working' : d.tries <= ProjectionRetries
    BY <1>0, <2>1 DEF QueueIsBounded
  <2> QED BY <2>1, <2>2 DEF QueueIsBounded
<1>3. CASE PublishPoison
  <2>1. /\ kind' = kind /\ stream' = stream /\ working' = working /\ dead' = dead /\ faults' = faults
        /\ sent \subseteq sent' /\ \A d \in queue' : d \in queue \/ d.tries = 0
    BY <1>3 DEF PublishPoison
  <2>2. \A d \in queue' \union working' : d.tries <= ProjectionRetries
    BY <1>0, <2>1 DEF QueueIsBounded
  <2> QED BY <2>1, <2>2 DEF QueueIsBounded
<1>4. ASSUME NEW d \in queue, Begin(d) PROVE QueueIsBounded'
  <2> DEFINE w == [at |-> d.at, tries |-> d.tries, doing |-> "begun", read |-> NoRow, items |-> 0]
  <2>1. /\ Cardinality(working) < Prefetch /\ queue' \subseteq queue /\ working' = working \union {w}
        /\ kind' = kind /\ stream' = stream /\ sent' = sent /\ dead' = dead /\ faults' = faults
    BY <1>4 DEF Begin
  <2>2. w.tries = d.tries
    OBVIOUS
  <2> HIDE DEF w
  <2>3. IsFiniteSet(working) /\ Cardinality(working) \in Nat
    BY FS_CardinalityType DEF QueueIsBounded
  <2>4. IsFiniteSet(working \union {w}) /\ Cardinality(working \union {w}) <= Cardinality(working) + 1
    BY <2>3, FS_AddElement
  <2>5. IsFiniteSet(working') /\ Cardinality(working') <= Prefetch
    BY <1>0, <2>1, <2>3, <2>4, FS_CardinalityType
  <2>6. \A x \in queue' \union working' : x.tries <= ProjectionRetries
    BY <2>1, <2>2 DEF QueueIsBounded
  <2> QED BY <2>1, <2>5, <2>6 DEF QueueIsBounded
<1>5. ASSUME NEW w \in working, Handle(w) PROVE QueueIsBounded'
  BY <1>5, HandleIsBounded
<1>6. ASSUME NEW w \in working, Interrupted(w) PROVE QueueIsBounded'
  BY <1>6, InterruptedIsBounded
<1>7. CASE UNCHANGED readModelVars
  BY <1>7 DEF readModelVars, QueueIsBounded
<1> QED BY <1>1, <1>2, <1>3, <1>4, <1>5, <1>6, <1>7 DEF ReadModelNext, ProjectionStep

LEMMA ReadModelIsTyped == ReadModelTypes /\ QueueIsBounded => ReadModelTypeOK
<1> SUFFICES ASSUME ReadModelTypes, QueueIsBounded PROVE ReadModelTypeOK
  OBVIOUS
<1>1. /\ kind \in Kinds /\ Prefetch \in Nat /\ ProjectionRetries \in Nat /\ MaxEvents[kind] \in Nat
      /\ Len(stream) \in Nat /\ Len(stream) <= MaxEvents[kind]
  BY ReadModelAssumption, StatesFollow DEF ReadModelTypes, QueueIsBounded
<1>2. sent \subseteq 0 .. Len(stream)
  BY <1>1 DEF ReadModelTypes
<1>3. \A v \in 0 .. Len(stream) : v \in 0 .. MaxEvents[kind]
  BY <1>1
<1>4. queue \subseteq Deliveries
  <2>1. ASSUME NEW d \in queue PROVE d \in Deliveries
    <3>1. d \in [at : sent, tries : Nat] /\ d.tries <= ProjectionRetries
      BY DEF ReadModelTypes, QueueIsBounded
    <3> DEFINE at == d.at
               tries == d.tries
    <3>3. at \in sent /\ tries \in Nat /\ tries <= ProjectionRetries /\ d = [at |-> at, tries |-> tries]
      BY <3>1
    <3> HIDE DEF at, tries
    <3>2. at \in 0 .. MaxEvents[kind] /\ tries \in 0 .. ProjectionRetries
      BY <1>1, <1>2, <1>3, <3>3
    <3> QED BY <3>2, <3>3 DEF Deliveries
  <2> QED BY <2>1
<1>5. {[at |-> w.at, tries |-> w.tries] : w \in working} \subseteq Deliveries
  <2>1. ASSUME NEW w \in working PROVE [at |-> w.at, tries |-> w.tries] \in Deliveries
    <3>1. w.at \in 0 .. Len(stream) /\ w.tries \in Nat /\ w.tries <= ProjectionRetries
      BY WorkFacts DEF QueueIsBounded
    <3>2. w.at \in 0 .. MaxEvents[kind] /\ w.tries \in 0 .. ProjectionRetries
      BY <1>1, <1>3, <3>1
    <3> QED BY <3>2 DEF Deliveries
  <2> QED BY <2>1
<1>6. shown.at \in sent \union {0}
  <2>1. CASE sent = {}
    <3>1. shown = NoRow
      BY <2>1, UnsentIsQuiet DEF Quiet
    <3> QED BY <3>1 DEF NoRow
  <2>2. CASE sent # {}
    <3>1. 1 .. Len(stream) \subseteq sent
      BY <1>1, <2>2 DEF ReadModelTypes
    <3>2. shown = NoRow \/ shown \in Rows
      BY DEF ReadModelTypes, IsRow
    <3>3. NoRow.at = 0 /\ \A r \in Rows : r.at \in 1 .. Len(stream)
      BY DEF NoRow, Rows
    <3> QED BY <3>1, <3>2, <3>3
  <2> QED BY <2>1, <2>2
<1> QED BY <1>1, <1>2, <1>4, <1>5, <1>6 DEF ReadModelTypeOK, ReadModelTypes, QueueIsBounded

(* The users, the health checks and the checkout: what is known of them    *)
(* includes their types.                                                   *)
LEMMA UsersAreTyped == UserInv => UserTypeOK
<1> SUFFICES ASSUME UserInv PROVE UserTypeOK
  OBVIOUS
<1>1. UserTypes
  BY DEF UserInv
<1>2. ASSUME NEW u \in users PROVE u \in Accounts /\ user[u] # NoAccount /\ user[u] \in UserObjects
  BY <1>1, <1>2 DEF UserTypes
<1>3. \A x \in UserObjects : x \in [email : Emails, name : Usernames, roles : UserRoles]
  BY UserAdminAssumption DEF UserObjects
<1>4. DOMAIN hashing = Requests /\ DOMAIN told = Accounts /\ {raced, halfway} \subseteq BOOLEAN
  BY <1>1 DEF UserTypes
<1> QED BY <1>2, <1>3, <1>4 DEF UserTypeOK

LEMMA HealthIsTyped == HealthInv => HealthTypeOK
<1> SUFFICES ASSUME HealthInv PROVE HealthTypeOK
  OBVIOUS
<1>1. cached \subseteq TestKeys /\ ill \subseteq Faults /\ turns \in 0 .. MaxTurns
  BY DEF HealthInv
<1>2. ASSUME NEW r \in Running
      PROVE  probe[r].said \in {0, 200, 503} /\ probe[r].result \in [Registered -> CheckResults]
  <2>1. SoundProbe(probe[r])
    BY DEF HealthInv
  <2>2. probe[r] \in HealthProbe
    BY <2>1 DEF SoundProbe
  <2> QED BY <2>2 DEF HealthProbe
<1> QED BY <1>1, <1>2, Zenon DEF HealthTypeOK, CheckResults

LEMMA CheckoutIsTyped == CheckoutInv => CheckoutTypeOK
<1> SUFFICES ASSUME CheckoutInv PROVE CheckoutTypeOK
  OBVIOUS
<1>1. CheckoutTypes /\ RowsFollow
  BY DEF CheckoutInv
<1>2. /\ orderRow.at \in Nat /\ orderRow.items \in 0 .. CheckoutItems /\ orderRow.total \in 0 .. CheckoutItems
      /\ CheckoutItems \in Nat /\ Len(orderLog) \in Nat
  BY <1>1, CheckoutAssumption DEF CheckoutTypes, CheckoutRows
<1>3. /\ orderRow.at <= Len(orderLog)
      /\ orderRow.items = orderRow.total \/ orderRow.items = orderRow.total + 1
  BY <1>1 DEF RowsFollow, RowIsOf
<1>4. orderRow.at \in 0 .. Len(orderLog) /\ orderRow.items \in orderRow.total .. CheckoutItems
  BY <1>2, <1>3
<1>5. amount \in [Checkouts -> 0 .. CheckoutItems]
  BY <1>1 DEF CheckoutTypes
<1>6. ASSUME NEW c \in Checkouts
      PROVE  /\ checkout[c].doing \in {"idle", "read", "created", "processed", "answered", "lost"}
             /\ checkout[c].said \in {"nothing", "success", "failure", "failure of payment"}
  <2>1. checkout[c] \in CheckoutCalls
    BY <1>1 DEF CheckoutTypes
  <2> QED BY <2>1 DEF CheckoutCalls
<1> QED BY <1>4, <1>5, <1>6 DEF CheckoutTypeOK

LEMMA OutboxPartStep == [ServicesNext]_servicesVars => [Next]_vars
BY DEF ServicesNext, servicesVars

(* Each part of the services, for any number of messages, orders, users,   *)
(* inventories and probes and whatever fails: the queues, the handlers,    *)
(* the retries and the answers stay within what their code allows.         *)
THEOREM ServicesAreTyped == ServicesSpec => []ServicesTypeOK
<1> DEFINE OnePart == part \in Parts
<1>1. ServicesInit => OnePart
  BY DEF ServicesInit
<1>2. OnePart /\ [ServicesNext]_servicesVars => OnePart'
  BY DEF ServicesNext, servicesVars
<1>3. ServicesSpec => []TypeOK
  <2>1. ServicesInit => TypeOK
    BY InitIsTyped DEF ServicesInit
  <2>2. TypeOK /\ [ServicesNext]_servicesVars => TypeOK'
    BY TypeStep, OutboxPartStep
  <2> QED BY <2>1, <2>2, PTL DEF ServicesSpec
<1>4. ServicesSpec => []ReadModelTypeOK
  <2>1. ServicesInit => ReadModelInv /\ QueueIsBounded
    BY InitReadModels, InitIsBounded DEF ServicesInit
  <2>2. ReadModelInv /\ QueueIsBounded /\ [ServicesNext]_servicesVars => (ReadModelInv /\ QueueIsBounded)'
    <3>1. ReadModelInv => ReadModelTypes
      BY DEF ReadModelInv
    <3>2. ReadModelInv' => ReadModelTypes'
      BY DEF ReadModelInv
    <3> QED BY <3>1, <3>2, ReadModelPartStep, ReadModelKeeps, QueueStaysBounded
  <2>3. ReadModelInv /\ QueueIsBounded => ReadModelTypeOK
    BY ReadModelIsTyped DEF ReadModelInv
  <2> QED BY <2>1, <2>2, <2>3, PTL DEF ServicesSpec
<1>5. ServicesSpec => []StockTypeOK
  <2>1. ServicesInit => StockIsTyped
    BY InitStockIsTyped DEF ServicesInit
  <2>2. StockInv /\ StockIsTyped /\ [ServicesNext]_servicesVars => StockIsTyped'
    BY StockPartStep, StockTypesStep
  <2>3. StockIsTyped => StockTypeOK
    BY DEF StockIsTyped
  <2> QED BY <2>1, <2>2, <2>3, StockInvHolds, PTL DEF ServicesSpec
<1>6. ServicesSpec => []UserTypeOK
  <2>1. ServicesInit => UserInv
    BY InitUsers DEF ServicesInit
  <2>2. UserInv /\ [ServicesNext]_servicesVars => UserInv'
    BY UserKeeps, UserPartStep
  <2> QED BY <2>1, <2>2, UsersAreTyped, PTL DEF ServicesSpec
<1>7. ServicesSpec => []CheckoutTypeOK
  <2>1. ServicesInit => CheckoutInv
    BY InitCheckout DEF ServicesInit
  <2>2. CheckoutInv /\ [ServicesNext]_servicesVars => CheckoutInv'
    BY CheckoutKeeps, CheckoutPartStep
  <2> QED BY <2>1, <2>2, CheckoutIsTyped, PTL DEF ServicesSpec
<1>8. ServicesSpec => []HealthTypeOK
  <2>1. ServicesInit => HealthInv
    BY InitHealth DEF ServicesInit
  <2>2. HealthInv /\ [ServicesNext]_servicesVars => HealthInv'
    BY HealthKeeps, HealthPartStep
  <2> QED BY <2>1, <2>2, HealthIsTyped, PTL DEF ServicesSpec
<1>9. /\ OnePart /\ TypeOK /\ ReadModelTypeOK /\ StockTypeOK /\ UserTypeOK /\ CheckoutTypeOK /\ HealthTypeOK
      => ServicesTypeOK
  BY DEF Parts, ServicesTypeOK
<1> HIDE DEF OnePart
<1> QED BY <1>1, <1>2, <1>3, <1>4, <1>5, <1>6, <1>7, <1>8, <1>9, PTL DEF ServicesSpec
=============================================================================
