---------------------------- MODULE OutboxProofs ----------------------------
(***************************************************************************)
(* Theorems about the outbox worker, for any number of replicas, messages, *)
(* retries, sizes of a batch and of a chunk, and any troubles; those that  *)
(* count deliveries are about a single worker, as are the properties.      *)
(***************************************************************************)
EXTENDS Outbox, FiniteSetTheorems, TLAPS

Busy(s) == task[s] # NoTask
Saved(m) == row[m].status # "UNSAVED"

(* An attempt to publish m was recorded, one way or the other.             *)
WasTried(m) == row[m].status \notin {"UNSAVED", "PENDING"}

EarlierPending(m) == {k \in 1 .. (m - 1) : row[k].status = "PENDING"}
InTurn(m) == Cardinality(EarlierPending(m)) < Concurrency

-----------------------------------------------------------------------------
(* The invariants, for any number of workers.                              *)

(* What a call is about to record as published, and what is recorded, was  *)
(* taken by a channel.                                                     *)
ConfirmedWasHanded == \A s \in Slots : At(s, "confirm") => handed[task[s].msg] > 0
PublishedWasHanded ==
  \A m \in Messages : row[m].status \in {"PUBLISHED", "DELETED"} => handed[m] > 0

DeliveryInv == TypeOK /\ ConfirmedWasHanded /\ PublishedWasHanded

(* What a channel took was received unless a connection broke.             *)
HandedWasSent == \A m \in Messages : handed[m] > 0 => m \in received \union unsent
LossNeedsABreak ==
  unsent # {} \/ (\E w \in Workers : link[w] = "broken") => "break" \in happens
WireInv == TypeOK /\ HandedWasSent /\ LossNeedsABreak

SavedInOrder == \A k, m \in Messages : k < m /\ Saved(m) => Saved(k)

(* A batch is the rest of a pass; what the second pass retries was tried.  *)
BatchIsOfThePass ==
  \A w \in Workers :
    /\ phase[w] # "chunks" => batch[w] = {}
    /\ \A m \in batch[w] : Saved(m) /\ (pass[w] = "FAILED" => WasTried(m))

(* No pending message is skipped: one that is older than a message of the  *)
(* batch is in the batch itself or in the chunk in progress.               *)
BatchHasNoGap ==
  \A w \in Workers : pass[w] = "PENDING" =>
    \A m \in batch[w], k \in Messages :
      k < m /\ row[k].status = "PENDING" =>
        k \in batch[w] \/ \E s \in Awaited(w) : task[s].msg = k

CallsAreInTurn ==
  \A s \in Slots : Busy(s) =>
    /\ Saved(task[s].msg) /\ InTurn(task[s].msg)
    /\ task[s].step \in {"publish", "confirm"} => WasTried(task[s].msg)

TriedInTurn == \A m \in Messages : WasTried(m) => InTurn(m)
HandedWasTried == \A m \in Messages : handed[m] > 0 => WasTried(m)

OrderInv ==
  /\ TypeOK /\ SavedInOrder /\ BatchIsOfThePass /\ BatchHasNoGap
  /\ CallsAreInTurn /\ TriedInTurn /\ HandedWasTried

-----------------------------------------------------------------------------
(* The invariants of a single worker whose failures are recorded.          *)

(* Calls run only while the loop awaits them.                              *)
CallsAreAwaited ==
  \A s \in Slots : Busy(s) => task[s].awaited /\ phase[task[s].worker] = "chunks"

(* A message is in one place: in the batch or in one call.                 *)
OneCallAtATime ==
  \A s \in Slots : Busy(s) =>
    /\ \A t \in Slots : Busy(t) /\ task[t].msg = task[s].msg => t = s
    /\ \A w \in Workers : task[s].msg \notin batch[w]

(* A message that may be published: retries are left.                      *)
IsDue(m) ==
  row[m].status \in {"PENDING", "FAILED", "PROCESSING"} /\ row[m].retries < MaxRetries

BatchIsDue ==
  \A w \in Workers : \A m \in batch[w] : IsDue(m) /\ row[m].status # "PROCESSING"

CallIsDue(s) ==
  /\ IsDue(task[s].msg)
  /\ task[s].step \in {"mark", "publish"} =>
       handed[task[s].msg] <= row[task[s].msg].retries
  /\ task[s].step \in {"publish", "confirm"} => row[task[s].msg].status = "PROCESSING"

CallsAreDue == \A s \in Slots : Busy(s) => CallIsDue(s)

(* Every delivery but the last was followed by a failure that was counted. *)
IsCounted(m) ==
  /\ ~WasTried(m) => row[m].retries = 0 /\ handed[m] = 0
  /\ row[m].status = "FAILED" => handed[m] <= row[m].retries
  /\ handed[m] <= row[m].retries + 1
  /\ row[m].retries <= MaxRetries

CountInv ==
  /\ CallsAreAwaited /\ OneCallAtATime /\ BatchIsDue /\ CallsAreDue
  /\ \A m \in Messages : IsCounted(m)

SingleInv == OrderInv /\ (FailuresAreRecorded => CountInv)

-----------------------------------------------------------------------------
(* The operators of the model.                                             *)

Called(w, m) == [worker |-> w, msg |-> m, step |-> "mark", awaited |-> TRUE]

(* The constants are positive numbers, and so are the messages.            *)
LEMMA Numbers ==
  /\ MessageCount \in Nat /\ BatchSize \in Nat /\ Concurrency \in Nat
  /\ MaxRetries \in Nat /\ MaxRetries > 0
  /\ \A m \in Messages : m \in Nat
  /\ IsFiniteSet(Messages)
<1>1. MessageCount \in Nat /\ BatchSize \in Nat /\ Concurrency \in Nat
  BY OutboxAssumption
<1>2. MaxTasks \in Nat /\ MaxRetries \in Nat /\ MaxRetries > 0
  BY OutboxAssumption
<1>3. \A m \in Messages : m \in Nat
  BY <1>1 DEF Messages
<1>4. IsFiniteSet(1 .. MessageCount)
  BY <1>1, FS_Interval
<1> QED BY <1>1, <1>2, <1>3, <1>4 DEF Messages

(* First(S, n) is a part of S, and no member of S comes before one of it   *)
(* that is not in it itself.                                               *)
LEMMA FirstOf ==
  ASSUME NEW S \in SUBSET Messages, NEW n \in Nat
  PROVE  /\ First(S, n) \subseteq S
         /\ \A m \in First(S, n), k \in S : k < m => k \in First(S, n)
         /\ \A m \in First(S, n) : Cardinality({k \in S : k < m}) < n
<1>1. IsFiniteSet(Messages)
  BY Numbers
<1>2. ASSUME NEW m \in First(S, n), NEW k \in S, k < m
      PROVE  k \in First(S, n)
  <2> DEFINE A == {j \in S : j < m}
             B == {j \in S : j < k}
  <2>1. m \in S /\ Cardinality(A) < n
    BY DEF First
  <2>2. B \subseteq A
    <3>1. \A j \in S : j \in Nat
      BY Numbers
    <3>2. m \in Nat /\ k \in Nat
      BY <2>1, <3>1
    <3>3. ASSUME NEW j \in B
          PROVE  j \in A
      <4>1. j \in S /\ j < k /\ j \in Nat
        BY <3>1
      <4>2. j < m
        BY <1>2, <3>2, <4>1
      <4> QED BY <4>1, <4>2
    <3> QED BY <3>3
  <2>3. IsFiniteSet(A)
    BY <1>1, FS_Subset
  <2>4. Cardinality(B) <= Cardinality(A) /\ Cardinality(A) \in Nat /\ Cardinality(B) \in Nat
    <3> HIDE DEF A, B
    <3> QED BY <2>2, <2>3, FS_Subset, FS_CardinalityType
  <2>5. Cardinality(B) < n
    <3> HIDE DEF A, B
    <3> QED BY <2>1, <2>4
  <2> QED BY <2>5 DEF First
<1> QED BY <1>2 DEF First

(* Fewer messages of a set that is older than m: a smaller number of them. *)
LEMMA FewerOf ==
  ASSUME NEW S, NEW T \in SUBSET Messages, S \subseteq T, NEW n \in Nat,
         Cardinality(T) < n
  PROVE  Cardinality(S) < n
<1>1. IsFiniteSet(Messages)
  BY Numbers
<1>2. IsFiniteSet(T)
  BY <1>1, FS_Subset
<1> QED BY <1>2, FS_Subset, FS_CardinalityType

LEMMA EarlierPendingAreMessages ==
  ASSUME NEW m \in Messages
  PROVE  EarlierPending(m) \in SUBSET Messages
<1>1. \A k \in 1 .. (m - 1) : k \in Messages
  BY Numbers DEF Messages
<1> QED BY <1>1 DEF EarlierPending

(* A message stays in turn while no older one becomes pending.             *)
LEMMA InTurnStays ==
  ASSUME NEW m \in Messages, InTurn(m),
         \A k \in Messages : row'[k].status = "PENDING" /\ k < m => row[k].status = "PENDING"
  PROVE  InTurn(m)'
<1> DEFINE S == EarlierPending(m)'
           T == EarlierPending(m)
<1>1. S \subseteq T /\ T \in SUBSET Messages
  <2>1. T \in SUBSET Messages
    BY EarlierPendingAreMessages
  <2>2. ASSUME NEW k \in S
        PROVE  k \in T
    <3>1. k \in 1 .. (m - 1) /\ row'[k].status = "PENDING"
      BY <2>2 DEF EarlierPending
    <3>2. k < m /\ k \in Messages
      BY <3>1, Numbers DEF Messages
    <3> QED BY <3>1, <3>2 DEF EarlierPending
  <2> QED BY <2>1, <2>2
<1>2. Cardinality(T) < Concurrency /\ Concurrency \in Nat
  BY Numbers DEF InTurn
<1>3. Cardinality(S) < Concurrency
  <2> HIDE DEF S, T
  <2> QED BY <1>1, <1>2, FewerOf
<1> QED BY <1>3 DEF InTurn

LEMMA FoundOf ==
  ASSUME NEW status \in {"PENDING", "FAILED"}
  PROVE  /\ Eligible(status) \in SUBSET Messages
         /\ Found(status) \subseteq Eligible(status)
         /\ \A m \in Found(status), k \in Eligible(status) : k < m => k \in Found(status)
<1>1. Eligible(status) \in SUBSET Messages
  BY DEF Eligible
<1>2. Limit(status) \in Nat
  BY Numbers DEF Limit
<1> HIDE DEF Eligible
<1> QED BY <1>1, <1>2, FirstOf DEF Found

(* The calls of a new chunk: each of its messages gets a free slot.        *)
LEMMA ChunkStarts ==
  ASSUME TypeOK, NEW w \in Workers, StartChunk(w)
  PROVE  /\ Chunk(w) \subseteq batch[w]
         /\ \E place \in [Chunk(w) -> Slots] :
              /\ \A m \in Chunk(w) : task[place[m]] = NoTask /\ task'[place[m]] = Called(w, m)
              /\ \A s \in Slots : task'[s] = task[s] \/ \E m \in Chunk(w) : s = place[m]
<1> DEFINE Free == {s \in Slots : task[s] = NoTask}
           places == Injection(Chunk(w), Free)
           place == CHOOSE f \in places : TRUE
<1>1. Chunk(w) \subseteq batch[w]
  BY FirstOf, Numbers DEF Chunk, TypeOK
<1>2. places # {}
  BY DEF StartChunk
<1>3. place \in places
  BY <1>2
<1>4. /\ place \in [Chunk(w) -> Free]
      /\ \A m, k \in Chunk(w) : place[m] = place[k] => m = k
  <2> HIDE DEF place, Free
  <2> QED BY <1>3 DEF Injection, IsInjective
<1>5. task' = [s \in Slots |->
          IF \E m \in Chunk(w) : place[m] = s
          THEN Called(w, CHOOSE m \in Chunk(w) : place[m] = s)
          ELSE task[s]]
  BY DEF StartChunk, Called
<1> HIDE DEF place, places
<1>6. ASSUME NEW m \in Chunk(w)
      PROVE  task[place[m]] = NoTask /\ task'[place[m]] = Called(w, m)
  <2>1. place[m] \in Slots /\ task[place[m]] = NoTask
    BY <1>4
  <2>2. (CHOOSE k \in Chunk(w) : place[k] = place[m]) = m
    BY <1>4
  <2>3. task'[place[m]] = Called(w, CHOOSE k \in Chunk(w) : place[k] = place[m])
    BY <1>5, <2>1
  <2> QED BY <2>1, <2>2, <2>3
<1>7. ASSUME NEW s \in Slots
      PROVE  task'[s] = task[s] \/ \E m \in Chunk(w) : s = place[m]
  BY <1>5
<1>8. place \in [Chunk(w) -> Slots]
  BY <1>4
<1> QED BY <1>1, <1>6, <1>7, <1>8

-----------------------------------------------------------------------------
(* Types.                                                                  *)

LEMMA InitIsTyped == Init => TypeOK
<1> SUFFICES ASSUME Init PROVE TypeOK
  OBVIOUS
<1>1. row \in [Messages -> Row] /\ handed \in [Messages -> Nat]
  BY DEF Init, Row, Status, ProcessedAt
<1>2. phase \in [Workers -> Phase] /\ pass \in [Workers -> {"PENDING", "FAILED"}]
  BY DEF Init, Phase
<1>3. batch \in [Workers -> SUBSET Messages] /\ closing \in [Workers -> BOOLEAN]
  BY DEF Init
<1>4. task \in [Slots -> Task \union {NoTask}] /\ happens \in Worlds
  BY DEF Init
<1>5. link \in [Workers -> Link] /\ received \subseteq Messages /\ unsent \subseteq Messages
  BY DEF Init, Link
<1> QED BY <1>1, <1>2, <1>3, <1>4, <1>5 DEF TypeOK

(* What a call in flight is.                                               *)
LEMMA CallIsTyped ==
  ASSUME TypeOK, NEW s \in Slots, Busy(s)
  PROVE  /\ task[s] \in Task
         /\ task[s].worker \in Workers /\ task[s].msg \in Messages
         /\ task[s].step \in Step /\ task[s].awaited \in BOOLEAN
<1>1. task[s] \in Task
  BY DEF TypeOK, Busy
<1> QED BY <1>1 DEF Task

LEMMA AdvanceIsTyped ==
  ASSUME TypeOK, NEW s \in Slots, Busy(s), NEW step \in Step, Advance(s, step)
  PROVE  task' \in [Slots -> Task \union {NoTask}]
<1>1. [task[s] EXCEPT !.step = step] \in Task
  BY CallIsTyped DEF Task
<1>2. task' = [task EXCEPT ![s] = [task[s] EXCEPT !.step = step]]
  BY DEF Advance
<1> QED BY <1>1, <1>2 DEF TypeOK

LEMMA OnlyBusySlotsCall == ASSUME NEW s \in Slots, Call(s) PROVE Busy(s)
<1> USE DEF At, Busy
<1>1. CASE MarkProcessing(s) \/ Publish(s) \/ PublishThrows(s) \/ MarkPublished(s)
  BY <1>1 DEF MarkProcessing, Publish, PublishThrows, MarkPublished, Write
<1>2. CASE UpdateFails(s)
  BY <1>2 DEF UpdateFails
<1>3. CASE MarkFailed(s) \/ MarkFailedFails(s)
  BY <1>3 DEF MarkFailed, MarkFailedFails
<1> QED BY <1>1, <1>2, <1>3 DEF Call

LEMMA CallKeepsTypes ==
  ASSUME TypeOK, NEW s \in Slots, Call(s)
  PROVE  TypeOK'
<1> USE DEF Step
<1>0. Busy(s) /\ task[s].msg \in Messages /\ task[s].worker \in Workers
  <2>1. Busy(s)
    BY OnlyBusySlotsCall
  <2> QED BY <2>1, CallIsTyped
<1>a. ASSUME Finish(s)
      PROVE  task' \in [Slots -> Task \union {NoTask}]
  BY <1>a DEF Finish, TypeOK
<1>1. CASE MarkProcessing(s)
  <2>1. task' \in [Slots -> Task \union {NoTask}]
    BY <1>0, <1>1, AdvanceIsTyped DEF MarkProcessing
  <2>2. row' \in [Messages -> Row]
    BY <1>0, <1>1 DEF MarkProcessing, TypeOK, Row, Status, ProcessedAt
  <2> QED BY <1>1, <2>1, <2>2 DEF MarkProcessing, TypeOK, loop, wire
<1>b. ASSUME Write(s)
      PROVE  /\ handed' \in [Messages -> Nat] /\ link' \in [Workers -> Link]
             /\ received' \subseteq Messages /\ unsent' \subseteq Messages
  BY <1>0, <1>b DEF Write, TypeOK
<1>2. CASE Publish(s)
  <2>1. task' \in [Slots -> Task \union {NoTask}]
    BY <1>0, <1>2, AdvanceIsTyped DEF Publish, Write
  <2> QED BY <1>2, <1>b, <2>1 DEF Publish, TypeOK, loop
<1>3. CASE PublishThrows(s)
  <2>1. task' \in [Slots -> Task \union {NoTask}]
    BY <1>0, <1>3, AdvanceIsTyped DEF PublishThrows
  <2>2. CASE UNCHANGED <<handed, wire>>
    BY <1>3, <2>1, <2>2 DEF PublishThrows, TypeOK, loop, wire
  <2>3. CASE Write(s)
    BY <1>3, <1>b, <2>1, <2>3 DEF PublishThrows, TypeOK, loop
  <2> QED BY <1>3, <2>2, <2>3 DEF PublishThrows
<1>4. CASE MarkPublished(s)
  <2>1. row' \in [Messages -> Row]
    BY <1>0, <1>4 DEF MarkPublished, TypeOK, Row, Status
  <2> QED BY <1>4, <1>a, <2>1 DEF MarkPublished, TypeOK, loop, wire
<1>5. CASE UpdateFails(s)
  <2>1. task' \in [Slots -> Task \union {NoTask}]
    BY <1>0, <1>5, AdvanceIsTyped DEF UpdateFails
  <2> QED BY <1>5, <2>1 DEF UpdateFails, TypeOK, loop, wire, table
<1>6. CASE MarkFailed(s)
  <2>1. row' \in [Messages -> Row]
    BY <1>0, <1>6 DEF MarkFailed, TypeOK, Row, Status, ProcessedAt
  <2> QED BY <1>6, <1>a, <2>1 DEF MarkFailed, TypeOK, loop, wire
<1>7. CASE MarkFailedFails(s)
  <2>1. CASE ~task[s].awaited
    BY <1>7, <2>1, <1>a DEF MarkFailedFails, TypeOK, table, wire
  <2>2. CASE task[s].awaited
    <3>1. ASSUME NEW t \in Slots, Busy(t)
          PROVE  [task[t] EXCEPT !.awaited = FALSE] \in Task
      BY <3>1, CallIsTyped DEF Task
    <3>2. task' = [t \in Slots |->
              IF t = s THEN NoTask
              ELSE IF t \in Awaited(task[s].worker) THEN [task[t] EXCEPT !.awaited = FALSE]
              ELSE task[t]]
      BY <1>7, <2>2 DEF MarkFailedFails
    <3>3. \A t \in Awaited(task[s].worker) : Busy(t)
      BY DEF Awaited, InFlight, Busy
    <3>4. task' \in [Slots -> Task \union {NoTask}]
      BY <3>1, <3>2, <3>3 DEF TypeOK
    <3> QED BY <1>0, <1>7, <2>2, <3>4 DEF MarkFailedFails, TypeOK, table, wire, Phase
  <2> QED BY <2>1, <2>2
<1> QED BY <1>1, <1>2, <1>3, <1>4, <1>5, <1>6, <1>7 DEF Call

LEMMA LoopKeepsTypes ==
  ASSUME TypeOK, NEW w \in Workers, Loop(w)
  PROVE  TypeOK'
<1>1. CASE Select(w)
  <2>1. Found(pass[w]) \in SUBSET Messages
    BY FoundOf DEF TypeOK
  <2> QED BY <1>1, <2>1 DEF Select, TypeOK, table, wire, Phase
<1>2. CASE StartChunk(w)
  <2>1. ASSUME NEW s \in Slots
        PROVE  task'[s] \in Task \union {NoTask}
    <3>1. \A m \in Messages : Called(w, m) \in Task
      BY DEF Called, Task, Step
    <3>2. batch[w] \subseteq Messages
      BY DEF TypeOK
    <3> QED BY <1>2, <3>1, <3>2, ChunkStarts DEF TypeOK
  <2>2. task' = [s \in Slots |-> task'[s]]
    BY <1>2 DEF StartChunk
  <2>3. task' \in [Slots -> Task \union {NoTask}]
    BY <2>1, <2>2
  <2>4. batch' \in [Workers -> SUBSET Messages]
    BY <1>2 DEF StartChunk, TypeOK
  <2> QED BY <1>2, <2>3, <2>4 DEF StartChunk, TypeOK, table, wire
<1>3. CASE EndPass(w)
  BY <1>3 DEF EndPass, TypeOK, table, wire, Phase
<1>4. CASE Poll(w)
  BY <1>4 DEF Poll, TypeOK, table, wire, Phase
<1> QED BY <1>1, <1>2, <1>3, <1>4 DEF Loop

LEMMA WorkerKeepsTypes ==
  ASSUME TypeOK, NEW w \in Workers,
         \/ Start(w) \/ SelectFails(w) \/ Stop(w) \/ Crash(w) \/ Cleanup(w)
         \/ LinkBreaks(w) \/ LinkCloses(w)
  PROVE  TypeOK'
<1>1. CASE Start(w)
  BY <1>1 DEF Start, TypeOK, table, Phase, Link
<1>2. CASE SelectFails(w)
  BY <1>2 DEF SelectFails, TypeOK, table, wire, Phase
<1>3. CASE Stop(w)
  BY <1>3 DEF Stop, TypeOK, table, wire, Phase
<1>4. CASE Crash(w)
  <2>1. task' \in [Slots -> Task \union {NoTask}]
    BY <1>4 DEF Crash, TypeOK
  <2> QED BY <1>4, <2>1 DEF Crash, TypeOK, table, Phase, Link
<1>5. CASE Cleanup(w)
  <2>1. \A m \in Messages : [row[m] EXCEPT !.status = "DELETED"] \in Row
    BY DEF TypeOK, Row, Status
  <2>2. row' \in [Messages -> Row]
    BY <1>5, <2>1 DEF Cleanup, TypeOK
  <2> QED BY <1>5, <2>2 DEF Cleanup, TypeOK, loop, wire
<1>6. CASE LinkBreaks(w) \/ LinkCloses(w)
  BY <1>6 DEF LinkBreaks, LinkCloses, TypeOK, loop, table, Link
<1> QED BY <1>1, <1>2, <1>3, <1>4, <1>5, <1>6

LEMMA TypeStep == TypeOK /\ [Next]_vars => TypeOK'
<1> SUFFICES ASSUME TypeOK, [Next]_vars PROVE TypeOK'
  OBVIOUS
<1>1. ASSUME NEW m \in Messages, Save(m)
      PROVE  TypeOK'
  BY <1>1 DEF Save, TypeOK, loop, wire, Row, Status
<1>2. ASSUME NEW m \in Messages, BackoffElapses(m)
      PROVE  TypeOK'
  BY <1>2 DEF BackoffElapses, TypeOK, loop, wire, Row, ProcessedAt
<1>3. CASE UNCHANGED vars
  BY <1>3 DEF vars, TypeOK, wire
<1> QED BY <1>1, <1>2, <1>3, CallKeepsTypes, LoopKeepsTypes, WorkerKeepsTypes DEF Next

(* Every variable keeps its type.                                          *)
THEOREM TypeCorrect == Spec => []TypeOK
BY InitIsTyped, TypeStep, PTL DEF Spec

(* A connection that breaks or is found closed leaves the rest alone.      *)
Aside == UNCHANGED <<row, handed, phase, pass, batch, closing, task, happens>>

LEMMA LinksStandAside ==
  ASSUME (\E w \in Workers : LinkBreaks(w) \/ LinkCloses(w)) \/ UNCHANGED vars
  PROVE  Aside
BY DEF LinkBreaks, LinkCloses, vars, table, loop, Aside

-----------------------------------------------------------------------------
(* What a step of a call changes, slot by slot and row by row.             *)

Moved(s, step) ==
  /\ Busy(s)' /\ task'[s].step = step /\ task'[s].msg = task[s].msg
  /\ task'[s].worker = task[s].worker /\ task'[s].awaited = task[s].awaited
  /\ \A t \in Slots : t # s => task'[t] = task[t]

Ended(s) == task'[s] = NoTask /\ \A t \in Slots : t # s => task'[t] = task[t]

RowChanged(m, status, retries) ==
  /\ row'[m].status = status /\ row'[m].retries = retries
  /\ \A k \in Messages : k # m => row'[k] = row[k]

LEMMA AdvanceMoves ==
  ASSUME TypeOK, NEW s \in Slots, Busy(s), NEW step \in Step, Advance(s, step)
  PROVE  Moved(s, step)
<1>1. task'[s] = [task[s] EXCEPT !.step = step]
      /\ \A t \in Slots : t # s => task'[t] = task[t]
  BY DEF Advance, TypeOK
<1>2. task[s] \in Task
  BY CallIsTyped
<1>3. task'[s] \in Task
  BY <1>1, <1>2 DEF Task
<1>4. task'[s] # NoTask
  BY <1>3, NoTaskAssumption
<1> QED BY <1>1, <1>2, <1>4 DEF Moved, Busy, Task

LEMMA FinishEnds ==
  ASSUME TypeOK, NEW s \in Slots, Finish(s)
  PROVE  Ended(s)
BY DEF Finish, TypeOK, Ended

(* The seven kinds of step a call takes.                                   *)
LEMMA CallChanges ==
  ASSUME TypeOK, NEW s \in Slots, Call(s)
  PROVE  LET m == task[s].msg
         IN /\ Busy(s) /\ m \in Messages /\ happens' = happens
            /\ \/ /\ task[s].step = "mark" /\ InTable(m)
                  /\ RowChanged(m, "PROCESSING", row[m].retries)
                  /\ Moved(s, "publish") /\ handed' = handed /\ UNCHANGED loop
               \/ /\ task[s].step = "publish" /\ Moved(s, "confirm")
                  /\ handed' = [handed EXCEPT ![m] = @ + 1] /\ row' = row /\ UNCHANGED loop
               \/ /\ task[s].step = "publish" /\ Moved(s, "fail") /\ row' = row
                  /\ \E sent \in {0, 1} : handed' = [handed EXCEPT ![m] = @ + sent]
                  /\ UNCHANGED loop
               \/ /\ task[s].step = "confirm" /\ InTable(m)
                  /\ RowChanged(m, "PUBLISHED", row[m].retries)
                  /\ Ended(s) /\ handed' = handed /\ UNCHANGED loop
               \/ /\ Moved(s, "fail") /\ row' = row /\ handed' = handed /\ UNCHANGED loop
               \/ /\ task[s].step = "fail" /\ InTable(m)
                  /\ RowChanged(m, "FAILED", row[m].retries + 1)
                  /\ Ended(s) /\ handed' = handed /\ UNCHANGED loop
               \/ MarkFailedFails(s)
<1> USE DEF Step
<1> DEFINE m == task[s].msg
<1>0. Busy(s) /\ m \in Messages
  <2>1. Busy(s)
    BY OnlyBusySlotsCall
  <2> QED BY <2>1, CallIsTyped
<1>a. happens' = happens
  <2>1. CASE MarkProcessing(s) \/ Publish(s) \/ PublishThrows(s) \/ MarkPublished(s)
    BY <2>1 DEF MarkProcessing, Publish, PublishThrows, MarkPublished
  <2>2. CASE UpdateFails(s) \/ MarkFailed(s)
    BY <2>2 DEF UpdateFails, MarkFailed
  <2>3. CASE MarkFailedFails(s)
    BY <2>3 DEF MarkFailedFails
  <2> QED BY <2>1, <2>2, <2>3 DEF Call
<1>b. row \in [Messages -> Row]
  BY DEF TypeOK
<1>1. ASSUME MarkProcessing(s)
      PROVE  /\ task[s].step = "mark" /\ InTable(m)
             /\ RowChanged(m, "PROCESSING", row[m].retries)
             /\ Moved(s, "publish") /\ handed' = handed /\ UNCHANGED loop
  <2>1. RowChanged(m, "PROCESSING", row[m].retries)
    BY <1>0, <1>b, <1>1 DEF MarkProcessing, RowChanged, Row
  <2>2. Moved(s, "publish")
    BY <1>0, <1>1, AdvanceMoves DEF MarkProcessing
  <2> QED BY <1>1, <2>1, <2>2 DEF MarkProcessing, At
<1>2. ASSUME Publish(s)
      PROVE  /\ task[s].step = "publish" /\ Moved(s, "confirm")
             /\ handed' = [handed EXCEPT ![m] = @ + 1] /\ row' = row /\ UNCHANGED loop
  <2>1. Moved(s, "confirm")
    BY <1>0, <1>2, AdvanceMoves DEF Publish
  <2> QED BY <1>2, <2>1 DEF Publish, Write, At
<1>3. ASSUME PublishThrows(s)
      PROVE  /\ task[s].step = "publish" /\ Moved(s, "fail") /\ row' = row
             /\ \E sent \in {0, 1} : handed' = [handed EXCEPT ![m] = @ + sent]
             /\ UNCHANGED loop
  <2>1. Moved(s, "fail")
    BY <1>0, <1>3, AdvanceMoves DEF PublishThrows
  <2>2. task[s].step = "publish" /\ row' = row /\ UNCHANGED loop
    BY <1>3 DEF PublishThrows, Write, At
  <2>3. \E sent \in {0, 1} : handed' = [handed EXCEPT ![m] = @ + sent]
    <3>1. CASE handed' = handed
      <4>1. handed' = [handed EXCEPT ![m] = @ + 0]
        BY <1>0, <3>1 DEF TypeOK
      <4> QED BY <4>1
    <3>2. CASE Write(s)
      BY <3>2 DEF Write
    <3> QED BY <1>3, <3>1, <3>2 DEF PublishThrows
  <2> QED BY <2>1, <2>2, <2>3
<1>4. ASSUME MarkPublished(s)
      PROVE  /\ task[s].step = "confirm" /\ InTable(m)
             /\ RowChanged(m, "PUBLISHED", row[m].retries)
             /\ Ended(s) /\ handed' = handed /\ UNCHANGED loop
  <2>1. RowChanged(m, "PUBLISHED", row[m].retries)
    BY <1>0, <1>b, <1>4 DEF MarkPublished, RowChanged, Row
  <2>2. Ended(s)
    BY <1>4, FinishEnds DEF MarkPublished
  <2> QED BY <1>4, <2>1, <2>2 DEF MarkPublished, At
<1>5. ASSUME UpdateFails(s)
      PROVE  Moved(s, "fail") /\ row' = row /\ handed' = handed /\ UNCHANGED loop
  <2>1. Moved(s, "fail")
    BY <1>0, <1>5, AdvanceMoves DEF UpdateFails
  <2> QED BY <1>5, <2>1 DEF UpdateFails, table
<1>6. ASSUME MarkFailed(s)
      PROVE  /\ task[s].step = "fail" /\ InTable(m)
             /\ RowChanged(m, "FAILED", row[m].retries + 1)
             /\ Ended(s) /\ handed' = handed /\ UNCHANGED loop
  <2>1. RowChanged(m, "FAILED", row[m].retries + 1)
    BY <1>0, <1>b, <1>6 DEF MarkFailed, RowChanged, Row
  <2>2. Ended(s)
    BY <1>6, FinishEnds DEF MarkFailed
  <2> QED BY <1>6, <2>1, <2>2 DEF MarkFailed, At
<1> QED BY <1>0, <1>a, <1>1, <1>2, <1>3, <1>4, <1>5, <1>6 DEF Call

(* A failure that cannot be recorded ends the call, and when the loop was  *)
(* waiting for it lets the others of its chunk run on by themselves.       *)
LEMMA UnrecordedChanges ==
  ASSUME TypeOK, NEW s \in Slots, MarkFailedFails(s)
  PROVE  /\ \A t \in Slots : Busy(t)' =>
              /\ Busy(t) /\ task'[t].msg = task[t].msg /\ task'[t].step = task[t].step
              /\ task'[t].worker = task[t].worker
              /\ task[t].worker # task[s].worker => task'[t] = task[t]
         /\ \/ batch' = [batch EXCEPT ![task[s].worker] = {}]
               /\ phase' = [phase EXCEPT ![task[s].worker] = "timer"]
            \/ /\ ~task[s].awaited /\ UNCHANGED <<batch, phase>>
               /\ Ended(s)
         /\ \A t \in Slots : Busy(t) /\ task[t].worker # task[s].worker => task'[t] = task[t]
         /\ UNCHANGED <<row, handed, pass>>
<1>0. Busy(s)
  BY DEF MarkFailedFails, At, Busy
<1>1. CASE ~task[s].awaited
  <2>1. Ended(s) /\ UNCHANGED <<batch, phase>>
    BY <1>1, FinishEnds DEF MarkFailedFails
  <2> QED BY <1>1, <2>1 DEF MarkFailedFails, Ended, Busy, table
<1>2. CASE task[s].awaited
  <2>1. \A t \in Slots : Busy(t) => /\ task[t] \in Task
                                    /\ [task[t] EXCEPT !.awaited = FALSE].msg = task[t].msg
                                    /\ [task[t] EXCEPT !.awaited = FALSE].step = task[t].step
                                    /\ [task[t] EXCEPT !.awaited = FALSE].worker = task[t].worker
    BY CallIsTyped DEF Task
  <2>2. \A t \in Slots :
          task'[t] = IF t = s THEN NoTask
                     ELSE IF t \in Awaited(task[s].worker) THEN [task[t] EXCEPT !.awaited = FALSE]
                     ELSE task[t]
    BY <1>2 DEF MarkFailedFails
  <2>3. \A t \in Slots : t \in Awaited(task[s].worker) => Busy(t) /\ task[t].worker = task[s].worker
    BY DEF Awaited, InFlight, Busy
  <2>4. \A t \in Slots : Busy(t)' =>
          /\ Busy(t) /\ task'[t].msg = task[t].msg /\ task'[t].step = task[t].step
          /\ task'[t].worker = task[t].worker
          /\ task[t].worker # task[s].worker => task'[t] = task[t]
    BY <2>1, <2>2, <2>3 DEF Busy
  <2>5. \A t \in Slots : Busy(t) /\ task[t].worker # task[s].worker => task'[t] = task[t]
    BY <2>2, <2>3
  <2> QED BY <1>2, <2>4, <2>5 DEF MarkFailedFails, table
<1> QED BY <1>1, <1>2

-----------------------------------------------------------------------------
(* Deliveries that were not imagined.                                      *)

(* handed never decreases; what matters of a step for DeliveryInv: a row   *)
(* or a call that claims a delivery has one.                               *)
Delivers ==
  /\ \A m \in Messages : handed[m] \in Nat /\ handed'[m] \in Nat /\ handed'[m] >= handed[m]
  /\ \A m \in Messages : row'[m].status \in {"PUBLISHED", "DELETED"} =>
       row[m].status \in {"PUBLISHED", "DELETED"} \/ handed'[m] > 0
  /\ \A s \in Slots : task'[s] # NoTask /\ task'[s].step = "confirm" =>
       handed'[task'[s].msg] > 0

LEMMA DeliversKeepsDelivery ==
  ASSUME DeliveryInv, TypeOK', Delivers
  PROVE  DeliveryInv'
BY DEF DeliveryInv, Delivers, ConfirmedWasHanded, PublishedWasHanded, At, TypeOK

LEMMA CallDelivers ==
  ASSUME DeliveryInv, NEW s \in Slots, Call(s)
  PROVE  Delivers
<1>0. /\ TypeOK /\ handed \in [Messages -> Nat]
      /\ \A t \in Slots : Busy(t) => task[t].msg \in Messages
      /\ \A t \in Slots : Busy(t) /\ task[t].step = "confirm" => handed[task[t].msg] > 0
  BY CallIsTyped DEF DeliveryInv, TypeOK, ConfirmedWasHanded, At, Busy
<1>1. PICK m \in Messages : m = task[s].msg
  BY <1>0, CallChanges
<1>a. ASSUME handed' = handed \/ \E sent \in {0, 1} : handed' = [handed EXCEPT ![m] = @ + sent]
      PROVE  \A k \in Messages : handed[k] \in Nat /\ handed'[k] \in Nat /\ handed'[k] >= handed[k]
  BY <1>0, <1>a
<1>b. ASSUME NEW step \in Step, Moved(s, step) \/ Ended(s), step = "confirm" => handed'[m] > 0,
             \A k \in Messages : handed[k] \in Nat /\ handed'[k] \in Nat /\ handed'[k] >= handed[k]
      PROVE  \A t \in Slots : task'[t] # NoTask /\ task'[t].step = "confirm" =>
               handed'[task'[t].msg] > 0
  BY <1>0, <1>1, <1>b DEF Moved, Ended, Busy
<1>2. ASSUME NEW status \in {"PROCESSING", "FAILED"}, NEW n, RowChanged(m, status, n),
             handed' = handed, Moved(s, "publish") \/ Ended(s)
      PROVE  Delivers
  <2>1. \A k \in Messages : row'[k].status \in {"PUBLISHED", "DELETED"} =>
          row[k].status \in {"PUBLISHED", "DELETED"}
    BY <1>2 DEF RowChanged
  <2> QED BY <1>2, <1>a, <1>b, <2>1 DEF Delivers, Step
<1>3. ASSUME NEW n, task[s].step = "confirm", RowChanged(m, "PUBLISHED", n),
             handed' = handed, Ended(s)
      PROVE  Delivers
  <2>1. handed[m] > 0 /\ \A k \in Messages : k # m => row'[k] = row[k]
    BY <1>0, <1>1, <1>3, CallChanges DEF RowChanged
  <2> QED BY <1>3, <1>a, <1>b, <2>1 DEF Delivers, Step
<1>4. ASSUME NEW step \in {"confirm", "fail"}, Moved(s, step), row' = row, NEW sent \in {0, 1},
             handed' = [handed EXCEPT ![m] = @ + sent], step = "confirm" => sent = 1
      PROVE  Delivers
  <2>1. step = "confirm" => handed'[m] > 0
    BY <1>0, <1>4
  <2>2. \A k \in Messages : handed[k] \in Nat /\ handed'[k] \in Nat /\ handed'[k] >= handed[k]
    BY <1>4, <1>a
  <2> QED BY <1>4, <1>b, <2>1, <2>2 DEF Delivers, Step
<1>5. ASSUME Moved(s, "fail"), row' = row, handed' = handed
      PROVE  Delivers
  BY <1>5, <1>a, <1>b DEF Delivers, Step
<1>6. ASSUME MarkFailedFails(s)
      PROVE  Delivers
  <2>1. /\ \A t \in Slots : Busy(t)' =>
             Busy(t) /\ task'[t].msg = task[t].msg /\ task'[t].step = task[t].step
        /\ row' = row /\ handed' = handed
    BY <1>0, <1>6, UnrecordedChanges
  <2> QED BY <1>0, <2>1 DEF Delivers, Busy
<1> QED BY <1>0, <1>1, <1>2, <1>3, <1>4, <1>5, <1>6, CallChanges

LEMMA DeliveryStep == DeliveryInv /\ [Next]_vars => DeliveryInv'
<1> SUFFICES ASSUME DeliveryInv, [Next]_vars PROVE DeliveryInv'
  OBVIOUS
<1>0. TypeOK /\ TypeOK'
  BY TypeStep DEF DeliveryInv
<1>a. /\ \A m \in Messages : handed[m] \in Nat
      /\ \A s \in Slots : Busy(s) /\ task[s].step = "confirm" => handed[task[s].msg] > 0
  BY DEF DeliveryInv, TypeOK, ConfirmedWasHanded, At, Busy
<1>b. row \in [Messages -> Row] /\ task \in [Slots -> Task \union {NoTask}]
  BY <1>0 DEF TypeOK
<1>1. ASSUME NEW m \in Messages, Save(m) \/ BackoffElapses(m)
      PROVE  Delivers
  <2>1. task' = task /\ handed' = handed
    BY <1>1 DEF Save, BackoffElapses
  <2>2. \A k \in Messages : row'[k].status = row[k].status \/ row'[k].status = "PENDING"
    BY <1>1, <1>b DEF Save, BackoffElapses, Row
  <2> QED BY <1>a, <2>1, <2>2 DEF Delivers, Busy
<1>2. ASSUME NEW w \in Workers,
             Start(w) \/ Select(w) \/ EndPass(w) \/ Poll(w) \/ SelectFails(w) \/ Stop(w)
      PROVE  Delivers
  <2>1. task' = task /\ handed' = handed /\ row' = row
    BY <1>2 DEF Start, Select, EndPass, Poll, SelectFails, Stop, table
  <2> QED BY <1>a, <2>1 DEF Delivers, Busy
<1>3. ASSUME NEW w \in Workers, StartChunk(w)
      PROVE  Delivers
  <2>1. handed' = handed /\ row' = row
    BY <1>3 DEF StartChunk, table
  <2>2. \A s \in Slots : task'[s] = task[s] \/ task'[s].step = "mark"
    <3>1. \A m : Called(w, m).step = "mark"
      BY DEF Called
    <3> QED BY <1>0, <1>3, <3>1, ChunkStarts
  <2> QED BY <1>a, <2>1, <2>2 DEF Delivers, Busy
<1>4. ASSUME NEW w \in Workers, Crash(w)
      PROVE  Delivers
  <2>1. handed' = handed /\ row' = row
    BY <1>4 DEF Crash, table
  <2>2. \A s \in Slots : task'[s] = task[s] \/ task'[s] = NoTask
    BY <1>4 DEF Crash
  <2> QED BY <1>a, <2>1, <2>2 DEF Delivers, Busy
<1>5. ASSUME NEW w \in Workers, Cleanup(w)
      PROVE  Delivers
  <2>1. handed' = handed /\ task' = task
    BY <1>5 DEF Cleanup
  <2>2. \A m \in Messages : row'[m] = row[m] \/ row[m].status = "PUBLISHED"
    BY <1>5 DEF Cleanup
  <2> QED BY <1>a, <2>1, <2>2 DEF Delivers, Busy
<1>6. ASSUME Aside
      PROVE  Delivers
  BY <1>6, <1>a DEF Aside, Delivers, Busy
<1>7. Delivers
  BY <1>1, <1>2, <1>3, <1>4, <1>5, <1>6, CallDelivers, LinksStandAside DEF Next, Loop
<1> QED BY <1>0, <1>7, DeliversKeepsDelivery

LEMMA DeliveryInvariant == Spec => []DeliveryInv
<1>1. Init => DeliveryInv
  <2>1. Init => ConfirmedWasHanded /\ PublishedWasHanded
    BY DEF Init, ConfirmedWasHanded, PublishedWasHanded, At
  <2> QED BY <2>1, InitIsTyped DEF DeliveryInv
<1> QED BY <1>1, DeliveryStep, PTL DEF Spec

(* Only a write touches what was received and what was not, and only       *)
(* LinkBreaks breaks a connection.                                         *)
LEMMA WiresChange ==
  ASSUME TypeOK, [Next]_vars
  PROVE  /\ happens' = happens
         /\ \/ UNCHANGED <<handed, wire>>
            \/ \E s \in Slots : Busy(s) /\ task[s].msg \in Messages /\ Write(s)
            \/ /\ UNCHANGED <<handed, received, unsent>>
               /\ \A w \in Workers : link'[w] = "broken" => link[w] = "broken" \/ "break" \in happens
<1>1. ASSUME NEW s \in Slots, Call(s)
      PROVE  /\ happens' = happens
             /\ UNCHANGED <<handed, wire>> \/ (Busy(s) /\ task[s].msg \in Messages /\ Write(s))
  <2>1. Busy(s) /\ task[s].msg \in Messages /\ happens' = happens
    BY <1>1, CallChanges
  <2>2. UNCHANGED <<handed, wire>> \/ Write(s)
    BY <1>1 DEF Call, MarkProcessing, Publish, PublishThrows, MarkPublished, UpdateFails,
                MarkFailed, MarkFailedFails, table
  <2> QED BY <2>1, <2>2
<1>2. ASSUME NEW w \in Workers, Start(w) \/ Crash(w) \/ LinkBreaks(w) \/ LinkCloses(w)
      PROVE  /\ happens' = happens /\ UNCHANGED <<handed, received, unsent>>
             /\ \A v \in Workers : link'[v] = "broken" => link[v] = "broken" \/ "break" \in happens
  <2>1. happens' = happens /\ UNCHANGED <<handed, received, unsent>>
    BY <1>2 DEF Start, Crash, LinkBreaks, LinkCloses, table
  <2>2. link \in [Workers -> Link]
    BY DEF TypeOK
  <2> QED BY <1>2, <2>1, <2>2 DEF Start, Crash, LinkBreaks, LinkCloses
<1>3. ASSUME NEW w \in Workers, Loop(w) \/ SelectFails(w) \/ Stop(w) \/ Cleanup(w)
      PROVE  happens' = happens /\ UNCHANGED <<handed, wire>>
  BY <1>3 DEF Loop, Select, StartChunk, EndPass, Poll, SelectFails, Stop, Cleanup, table
<1>4. ASSUME NEW m \in Messages, Save(m) \/ BackoffElapses(m)
      PROVE  happens' = happens /\ UNCHANGED <<handed, wire>>
  BY <1>4 DEF Save, BackoffElapses
<1>5. ASSUME UNCHANGED vars
      PROVE  happens' = happens /\ UNCHANGED <<handed, wire>>
  BY <1>5 DEF vars
<1> QED BY <1>1, <1>2, <1>3, <1>4, <1>5 DEF Next

LEMMA WireInvariant == Spec => []WireInv
<1>1. Init => WireInv
  <2>1. Init => HandedWasSent /\ LossNeedsABreak
    BY DEF Init, HandedWasSent, LossNeedsABreak
  <2> QED BY <2>1, InitIsTyped DEF WireInv
<1>2. WireInv /\ [Next]_vars => WireInv'
  <2> SUFFICES ASSUME WireInv, [Next]_vars PROVE HandedWasSent' /\ LossNeedsABreak'
    BY TypeStep DEF WireInv
  <2>0. TypeOK /\ HandedWasSent /\ LossNeedsABreak /\ happens' = happens
    BY WiresChange DEF WireInv
  <2>1. CASE UNCHANGED <<handed, wire>>
    BY <2>0, <2>1 DEF HandedWasSent, LossNeedsABreak, wire
  <2>2. ASSUME NEW s \in Slots, task[s].msg \in Messages, Write(s)
        PROVE  HandedWasSent' /\ LossNeedsABreak'
    <3> DEFINE m == task[s].msg
    <3>1. /\ handed' = [handed EXCEPT ![m] = @ + 1] /\ handed \in [Messages -> Nat]
          /\ m \in received' \union unsent' /\ received \union unsent \subseteq received' \union unsent'
      BY <2>0, <2>2 DEF Write, TypeOK
    <3>2. HandedWasSent'
      BY <2>0, <2>2, <3>1 DEF HandedWasSent
    <3>3. link' = link /\ (unsent' # {} => unsent # {} \/ \E w \in Workers : link[w] = "broken")
      <4>1. link \in [Workers -> Link] /\ task[s].worker \in Workers
        BY <2>0, <2>2, CallIsTyped DEF TypeOK, Write, At, Busy
      <4>2. link[task[s].worker] \in {"up", "broken"}
        BY <2>2, <4>1 DEF Write, Link
      <4> QED BY <2>2, <4>1, <4>2 DEF Write
    <3> QED BY <2>0, <3>2, <3>3 DEF LossNeedsABreak
  <2>3. CASE /\ UNCHANGED <<handed, received, unsent>>
             /\ \A w \in Workers : link'[w] = "broken" => link[w] = "broken" \/ "break" \in happens
    BY <2>0, <2>3 DEF HandedWasSent, LossNeedsABreak
  <2> QED BY <2>0, <2>1, <2>2, <2>3, WiresChange
<1> QED BY <1>1, <1>2, PTL DEF Spec

(* What is recorded as published was received by the broker unless a       *)
(* connection broke under it, whatever fails, crashes or runs twice.       *)
THEOREM PublishedReachedTheBroker == Spec => []PublishedWasReceived
<1>1. DeliveryInv /\ WireInv => PublishedWasReceived
  <2> SUFFICES ASSUME DeliveryInv, WireInv, NEW m \in Messages,
                      row[m].status \in {"PUBLISHED", "DELETED"}
               PROVE  m \in received \/ ("break" \in happens /\ m \in unsent)
    BY DEF PublishedWasReceived
  <2>1. handed[m] > 0
    BY DEF DeliveryInv, PublishedWasHanded
  <2> QED BY <2>1 DEF WireInv, HandedWasSent, LossNeedsABreak
<1> QED BY <1>1, DeliveryInvariant, WireInvariant, PTL

-----------------------------------------------------------------------------
(* The order of delivery.  Save, Select and StartChunk change what is in   *)
(* turn; every other step only ages what there is.                         *)

RowsAge ==
  \A m \in Messages :
    /\ row'[m].status = "PENDING" => row[m].status = "PENDING"
    /\ Saved(m)' <=> Saved(m)
    /\ WasTried(m)' => WasTried(m) \/ \E s \in Slots : Busy(s) /\ task[s].msg = m
    /\ handed'[m] > 0 => handed[m] > 0 \/ WasTried(m)

CallsAge ==
  \A s \in Slots : Busy(s)' =>
    /\ Busy(s) /\ task'[s].msg = task[s].msg
    /\ task'[s].step \in {"publish", "confirm"} =>
         task[s].step \in {"publish", "confirm"} \/ WasTried(task[s].msg)'

BatchAges(w) ==
  \/ batch'[w] = {}
  \/ /\ batch'[w] = batch[w] /\ pass'[w] = pass[w] /\ phase'[w] = "chunks"
     /\ \A s \in Awaited(w) : \/ s \in Awaited(w)' /\ task'[s].msg = task[s].msg
                              \/ row'[task[s].msg].status # "PENDING"

Ages == RowsAge /\ CallsAge /\ \A w \in Workers : BatchAges(w)

LEMMA AgeingKeepsTheOrder ==
  ASSUME OrderInv, TypeOK', Ages
  PROVE  OrderInv'
<1> USE DEF OrderInv, Ages
<1>0. /\ \A w \in Workers : batch[w] \subseteq Messages /\ batch'[w] \subseteq Messages
      /\ \A s \in Slots : Busy(s) => task[s].msg \in Messages
  BY CallIsTyped DEF TypeOK
<1>a. \A m \in Messages : InTurn(m) => InTurn(m)'
  BY InTurnStays DEF RowsAge
<1>b. \A m \in Messages : (Saved(m)' <=> Saved(m)) /\ (WasTried(m) => WasTried(m)')
  BY DEF RowsAge, Saved, WasTried
<1>1. SavedInOrder'
  BY <1>b DEF SavedInOrder
<1>2. BatchIsOfThePass'
  BY <1>0, <1>b DEF BatchIsOfThePass, BatchAges
<1>3. BatchHasNoGap'
  <2> SUFFICES ASSUME NEW w \in Workers, pass'[w] = "PENDING", NEW m \in batch'[w],
                      NEW k \in Messages, k < m, row'[k].status = "PENDING"
               PROVE  k \in batch'[w] \/ \E s \in Awaited(w)' : task'[s].msg = k
    BY DEF BatchHasNoGap
  <2>1. /\ batch'[w] = batch[w] /\ pass'[w] = pass[w]
        /\ \A s \in Awaited(w) : \/ s \in Awaited(w)' /\ task'[s].msg = task[s].msg
                                 \/ row'[task[s].msg].status # "PENDING"
    BY DEF BatchAges
  <2>2. row[k].status = "PENDING"
    BY DEF RowsAge
  <2>3. k \in batch[w] \/ \E s \in Awaited(w) : task[s].msg = k
    BY <2>1, <2>2 DEF BatchHasNoGap
  <2> QED BY <2>1, <2>3
<1>4. CallsAreInTurn'
  <2> SUFFICES ASSUME NEW s \in Slots, Busy(s)'
               PROVE  (/\ Saved(task[s].msg) /\ InTurn(task[s].msg)
                       /\ task[s].step \in {"publish", "confirm"} => WasTried(task[s].msg))'
    BY DEF CallsAreInTurn
  <2>0. Busy(s) /\ task'[s].msg = task[s].msg
    BY DEF CallsAge
  <2> PICK m \in Messages : m = task[s].msg
    BY <1>0, <2>0
  <2>1. /\ Busy(s) /\ task'[s].msg = m
        /\ task'[s].step \in {"publish", "confirm"} =>
             task[s].step \in {"publish", "confirm"} \/ WasTried(m)'
    BY <2>0 DEF CallsAge, WasTried
  <2>2. /\ Saved(m) /\ InTurn(m)
        /\ task[s].step \in {"publish", "confirm"} => WasTried(m)
    BY <2>1 DEF CallsAreInTurn
  <2>3. Saved(m)' /\ InTurn(m)'
    BY <2>1, <2>2, <1>a, <1>b
  <2>4. task'[s].step \in {"publish", "confirm"} => WasTried(m)'
    BY <2>1, <2>2, <1>b
  <2> QED BY <2>1, <2>3, <2>4 DEF Saved, InTurn, EarlierPending, WasTried
<1>5. TriedInTurn'
  BY <1>0, <1>a DEF TriedInTurn, RowsAge, CallsAreInTurn
<1>6. HandedWasTried'
  BY <1>b DEF HandedWasTried, RowsAge
<1> QED BY <1>1, <1>2, <1>3, <1>4, <1>5, <1>6

LEMMA CallAges ==
  ASSUME OrderInv, NEW s \in Slots, Call(s)
  PROVE  Ages
<1>0. TypeOK /\ (TypeOK => row \in [Messages -> Row] /\ handed \in [Messages -> Nat])
  BY DEF OrderInv, TypeOK
<1>1. PICK m \in Messages : m = task[s].msg
  BY <1>0, CallChanges
<1>2. /\ Busy(s)
      /\ task[s].step \in {"publish", "confirm"} => WasTried(m)
      /\ \A w \in Workers : phase[w] # "chunks" => batch[w] = {}
  BY <1>0, <1>1, CallChanges DEF OrderInv, CallsAreInTurn, BatchIsOfThePass
<1>a. ASSUME NEW status \in {"PROCESSING", "PUBLISHED", "FAILED"}, NEW n,
             InTable(m), RowChanged(m, status, n), handed' = handed
      PROVE  RowsAge /\ WasTried(m)' /\ row'[m].status # "PENDING"
  BY <1>1, <1>2, <1>a DEF RowsAge, RowChanged, InTable, Saved, WasTried
<1>b. ASSUME row' = row, \A k \in Messages : handed'[k] > 0 => handed[k] > 0 \/ WasTried(k)
      PROVE  RowsAge
  BY <1>b DEF RowsAge, Saved, WasTried
<1>c. ASSUME NEW step, Moved(s, step), step \in {"publish", "confirm"} => WasTried(m)'
      PROVE  CallsAge
  BY <1>c, <1>1, <1>2 DEF CallsAge, Moved, Busy, WasTried
<1>d. ASSUME Ended(s)
      PROVE  CallsAge
  BY <1>d DEF CallsAge, Ended, Busy
<1>e. ASSUME NEW step, Moved(s, step), UNCHANGED loop
      PROVE  \A w \in Workers : BatchAges(w)
  BY <1>e, <1>2 DEF BatchAges, Moved, loop, Awaited, InFlight, Busy
<1>f. ASSUME Ended(s), UNCHANGED loop, row'[m].status # "PENDING"
      PROVE  \A w \in Workers : BatchAges(w)
  BY <1>f, <1>1, <1>2 DEF BatchAges, Ended, loop, Awaited, InFlight
<1>3. ASSUME task[s].step = "mark", InTable(m),
             RowChanged(m, "PROCESSING", row[m].retries),
             Moved(s, "publish"), handed' = handed, UNCHANGED loop
      PROVE  Ages
  BY <1>3, <1>a, <1>c, <1>e DEF Ages
<1>4. ASSUME NEW step, task[s].step = "publish", Moved(s, step), row' = row,
             step \in {"confirm", "fail"},
             \E sent \in {0, 1} : handed' = [handed EXCEPT ![m] = @ + sent], UNCHANGED loop
      PROVE  Ages
  <2>1. WasTried(m) /\ WasTried(m)'
    BY <1>2, <1>4 DEF WasTried
  <2>2. RowsAge
    BY <1>0, <1>4, <1>b, <2>1
  <2> QED BY <1>4, <1>c, <1>e, <2>1, <2>2 DEF Ages
<1>5. ASSUME NEW status \in {"PUBLISHED", "FAILED"}, NEW n, InTable(m),
             RowChanged(m, status, n), Ended(s), handed' = handed, UNCHANGED loop
      PROVE  Ages
  BY <1>5, <1>a, <1>d, <1>f DEF Ages
<1>6. ASSUME Moved(s, "fail"), row' = row, handed' = handed, UNCHANGED loop
      PROVE  Ages
  BY <1>6, <1>b, <1>c, <1>e DEF Ages
<1>7. ASSUME MarkFailedFails(s)
      PROVE  Ages
  <2>1. /\ \A t \in Slots : Busy(t)' =>
              /\ Busy(t) /\ task'[t].msg = task[t].msg /\ task'[t].step = task[t].step
        /\ \/ batch' = [batch EXCEPT ![task[s].worker] = {}]
              /\ phase' = [phase EXCEPT ![task[s].worker] = "timer"]
           \/ /\ ~task[s].awaited /\ UNCHANGED <<batch, phase>>
              /\ Ended(s)
        /\ \A t \in Slots : Busy(t) /\ task[t].worker # task[s].worker => task'[t] = task[t]
        /\ row' = row /\ handed' = handed /\ pass' = pass
    BY <1>0, <1>7, UnrecordedChanges
  <2>2. RowsAge
    BY <2>1, <1>b
  <2>3. CallsAge
    BY <2>1 DEF CallsAge
  <2>4. ASSUME NEW w \in Workers
        PROVE  BatchAges(w)
    <3>1. CASE w = task[s].worker /\ batch'[w] = {}
      BY <3>1 DEF BatchAges
    <3>2. CASE ~task[s].awaited /\ UNCHANGED <<batch, phase>> /\ Ended(s)
      BY <2>1, <3>2, <1>2 DEF BatchAges, Ended, Awaited, InFlight
    <3>3. CASE w # task[s].worker
      BY <2>1, <3>3, <1>0, <1>2 DEF BatchAges, Awaited, InFlight, Busy, TypeOK
    <3>4. w = task[s].worker /\ batch' = [batch EXCEPT ![task[s].worker] = {}] => batch'[w] = {}
      BY <1>0 DEF TypeOK
    <3> QED BY <2>1, <3>1, <3>2, <3>3, <3>4
  <2> QED BY <2>2, <2>3, <2>4 DEF Ages
<1>8. \/ /\ task[s].step = "mark" /\ InTable(m)
         /\ RowChanged(m, "PROCESSING", row[m].retries)
         /\ Moved(s, "publish") /\ handed' = handed /\ UNCHANGED loop
      \/ /\ task[s].step = "publish" /\ Moved(s, "confirm")
         /\ handed' = [handed EXCEPT ![m] = @ + 1] /\ row' = row /\ UNCHANGED loop
      \/ /\ task[s].step = "publish" /\ Moved(s, "fail") /\ row' = row
         /\ \E sent \in {0, 1} : handed' = [handed EXCEPT ![m] = @ + sent]
         /\ UNCHANGED loop
      \/ /\ task[s].step = "confirm" /\ InTable(m)
         /\ RowChanged(m, "PUBLISHED", row[m].retries)
         /\ Ended(s) /\ handed' = handed /\ UNCHANGED loop
      \/ /\ Moved(s, "fail") /\ row' = row /\ handed' = handed /\ UNCHANGED loop
      \/ /\ task[s].step = "fail" /\ InTable(m)
         /\ RowChanged(m, "FAILED", row[m].retries + 1)
         /\ Ended(s) /\ handed' = handed /\ UNCHANGED loop
      \/ MarkFailedFails(s)
  BY <1>0, <1>1, CallChanges
<1> QED BY <1>3, <1>4, <1>5, <1>6, <1>7, <1>8

LEMMA OtherStepsAge ==
  ASSUME OrderInv,
         \/ \E m \in Messages : BackoffElapses(m)
         \/ \E w \in Workers : \/ Start(w) \/ SelectFails(w) \/ EndPass(w) \/ Poll(w)
                               \/ Stop(w) \/ Crash(w) \/ Cleanup(w)
         \/ Aside
  PROVE  Ages
<1>0. /\ row \in [Messages -> Row] /\ batch \in [Workers -> SUBSET Messages]
      /\ phase \in [Workers -> Phase] /\ pass \in [Workers -> {"PENDING", "FAILED"}]
      /\ \A w \in Workers : phase[w] # "chunks" => batch[w] = {}
  BY DEF OrderInv, TypeOK, BatchIsOfThePass
<1>a. ASSUME handed' = handed,
             \A m \in Messages : row'[m].status = row[m].status
                \/ (row[m].status = "PUBLISHED" /\ row'[m].status = "DELETED")
      PROVE  RowsAge
  BY <1>a DEF RowsAge, Saved, WasTried
<1>b. ASSUME \A s \in Slots : task'[s] = task[s] \/ task'[s] = NoTask
      PROVE  CallsAge
  <2> SUFFICES ASSUME NEW s \in Slots, Busy(s)'
               PROVE  /\ Busy(s) /\ task'[s].msg = task[s].msg
                      /\ task'[s].step \in {"publish", "confirm"} =>
                           task[s].step \in {"publish", "confirm"} \/ WasTried(task[s].msg)'
    BY DEF CallsAge
  <2> QED BY <1>b DEF Busy
<1>d. ASSUME handed' = handed, row' = row
      PROVE  RowsAge
  BY <1>a, <1>d
<1>e. ASSUME task' = task
      PROVE  CallsAge
  BY <1>b, <1>e
<1>c. ASSUME task' = task, NEW w \in Workers,
             batch'[w] = batch[w], phase'[w] = phase[w], pass'[w] = pass[w]
      PROVE  BatchAges(w)
  BY <1>0, <1>c DEF BatchAges, Awaited, InFlight
<1>1. ASSUME NEW m \in Messages, BackoffElapses(m)
      PROVE  Ages
  <2>1. \A k \in Messages : row'[k].status = row[k].status
    BY <1>0, <1>1 DEF BackoffElapses, Row
  <2>2. handed' = handed /\ task' = task /\ batch' = batch /\ phase' = phase /\ pass' = pass
    BY <1>1 DEF BackoffElapses, loop
  <2>3. RowsAge /\ CallsAge
    BY <1>a, <1>e, <2>1, <2>2
  <2> QED BY <1>c, <2>2, <2>3 DEF Ages
<1>2. ASSUME NEW w \in Workers, Start(w) \/ SelectFails(w) \/ Poll(w)
      PROVE  Ages
  <2>1. /\ handed' = handed /\ task' = task /\ batch' = batch /\ row' = row
        /\ batch[w] = {}
        /\ \A v \in Workers : v # w => phase'[v] = phase[v] /\ pass'[v] = pass[v]
    BY <1>0, <1>2 DEF Start, SelectFails, Poll, table
  <2>2. \A v \in Workers : BatchAges(v)
    BY <1>c, <2>1 DEF BatchAges
  <2>3. RowsAge /\ CallsAge
    BY <1>d, <1>e, <2>1
  <2> QED BY <2>2, <2>3 DEF Ages
<1>3. ASSUME NEW w \in Workers, EndPass(w)
      PROVE  Ages
  <2>1. /\ handed' = handed /\ task' = task /\ row' = row
        /\ batch'[w] = {}
        /\ \A v \in Workers : v # w =>
             batch'[v] = batch[v] /\ phase'[v] = phase[v] /\ pass'[v] = pass[v]
    BY <1>0, <1>3 DEF EndPass, table
  <2>2. \A v \in Workers : BatchAges(v)
    BY <1>c, <2>1 DEF BatchAges
  <2>3. RowsAge /\ CallsAge
    BY <1>d, <1>e, <2>1
  <2> QED BY <2>2, <2>3 DEF Ages
<1>4. ASSUME NEW w \in Workers, Stop(w)
      PROVE  Ages
  <2>1. /\ handed' = handed /\ task' = task /\ row' = row /\ batch' = batch /\ pass' = pass
        /\ \A v \in Workers : phase'[v] = phase[v] \/ batch[v] = {}
    BY <1>0, <1>4 DEF Stop, table
  <2>2. \A v \in Workers : BatchAges(v)
    BY <1>c, <2>1 DEF BatchAges
  <2>3. RowsAge /\ CallsAge
    BY <1>d, <1>e, <2>1
  <2> QED BY <2>2, <2>3 DEF Ages
<1>5. ASSUME NEW w \in Workers, Crash(w)
      PROVE  Ages
  <2>1. /\ handed' = handed /\ row' = row /\ batch'[w] = {}
        /\ \A s \in Slots : task'[s] = IF s \in InFlight(w) THEN NoTask ELSE task[s]
        /\ \A v \in Workers : v # w =>
             batch'[v] = batch[v] /\ phase'[v] = phase[v] /\ pass'[v] = pass[v]
    BY <1>0, <1>5 DEF Crash, table
  <2>2. ASSUME NEW v \in Workers
        PROVE  BatchAges(v)
    BY <1>0, <2>1 DEF BatchAges, Awaited, InFlight
  <2>3. RowsAge
    BY <1>d, <2>1
  <2>4. \A s \in Slots : task'[s] = task[s] \/ task'[s] = NoTask
    BY <2>1
  <2>5. CallsAge
    BY <1>b, <2>4
  <2> QED BY <2>2, <2>3, <2>5 DEF Ages
<1>6. ASSUME NEW w \in Workers, Cleanup(w)
      PROVE  Ages
  <2>1. ASSUME NEW m \in Messages
        PROVE  row'[m].status = row[m].status
               \/ (row[m].status = "PUBLISHED" /\ row'[m].status = "DELETED")
    <3>1. PICK old \in SUBSET {k \in Messages : row[k].status = "PUBLISHED"} :
            row' = [k \in Messages |->
                      IF k \in old THEN [row[k] EXCEPT !.status = "DELETED"] ELSE row[k]]
      BY <1>6 DEF Cleanup
    <3>2. [row[m] EXCEPT !.status = "DELETED"].status = "DELETED"
      BY <1>0 DEF Row
    <3> QED BY <3>1, <3>2
  <2>2. handed' = handed /\ task' = task /\ batch' = batch /\ phase' = phase /\ pass' = pass
    BY <1>6 DEF Cleanup, loop
  <2>3. RowsAge /\ CallsAge
    BY <1>a, <1>e, <2>1, <2>2
  <2> QED BY <1>c, <2>2, <2>3 DEF Ages
<1>7. ASSUME Aside
      PROVE  Ages
  <2>1. RowsAge /\ CallsAge
    BY <1>7, <1>d, <1>e DEF Aside
  <2>2. \A w \in Workers : BatchAges(w)
    BY <1>7, <1>c DEF Aside
  <2> QED BY <2>1, <2>2 DEF Ages
<1> QED BY <1>1, <1>2, <1>3, <1>4, <1>5, <1>6, <1>7

(* A new message is the youngest, so that nothing is overtaken by it.      *)
LEMMA SaveKeepsTheOrder ==
  ASSUME OrderInv, TypeOK', NEW n \in Messages, Save(n)
  PROVE  OrderInv'
<1> USE DEF OrderInv
<1>0. /\ row \in [Messages -> Row] /\ \A w \in Workers : batch[w] \subseteq Messages
      /\ \A s \in Slots : Busy(s) => task[s].msg \in Messages
      /\ \A m \in Messages : m \in Nat
  BY CallIsTyped, Numbers DEF TypeOK
<1>1. /\ row'[n].status = "PENDING" /\ ~Saved(n) /\ ~WasTried(n)
      /\ \A m \in Messages : m # n => row'[m] = row[m]
  BY <1>0 DEF Save, Saved, WasTried, Row
<1>2. \A k \in Messages : k < n => Saved(k)
  <2>1. \A k \in Messages : k < n => k \in 1 .. (n - 1)
    BY Numbers DEF Messages
  <2> QED BY <2>1 DEF Save, Saved
<1>3. /\ handed' = handed /\ task' = task /\ batch' = batch /\ phase' = phase /\ pass' = pass
  BY DEF Save, loop
<1>4. \A m \in Messages : Saved(m) => m < n
  BY <1>0, <1>1 DEF SavedInOrder
<1>a. /\ \A m \in Messages : Saved(m)' <=> Saved(m) \/ m = n
      /\ \A m \in Messages : WasTried(m)' <=> WasTried(m)
      /\ \A m \in Messages : WasTried(m) => Saved(m)
  BY <1>1 DEF Saved, WasTried
<1>b. ASSUME NEW m \in Messages, Saved(m), InTurn(m)
      PROVE  InTurn(m)'
  <2>1. m < n
    BY <1>4, <1>b
  <2>2. \A k \in Messages : row'[k].status = "PENDING" /\ k < m => row[k].status = "PENDING"
    BY <1>0, <1>1, <2>1
  <2> QED BY <1>b, <2>2, InTurnStays
<1>5. SavedInOrder'
  BY <1>0, <1>2, <1>4, <1>a DEF SavedInOrder
<1>6. BatchIsOfThePass'
  BY <1>0, <1>3, <1>a DEF BatchIsOfThePass
<1>7. BatchHasNoGap'
  <2> SUFFICES ASSUME NEW w \in Workers, pass[w] = "PENDING", NEW m \in batch[w],
                      NEW k \in Messages, k < m, row'[k].status = "PENDING"
               PROVE  k \in batch[w] \/ \E s \in Awaited(w) : task[s].msg = k
    BY <1>3 DEF BatchHasNoGap, Awaited, InFlight
  <2>1. m \in Messages /\ m < n /\ k # n
    BY <1>0, <1>4 DEF BatchIsOfThePass
  <2>2. row[k].status = "PENDING"
    BY <1>1, <2>1
  <2> QED BY <2>2 DEF BatchHasNoGap
<1>8. CallsAreInTurn'
  <2> SUFFICES ASSUME NEW s \in Slots, Busy(s)
               PROVE  (/\ Saved(task[s].msg) /\ InTurn(task[s].msg)
                       /\ task[s].step \in {"publish", "confirm"} => WasTried(task[s].msg))'
    BY <1>3 DEF CallsAreInTurn, Busy
  <2> PICK m \in Messages : m = task[s].msg
    BY <1>0
  <2>1. /\ Saved(m) /\ InTurn(m)
        /\ task[s].step \in {"publish", "confirm"} => WasTried(m)
    BY DEF CallsAreInTurn
  <2>2. /\ Saved(m)' /\ InTurn(m)'
        /\ task[s].step \in {"publish", "confirm"} => WasTried(m)'
    BY <1>a, <1>b, <2>1
  <2> QED BY <1>3, <2>2
<1>9. TriedInTurn'
  BY <1>a, <1>b DEF TriedInTurn
<1>10. HandedWasTried'
  BY <1>3, <1>a DEF HandedWasTried
<1> QED BY <1>5, <1>6, <1>7, <1>8, <1>9, <1>10

LEMMA SelectKeepsTheOrder ==
  ASSUME OrderInv, TypeOK', NEW w \in Workers, Select(w)
  PROVE  OrderInv'
<1> USE DEF OrderInv
<1>0. /\ batch \in [Workers -> SUBSET Messages] /\ phase \in [Workers -> Phase]
      /\ pass[w] \in {"PENDING", "FAILED"}
      /\ \A v \in Workers : phase[v] # "chunks" => batch[v] = {}
      /\ \A v \in Workers : \A m \in batch[v] : Saved(m) /\ (pass[v] = "FAILED" => WasTried(m))
  BY DEF TypeOK, BatchIsOfThePass
<1>1. /\ handed' = handed /\ task' = task /\ row' = row /\ pass' = pass
      /\ batch' = [batch EXCEPT ![w] = Found(pass[w])]
      /\ phase' = [phase EXCEPT ![w] = "chunks"]
  BY DEF Select, table
<1>2. SavedInOrder' /\ TriedInTurn' /\ HandedWasTried'
  BY <1>1 DEF SavedInOrder, TriedInTurn, HandedWasTried, Saved, WasTried, InTurn,
              EarlierPending
<1>3. CallsAreInTurn'
  BY <1>1 DEF CallsAreInTurn, Busy, Saved, WasTried, InTurn, EarlierPending
<1>4. /\ Found(pass[w]) \subseteq Eligible(pass[w])
      /\ \A m \in Found(pass[w]), k \in Eligible(pass[w]) : k < m => k \in Found(pass[w])
  BY <1>0, FoundOf
<1>5. BatchIsOfThePass'
  <2>1. \A m \in Found(pass[w]) : Saved(m) /\ (pass[w] = "FAILED" => WasTried(m))
    BY <1>0, <1>4 DEF Eligible, Saved, WasTried
  <2>2. ASSUME NEW v \in Workers
        PROVE  (/\ phase[v] # "chunks" => batch[v] = {}
                /\ \A m \in batch[v] : Saved(m) /\ (pass[v] = "FAILED" => WasTried(m)))'
    <3>1. CASE v = w
      BY <1>0, <1>1, <2>1, <3>1 DEF Saved, WasTried
    <3>2. CASE v # w
      BY <1>0, <1>1, <3>2 DEF Saved, WasTried
    <3> QED BY <3>1, <3>2
  <2> QED BY <2>2 DEF BatchIsOfThePass
<1>6. BatchHasNoGap'
  <2> SUFFICES ASSUME NEW v \in Workers, pass[v] = "PENDING", NEW m \in batch'[v],
                      NEW k \in Messages, k < m, row[k].status = "PENDING"
               PROVE  k \in batch'[v] \/ \E s \in Awaited(v) : task[s].msg = k
    BY <1>1 DEF BatchHasNoGap, Awaited, InFlight
  <2>1. CASE v = w
    <3>1. k \in Eligible(pass[w])
      BY <2>1 DEF Eligible
    <3> QED BY <1>0, <1>1, <1>4, <2>1, <3>1
  <2>2. CASE v # w
    BY <1>0, <1>1, <2>2 DEF BatchHasNoGap
  <2> QED BY <2>1, <2>2
<1> QED BY <1>2, <1>3, <1>5, <1>6

(* No pending message is older than a message of the next chunk and not in *)
(* that chunk: fewer than Concurrency are older at all.                    *)
LEMMA ChunkIsInTurn ==
  ASSUME OrderInv, NEW w \in Workers, Awaited(w) = {}, NEW m \in Chunk(w)
  PROVE  InTurn(m)
<1> USE DEF OrderInv
<1>0. /\ batch[w] \in SUBSET Messages /\ pass[w] \in {"PENDING", "FAILED"}
      /\ Concurrency \in Nat
  BY Numbers DEF TypeOK
<1>1. m \in batch[w] /\ Cardinality({k \in batch[w] : k < m}) < Concurrency
  BY <1>0, FirstOf DEF Chunk
<1>2. CASE pass[w] = "FAILED"
  BY <1>0, <1>1, <1>2 DEF BatchIsOfThePass, TriedInTurn
<1>3. CASE pass[w] = "PENDING"
  <2> DEFINE S == EarlierPending(m)
             T == {k \in batch[w] : k < m}
  <2>1. ASSUME NEW k \in S
        PROVE  k \in T
    <3>1. k \in 1 .. (m - 1) /\ row[k].status = "PENDING"
      BY DEF EarlierPending
    <3>2. k < m /\ k \in Messages
      BY <1>0, <1>1, <3>1, Numbers DEF Messages
    <3> QED BY <1>1, <1>3, <3>1, <3>2 DEF BatchHasNoGap
  <2>2. S \subseteq T /\ T \in SUBSET Messages /\ Cardinality(T) < Concurrency
    BY <1>0, <1>1, <2>1
  <2>3. Cardinality(S) < Concurrency
    <3> HIDE DEF S, T
    <3> QED BY <1>0, <2>2, FewerOf
  <2> QED BY <2>3 DEF InTurn
<1> QED BY <1>0, <1>2, <1>3

LEMMA StartChunkKeepsTheOrder ==
  ASSUME OrderInv, TypeOK', NEW w \in Workers, StartChunk(w)
  PROVE  OrderInv'
<1> USE DEF OrderInv
<1>0. /\ batch \in [Workers -> SUBSET Messages]
      /\ \A v \in Workers : \A m \in batch[v] : Saved(m) /\ (pass[v] = "FAILED" => WasTried(m))
      /\ Awaited(w) = {}
  BY DEF TypeOK, BatchIsOfThePass, StartChunk
<1>1. /\ handed' = handed /\ row' = row /\ pass' = pass /\ phase' = phase
      /\ phase[w] = "chunks" /\ batch' = [batch EXCEPT ![w] = @ \ Chunk(w)]
  BY DEF StartChunk, table
<1>2. SavedInOrder' /\ TriedInTurn' /\ HandedWasTried'
  BY <1>1 DEF SavedInOrder, TriedInTurn, HandedWasTried, Saved, WasTried, InTurn,
              EarlierPending
<1>3. /\ Chunk(w) \subseteq batch[w]
      /\ \A s \in Slots : task'[s] = task[s] \/ \E m \in Chunk(w) : task'[s] = Called(w, m)
      /\ \A m \in Chunk(w) : \E s \in Slots : task'[s] = Called(w, m)
      /\ \A s \in Slots : Busy(s) => task'[s] = task[s]
  BY ChunkStarts DEF Busy
<1>4. \A m : /\ Called(w, m).msg = m /\ Called(w, m).step = "mark"
             /\ Called(w, m).worker = w /\ Called(w, m).awaited = TRUE
  BY DEF Called
<1>5. CallsAreInTurn'
  <2> SUFFICES ASSUME NEW s \in Slots, Busy(s)'
               PROVE  (/\ Saved(task[s].msg) /\ InTurn(task[s].msg)
                       /\ task[s].step \in {"publish", "confirm"} => WasTried(task[s].msg))'
    BY DEF CallsAreInTurn
  <2>1. CASE task'[s] = task[s]
    BY <1>1, <2>1 DEF CallsAreInTurn, Busy, Saved, WasTried, InTurn, EarlierPending
  <2>2. ASSUME NEW m \in Chunk(w), task'[s] = Called(w, m)
        PROVE  (/\ Saved(task[s].msg) /\ InTurn(task[s].msg)
                /\ task[s].step \in {"publish", "confirm"} => WasTried(task[s].msg))'
    <3>1. Saved(m) /\ InTurn(m)
      BY <1>0, <1>3, ChunkIsInTurn
    <3>2. Saved(m)' /\ InTurn(m)'
      BY <1>1, <3>1 DEF Saved, InTurn, EarlierPending
    <3>3. task'[s].msg = m /\ task'[s].step = "mark"
      BY <1>4, <2>2
    <3>4. Saved(task[s].msg)' /\ InTurn(task[s].msg)'
      BY <3>2, <3>3 DEF Saved, InTurn, EarlierPending
    <3> QED BY <3>3, <3>4
  <2> QED BY <1>3, <2>1, <2>2
<1>6. BatchIsOfThePass'
  BY <1>0, <1>1 DEF BatchIsOfThePass, Saved, WasTried
<1>7. BatchHasNoGap'
  <2> SUFFICES ASSUME NEW v \in Workers, pass[v] = "PENDING", NEW m \in batch'[v],
                      NEW k \in Messages, k < m, row[k].status = "PENDING"
               PROVE  (k \in batch[v] \/ \E s \in Awaited(v) : task[s].msg = k)'
    BY <1>1 DEF BatchHasNoGap
  <2>1. m \in batch[v]
    BY <1>0, <1>1
  <2>2. k \in batch[v] \/ \E s \in Awaited(v) : task[s].msg = k
    BY <2>1 DEF BatchHasNoGap
  <2>3. CASE v = w /\ k \in Chunk(w)
    <3>1. PICK s \in Slots : task'[s] = Called(w, k)
      BY <1>3, <2>3
    <3>2. Called(w, k) # NoTask
      <4>1. Called(w, k) \in Task
        BY DEF Called, Task, Step
      <4> QED BY <4>1, NoTaskAssumption
    <3>3. s \in Awaited(v)' /\ task'[s].msg = k
      BY <1>4, <2>3, <3>1, <3>2 DEF Awaited, InFlight
    <3> QED BY <3>3
  <2>4. CASE v = w /\ k \notin Chunk(w)
    BY <1>0, <1>1, <2>2, <2>4
  <2>5. CASE v # w
    <3>1. \A s \in Awaited(v) : s \in Awaited(v)' /\ task'[s] = task[s]
      BY <1>3 DEF Awaited, InFlight, Busy
    <3> QED BY <1>0, <1>1, <2>2, <2>5, <3>1
  <2> QED BY <2>3, <2>4, <2>5
<1> QED BY <1>2, <1>5, <1>6, <1>7

LEMMA InitKeepsTheOrder == Init => OrderInv
<1> SUFFICES ASSUME Init PROVE OrderInv
  OBVIOUS
<1>1. \A m \in Messages : ~Saved(m) /\ ~WasTried(m) /\ ~(handed[m] > 0)
  BY DEF Init, Saved, WasTried
<1>2. SavedInOrder /\ TriedInTurn /\ HandedWasTried
  BY <1>1 DEF SavedInOrder, TriedInTurn, HandedWasTried
<1>3. (\A w \in Workers : batch[w] = {}) /\ (\A s \in Slots : ~Busy(s))
  BY DEF Init, Busy
<1>4. BatchIsOfThePass /\ BatchHasNoGap /\ CallsAreInTurn
  BY <1>3 DEF BatchIsOfThePass, BatchHasNoGap, CallsAreInTurn
<1> QED BY <1>2, <1>4, InitIsTyped DEF OrderInv

LEMMA OrderStep == OrderInv /\ [Next]_vars => OrderInv'
<1> SUFFICES ASSUME OrderInv, [Next]_vars PROVE OrderInv'
  OBVIOUS
<1>1. TypeOK'
  BY TypeStep DEF OrderInv
<1> QED BY <1>1, AgeingKeepsTheOrder, CallAges, OtherStepsAge, SaveKeepsTheOrder,
           SelectKeepsTheOrder, StartChunkKeepsTheOrder, LinksStandAside DEF Next, Loop

(* Messages are handed over in the order they were saved, up to the        *)
(* concurrency of a chunk, however many replicas there are and whatever    *)
(* fails.                                                                  *)
THEOREM DeliveredInOrder == Spec => []HandedInOrder
<1>1. OrderInv => HandedInOrder
  BY DEF OrderInv, HandedWasTried, TriedInTurn, InTurn, EarlierPending, HandedInOrder
<1> QED BY <1>1, InitKeepsTheOrder, OrderStep, PTL DEF Spec

-----------------------------------------------------------------------------
(* The deliveries of a single worker.                                      *)

OneWorker == \A v, w \in Workers : v = w

(* A step of call s changes nothing but the row and the count of its own   *)
(* message, which is neither in the batch nor in another call.             *)
LEMMA CallKeepsTheCount ==
  ASSUME TypeOK, CountInv, NEW s \in Slots, Busy(s), NEW m \in Messages, m = task[s].msg,
         \A k \in Messages : k # m => row'[k] = row[k] /\ handed'[k] = handed[k],
         UNCHANGED loop, Ended(s) \/ \E step \in Step : Moved(s, step),
         Busy(s)' => CallIsDue(s)',
         IsCounted(m)'
  PROVE  CountInv'
<1> USE DEF CountInv
<1>0. /\ \A t \in Slots : Busy(t) => task[t].msg \in Messages
      /\ \A w \in Workers : batch[w] \subseteq Messages
      /\ batch' = batch /\ phase' = phase
  BY CallIsTyped DEF TypeOK, loop
<1>1. \A t \in Slots : Busy(t)' =>
        /\ Busy(t) /\ task'[t].msg = task[t].msg /\ task'[t].awaited = task[t].awaited
        /\ task'[t].worker = task[t].worker /\ (t # s => task'[t] = task[t])
  BY DEF Moved, Ended, Busy
<1>2. \A t \in Slots : Busy(t) /\ t # s => task[t].msg # m
  BY DEF OneCallAtATime
<1>3. CallsAreAwaited'
  BY <1>0, <1>1 DEF CallsAreAwaited
<1>4. OneCallAtATime'
  BY <1>0, <1>1 DEF OneCallAtATime
<1>5. BatchIsDue'
  BY <1>0 DEF OneCallAtATime, BatchIsDue, IsDue
<1>6. CallsAreDue'
  <2> SUFFICES ASSUME NEW t \in Slots, Busy(t)'
               PROVE  CallIsDue(t)'
    BY DEF CallsAreDue
  <2>1. CASE t = s
    BY <2>1
  <2>2. CASE t # s
    <3>1. CallIsDue(t) /\ task'[t] = task[t] /\ task[t].msg # m /\ task[t].msg \in Messages
      BY <1>0, <1>1, <1>2, <2>2 DEF CallsAreDue
    <3> QED BY <3>1 DEF CallIsDue, IsDue
  <2> QED BY <2>1, <2>2
<1>7. \A k \in Messages : IsCounted(k)'
  <2> SUFFICES ASSUME NEW k \in Messages, k # m PROVE IsCounted(k)'
    OBVIOUS
  <2>1. IsCounted(k)
    OBVIOUS
  <2> QED BY <2>1 DEF IsCounted, WasTried
<1> QED BY <1>3, <1>4, <1>5, <1>6, <1>7

LEMMA CallCounts ==
  ASSUME TypeOK, CountInv, FailuresAreRecorded, NEW s \in Slots, Call(s)
  PROVE  CountInv'
<1>0. /\ Busy(s) /\ \A k \in Messages : handed[k] \in Nat /\ row[k].retries \in Nat
      /\ handed \in [Messages -> Nat] /\ MaxRetries \in Nat
  BY CallChanges, Numbers DEF TypeOK, Row
<1>1. PICK m \in Messages : m = task[s].msg
  BY CallChanges
<1>2. /\ row[m].status \in {"PENDING", "FAILED", "PROCESSING"} /\ row[m].retries < MaxRetries
      /\ task[s].step \in {"mark", "publish"} => handed[m] <= row[m].retries
      /\ task[s].step \in {"publish", "confirm"} => row[m].status = "PROCESSING"
      /\ IsCounted(m)
  BY <1>0, <1>1 DEF CountInv, CallsAreDue, CallIsDue, IsDue
<1>3. /\ ~WasTried(m) => row[m].retries = 0 /\ handed[m] = 0
      /\ row[m].status = "FAILED" => handed[m] <= row[m].retries
      /\ handed[m] <= row[m].retries + 1
  BY <1>2 DEF IsCounted
<1>a. ASSUME NEW n, NEW status \in {"PROCESSING", "PUBLISHED", "FAILED"},
             RowChanged(m, status, n), handed' = handed
      PROVE  /\ \A k \in Messages : k # m => row'[k] = row[k] /\ handed'[k] = handed[k]
             /\ row'[m].status = status /\ row'[m].retries = n /\ handed'[m] = handed[m]
             /\ WasTried(m)'
  BY <1>a DEF RowChanged, WasTried
<1>b. ASSUME NEW sent \in {0, 1}, row' = row, handed' = [handed EXCEPT ![m] = @ + sent]
      PROVE  /\ \A k \in Messages : k # m => row'[k] = row[k] /\ handed'[k] = handed[k]
             /\ handed'[m] = handed[m] + sent
  BY <1>0, <1>b
<1>c. ASSUME NEW step, Moved(s, step)
      PROVE  task'[s].step = step /\ task'[s].msg = m
  BY <1>1, <1>c DEF Moved
<1>4. ASSUME /\ task[s].step = "mark" /\ RowChanged(m, "PROCESSING", row[m].retries)
             /\ Moved(s, "publish") /\ handed' = handed /\ UNCHANGED loop
      PROVE  CountInv'
  <2>1. IsCounted(m)'
    BY <1>0, <1>2, <1>3, <1>4, <1>a DEF IsCounted
  <2>2. CallIsDue(s)'
    BY <1>2, <1>4, <1>a, <1>c DEF CallIsDue, IsDue
  <2>3. \E step \in Step : Moved(s, step)
    BY <1>4 DEF Step
  <2> QED BY <1>0, <1>1, <1>4, <1>a, <2>1, <2>2, <2>3, CallKeepsTheCount
<1>5. ASSUME NEW step \in {"confirm", "fail"}, NEW sent \in {0, 1},
             task[s].step = "publish", Moved(s, step), row' = row,
             handed' = [handed EXCEPT ![m] = @ + sent], UNCHANGED loop
      PROVE  CountInv'
  <2>1. handed'[m] <= row[m].retries + 1
    BY <1>0, <1>2, <1>5, <1>b
  <2>2. IsCounted(m)'
    BY <1>2, <1>5, <2>1 DEF IsCounted, WasTried
  <2>3. CallIsDue(s)'
    BY <1>2, <1>5, <1>c DEF CallIsDue, IsDue
  <2>4. \E st \in Step : Moved(s, st)
    BY <1>5 DEF Step
  <2> QED BY <1>0, <1>1, <1>5, <1>b, <2>2, <2>3, <2>4, CallKeepsTheCount
<1>6. ASSUME /\ RowChanged(m, "PUBLISHED", row[m].retries)
             /\ Ended(s) /\ handed' = handed /\ UNCHANGED loop
      PROVE  CountInv'
  <2>1. IsCounted(m)'
    BY <1>0, <1>2, <1>3, <1>6, <1>a DEF IsCounted
  <2>2. ~Busy(s)'
    BY <1>6 DEF Ended, Busy
  <2> QED BY <1>0, <1>1, <1>6, <1>a, <2>1, <2>2, CallKeepsTheCount
<1>7. ASSUME Moved(s, "fail"), row' = row, handed' = handed, UNCHANGED loop
      PROVE  CountInv'
  <2>1. IsCounted(m)'
    BY <1>2, <1>7 DEF IsCounted, WasTried
  <2>2. CallIsDue(s)'
    BY <1>2, <1>7, <1>c DEF CallIsDue, IsDue
  <2>3. \E step \in Step : Moved(s, step)
    BY <1>7 DEF Step
  <2> QED BY <1>0, <1>1, <1>7, <2>1, <2>2, <2>3, CallKeepsTheCount
<1>8. ASSUME /\ RowChanged(m, "FAILED", row[m].retries + 1)
             /\ Ended(s) /\ handed' = handed /\ UNCHANGED loop
      PROVE  CountInv'
  <2>1. row[m].retries + 1 <= MaxRetries /\ handed[m] <= row[m].retries + 1
        /\ handed[m] <= (row[m].retries + 1) + 1
    BY <1>0, <1>2, <1>3
  <2>2. IsCounted(m)'
    BY <1>8, <1>a, <2>1 DEF IsCounted
  <2>3. ~Busy(s)'
    BY <1>8 DEF Ended, Busy
  <2> QED BY <1>0, <1>1, <1>8, <1>a, <2>2, <2>3, CallKeepsTheCount
<1>9. ~MarkFailedFails(s)
  BY <1>1, <1>2 DEF MarkFailedFails, FailuresAreRecorded, InTable
<1>10. \/ /\ task[s].step = "mark" /\ RowChanged(m, "PROCESSING", row[m].retries)
          /\ Moved(s, "publish") /\ handed' = handed /\ UNCHANGED loop
       \/ \E step \in {"confirm", "fail"}, sent \in {0, 1} :
            /\ task[s].step = "publish" /\ Moved(s, step) /\ row' = row
            /\ handed' = [handed EXCEPT ![m] = @ + sent] /\ UNCHANGED loop
       \/ /\ RowChanged(m, "PUBLISHED", row[m].retries)
          /\ Ended(s) /\ handed' = handed /\ UNCHANGED loop
       \/ Moved(s, "fail") /\ row' = row /\ handed' = handed /\ UNCHANGED loop
       \/ /\ RowChanged(m, "FAILED", row[m].retries + 1)
          /\ Ended(s) /\ handed' = handed /\ UNCHANGED loop
  BY <1>1, <1>9, CallChanges
<1> QED BY <1>4, <1>5, <1>6, <1>7, <1>8, <1>10

(* Steps that touch no call and no count: the loop, between two chunks.    *)
LEMMA QuietStepsCount ==
  ASSUME OrderInv, CountInv, OneWorker,
         \/ \E m \in Messages : BackoffElapses(m)
         \/ \E w \in Workers : \/ Start(w) \/ SelectFails(w) \/ EndPass(w) \/ Poll(w)
                               \/ Stop(w) \/ Cleanup(w)
         \/ Aside
  PROVE  CountInv'
<1> USE DEF CountInv
<1>0. /\ row \in [Messages -> Row] /\ batch \in [Workers -> SUBSET Messages]
      /\ phase \in [Workers -> Phase]
      /\ \A s \in Slots : Busy(s) => task[s].msg \in Messages /\ task[s].worker \in Workers
  BY CallIsTyped DEF OrderInv, TypeOK
<1>a. ASSUME handed' = handed, task' = task,
             \A m \in Messages : row'[m].retries = row[m].retries
                /\ (\/ row'[m].status = row[m].status
                    \/ (row[m].status = "PUBLISHED" /\ row'[m].status = "DELETED")),
             \A w \in Workers : batch'[w] \subseteq batch[w]
      PROVE  OneCallAtATime' /\ BatchIsDue' /\ CallsAreDue' /\ \A m \in Messages : IsCounted(m)'
  <2>1. \A m \in Messages : IsDue(m) => IsDue(m)' /\ row'[m].status = row[m].status
    BY <1>a DEF IsDue
  <2>2. OneCallAtATime'
    BY <1>a DEF OneCallAtATime, Busy
  <2>3. BatchIsDue'
    BY <1>0, <1>a, <2>1 DEF BatchIsDue
  <2>4. CallsAreDue'
    <3> SUFFICES ASSUME NEW s \in Slots, Busy(s)
                 PROVE  CallIsDue(s)'
      BY <1>a DEF CallsAreDue, Busy
    <3>1. PICK m \in Messages : m = task[s].msg
      BY <1>0
    <3>2. IsDue(m)' /\ row'[m].status = row[m].status /\ row'[m].retries = row[m].retries
      BY <1>a, <2>1, <3>1 DEF CallsAreDue, CallIsDue
    <3>3. CallIsDue(s)
      BY DEF CallsAreDue
    <3> QED BY <1>a, <3>1, <3>2, <3>3 DEF CallIsDue, IsDue
  <2>5. ASSUME NEW m \in Messages
        PROVE  IsCounted(m)'
    <3>1. IsCounted(m)
      OBVIOUS
    <3> QED BY <1>a, <3>1 DEF IsCounted, WasTried
  <2> QED BY <2>2, <2>3, <2>4, <2>5
<1>b. ASSUME task' = task, \A w \in Workers : phase'[w] # phase[w] => phase[w] # "chunks"
      PROVE  CallsAreAwaited'
  BY <1>0, <1>b DEF CallsAreAwaited, Busy
<1>1. ASSUME NEW m \in Messages, BackoffElapses(m)
      PROVE  CountInv'
  <2>1. \A k \in Messages : row'[k].status = row[k].status /\ row'[k].retries = row[k].retries
    BY <1>0, <1>1 DEF BackoffElapses, Row
  <2>2. handed' = handed /\ task' = task /\ batch' = batch /\ phase' = phase
    BY <1>1 DEF BackoffElapses, loop
  <2> QED BY <1>a, <1>b, <2>1, <2>2
<1>2. ASSUME NEW w \in Workers, Start(w) \/ SelectFails(w) \/ Poll(w) \/ Stop(w)
      PROVE  CountInv'
  <2>1. /\ handed' = handed /\ task' = task /\ batch' = batch /\ row' = row
        /\ \A v \in Workers : phase'[v] # phase[v] => phase[v] # "chunks"
    BY <1>0, <1>2 DEF Start, SelectFails, Poll, Stop, table
  <2> QED BY <1>a, <1>b, <2>1
<1>3. ASSUME NEW w \in Workers, EndPass(w)
      PROVE  CountInv'
  <2>1. /\ handed' = handed /\ task' = task /\ row' = row
        /\ \A v \in Workers : batch'[v] \subseteq batch[v]
    BY <1>0, <1>3 DEF EndPass, table
  <2>2. \A s \in Slots : ~Busy(s)
    BY <1>0, <1>3 DEF EndPass, CallsAreAwaited, Awaited, InFlight, Busy, OneWorker
  <2>3. CallsAreAwaited'
    BY <2>1, <2>2 DEF CallsAreAwaited, Busy
  <2> QED BY <1>a, <2>1, <2>3
<1>4. ASSUME NEW w \in Workers, Cleanup(w)
      PROVE  CountInv'
  <2>1. ASSUME NEW m \in Messages
        PROVE  row'[m].retries = row[m].retries
               /\ (\/ row'[m].status = row[m].status
                   \/ (row[m].status = "PUBLISHED" /\ row'[m].status = "DELETED"))
    <3>1. PICK old \in SUBSET {k \in Messages : row[k].status = "PUBLISHED"} :
            row' = [k \in Messages |->
                      IF k \in old THEN [row[k] EXCEPT !.status = "DELETED"] ELSE row[k]]
      BY <1>4 DEF Cleanup
    <3>2. /\ [row[m] EXCEPT !.status = "DELETED"].status = "DELETED"
          /\ [row[m] EXCEPT !.status = "DELETED"].retries = row[m].retries
      BY <1>0 DEF Row
    <3> QED BY <3>1, <3>2
  <2>2. handed' = handed /\ task' = task /\ batch' = batch /\ phase' = phase
    BY <1>4 DEF Cleanup, loop
  <2> QED BY <1>a, <1>b, <2>1, <2>2
<1>5. ASSUME Aside
      PROVE  CountInv'
  <2>1. handed' = handed /\ task' = task /\ batch' = batch /\ phase' = phase /\ row' = row
    BY <1>5 DEF Aside
  <2> QED BY <1>a, <1>b, <2>1
<1> QED BY <1>1, <1>2, <1>3, <1>4, <1>5

LEMMA SaveCounts ==
  ASSUME OrderInv, CountInv, NEW n \in Messages, Save(n)
  PROVE  CountInv'
<1> USE DEF CountInv
<1>0. /\ row \in [Messages -> Row]
      /\ \A w \in Workers : \A m \in batch[w] : m \in Messages /\ Saved(m)
      /\ \A s \in Slots : Busy(s) => task[s].msg \in Messages /\ Saved(task[s].msg)
  BY CallIsTyped DEF OrderInv, TypeOK, BatchIsOfThePass, CallsAreInTurn
<1>1. /\ row'[n].status = "PENDING" /\ row'[n].retries = row[n].retries /\ ~Saved(n)
      /\ \A m \in Messages : m # n => row'[m] = row[m]
  BY <1>0 DEF Save, Saved, Row
<1>2. handed' = handed /\ task' = task /\ batch' = batch /\ phase' = phase
  BY DEF Save, loop
<1>3. CallsAreAwaited' /\ OneCallAtATime'
  BY <1>2 DEF CallsAreAwaited, OneCallAtATime, Busy
<1>4. \A m \in Messages : m # n => (IsDue(m) <=> IsDue(m)')
  BY <1>1 DEF IsDue
<1>5. BatchIsDue'
  BY <1>0, <1>1, <1>2, <1>4 DEF BatchIsDue
<1>6. CallsAreDue'
  <2> SUFFICES ASSUME NEW s \in Slots, Busy(s) PROVE CallIsDue(s)'
    BY <1>2 DEF CallsAreDue, Busy
  <2>1. row'[task[s].msg] = row[task[s].msg] /\ CallIsDue(s)
    BY <1>0, <1>1 DEF CallsAreDue
  <2> QED BY <1>2, <2>1 DEF CallIsDue, IsDue
<1>7. ASSUME NEW m \in Messages
      PROVE  IsCounted(m)'
  <2>1. IsCounted(m)
    OBVIOUS
  <2>2. CASE m = n
    BY <1>1, <1>2, <2>1, <2>2 DEF IsCounted, WasTried, Saved
  <2>3. CASE m # n
    BY <1>1, <1>2, <2>1, <2>3 DEF IsCounted, WasTried
  <2> QED BY <2>2, <2>3
<1> QED BY <1>3, <1>5, <1>6, <1>7

(* No call outlives its worker's process, and a pass begins without calls. *)
LEMMA FreshStepsCount ==
  ASSUME OrderInv, CountInv, OneWorker, NEW w \in Workers, Crash(w) \/ Select(w)
  PROVE  CountInv'
<1> USE DEF CountInv
<1>0. /\ batch \in [Workers -> SUBSET Messages] /\ \A v \in Workers : v = w
      /\ \A s \in Slots : Busy(s) => task[s].worker = w
      /\ pass[w] \in {"PENDING", "FAILED"}
  BY CallIsTyped DEF OrderInv, TypeOK, OneWorker
<1>1. handed' = handed /\ row' = row
  BY DEF Crash, Select, table
<1>2. ASSUME NEW s \in Slots PROVE ~Busy(s)'
  <2>1. CASE Crash(w)
    BY <1>0, <2>1 DEF Crash, InFlight, Busy
  <2>2. CASE Select(w)
    BY <1>0, <2>2 DEF Select, CallsAreAwaited, Busy
  <2> QED BY <2>1, <2>2
<1>3. CallsAreAwaited' /\ OneCallAtATime' /\ CallsAreDue'
  BY <1>2 DEF CallsAreAwaited, OneCallAtATime, CallsAreDue
<1>4. \A m \in Messages : IsCounted(m)'
  <2>1. \A m \in Messages : IsCounted(m)
    OBVIOUS
  <2> QED BY <1>1, <2>1 DEF IsCounted, WasTried
<1>5. BatchIsDue'
  <2> SUFFICES ASSUME NEW m \in batch'[w]
               PROVE  IsDue(m) /\ row[m].status # "PROCESSING"
    BY <1>0, <1>1 DEF BatchIsDue, IsDue
  <2>1. CASE Crash(w)
    BY <1>0, <2>1 DEF Crash
  <2>2. CASE Select(w)
    <3>1. m \in Eligible(pass[w])
      BY <1>0, <2>2, FoundOf DEF Select
    <3>2. m \in Messages /\ IsCounted(m)
      BY <3>1 DEF Eligible
    <3>3. row[m].status \in {"PENDING", "FAILED"} /\ row[m].retries < MaxRetries
      BY <1>0, <3>1, <3>2, Numbers DEF Eligible, IsCounted, WasTried
    <3> QED BY <3>3 DEF IsDue
  <2> QED BY <2>1, <2>2
<1> QED BY <1>3, <1>4, <1>5

LEMMA StartChunkCounts ==
  ASSUME OrderInv, CountInv, OneWorker, NEW w \in Workers, StartChunk(w)
  PROVE  CountInv'
<1> USE DEF CountInv
<1>0. /\ batch \in [Workers -> SUBSET Messages] /\ \A v \in Workers : v = w
      /\ TypeOK /\ Chunk(w) \subseteq batch[w]
  BY ChunkStarts DEF OrderInv, TypeOK, OneWorker
<1>1. /\ handed' = handed /\ row' = row /\ phase' = phase
      /\ phase[w] = "chunks" /\ batch' = [batch EXCEPT ![w] = @ \ Chunk(w)]
  BY DEF StartChunk, table
<1>2. \A s \in Slots : ~Busy(s)
  BY <1>0, CallIsTyped DEF StartChunk, CallsAreAwaited, Awaited, InFlight, Busy
<1>3. PICK place \in [Chunk(w) -> Slots] :
        /\ \A m \in Chunk(w) : task'[place[m]] = Called(w, m)
        /\ \A s \in Slots : task'[s] = task[s] \/ \E m \in Chunk(w) : s = place[m]
  BY <1>0, ChunkStarts
<1>4. \A m : /\ Called(w, m).msg = m /\ Called(w, m).step = "mark"
             /\ Called(w, m).worker = w /\ Called(w, m).awaited = TRUE
  BY DEF Called
<1>5. ASSUME NEW s \in Slots, Busy(s)'
      PROVE  \E m \in Chunk(w) : s = place[m] /\ task'[s] = Called(w, m)
  BY <1>2, <1>3, <1>5 DEF Busy
<1>6. CallsAreAwaited'
  BY <1>1, <1>4, <1>5 DEF CallsAreAwaited
<1>7. OneCallAtATime'
  <2> SUFFICES ASSUME NEW s \in Slots, Busy(s)'
               PROVE  (/\ \A t \in Slots : Busy(t) /\ task[t].msg = task[s].msg => t = s
                       /\ \A v \in Workers : task[s].msg \notin batch[v])'
    BY DEF OneCallAtATime
  <2>1. PICK m \in Chunk(w) : s = place[m] /\ task'[s] = Called(w, m)
    BY <1>5
  <2>2. ASSUME NEW t \in Slots, Busy(t)', task'[t].msg = task'[s].msg
        PROVE  t = s
    <3>1. PICK k \in Chunk(w) : t = place[k] /\ task'[t] = Called(w, k)
      BY <1>5, <2>2
    <3>2. k = m
      BY <1>4, <2>1, <2>2, <3>1
    <3> QED BY <2>1, <3>1, <3>2
  <2>3. task'[s].msg = m /\ \A v \in Workers : m \notin batch'[v]
    BY <1>0, <1>1, <1>4, <2>1
  <2> QED BY <2>2, <2>3
<1>8. BatchIsDue'
  BY <1>0, <1>1 DEF BatchIsDue, IsDue
<1>9. CallsAreDue'
  <2> SUFFICES ASSUME NEW s \in Slots, Busy(s)' PROVE CallIsDue(s)'
    BY DEF CallsAreDue
  <2>1. PICK m \in Chunk(w) : task'[s] = Called(w, m)
    BY <1>5
  <2>2. m \in Messages /\ IsDue(m) /\ row[m].status # "PROCESSING" /\ IsCounted(m)
    BY <1>0 DEF BatchIsDue
  <2>3. handed[m] <= row[m].retries
    BY <1>0, <2>2 DEF IsDue, IsCounted, WasTried, TypeOK
  <2>4. task'[s].msg = m /\ task'[s].step = "mark"
    BY <1>4, <2>1
  <2> QED BY <1>1, <2>2, <2>3, <2>4 DEF CallIsDue, IsDue
<1>10. \A m \in Messages : IsCounted(m)'
  <2>1. \A m \in Messages : IsCounted(m)
    OBVIOUS
  <2> QED BY <1>1, <2>1 DEF IsCounted, WasTried
<1> QED BY <1>6, <1>7, <1>8, <1>9, <1>10

LEMMA SingleStep == OneWorker /\ SingleInv /\ [Next]_vars => SingleInv'
<1> SUFFICES ASSUME OneWorker, SingleInv, [Next]_vars PROVE SingleInv'
  OBVIOUS
<1>1. OrderInv'
  BY OrderStep DEF SingleInv
<1>2. happens' = happens
  <2>1. ASSUME NEW s \in Slots, Call(s)
        PROVE  happens' = happens
    BY <2>1, CallChanges DEF SingleInv, OrderInv
  <2> QED BY <2>1, LinksStandAside DEF Next, Loop, Save, BackoffElapses, Start, Select, StartChunk, EndPass,
                      Poll, SelectFails, Stop, Crash, Cleanup, Aside
<1>3. ASSUME FailuresAreRecorded
      PROVE  CountInv'
  <2>1. OrderInv /\ TypeOK /\ CountInv
    BY <1>3 DEF SingleInv, OrderInv
  <2> QED BY <1>3, <2>1, CallCounts, QuietStepsCount, SaveCounts, FreshStepsCount,
             StartChunkCounts, LinksStandAside DEF Next, Loop
<1> QED BY <1>1, <1>2, <1>3 DEF SingleInv, FailuresAreRecorded

LEMMA SingleInvariant == ASSUME OneWorker PROVE Spec => []SingleInv
<1>1. Init => SingleInv
  <2> SUFFICES ASSUME Init PROVE OrderInv /\ CountInv
    BY DEF SingleInv
  <2>1. (\A w \in Workers : batch[w] = {}) /\ (\A s \in Slots : ~Busy(s))
    BY DEF Init, Busy
  <2>2. CallsAreAwaited /\ OneCallAtATime /\ BatchIsDue /\ CallsAreDue
    BY <2>1 DEF CallsAreAwaited, OneCallAtATime, BatchIsDue, CallsAreDue
  <2>3. \A m \in Messages : IsCounted(m)
    BY Numbers DEF Init, IsCounted
  <2> QED BY <2>2, <2>3, InitKeepsTheOrder DEF CountInv
<1>2. SingleInv /\ [Next]_vars => SingleInv'
  BY SingleStep
<1> QED BY <1>1, <1>2, PTL DEF Spec

(* One worker: a message is delivered again only after a failure that was  *)
(* counted, and max_retries bounds these.                                  *)
THEOREM RedeliveriesAreCounted == ASSUME OneWorker PROVE Spec => []RedeliveryIsCounted
<1>1. SingleInv => RedeliveryIsCounted
  BY DEF SingleInv, CountInv, IsCounted, RedeliveryIsCounted
<1> QED BY <1>1, SingleInvariant, PTL

(* One worker: when stop() returns, no message is being published.         *)
THEOREM StopIsOrderly == ASSUME OneWorker PROVE Spec => []StopWaitsForBatch
<1>1. SingleInv => StopWaitsForBatch
  BY DEF SingleInv, CountInv, CallsAreAwaited, StopWaitsForBatch, InFlight, Busy
<1> QED BY <1>1, SingleInvariant, PTL

(* One worker: what is recorded as published is not delivered again, by    *)
(* any step.                                                               *)
THEOREM PublishedMeansDone == ASSUME OneWorker PROVE Spec => PublishedOnce
<1> DEFINE Done == FailuresAreRecorded =>
             \A m \in Messages :
               row[m].status \in {"PUBLISHED", "DELETED"} => handed'[m] = handed[m]
<1>1. SingleInv /\ [Next]_vars => Done
  <2> SUFFICES ASSUME SingleInv, [Next]_vars, FailuresAreRecorded, NEW m \in Messages,
                      row[m].status \in {"PUBLISHED", "DELETED"}
               PROVE  handed'[m] = handed[m]
    OBVIOUS
  <2>0. TypeOK /\ CountInv
    BY DEF SingleInv, OrderInv
  <2>1. ASSUME NEW s \in Slots, Call(s)
        PROVE  handed'[m] = handed[m]
    <3>1. Busy(s) /\ task[s].msg # m
      BY <2>0, <2>1, CallChanges DEF CountInv, CallsAreDue, CallIsDue, IsDue
    <3>2. \/ handed' = handed
          \/ \E sent \in {0, 1} : handed' = [handed EXCEPT ![task[s].msg] = @ + sent]
      BY <2>0, <2>1, CallChanges, UnrecordedChanges
    <3> QED BY <2>0, <3>1, <3>2 DEF TypeOK
  <2> QED BY <2>1, LinksStandAside DEF Next, Loop, Save, BackoffElapses, Start, Select, StartChunk, EndPass,
                      Poll, SelectFails, Stop, Crash, Cleanup, Aside, table
<1>2. Spec => [][Done]_vars
  BY <1>1, SingleInvariant, PTL DEF Spec
<1> QED BY <1>2 DEF PublishedOnce
=============================================================================
