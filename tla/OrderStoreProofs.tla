-------------------------- MODULE OrderStoreProofs --------------------------
(***************************************************************************)
(* Proofs about the store, for any number of aggregates, handlers,         *)
(* commands and events: about AggregateStore for any domain Raises, and    *)
(* about the streams of OrderStore, whose domain is the orders'.           *)
(***************************************************************************)
EXTENDS OrderStore, OrderAggregateProofs, SequenceTheorems, FiniteSetTheorems, TLAPS

(* A handler that has loaded an aggregate has it in memory, with at least  *)
(* one uncommitted event.                                                  *)
TaskInMemory ==
  \A h \in Handlers : pc[h] # "idle" => task[h] \in Task /\ task[h].batch # <<>>

(* The inductive invariant about histories.                                *)
HistoryInv == TypeOK /\ TaskInMemory /\ DecidedOnAPrefix

-----------------------------------------------------------------------------
(* A function on 1..m is a sequence of length m.                           *)
LEMMA FunctionIsSeq ==
  ASSUME NEW S, NEW m \in Nat, NEW t \in [1 .. m -> S]
  PROVE  t \in Seq(S) /\ Len(t) = m
<1>1. t \in Seq(S)
  OBVIOUS
<1>. QED
  BY <1>1

(* A function that is s on the first Len(s) numbers and b on the following *)
(* ones is the concatenation.                                              *)
LEMMA PointwiseConcat ==
  ASSUME NEW S, NEW s \in Seq(S), NEW b \in Seq(S),
         NEW t \in [1 .. (Len(s) + Len(b)) -> S],
         \A v \in 1 .. (Len(s) + Len(b)) :
           t[v] = IF v <= Len(s) THEN s[v] ELSE b[v - Len(s)]
  PROVE  t = s \o b
<1>1. t \in Seq(S) /\ Len(t) = Len(s) + Len(b)
  BY FunctionIsSeq, LenProperties
<1>2. /\ s \o b \in Seq(S)
      /\ Len(s \o b) = Len(s) + Len(b)
      /\ \A v \in 1 .. Len(s) + Len(b) :
           (s \o b)[v] = IF v <= Len(s) THEN s[v] ELSE b[v - Len(s)]
  BY ConcatProperties
<1>. QED
  BY <1>1, <1>2, SeqEqual

(* Filling the versions after a stream of length n with a batch is the     *)
(* same as appending the batch to the stream.                              *)
LEMMA FillIsConcat ==
  ASSUME NEW S, NEW s \in Seq(S), NEW b \in Seq(S), NEW n, n = Len(s),
         NEW V, V = (n + 1) .. (n + Len(b))
  PROVE  [v \in DOMAIN s \union V |-> IF v \in V THEN b[v - n] ELSE s[v]] = s \o b
<1> DEFINE t == [v \in DOMAIN s \union V |-> IF v \in V THEN b[v - n] ELSE s[v]]
<1>1. n \in Nat /\ Len(b) \in Nat /\ DOMAIN s = 1 .. n
  OBVIOUS
<1>2. DOMAIN s \union V = 1 .. (n + Len(b))
  BY <1>1
<1>3. \A v \in 1 .. (n + Len(b)) :
        /\ t[v] = IF v <= n THEN s[v] ELSE b[v - n]
        /\ t[v] \in S
  <2> SUFFICES ASSUME NEW v \in 1 .. (n + Len(b))
               PROVE  /\ t[v] = IF v <= n THEN s[v] ELSE b[v - n]
                      /\ t[v] \in S
    OBVIOUS
  <2>1. t[v] = IF v \in V THEN b[v - n] ELSE s[v]
    BY <1>2
  <2>2. CASE v <= n
    <3>1. v \in 1 .. n /\ v \notin V
      BY <1>1, <2>2
    <3>2. s[v] \in S
      BY <1>1, <3>1
    <3> QED BY <2>1, <2>2, <3>1, <3>2
  <2>3. CASE ~(v <= n)
    <3>1. v \in V /\ v - n \in 1 .. Len(b)
      BY <1>1, <2>3
    <3>2. b[v - n] \in S
      BY <3>1
    <3> QED BY <2>1, <2>3, <3>1, <3>2
  <2> QED BY <2>2, <2>3
<1>4. t \in [1 .. (n + Len(b)) -> S]
  <2> DEFINE I == 1 .. (n + Len(b))
  <2>1. t = [v \in I |-> IF v \in V THEN b[v - n] ELSE s[v]]
    BY <1>2
  <2>2. \A v \in I : t[v] \in S
    BY <1>3
  <2> HIDE DEF t, I
  <2>3. t \in [I -> S]
    BY <2>1, <2>2
  <2> QED BY <2>3 DEF I
<1> HIDE DEF t
<1>5. t = s \o b
  <2>1. \A v \in 1 .. (Len(s) + Len(b)) :
          t[v] = IF v <= Len(s) THEN s[v] ELSE b[v - Len(s)]
    BY <1>3
  <2>2. t \in [1 .. (Len(s) + Len(b)) -> S]
    BY <1>4
  <2> QED BY <2>1, <2>2, PointwiseConcat, SMTT(30)
<1>. QED
  BY <1>5 DEF t

(* A transaction that commits was opened by a handler that had loaded the  *)
(* whole stream, and appends its batch to it: the unique index lets a      *)
(* batch in only where nobody has stored anything since the load.          *)
LEMMA CommitAppends ==
  ASSUME HistoryInv, NEW h \in Handlers, Insert(h), pc'[h] = "stored"
  PROVE  /\ task[h].base = Len(events[task[h].agg])
         /\ events' = [events EXCEPT ![task[h].agg] = @ \o task[h].batch]
<1> DEFINE a == task[h].agg
           s == events[a]
           b == task[h].batch
<1>1. /\ pc[h] = "checked"
      /\ task[h] \in Task /\ b # <<>>
      /\ a \in Aggregates /\ s \in Seq(Events) /\ b \in Seq(Events)
      /\ task[h].base \in Nat
  BY DEF HistoryInv, TypeOK, TaskInMemory, Insert, Task
<1>2. task[h].base <= Len(s)
  BY <1>1 DEF HistoryInv, DecidedOnAPrefix
<1>3. Len(b) \in Nat /\ Len(b) >= 1
  BY <1>1
<1>4. NewVersions(h) \intersect DOMAIN s = {}
  BY <1>1 DEF Insert, HistoryInv, TypeOK
<1>5. task[h].base = Len(s)
  <2>1. task[h].base + 1 \in NewVersions(h)
    BY <1>1, <1>3 DEF NewVersions
  <2>2. DOMAIN s = 1 .. Len(s)
    BY <1>1
  <2>. QED
    BY <1>1, <1>2, <1>4, <2>1, <2>2
<1>6. NewVersions(h) = (task[h].base + 1) .. (task[h].base + Len(b))
  BY DEF NewVersions
<1>7. events' = [events EXCEPT ![a] =
                   [v \in DOMAIN s \union NewVersions(h) |->
                      IF v \in NewVersions(h) THEN b[v - task[h].base] ELSE s[v]]]
  <2>1. pc[h] = "checked" /\ pc \in [Handlers -> PC]
    BY <1>1 DEF HistoryInv, TypeOK
  <2>. QED
    BY <1>4, <2>1 DEF Insert
<1>8. [v \in DOMAIN s \union NewVersions(h) |->
         IF v \in NewVersions(h) THEN b[v - task[h].base] ELSE s[v]] = s \o b
  <2> HIDE DEF s, b
  <2>. QED
    BY <1>1, <1>5, <1>6, FillIsConcat
<1>. QED
  BY <1>5, <1>7, <1>8

(* Whatever a handler does, every stream keeps what it had and may only    *)
(* grow at its end.                                                        *)
LEMMA StreamsGrow ==
  ASSUME HistoryInv, [Next]_vars
  PROVE  /\ events' \in [Aggregates -> Seq(Events)]
         /\ \A a \in Aggregates : \A k \in 0 .. Len(events[a]) :
              /\ k <= Len(events'[a])
              /\ SubSeq(events'[a], 1, k) = SubSeq(events[a], 1, k)
              /\ k # 0 => events'[a][k] = events[a][k]
<1>1. events \in [Aggregates -> Seq(Events)]
  BY DEF HistoryInv, TypeOK
<1>2. CASE events' = events
  BY <1>1, <1>2
<1>3. CASE events' # events
  <2>1. PICK h \in Handlers : Insert(h) /\ pc'[h] = "stored"
    BY <1>3 DEF Next, vars, Load, CheckVersion, Insert, SaveToOutbox, DatabaseError,
       Answer, Crash, HistoryInv, TypeOK
  <2> DEFINE s == events[task[h].agg]
             b == task[h].batch
  <2>2. /\ task[h].agg \in Aggregates /\ b \in Seq(Events)
        /\ events' = [events EXCEPT ![task[h].agg] = s \o b]
    BY <2>1, CommitAppends DEF HistoryInv, TypeOK, TaskInMemory, Insert, Task
  <2>3. s \in Seq(Events) /\ s \o b \in Seq(Events)
    BY <1>1, <2>2
  <2>4. \A k \in 0 .. Len(s) : /\ k <= Len(s \o b)
                              /\ SubSeq(s \o b, 1, k) = SubSeq(s, 1, k)
                              /\ k # 0 => (s \o b)[k] = s[k]
    BY <2>2, <2>3
  <2>5. \A a \in Aggregates : events'[a] = IF a = task[h].agg THEN s \o b ELSE events[a]
    BY <1>1, <2>2
  <2> HIDE DEF s, b
  <2>6. events' \in [Aggregates -> Seq(Events)]
    BY <1>1, <2>2, <2>3
  <2>7. ASSUME NEW a \in Aggregates, NEW k \in 0 .. Len(events[a])
        PROVE  /\ k <= Len(events'[a])
               /\ SubSeq(events'[a], 1, k) = SubSeq(events[a], 1, k)
               /\ k # 0 => events'[a][k] = events[a][k]
    <3>1. CASE a = task[h].agg
      <4>1. events[a] = s /\ events'[a] = s \o b
        BY <2>5, <3>1 DEF s
      <4>2. k \in 0 .. Len(s)
        BY <4>1
      <4>. QED
        BY <2>4, <4>1, <4>2
    <3>2. CASE a # task[h].agg
      <4>1. events'[a] = events[a] /\ events[a] \in Seq(Events)
        BY <1>1, <2>5, <3>2
      <4>. QED
        BY <4>1
    <3>. QED
      BY <3>1, <3>2
  <2>. QED
    BY <2>6, <2>7
<1>. QED
  BY <1>2, <1>3

-----------------------------------------------------------------------------
(* Types, the aggregate in memory and the histories decisions rest on.     *)
LEMMA InitHistory == Init => HistoryInv
BY DEF Init, HistoryInv, TypeOK, TaskInMemory, DecidedOnAPrefix, PC

(* A handler holds the decision it took until its transaction ends.        *)
LEMMA DecisionKept ==
  ASSUME HistoryInv, [Next]_vars, NEW g \in Handlers, pc'[g] \in {"loaded", "checked"}
  PROVE  \/ /\ pc[g] \in {"loaded", "checked"}
            /\ task'[g] = task[g]
         \/ /\ task'[g] \in Task
            /\ task'[g].batch # <<>>
            /\ task'[g].base = Len(events[task'[g].agg])
            /\ task'[g].batch \in Raises(events[task'[g].agg], task'[g].cmd)
            /\ events' = events
<1>1. CASE UNCHANGED vars
  BY <1>1 DEF vars
<1>2. ASSUME NEW h \in Handlers, NEW a \in Aggregates, NEW c \in Commands, Load(h, a, c)
      PROVE  \/ /\ pc[g] \in {"loaded", "checked"}
                /\ task'[g] = task[g]
             \/ /\ task'[g] \in Task
                /\ task'[g].batch # <<>>
                /\ task'[g].base = Len(events[task'[g].agg])
                /\ task'[g].batch \in Raises(events[task'[g].agg], task'[g].cmd)
                /\ events' = events
  <2>1. PICK b \in Raises(events[a], c) :
          /\ b \in Seq(Events) \ {<<>>}
          /\ task' = [task EXCEPT ![h] = [agg |-> a, cmd |-> c,
                                          base |-> Len(events[a]), batch |-> b]]
    BY <1>2 DEF Load
  <2>2. events[a] \in Seq(Events) /\ events' = events
    BY <1>2 DEF Load, HistoryInv, TypeOK
  <2>3. CASE g = h
    BY <2>1, <2>2, <2>3 DEF Task, HistoryInv, TypeOK
  <2>4. CASE g # h
    BY <1>2, <2>1, <2>4 DEF Load, HistoryInv, TypeOK
  <2>. QED
    BY <2>3, <2>4
<1>3. ASSUME NEW h \in Handlers,
             \/ CheckVersion(h) \/ Insert(h) \/ SaveToOutbox(h)
             \/ DatabaseError(h) \/ Answer(h) \/ Crash(h)
      PROVE  pc[g] \in {"loaded", "checked"} /\ task'[g] = task[g]
  BY <1>3 DEF CheckVersion, Insert, SaveToOutbox, DatabaseError, Answer, Crash,
     HistoryInv, TypeOK, PC
<1>. QED
  BY <1>1, <1>2, <1>3 DEF Next

LEMMA HistoryStep == HistoryInv /\ [Next]_vars => HistoryInv'
<1> SUFFICES ASSUME HistoryInv, [Next]_vars
             PROVE  HistoryInv'
  OBVIOUS
<1>1. TypeOK'
  <2>1. events' \in [Aggregates -> Seq(Events)]
    BY StreamsGrow
  <2>2. CASE UNCHANGED vars
    BY <2>2 DEF vars, HistoryInv, TypeOK
  <2>3. ASSUME NEW h \in Handlers, NEW a \in Aggregates, NEW c \in Commands, Load(h, a, c)
        PROVE  TypeOK'
    <3>1. PICK b \in Seq(Events) :
            task' = [task EXCEPT ![h] = [agg |-> a, cmd |-> c,
                                         base |-> Len(events[a]), batch |-> b]]
      BY <2>3 DEF Load
    <3>2. events[a] \in Seq(Events)
      BY DEF HistoryInv, TypeOK
    <3>3. [agg |-> a, cmd |-> c, base |-> Len(events[a]), batch |-> b] \in Task
      BY <3>2 DEF Task
    <3>. QED
      BY <2>1, <2>3, <3>1, <3>3 DEF Load, HistoryInv, TypeOK, PC
  <2>4. ASSUME NEW h \in Handlers, SaveToOutbox(h)
        PROVE  TypeOK'
    <3>1. task[h] \in Task /\ queued[h] \in Nat
      BY <2>4 DEF SaveToOutbox, HistoryInv, TypeOK, TaskInMemory
    <3>2. [agg |-> task[h].agg, version |-> task[h].base + (queued[h] + 1)] \in OutboxRow
      BY <3>1 DEF Task, OutboxRow
    <3>3. outbox' \in Seq(OutboxRow)
      BY <2>4, <3>2 DEF SaveToOutbox, HistoryInv, TypeOK
    <3>4. queued' \in [Handlers -> Nat]
      BY <2>4, <3>1 DEF SaveToOutbox, HistoryInv, TypeOK
    <3>5. pc' \in [Handlers -> PC] /\ task' = task
      BY <2>4 DEF SaveToOutbox, HistoryInv, TypeOK, PC
    <3>. QED
      BY <2>1, <3>3, <3>4, <3>5 DEF HistoryInv, TypeOK
  <2>5. ASSUME NEW h \in Handlers,
               \/ CheckVersion(h) \/ Insert(h) \/ DatabaseError(h) \/ Answer(h) \/ Crash(h)
        PROVE  TypeOK'
    <3>1. pc' \in [Handlers -> PC]
      BY <2>5 DEF CheckVersion, Insert, DatabaseError, Answer, Crash,
         HistoryInv, TypeOK, PC
    <3>2. task' \in [Handlers -> Task \union {NoTask}]
      BY <2>5 DEF CheckVersion, Insert, DatabaseError, Answer, Crash,
         HistoryInv, TypeOK
    <3>3. queued' \in [Handlers -> Nat] /\ outbox' = outbox
      BY <2>5 DEF CheckVersion, Insert, DatabaseError, Answer, Crash,
         HistoryInv, TypeOK
    <3>. QED
      BY <2>1, <3>1, <3>2, <3>3 DEF HistoryInv, TypeOK
  <2>. QED
    BY <2>2, <2>3, <2>4, <2>5 DEF Next
<1>2. TaskInMemory'
  <2> SUFFICES ASSUME NEW g \in Handlers, pc'[g] # "idle"
               PROVE  task'[g] \in Task /\ task'[g].batch # <<>>
    BY DEF TaskInMemory
  <2>1. CASE pc'[g] \in {"loaded", "checked"}
    BY <2>1, DecisionKept DEF HistoryInv, TaskInMemory
  <2>2. CASE pc'[g] \notin {"loaded", "checked"}
    <3>1. pc[g] # "idle" /\ task'[g] = task[g]
      <4> USE DEF HistoryInv, TypeOK
      <4>1. ASSUME UNCHANGED vars
            PROVE  pc' = pc /\ task' = task
        BY <4>1 DEF vars
      <4>2. ASSUME NEW h \in Handlers,
                   \/ \E a \in Aggregates, c \in Commands : Load(h, a, c)
                   \/ Answer(h) \/ Crash(h)
            PROVE  h # g /\ pc'[g] = pc[g] /\ task'[g] = task[g]
        BY <2>2, <4>2 DEF Load, Answer, Crash
      <4>3. ASSUME NEW h \in Handlers,
                   CheckVersion(h) \/ Insert(h) \/ SaveToOutbox(h) \/ DatabaseError(h)
            PROVE  /\ task' = task /\ (h = g => pc[g] # "idle")
                   /\ h # g => pc'[g] = pc[g]
        BY <4>3 DEF CheckVersion, Insert, SaveToOutbox, DatabaseError
      <4> QED BY <4>1, <4>2, <4>3 DEF Next
    <3>. QED
      BY <3>1 DEF HistoryInv, TaskInMemory
  <2>. QED
    BY <2>1, <2>2
<1>3. DecidedOnAPrefix'
  <2> SUFFICES ASSUME NEW g \in Handlers, pc'[g] \in {"loaded", "checked"}
               PROVE  LET t == events'[task'[g].agg]
                      IN /\ task'[g].base <= Len(t)
                         /\ task'[g].batch \in
                              Raises(SubSeq(t, 1, task'[g].base), task'[g].cmd)
    BY DEF DecidedOnAPrefix
  <2>1. CASE pc[g] \in {"loaded", "checked"} /\ task'[g] = task[g]
    <3> DEFINE a == task[g].agg
    <3>1. a \in Aggregates /\ task[g].base \in Nat /\ events[a] \in Seq(Events)
      BY <2>1 DEF HistoryInv, TypeOK, TaskInMemory, Task
    <3>2. /\ task[g].base <= Len(events[a])
          /\ task[g].batch \in Raises(SubSeq(events[a], 1, task[g].base), task[g].cmd)
      BY <2>1 DEF HistoryInv, DecidedOnAPrefix
    <3>3. task[g].base \in 0 .. Len(events[a])
      BY <3>1, <3>2
    <3>4. /\ task[g].base <= Len(events'[a])
          /\ SubSeq(events'[a], 1, task[g].base) = SubSeq(events[a], 1, task[g].base)
      BY <3>1, <3>3, StreamsGrow
    <3>. QED
      BY <2>1, <3>2, <3>4
  <2>2. CASE /\ task'[g] \in Task
             /\ task'[g].base = Len(events[task'[g].agg])
             /\ task'[g].batch \in Raises(events[task'[g].agg], task'[g].cmd)
             /\ events' = events
    <3>1. events[task'[g].agg] \in Seq(Events)
      BY <2>2 DEF HistoryInv, TypeOK, Task
    <3>2. SubSeq(events[task'[g].agg], 1, task'[g].base) = events[task'[g].agg]
      BY <2>2, <3>1
    <3>3. task'[g].base <= Len(events[task'[g].agg])
      BY <2>2, <3>1
    <3>4. task'[g].batch \in
            Raises(SubSeq(events[task'[g].agg], 1, task'[g].base), task'[g].cmd)
      BY <2>2, <3>2
    <3>. QED
      BY <2>2, <3>3, <3>4
  <2>. QED
    BY <2>1, <2>2, DecisionKept
<1>. QED
  BY <1>1, <1>2, <1>3 DEF HistoryInv

(* Every stream is a sequence of events, versions 1, 2, 3, ... without a   *)
(* gap, and every handler's state has its type.                            *)
THEOREM TypeCorrect == Spec => []TypeOK
<1>1. HistoryInv => TypeOK
  BY DEF HistoryInv
<1>. QED
  BY InitHistory, HistoryStep, <1>1, PTL DEF Spec

(* No handler ever saves a decision taken on anything but an initial part  *)
(* of its aggregate's history.                                             *)
THEOREM DecisionsRestOnHistory == Spec => []DecidedOnAPrefix
<1>1. HistoryInv => DecidedOnAPrefix
  BY DEF HistoryInv
<1>. QED
  BY InitHistory, HistoryStep, <1>1, PTL DEF Spec

(* The stored history only grows.                                          *)
THEOREM HistoryIsNeverRewritten == Spec => StreamsAppendOnly
<1>1. HistoryInv /\ [Next]_vars =>
        [\A a \in Aggregates : AppendOnly(events[a], events'[a])]_events
  <2> SUFFICES ASSUME HistoryInv, [Next]_vars, NEW a \in Aggregates
               PROVE  AppendOnly(events[a], events'[a])
    OBVIOUS
  <2>1. events[a] \in Seq(Events)
    BY DEF HistoryInv, TypeOK
  <2>2. /\ Len(events[a]) <= Len(events'[a])
        /\ SubSeq(events'[a], 1, Len(events[a])) = SubSeq(events[a], 1, Len(events[a]))
    <3>1. Len(events[a]) \in 0 .. Len(events[a])
      BY <2>1
    <3> DEFINE k == Len(events[a])
    <3> HIDE DEF k
    <3>2. k \in 0 .. Len(events[a])
      BY <3>1 DEF k
    <3>3. k <= Len(events'[a]) /\ SubSeq(events'[a], 1, k) = SubSeq(events[a], 1, k)
      BY <3>2, StreamsGrow, ZenonT(30)
    <3> QED BY <3>3 DEF k
  <2>. QED
    BY <2>1, <2>2 DEF AppendOnly
<1>. QED
  BY InitHistory, HistoryStep, <1>1, PTL DEF Spec, StreamsAppendOnly

-----------------------------------------------------------------------------
(* A step that changes a history executes a command on the whole of it.    *)
LEMMA CommitExecutes ==
  ASSUME HistoryInv, [Next]_vars, events' # events
  PROVE  \E a \in Aggregates, c \in Commands : \E b \in Raises(events[a], c) :
           /\ b \in Seq(Events) \ {<<>>}
           /\ events' = [events EXCEPT ![a] = @ \o b]
<1>1. PICK h \in Handlers : Insert(h) /\ pc'[h] = "stored"
  BY DEF Next, vars, Load, CheckVersion, Insert, SaveToOutbox, DatabaseError,
     Answer, Crash, HistoryInv, TypeOK
<1> DEFINE a == task[h].agg
<1>2. pc[h] = "checked" /\ task[h] \in Task /\ task[h].batch # <<>>
  BY <1>1 DEF Insert, HistoryInv, TaskInMemory
<1>3. /\ a \in Aggregates /\ task[h].cmd \in Commands /\ events[a] \in Seq(Events)
      /\ task[h].batch \in Seq(Events) \ {<<>>}
  BY <1>2 DEF Task, HistoryInv, TypeOK
<1>4. /\ task[h].base = Len(events[a])
      /\ events' = [events EXCEPT ![a] = @ \o task[h].batch]
  BY <1>1, CommitAppends
<1>5. task[h].batch \in Raises(SubSeq(events[a], 1, task[h].base), task[h].cmd)
  BY <1>2 DEF HistoryInv, DecidedOnAPrefix
<1>6. SubSeq(events[a], 1, task[h].base) = events[a]
  <2> HIDE DEF a
  <2> QED BY <1>3, <1>4, SMTT(30)
<1>7. task[h].batch \in Raises(events[a], task[h].cmd)
  BY <1>5, <1>6
<1>. QED
  BY <1>3, <1>4, <1>7

(* Concurrent handlers with optimistic concurrency control implement the   *)
(* serial execution of commands: the step that stores a batch is a command *)
(* executed on the whole current history, every other step changes no      *)
(* history.                                                                *)
THEOREM SerialExecution == Spec => Serial
<1>1. Init => EL!Init
  BY DEF Init, EL!Init
<1>2. HistoryInv /\ [Next]_vars => [EL!Next]_events
  <2> SUFFICES ASSUME HistoryInv, [Next]_vars, events' # events
               PROVE  EL!Next
    OBVIOUS
  <2>1. PICK a \in Aggregates, c \in Commands : \E b \in Raises(events[a], c) :
          /\ b \in Seq(Events) \ {<<>>}
          /\ events' = [events EXCEPT ![a] = @ \o b]
    BY CommitExecutes
  <2>2. EL!Execute(a, c)
    BY <2>1 DEF EL!Execute
  <2>3. events \in [Aggregates -> Seq(Events)]
    BY DEF HistoryInv, TypeOK
  <2>4. events'[a] # events[a]
    BY <2>1, <2>3
  <2>. QED
    BY <2>1, <2>2, <2>4 DEF EL!Next
<1>. QED
  BY InitHistory, HistoryStep, <1>1, <1>2, PTL DEF Spec, Serial, EL!Spec

-----------------------------------------------------------------------------
(* The outbox rows AggregateStore writes: they announce only stored        *)
(* events, none twice, and all of them once Success is answered.           *)

(* Handlers whose transaction has committed.                               *)
Committed(h) == pc[h] \in {"stored", "done"}

(* The batch of such a handler is in the stream, at its versions.          *)
BatchIsStored ==
  \A h \in Handlers : Committed(h) =>
    /\ task[h].base + Len(task[h].batch) <= Len(events[task[h].agg])
    /\ \A i \in 1 .. Len(task[h].batch) :
         events[task[h].agg][task[h].base + i] = task[h].batch[i]

(* No version was written by two of them.                                  *)
VersionsAreOwned ==
  \A g, h \in Handlers :
    Committed(g) /\ Committed(h) /\ g # h /\ task[g].agg = task[h].agg =>
      NewVersions(g) \intersect NewVersions(h) = {}

(* Nothing is queued before the commit.                                    *)
NothingQueuedYet ==
  \A h \in Handlers : pc[h] \in {"loaded", "checked"} => queued[h] = 0

(* Of its events, the first queued[h] are in the outbox, the others not.   *)
QueueProgress ==
  \A h \in Handlers : Committed(h) =>
    /\ pc[h] = "stored" => queued[h] < Len(task[h].batch)
    /\ pc[h] = "done" => queued[h] = Len(task[h].batch)
    /\ \A i \in 1 .. Len(task[h].batch) :
         InOutbox(task[h].agg, task[h].base + i) <=> i <= queued[h]

QueueInv ==
  /\ HistoryInv
  /\ BatchIsStored
  /\ VersionsAreOwned
  /\ NothingQueuedYet
  /\ QueueProgress
  /\ OutboxMirrorsStore
  /\ OutboxHasNoDuplicate

-----------------------------------------------------------------------------
LEMMA InitQueue == Init => QueueInv
BY InitHistory DEF Init, QueueInv, BatchIsStored, VersionsAreOwned, NothingQueuedYet,
   QueueProgress, OutboxMirrorsStore, OutboxHasNoDuplicate, Committed

(* The types of what a handler at work has in memory.                      *)
LEMMA MemoryTypes ==
  ASSUME HistoryInv, NEW h \in Handlers, pc[h] # "idle"
  PROVE  /\ task[h].agg \in Aggregates /\ task[h].base \in Nat
         /\ task[h].batch \in Seq(Events) /\ Len(task[h].batch) \in Nat \ {0}
         /\ queued[h] \in Nat
         /\ events[task[h].agg] \in Seq(Events)
<1>1. /\ task[h].agg \in Aggregates /\ task[h].base \in Nat
      /\ task[h].batch \in Seq(Events) /\ task[h].batch # <<>>
      /\ queued[h] \in Nat
  BY DEF HistoryInv, TypeOK, TaskInMemory, Task
<1>2. Len(task[h].batch) \in Nat \ {0}
  BY <1>1
<1>3. events[task[h].agg] \in Seq(Events)
  BY <1>1 DEF HistoryInv, TypeOK
<1>. QED
  BY <1>1, <1>2, <1>3

(* A handler that has committed after a step had committed before, or this *)
(* step is its commit.                                                     *)
LEMMA CommittedBefore ==
  ASSUME HistoryInv, [Next]_vars, NEW h \in Handlers, Committed(h)'
  PROVE  /\ pc[h] # "idle" /\ task'[h] = task[h]
         /\ Committed(h) \/ (Insert(h) /\ pc[h] = "checked" /\ pc'[h] = "stored")
<1> USE DEF Committed, HistoryInv, TypeOK
<1>1. ASSUME UNCHANGED vars
      PROVE  pc' = pc /\ task' = task
  BY <1>1 DEF vars
<1>2. ASSUME NEW g \in Handlers,
             \/ \E a \in Aggregates, c \in Commands : Load(g, a, c)
             \/ DatabaseError(g) \/ Answer(g) \/ Crash(g)
      PROVE  g # h /\ pc'[h] = pc[h] /\ task'[h] = task[h]
  BY <1>2 DEF Load, DatabaseError, Answer, Crash
<1>3. ASSUME NEW g \in Handlers, CheckVersion(g)
      PROVE  g # h /\ pc'[h] = pc[h] /\ task'[h] = task[h]
  BY <1>3 DEF CheckVersion
<1>4. ASSUME NEW g \in Handlers, Insert(g)
      PROVE  /\ task' = task
             /\ g = h => pc[h] = "checked" /\ pc'[h] = "stored"
             /\ g # h => pc'[h] = pc[h]
  BY <1>4 DEF Insert
<1>5. ASSUME NEW g \in Handlers, SaveToOutbox(g)
      PROVE  /\ task' = task
             /\ g = h => pc[h] = "stored"
             /\ g # h => pc'[h] = pc[h]
  BY <1>5 DEF SaveToOutbox
<1> QED BY <1>1, <1>2, <1>3, <1>4, <1>5 DEF Next

(* While it has committed, its own progress comes from SaveToOutbox only,  *)
(* and the outbox from the SaveToOutbox of some handler.                   *)
LEMMA QueueMoves ==
  ASSUME HistoryInv, [Next]_vars, NEW h \in Handlers, Committed(h), Committed(h)'
  PROVE  \/ SaveToOutbox(h)
         \/ /\ pc'[h] = pc[h] /\ queued'[h] = queued[h]
            /\ \/ outbox' = outbox
               \/ \E g \in Handlers \ {h} : SaveToOutbox(g)
<1> USE DEF Committed, HistoryInv, TypeOK
<1>1. ASSUME UNCHANGED vars
      PROVE  pc' = pc /\ queued' = queued /\ outbox' = outbox
  BY <1>1 DEF vars
<1>2. ASSUME NEW g \in Handlers,
             \/ \E a \in Aggregates, c \in Commands : Load(g, a, c)
             \/ DatabaseError(g) \/ Answer(g) \/ Crash(g)
      PROVE  pc'[h] = pc[h] /\ queued'[h] = queued[h] /\ outbox' = outbox
  BY <1>2 DEF Load, DatabaseError, Answer, Crash
<1>3. ASSUME NEW g \in Handlers, CheckVersion(g) \/ Insert(g)
      PROVE  pc'[h] = pc[h] /\ queued'[h] = queued[h] /\ outbox' = outbox
  BY <1>3 DEF CheckVersion, Insert
<1>4. ASSUME NEW g \in Handlers, SaveToOutbox(g), g # h
      PROVE  pc'[h] = pc[h] /\ queued'[h] = queued[h]
  BY <1>4 DEF SaveToOutbox
<1> QED BY <1>1, <1>2, <1>3, <1>4 DEF Next

(* The place after the first q of a batch that is stored behind n events.  *)
LEMMA WithinLength ==
  ASSUME NEW n \in Nat, NEW k \in Nat, NEW q \in Nat, NEW l \in Nat, q < k, n + k <= l
  PROVE  n + (q + 1) <= l /\ n + (q + 1) \in Nat \ {0}
OBVIOUS

(* The row SaveToOutbox writes.                                            *)
LEMMA RowAdded ==
  ASSUME QueueInv, NEW h \in Handlers, SaveToOutbox(h)
  PROVE  LET r == [agg |-> task[h].agg, version |-> task[h].base + (queued[h] + 1)]
         IN /\ outbox' = Append(outbox, r)
            /\ queued[h] + 1 \in 1 .. Len(task[h].batch)
            /\ r.version \in DOMAIN events[task[h].agg]
            /\ r.version \in NewVersions(h)
            /\ ~ InOutbox(r.agg, r.version)
            /\ events' = events /\ task' = task
<1>1. /\ pc[h] = "stored" /\ events' = events /\ task' = task
      /\ outbox' = Append(outbox, [agg |-> task[h].agg, version |-> task[h].base + (queued[h] + 1)])
  BY DEF SaveToOutbox
<1>2. /\ task[h].agg \in Aggregates /\ task[h].base \in Nat
      /\ Len(task[h].batch) \in Nat /\ queued[h] \in Nat
      /\ events[task[h].agg] \in Seq(Events)
  BY <1>1, MemoryTypes DEF QueueInv
<1>3. /\ queued[h] < Len(task[h].batch)
      /\ \A i \in 1 .. Len(task[h].batch) :
           InOutbox(task[h].agg, task[h].base + i) <=> i <= queued[h]
      /\ task[h].base + Len(task[h].batch) <= Len(events[task[h].agg])
  BY <1>1 DEF QueueInv, QueueProgress, BatchIsStored, Committed
<1>4. queued[h] + 1 \in 1 .. Len(task[h].batch) /\ ~(queued[h] + 1 <= queued[h])
  BY <1>2, <1>3
<1>5. ~ InOutbox(task[h].agg, task[h].base + (queued[h] + 1))
  BY <1>3, <1>4
<1>6. task[h].base + (queued[h] + 1) \in NewVersions(h)
  BY <1>2, <1>4 DEF NewVersions
<1>7. task[h].base + (queued[h] + 1) \in DOMAIN events[task[h].agg]
  <2>1. /\ task[h].base + (queued[h] + 1) <= Len(events[task[h].agg])
        /\ task[h].base + (queued[h] + 1) \in Nat \ {0}
    <3>1. /\ task[h].base \in Nat /\ Len(task[h].batch) \in Nat /\ queued[h] \in Nat
          /\ Len(events[task[h].agg]) \in Nat
      BY <1>2
    <3>2. /\ queued[h] < Len(task[h].batch)
          /\ task[h].base + Len(task[h].batch) <= Len(events[task[h].agg])
      BY <1>3
    <3> QED BY <3>1, <3>2, WithinLength
  <2>2. DOMAIN events[task[h].agg] = 1 .. Len(events[task[h].agg])
    BY <1>2
  <2>. QED
    BY <1>2, <2>1, <2>2
<1>. QED
  BY <1>1, <1>2, <1>4, <1>5, <1>6, <1>7

(* The outbox changes by SaveToOutbox only.                                *)
LEMMA OutboxMoves ==
  ASSUME [Next]_vars
  PROVE  outbox' = outbox \/ \E h \in Handlers : SaveToOutbox(h)
BY DEF Next, vars, Load, CheckVersion, Insert, DatabaseError, Answer, Crash

(* What is in the outbox after a row was added.                            *)
LEMMA AppendedRow ==
  ASSUME NEW S, outbox \in Seq(S), NEW r \in S, outbox' = Append(outbox, r)
  PROVE  /\ outbox' \in Seq(S) /\ Len(outbox') = Len(outbox) + 1
         /\ \A i \in DOMAIN outbox : outbox'[i] = outbox[i]
         /\ outbox'[Len(outbox) + 1] = r
         /\ DOMAIN outbox' = DOMAIN outbox \union {Len(outbox) + 1}
         /\ Len(outbox) + 1 \notin DOMAIN outbox
OBVIOUS

-----------------------------------------------------------------------------
(* What was appended comes after what was there.                           *)
LEMMA ConcatTail ==
  ASSUME NEW S, NEW s \in Seq(S), NEW b \in Seq(S)
  PROVE  /\ Len(s \o b) = Len(s) + Len(b)
         /\ \A i \in 1 .. Len(b) : (s \o b)[Len(s) + i] = b[i]
OBVIOUS

(* A committed batch stays where it was stored.                            *)
LEMMA BatchStep ==
  ASSUME QueueInv, [Next]_vars
  PROVE  BatchIsStored'
<1> SUFFICES ASSUME NEW h \in Handlers, Committed(h)'
             PROVE  /\ task[h].base + Len(task[h].batch) <= Len(events'[task[h].agg])
                    /\ \A i \in 1 .. Len(task[h].batch) :
                         events'[task[h].agg][task[h].base + i] = task[h].batch[i]
  BY CommittedBefore DEF BatchIsStored, QueueInv
<1> DEFINE a == task[h].agg
           b == task[h].batch
           n == task[h].base
<1>1. /\ a \in Aggregates /\ n \in Nat /\ b \in Seq(Events) /\ Len(b) \in Nat
      /\ events[a] \in Seq(Events)
  BY CommittedBefore, MemoryTypes DEF QueueInv
<1>2. CASE Committed(h)
  <2>1. /\ n + Len(b) <= Len(events[a])
        /\ \A i \in 1 .. Len(b) : events[a][n + i] = b[i]
    BY <1>2 DEF QueueInv, BatchIsStored
  <2>2. /\ events'[a] \in Seq(Events)
        /\ \A k \in 0 .. Len(events[a]) :
             k <= Len(events'[a]) /\ (k # 0 => events'[a][k] = events[a][k])
    BY <1>1, StreamsGrow DEF QueueInv
  <2>3. n + Len(b) <= Len(events'[a])
    BY <1>1, <2>1, <2>2
  <2>4. ASSUME NEW i \in 1 .. Len(b)
        PROVE  events'[a][n + i] = b[i]
    <3>1. n + i \in 0 .. Len(events[a]) /\ n + i # 0
      <4>1. n \in Nat /\ Len(b) \in Nat /\ Len(events[a]) \in Nat
        BY <1>1
      <4>2. n + Len(b) <= Len(events[a])
        BY <2>1
      <4> HIDE DEF n, b, a
      <4> QED BY <4>1, <4>2
    <3>. QED
      BY <2>1, <2>2, <3>1
  <2>. QED
    BY <2>3, <2>4
<1>3. CASE Insert(h) /\ pc[h] = "checked" /\ pc'[h] = "stored"
  <2>1. n = Len(events[a]) /\ events'[a] = events[a] \o b
    BY <1>1, <1>3, CommitAppends DEF QueueInv, HistoryInv, TypeOK
  <2>2. /\ Len(events[a] \o b) = Len(events[a]) + Len(b)
        /\ \A i \in 1 .. Len(b) : (events[a] \o b)[Len(events[a]) + i] = b[i]
    <3> HIDE DEF a, b
    <3>. QED
      BY <1>1, ConcatTail
  <2>3. n + Len(b) <= Len(events'[a])
    BY <1>1, <2>1, <2>2
  <2>4. \A i \in 1 .. Len(b) : events'[a][n + i] = b[i]
    BY <2>1, <2>2
  <2>. QED
    BY <2>3, <2>4
<1>. QED
  BY <1>2, <1>3, CommittedBefore DEF QueueInv

(* A commit takes versions after all those stored before.                  *)
LEMMA OwnedStep ==
  ASSUME QueueInv, [Next]_vars
  PROVE  VersionsAreOwned'
<1>1. ASSUME NEW g \in Handlers, NEW h \in Handlers, g # h, Committed(g),
             Insert(h), pc[h] = "checked", pc'[h] = "stored", task[g].agg = task[h].agg
      PROVE  NewVersions(g) \intersect NewVersions(h) = {}
  <2>1. /\ task[g].base \in Nat /\ Len(task[g].batch) \in Nat
        /\ task[h].base \in Nat /\ Len(task[h].batch) \in Nat
    BY <1>1, MemoryTypes DEF QueueInv, Committed
  <2>2. task[g].base + Len(task[g].batch) <= Len(events[task[h].agg])
    BY <1>1 DEF QueueInv, BatchIsStored
  <2>3. task[h].base = Len(events[task[h].agg])
    BY <1>1, CommitAppends DEF QueueInv
  <2>4. task[g].base + Len(task[g].batch) <= task[h].base
    BY <2>2, <2>3
  <2>5. ASSUME NEW v \in NewVersions(g), v \in NewVersions(h)
        PROVE  FALSE
    <3>1. /\ v \in (task[g].base + 1) .. (task[g].base + Len(task[g].batch))
          /\ v \in (task[h].base + 1) .. (task[h].base + Len(task[h].batch))
      BY <2>5 DEF NewVersions
    <3>2. v \in Int /\ v <= task[g].base + Len(task[g].batch) /\ task[h].base + 1 <= v
      BY <2>1, <3>1
    <3>. QED
      BY <2>1, <2>4, <3>2
  <2>. QED
    BY <2>5
<1>2. SUFFICES ASSUME NEW g \in Handlers, NEW h \in Handlers, g # h,
                      Committed(g)', Committed(h)', task[g].agg = task[h].agg
               PROVE  NewVersions(g) \intersect NewVersions(h) = {}
  BY CommittedBefore DEF QueueInv, VersionsAreOwned, NewVersions
<1>3. CASE Committed(g) /\ Committed(h)
  BY <1>2, <1>3 DEF QueueInv, VersionsAreOwned
<1>4. CASE Committed(g) /\ ~Committed(h)
  BY <1>1, <1>2, <1>4, CommittedBefore DEF QueueInv
<1>5. CASE ~Committed(g) /\ Committed(h)
  BY <1>1, <1>2, <1>5, CommittedBefore DEF QueueInv
<1>6. CASE ~Committed(g) /\ ~Committed(h)
  <2>1. Insert(g) /\ Insert(h) /\ pc[h] = "checked" /\ pc'[h] = "stored"
    BY <1>2, <1>6, CommittedBefore DEF QueueInv
  <2>. QED
    BY <1>2, <2>1 DEF Insert, QueueInv, HistoryInv, TypeOK
<1>. QED
  BY <1>3, <1>4, <1>5, <1>6

LEMMA NothingQueuedStep ==
  ASSUME QueueInv, [Next]_vars
  PROVE  NothingQueuedYet'
<1> USE DEF QueueInv, NothingQueuedYet, HistoryInv, TypeOK
<1>1. ASSUME UNCHANGED vars
      PROVE  NothingQueuedYet'
  BY <1>1 DEF vars
<1>2. ASSUME NEW h \in Handlers,
             \/ \E a \in Aggregates, c \in Commands : Load(h, a, c)
             \/ Answer(h) \/ Crash(h)
      PROVE  NothingQueuedYet'
  BY <1>2 DEF Load, Answer, Crash
<1>3. ASSUME NEW h \in Handlers, CheckVersion(h) \/ Insert(h) \/ DatabaseError(h)
      PROVE  NothingQueuedYet'
  BY <1>3 DEF CheckVersion, Insert, DatabaseError
<1>4. ASSUME NEW h \in Handlers, SaveToOutbox(h)
      PROVE  NothingQueuedYet'
  BY <1>4 DEF SaveToOutbox
<1> QED BY <1>1, <1>2, <1>3, <1>4 DEF Next

(* Rows keep announcing stored events.                                     *)
LEMMA MirrorStep ==
  ASSUME QueueInv, [Next]_vars
  PROVE  OutboxMirrorsStore'
<1>1. outbox \in Seq(OutboxRow) /\ events \in [Aggregates -> Seq(Events)]
  BY DEF QueueInv, HistoryInv, TypeOK
<1>2. \A a \in Aggregates : DOMAIN events[a] \subseteq DOMAIN events'[a]
  <2> SUFFICES ASSUME NEW a \in Aggregates, NEW v \in DOMAIN events[a]
               PROVE  v \in DOMAIN events'[a]
    OBVIOUS
  <2>1. /\ events[a] \in Seq(Events) /\ events'[a] \in Seq(Events)
        /\ Len(events[a]) <= Len(events'[a])
    BY <1>1, StreamsGrow DEF QueueInv
  <2>. QED
    BY <2>1
<1>3. \A i \in DOMAIN outbox :
        outbox[i].agg \in Aggregates /\ outbox[i].version \in DOMAIN events'[outbox[i].agg]
  <2> SUFFICES ASSUME NEW i \in DOMAIN outbox
               PROVE  /\ outbox[i].agg \in Aggregates
                      /\ outbox[i].version \in DOMAIN events'[outbox[i].agg]
    OBVIOUS
  <2>1. outbox[i] \in OutboxRow
    BY <1>1
  <2>2. outbox[i].agg \in Aggregates
    BY <2>1 DEF OutboxRow
  <2>3. outbox[i].version \in DOMAIN events[outbox[i].agg]
    BY DEF QueueInv, OutboxMirrorsStore
  <2>. QED
    BY <1>2, <2>2, <2>3
<1>4. CASE outbox' = outbox
  BY <1>3, <1>4 DEF OutboxMirrorsStore
<1>5. ASSUME NEW h \in Handlers, SaveToOutbox(h)
      PROVE  OutboxMirrorsStore'
  <2> DEFINE r == [agg |-> task[h].agg, version |-> task[h].base + (queued[h] + 1)]
  <2>1. /\ outbox' = Append(outbox, r)
        /\ r.version \in DOMAIN events[r.agg] /\ events' = events
    BY <1>5, RowAdded
  <2>2. r \in OutboxRow
    BY <1>5, MemoryTypes DEF OutboxRow, QueueInv, SaveToOutbox
  <2> HIDE DEF r
  <2>3. /\ \A i \in DOMAIN outbox : outbox'[i] = outbox[i]
        /\ outbox'[Len(outbox) + 1] = r
        /\ DOMAIN outbox' = DOMAIN outbox \union {Len(outbox) + 1}
    BY <1>1, <2>1, <2>2, AppendedRow
  <2>. QED
    BY <1>3, <2>1, <2>3 DEF OutboxMirrorsStore
<1>. QED
  BY <1>4, <1>5, OutboxMoves

(* The row added was not there.                                            *)
LEMMA NoDuplicateStep ==
  ASSUME QueueInv, [Next]_vars
  PROVE  OutboxHasNoDuplicate'
<1>1. outbox \in Seq(OutboxRow) /\ OutboxHasNoDuplicate
  BY DEF QueueInv, HistoryInv, TypeOK
<1>2. CASE outbox' = outbox
  BY <1>1, <1>2 DEF OutboxHasNoDuplicate
<1>3. ASSUME NEW h \in Handlers, SaveToOutbox(h)
      PROVE  OutboxHasNoDuplicate'
  <2> DEFINE r == [agg |-> task[h].agg, version |-> task[h].base + (queued[h] + 1)]
  <2>1. /\ outbox' = Append(outbox, r)
        /\ \A i \in DOMAIN outbox : outbox[i] # r
    BY <1>3, RowAdded DEF InOutbox
  <2>2. r \in OutboxRow
    BY <1>3, MemoryTypes DEF OutboxRow, QueueInv, SaveToOutbox
  <2> HIDE DEF r
  <2>3. /\ \A i \in DOMAIN outbox : outbox'[i] = outbox[i]
        /\ outbox'[Len(outbox) + 1] = r
        /\ DOMAIN outbox' = DOMAIN outbox \union {Len(outbox) + 1}
    BY <1>1, <2>1, <2>2, AppendedRow
  <2>. QED
    BY <1>1, <2>1, <2>3 DEF OutboxHasNoDuplicate
<1>. QED
  BY <1>2, <1>3, OutboxMoves

(* A commit starts with an empty queue, and the rows written by others are *)
(* at versions of their own.                                               *)
LEMMA QueueStep ==
  ASSUME QueueInv, [Next]_vars
  PROVE  QueueProgress'
<1> SUFFICES ASSUME NEW h \in Handlers, Committed(h)'
             PROVE  /\ pc'[h] = "stored" => queued'[h] < Len(task[h].batch)
                    /\ pc'[h] = "done" => queued'[h] = Len(task[h].batch)
                    /\ \A i \in 1 .. Len(task[h].batch) :
                         (\E j \in DOMAIN outbox' :
                            outbox'[j] = [agg |-> task[h].agg, version |-> task[h].base + i])
                         <=> i <= queued'[h]
  <2>1. \A h \in Handlers : Committed(h)' => task'[h] = task[h]
    BY CommittedBefore DEF QueueInv
  <2>. QED
    BY <2>1 DEF QueueProgress, InOutbox
<1> DEFINE a == task[h].agg
           b == task[h].batch
           n == task[h].base
           Queued(i) == \E j \in DOMAIN outbox' : outbox'[j] = [agg |-> a, version |-> n + i]
<1>1. /\ a \in Aggregates /\ n \in Nat /\ b \in Seq(Events) /\ Len(b) \in Nat \ {0}
      /\ events[a] \in Seq(Events) /\ queued[h] \in Nat /\ task'[h] = task[h]
      /\ Committed(h) \/ (Insert(h) /\ pc[h] = "checked" /\ pc'[h] = "stored")
  BY CommittedBefore, MemoryTypes DEF QueueInv
<1>2. outbox \in Seq(OutboxRow)
  BY DEF QueueInv, HistoryInv, TypeOK
<1>3. CASE Insert(h) /\ pc[h] = "checked" /\ pc'[h] = "stored"
  <2>1. queued'[h] = 0 /\ outbox' = outbox
    BY <1>3 DEF Insert, QueueInv, NothingQueuedYet
  <2>2. n = Len(events[a])
    BY <1>3, CommitAppends DEF QueueInv
  <2>3. ASSUME NEW i \in 1 .. Len(b)
        PROVE  ~ InOutbox(a, n + i)
    <3>1. n + i \notin DOMAIN events[a]
      BY <1>1, <2>2
    <3>. QED
      BY <3>1 DEF InOutbox, QueueInv, OutboxMirrorsStore
  <2>4. \A i \in 1 .. Len(b) : ~(i <= queued'[h])
    BY <1>1, <2>1
  <2>5. 0 < Len(b)
    BY <1>1
  <2>. QED
    BY <1>3, <2>1, <2>3, <2>4, <2>5 DEF InOutbox
<1>4. CASE Committed(h)
  <2>1. /\ pc[h] = "stored" => queued[h] < Len(b)
        /\ pc[h] = "done" => queued[h] = Len(b)
        /\ \A i \in 1 .. Len(b) : InOutbox(a, n + i) <=> i <= queued[h]
    BY <1>4 DEF QueueInv, QueueProgress
  <2>2. CASE SaveToOutbox(h)
    <3> DEFINE q == queued[h] + 1
    <3>1. /\ pc[h] = "stored" /\ queued'[h] = q
          /\ pc'[h] = IF q = Len(b) THEN "done" ELSE "stored"
          /\ outbox' = Append(outbox, [agg |-> a, version |-> n + q])
      BY <2>2 DEF SaveToOutbox, QueueInv, HistoryInv, TypeOK
    <3>2. [agg |-> a, version |-> n + q] \in OutboxRow
      BY <1>1 DEF OutboxRow
    <3>3. /\ \A j \in DOMAIN outbox : outbox'[j] = outbox[j]
          /\ outbox'[Len(outbox) + 1] = [agg |-> a, version |-> n + q]
          /\ DOMAIN outbox' = DOMAIN outbox \union {Len(outbox) + 1}
      BY <1>2, <3>1, <3>2, AppendedRow
    <3>4. ASSUME NEW i \in 1 .. Len(b)
          PROVE  Queued(i) <=> i <= q
      <4>1. Queued(i) <=> (InOutbox(a, n + i) \/ n + i = n + q)
        BY <3>3 DEF InOutbox
      <4>2. n + i = n + q <=> i = q
        <5>1. n \in Nat /\ i \in Nat /\ q \in Nat
          BY <1>1
        <5> HIDE DEF n, q
        <5> QED BY <5>1
      <4>3. (i <= queued[h] \/ i = q) <=> i <= q
        BY <1>1
      <4>4. InOutbox(a, n + i) <=> i <= queued[h]
        BY <2>1
      <4> HIDE DEF Queued
      <4>. QED
        BY <4>1, <4>2, <4>3, <4>4
    <3>5. q <= Len(b)
      <4>1. queued[h] \in Nat /\ Len(b) \in Nat /\ queued[h] < Len(b)
        BY <1>1, <2>1, <3>1
      <4> HIDE DEF b
      <4> QED BY <4>1
    <3>. QED
      BY <1>1, <3>1, <3>4, <3>5, SMTT(20)
  <2>3. CASE pc'[h] = pc[h] /\ queued'[h] = queued[h] /\ outbox' = outbox
    BY <2>1, <2>3 DEF InOutbox
  <2>4. ASSUME NEW g \in Handlers, g # h, SaveToOutbox(g),
               pc'[h] = pc[h], queued'[h] = queued[h]
        PROVE  \A i \in 1 .. Len(b) : Queued(i) <=> InOutbox(a, n + i)
    <3> DEFINE r == [agg |-> task[g].agg, version |-> task[g].base + (queued[g] + 1)]
    <3>1. /\ outbox' = Append(outbox, r) /\ r.version \in NewVersions(g)
      BY <2>4, RowAdded
    <3>2. r \in OutboxRow
      BY <2>4, MemoryTypes DEF OutboxRow, QueueInv, SaveToOutbox
    <3>3. Committed(g)
      BY <2>4 DEF SaveToOutbox, Committed
    <3>4. ASSUME NEW i \in 1 .. Len(b)
          PROVE  r # [agg |-> a, version |-> n + i]
      <4>1. n + i \in NewVersions(h)
        BY <1>1 DEF NewVersions
      <4>2. task[g].agg = a => NewVersions(g) \intersect NewVersions(h) = {}
        BY <1>4, <2>4, <3>3 DEF QueueInv, VersionsAreOwned
      <4>. QED
        BY <3>1, <4>1, <4>2
    <3> HIDE DEF r
    <3>5. /\ \A j \in DOMAIN outbox : outbox'[j] = outbox[j]
          /\ outbox'[Len(outbox) + 1] = r
          /\ DOMAIN outbox' = DOMAIN outbox \union {Len(outbox) + 1}
      BY <1>2, <3>1, <3>2, AppendedRow
    <3>6. ASSUME NEW i \in 1 .. Len(b)
          PROVE  Queued(i) <=> InOutbox(a, n + i)
      BY <3>4, <3>5 DEF InOutbox
    <3>. QED
      BY <3>6
  <2>. QED
    BY <1>4, <2>1, <2>2, <2>3, <2>4, QueueMoves DEF QueueInv
<1>. QED
  BY <1>1, <1>3, <1>4

LEMMA QueueInvStep == QueueInv /\ [Next]_vars => QueueInv'
BY HistoryStep, BatchStep, OwnedStep, NothingQueuedStep, QueueStep, MirrorStep, NoDuplicateStep
   DEF QueueInv

-----------------------------------------------------------------------------
(* The outbox never announces an event that is not committed.              *)
THEOREM OutboxNeverRunsAhead == Spec => []OutboxMirrorsStore
<1>1. QueueInv => OutboxMirrorsStore
  BY DEF QueueInv
<1>. QED
  BY InitQueue, QueueInvStep, <1>1, PTL DEF Spec

(* The outbox holds no event twice.                                        *)
THEOREM OutboxRowsAreUnique == Spec => []OutboxHasNoDuplicate
<1>1. QueueInv => OutboxHasNoDuplicate
  BY DEF QueueInv
<1>. QED
  BY InitQueue, QueueInvStep, <1>1, PTL DEF Spec

(* Where a version of a batch that begins after b lies in it.              *)
LEMMA PlaceInBatch ==
  ASSUME NEW b \in Nat, NEW n \in Nat, NEW v \in (b + 1) .. (b + n)
  PROVE  v - b \in 1 .. n /\ v - b <= n /\ v = b + (v - b)
OBVIOUS

(* A command answered with Success has stored all its events and put all   *)
(* of them in the outbox.                                                  *)
THEOREM SuccessMeansQueued == Spec => []SuccessIsDurable
<1>1. QueueInv => SuccessIsDurable
  <2> SUFFICES ASSUME QueueInv, NEW h \in Handlers, pc[h] = "done", NEW v \in NewVersions(h)
               PROVE  /\ v \in DOMAIN events[task[h].agg]
                      /\ events[task[h].agg][v] = task[h].batch[v - task[h].base]
                      /\ InOutbox(task[h].agg, v)
    BY DEF SuccessIsDurable
  <2> DEFINE i == v - task[h].base
  <2>1. /\ task[h].base \in Nat /\ Len(task[h].batch) \in Nat
        /\ events[task[h].agg] \in Seq(Events)
    BY MemoryTypes DEF QueueInv
  <2>2. /\ task[h].base + Len(task[h].batch) <= Len(events[task[h].agg])
        /\ \A k \in 1 .. Len(task[h].batch) :
             events[task[h].agg][task[h].base + k] = task[h].batch[k]
    BY DEF QueueInv, BatchIsStored, Committed
  <2>3. /\ queued[h] = Len(task[h].batch)
        /\ \A k \in 1 .. Len(task[h].batch) :
             InOutbox(task[h].agg, task[h].base + k) <=> k <= queued[h]
    BY DEF QueueInv, QueueProgress, Committed
  <2>4. v \in (task[h].base + 1) .. (task[h].base + Len(task[h].batch))
    BY DEF NewVersions
  <2>5. i \in 1 .. Len(task[h].batch) /\ i <= Len(task[h].batch) /\ v = task[h].base + i
    BY <2>1, <2>4, PlaceInBatch
  <2>6. v \in DOMAIN events[task[h].agg]
    <3>1. v \in 1 .. Len(events[task[h].agg])
      BY <2>1, <2>2, <2>4
    <3>2. DOMAIN events[task[h].agg] = 1 .. Len(events[task[h].agg])
      BY <2>1
    <3>. QED
      BY <3>1, <3>2
  <2>. QED
    BY <2>2, <2>3, <2>5, <2>6
<1>. QED
  BY InitQueue, QueueInvStep, <1>1, PTL DEF Spec

-----------------------------------------------------------------------------
(* The aggregates of the store are orders.                                 *)
OrderDomain ==
  /\ Commands = OrderCommands
  /\ \A s \in Seq(Events), c \in Commands : Raises(s, c) = OrderRaises(s, c)

(* What stream s and the order o rebuilt from it say of one another.       *)
ItemsAdded(s, o) ==
  /\ o.items = Cardinality(At(s, "ITEM_ADDED"))
  /\ \A v \in At(s, "CONFIRMED") :
       /\ s[v].n = o.items
       /\ \A i \in At(s, "ITEM_ADDED") : i < v
  /\ At(s, "CONFIRMED") # {} => o.status # "DRAFT"

PaidOnce(s, o) ==
  /\ \/ At(s, "PAID") = {} /\ o.payment = NoPayment
     \/ \E v \in DOMAIN s : At(s, "PAID") = {v} /\ o.payment = s[v].payment
  /\ At(s, "PAID") # {} => o.status \in {"PAID", "SHIPPED", "CANCELLED"}
  /\ o.status \in {"PAID", "SHIPPED"} => At(s, "PAID") # {}
  /\ At(s, "SHIPPED") # {} => o.status = "SHIPPED"

CancelledLast(s, o) ==
  /\ \A v \in At(s, "CANCELLED") : v = Len(s) /\ s[v].payment = o.payment
  /\ At(s, "CANCELLED") # {} <=> o.status = "CANCELLED"

(* The last event may be a failure that is yet to be followed by the       *)
(* cancellation: the two are raised in one batch.                          *)
FailuresNumbered(s, o) ==
  /\ o.failures = Cardinality(At(s, "PAYMENT_FAILED"))
  /\ \A v \in At(s, "PAYMENT_FAILED") :
       /\ s[v].n = Cardinality({u \in At(s, "PAYMENT_FAILED") : u <= v})
       /\ s[v].n = MaxPaymentFailures /\ v # Len(s) => s[v + 1].type = "CANCELLED"

Telling(s) ==
  LET o == Rehydrate(s) IN
  o \in OrderState /\ ItemsAdded(s, o) /\ PaidOnce(s, o) /\ CancelledLast(s, o)
  /\ FailuresNumbered(s, o)

(* A whole number of batches.                                              *)
Life(s) ==
  /\ Telling(s)
  /\ Rehydrate(s).status # "CANCELLED" => Rehydrate(s).failures < MaxPaymentFailures

IInv == HistoryInv /\ \A a \in Aggregates : Life(events[a])

-----------------------------------------------------------------------------
(* One more event.                                                         *)
LEMMA RehydrateAppend ==
  ASSUME NEW S, NEW s \in Seq(S), NEW e \in S
  PROVE  Rehydrate(Append(s, e)) = Apply(Rehydrate(s), e)
BY ReplayAppend DEF Rehydrate

(* Sequence t is s and e.                                                  *)
OneMore(t, s, e) ==
  /\ Len(s) \in Nat /\ DOMAIN s = 1 .. Len(s)
  /\ Len(t) = Len(s) + 1 /\ DOMAIN t = 1 .. Len(t)
  /\ t[Len(t)] = e /\ \A v \in DOMAIN s : t[v] = s[v]

LEMMA AppendIsOneMore ==
  ASSUME NEW S, NEW s \in Seq(S), NEW e \in S
  PROVE  OneMore(Append(s, e), s, e)
BY DEF OneMore

LEMMA AtFacts ==
  ASSUME NEW s, NEW t, NEW e, OneMore(t, s, e), NEW x
  PROVE  /\ \A v \in At(s, x) : v \in 1 .. Len(s) /\ v < Len(t) /\ t[v] = s[v] /\ s[v].type = x
         /\ \A v \in At(t, x) : v = Len(t) \/ v \in At(s, x)
         /\ IsFiniteSet(At(s, x)) /\ Cardinality(At(s, x)) \in Nat
         /\ e.type = x => At(t, x) = At(s, x) \union {Len(t)}
         /\ e.type # x => At(t, x) = At(s, x)
         /\ e.type = x => Cardinality(At(t, x)) = Cardinality(At(s, x)) + 1
<1>1. At(s, x) \subseteq 1 .. Len(s) /\ Len(s) \in Nat
  BY DEF At, OneMore
<1>2. IsFiniteSet(1 .. Len(s))
  BY <1>1, FS_Interval
<1>3. IsFiniteSet(At(s, x)) /\ Cardinality(At(s, x)) \in Nat
  BY <1>1, <1>2, FS_Subset, FS_CardinalityType
<1>4. \A v \in At(s, x) :
        v \in 1 .. Len(s) /\ v < Len(t) /\ t[v] = s[v] /\ s[v].type = x
  BY DEF At, OneMore
<1>5. /\ e.type = x => At(t, x) = At(s, x) \union {Len(t)}
      /\ e.type # x => At(t, x) = At(s, x)
  BY DEF At, OneMore
<1>6. Len(t) \notin At(s, x)
  BY <1>4
<1>7. Cardinality(At(s, x) \union {Len(t)}) = Cardinality(At(s, x)) + 1
  BY <1>3, <1>6, FS_AddElement
<1>. QED
  BY <1>3, <1>4, <1>5, <1>7

(* Event e may follow a stream that tells of order o.                      *)
MayFollow(o, e) ==
  \/ e.type = "ITEM_ADDED" /\ o.status = "DRAFT"
  \/ e.type = "CONFIRMED" /\ o.status = "DRAFT" /\ e.n = o.items
  \/ e.type \in {"INVENTORY_RESERVED", "INVENTORY_FAILED"} /\ o.status = "AWAITING_INVENTORY"
  \/ e.type = "PAID" /\ o.status = "INVENTORY_RESERVED" /\ e.payment \in Payments
  \/ /\ e.type = "PAYMENT_FAILED" /\ o.status = "INVENTORY_RESERVED"
     /\ e.n = o.failures + 1 /\ o.failures < MaxPaymentFailures
  \/ /\ e.type = "CANCELLED" /\ o.status \notin {"CANCELLED", "SHIPPED"}
     /\ e.payment = o.payment
  \/ e.type = "SHIPPED" /\ o.status = "PAID"

(* Nothing but a cancellation may follow the last permitted failure.       *)
Follows(o, e) ==
  /\ MayFollow(o, e)
  /\ e.type # "CANCELLED" => o.failures < MaxPaymentFailures

(* Applying e to o.                                                        *)
NewStatus(o, e) ==
  CASE e.type = "CONFIRMED" -> "AWAITING_INVENTORY"
    [] e.type \in {"ITEM_ADDED", "PAYMENT_FAILED"} -> o.status
    [] OTHER -> e.type

LEMMA ApplyFields ==
  ASSUME NEW o \in OrderState, NEW e, MayFollow(o, e)
  PROVE  /\ Apply(o, e) \in OrderState
         /\ Apply(o, e).status = NewStatus(o, e)
         /\ Apply(o, e).items = IF e.type = "ITEM_ADDED" THEN o.items + 1 ELSE o.items
         /\ Apply(o, e).payment = IF e.type = "PAID" THEN e.payment ELSE o.payment
         /\ Apply(o, e).failures = IF e.type = "PAYMENT_FAILED" THEN o.failures + 1
                                                                ELSE o.failures
<1> DEFINE n == Apply(o, e)
<1>1. CASE e.type = "ITEM_ADDED" /\ o.status = "DRAFT"
  <2>1. n = [o EXCEPT !.items = @ + 1]
    BY <1>1 DEF Apply
  <2>. QED
    BY <1>1, <2>1 DEF OrderState, NewStatus
<1>2. CASE e.type = "CONFIRMED" /\ o.status = "DRAFT"
  <2>1. n = [o EXCEPT !.status = "AWAITING_INVENTORY"]
    BY <1>2 DEF Apply
  <2>. QED
    BY <1>2, <2>1 DEF OrderState, OrderStatus, NewStatus
<1>3. CASE e.type = "INVENTORY_RESERVED"
  <2>1. n = [o EXCEPT !.status = "INVENTORY_RESERVED"]
    BY <1>3 DEF Apply
  <2>. QED
    BY <1>3, <2>1 DEF OrderState, OrderStatus, NewStatus
<1>4. CASE e.type = "INVENTORY_FAILED"
  <2>1. n = [o EXCEPT !.status = "INVENTORY_FAILED"]
    BY <1>4 DEF Apply
  <2>. QED
    BY <1>4, <2>1 DEF OrderState, OrderStatus, NewStatus
<1>5. CASE e.type = "PAID" /\ e.payment \in Payments
  <2>1. n = [o EXCEPT !.status = "PAID", !.payment = e.payment]
    BY <1>5 DEF Apply
  <2>. QED
    BY <1>5, <2>1 DEF OrderState, OrderStatus, NewStatus
<1>6. CASE e.type = "PAYMENT_FAILED" /\ e.n = o.failures + 1 /\ o.failures < MaxPaymentFailures
  <2>1. n = [o EXCEPT !.failures = e.n]
    BY <1>6 DEF Apply
  <2>. QED
    BY <1>6, <2>1, MaxPaymentFailuresAssumption DEF OrderState, OrderStatus, NewStatus
<1>7. CASE e.type = "CANCELLED"
  <2>1. n = [o EXCEPT !.status = "CANCELLED"]
    BY <1>7 DEF Apply
  <2>. QED
    BY <1>7, <2>1 DEF OrderState, OrderStatus, NewStatus
<1>8. CASE e.type = "SHIPPED"
  <2>1. n = [o EXCEPT !.status = "SHIPPED"]
    BY <1>8 DEF Apply
  <2>. QED
    BY <1>8, <2>1 DEF OrderState, OrderStatus, NewStatus
<1>. QED
  BY <1>1, <1>2, <1>3, <1>4, <1>5, <1>6, <1>7, <1>8 DEF MayFollow

(* Each part of Telling, after one more event.                             *)
LEMMA ItemsStep ==
  ASSUME NEW o \in OrderState, NEW s, NEW t, NEW e, OneMore(t, s, e), MayFollow(o, e),
         ItemsAdded(s, o)
  PROVE  ItemsAdded(t, Apply(o, e))
<1> DEFINE n == Apply(o, e)
           I == At(s, "ITEM_ADDED")
           J == At(t, "ITEM_ADDED")
           C == At(s, "CONFIRMED")
           D == At(t, "CONFIRMED")
<1>1. /\ n.status = NewStatus(o, e)
      /\ n.items = IF e.type = "ITEM_ADDED" THEN o.items + 1 ELSE o.items
  BY ApplyFields
<1>2. /\ e.type = "ITEM_ADDED" => J = I \union {Len(t)} /\ Cardinality(J) = Cardinality(I) + 1
      /\ e.type # "ITEM_ADDED" => J = I
      /\ \A v \in I : v < Len(t)
  BY AtFacts
<1>3. /\ e.type = "CONFIRMED" => D = C \union {Len(t)}
      /\ e.type # "CONFIRMED" => D = C
      /\ \A v \in C : t[v] = s[v]
  BY AtFacts
<1>4. /\ o.items = Cardinality(I)
      /\ \A v \in C : s[v].n = o.items /\ \A i \in I : i < v
      /\ C # {} => o.status # "DRAFT"
  BY DEF ItemsAdded
<1>5. t[Len(t)] = e
  BY DEF OneMore
<1> HIDE DEF n, I, J, C, D
<1>6. n.items = Cardinality(J)
  BY <1>1, <1>2, <1>4
<1>7. \A v \in D : t[v].n = n.items /\ \A i \in J : i < v
  BY <1>1, <1>2, <1>3, <1>4, <1>5 DEF MayFollow
<1>8. D # {} => n.status # "DRAFT"
  BY <1>1, <1>3, <1>4 DEF MayFollow, NewStatus
<1>. QED
  BY <1>6, <1>7, <1>8 DEF ItemsAdded, n, J, D

LEMMA PaidStep ==
  ASSUME NEW o \in OrderState, NEW s, NEW t, NEW e, OneMore(t, s, e), MayFollow(o, e),
         PaidOnce(s, o)
  PROVE  PaidOnce(t, Apply(o, e))
<1> DEFINE n == Apply(o, e)
           P == At(s, "PAID")
           Q == At(t, "PAID")
           S == At(s, "SHIPPED")
           T == At(t, "SHIPPED")
<1>1. /\ n.status = NewStatus(o, e)
      /\ n.payment = IF e.type = "PAID" THEN e.payment ELSE o.payment
  BY ApplyFields
<1>2. /\ e.type = "PAID" => Q = P \union {Len(t)}
      /\ e.type # "PAID" => Q = P
      /\ \A v \in P : t[v] = s[v]
  BY AtFacts
<1>3. /\ e.type = "SHIPPED" => T = S \union {Len(t)}
      /\ e.type # "SHIPPED" => T = S
  BY AtFacts
<1>4. /\ \/ P = {} /\ o.payment = NoPayment
         \/ \E v \in DOMAIN s : P = {v} /\ o.payment = s[v].payment
      /\ P # {} => o.status \in {"PAID", "SHIPPED", "CANCELLED"}
      /\ o.status \in {"PAID", "SHIPPED"} => P # {}
      /\ S # {} => o.status = "SHIPPED"
  BY DEF PaidOnce
<1>5. t[Len(t)] = e /\ Len(t) \in DOMAIN t /\ DOMAIN s \subseteq DOMAIN t
  BY DEF OneMore
<1> HIDE DEF n, P, Q, S, T
<1>6. \/ Q = {} /\ n.payment = NoPayment
      \/ \E v \in DOMAIN t : Q = {v} /\ n.payment = t[v].payment
  <2>1. CASE e.type = "PAID"
    BY <1>1, <1>2, <1>4, <1>5, <2>1 DEF MayFollow
  <2>2. CASE e.type # "PAID"
    BY <1>1, <1>2, <1>4, <1>5, <2>2
  <2>. QED
    BY <2>1, <2>2
<1>7. /\ Q # {} => n.status \in {"PAID", "SHIPPED", "CANCELLED"}
      /\ n.status \in {"PAID", "SHIPPED"} => Q # {}
  BY <1>1, <1>2, <1>4 DEF MayFollow, NewStatus
<1>8. T # {} => n.status = "SHIPPED"
  BY <1>1, <1>3, <1>4 DEF MayFollow, NewStatus
<1>. QED
  BY <1>6, <1>7, <1>8 DEF PaidOnce, n, Q, T

LEMMA CancelledStep ==
  ASSUME NEW o \in OrderState, NEW s, NEW t, NEW e, OneMore(t, s, e), MayFollow(o, e),
         CancelledLast(s, o)
  PROVE  CancelledLast(t, Apply(o, e))
<1> DEFINE n == Apply(o, e)
           C == At(s, "CANCELLED")
           D == At(t, "CANCELLED")
<1>1. /\ n.status = NewStatus(o, e)
      /\ n.payment = IF e.type = "PAID" THEN e.payment ELSE o.payment
  BY ApplyFields
<1>2. /\ e.type = "CANCELLED" => D = C \union {Len(t)}
      /\ e.type # "CANCELLED" => D = C
  BY AtFacts
<1>3. C = {} /\ o.status # "CANCELLED"
  BY DEF CancelledLast, MayFollow
<1>4. t[Len(t)] = e
  BY DEF OneMore
<1> HIDE DEF n, C, D
<1>5. /\ \A v \in D : v = Len(t) /\ t[v].payment = n.payment
      /\ D # {} <=> n.status = "CANCELLED"
  BY <1>1, <1>2, <1>3, <1>4 DEF MayFollow, NewStatus
<1>. QED
  BY <1>5 DEF CancelledLast, n, D

LEMMA FailuresStep ==
  ASSUME NEW o \in OrderState, NEW s, NEW t, NEW e, OneMore(t, s, e), Follows(o, e),
         FailuresNumbered(s, o)
  PROVE  FailuresNumbered(t, Apply(o, e))
<1> DEFINE n == Apply(o, e)
           F == At(s, "PAYMENT_FAILED")
           G == At(t, "PAYMENT_FAILED")
           UpToIn(A, v) == {u \in A : u <= v}
<1>1. n.failures = IF e.type = "PAYMENT_FAILED" THEN o.failures + 1 ELSE o.failures
  BY ApplyFields DEF Follows
<1>2. /\ e.type = "PAYMENT_FAILED" =>
           G = F \union {Len(t)} /\ Cardinality(G) = Cardinality(F) + 1
      /\ e.type # "PAYMENT_FAILED" => G = F
      /\ \A v \in F : v \in 1 .. Len(s) /\ v < Len(t) /\ t[v] = s[v]
      /\ IsFiniteSet(F)
  BY AtFacts
<1>3. /\ o.failures = Cardinality(F)
      /\ \A v \in F : /\ s[v].n = Cardinality(UpToIn(F, v))
                      /\ s[v].n = MaxPaymentFailures /\ v # Len(s) =>
                           s[v + 1].type = "CANCELLED"
  BY DEF FailuresNumbered
<1>4. /\ Len(s) \in Nat /\ Len(t) = Len(s) + 1 /\ t[Len(t)] = e
      /\ \A v \in 1 .. Len(s) : t[v] = s[v]
  BY DEF OneMore
<1> HIDE DEF n, F, G
<1>5. n.failures = Cardinality(G)
  BY <1>1, <1>2, <1>3
<1>6. \A v \in G : t[v].n = Cardinality(UpToIn(G, v))
  <2>1. \A v \in F : UpToIn(G, v) = UpToIn(F, v)
    BY <1>2, <1>4
  <2>2. e.type = "PAYMENT_FAILED" => UpToIn(G, Len(t)) = G
    BY <1>2, <1>4
  <2>3. e.type = "PAYMENT_FAILED" => e.n = Cardinality(G)
    BY <1>1, <1>5 DEF Follows, MayFollow
  <2> HIDE DEF UpToIn
  <2>. QED
    BY <1>2, <1>3, <1>4, <2>1, <2>2, <2>3
<1>7. ASSUME NEW v \in G, t[v].n = MaxPaymentFailures, v # Len(t)
      PROVE  t[v + 1].type = "CANCELLED"
  <2>1. v \in F /\ v \in 1 .. Len(s) /\ s[v].n = MaxPaymentFailures
    BY <1>2, <1>7
  <2>2. CASE v # Len(s)
    <3>1. v + 1 \in 1 .. Len(s)
      BY <1>4, <2>1, <2>2
    <3>. QED
      BY <1>3, <1>4, <2>1, <2>2, <3>1
  <2>3. CASE v = Len(s)
    <3>1. UpToIn(F, v) = F
      BY <1>2, <1>4, <2>3
    <3>2. o.failures = MaxPaymentFailures
      BY <1>3, <2>1, <3>1
    <3>3. e.type = "CANCELLED"
      BY <3>2, MaxPaymentFailuresAssumption DEF Follows
    <3>. QED
      BY <1>4, <2>3, <3>3
  <2>. QED
    BY <2>2, <2>3
<1>. QED
  BY <1>5, <1>6, <1>7 DEF FailuresNumbered, n, G

LEMMA TellingStep ==
  ASSUME NEW S, NEW s \in Seq(S), NEW e \in S, Telling(s), Follows(Rehydrate(s), e)
  PROVE  /\ Telling(Append(s, e))
         /\ Rehydrate(Append(s, e)).status = NewStatus(Rehydrate(s), e)
         /\ Rehydrate(Append(s, e)).failures =
              IF e.type = "PAYMENT_FAILED" THEN Rehydrate(s).failures + 1
                                           ELSE Rehydrate(s).failures
<1> DEFINE t == Append(s, e)
           o == Rehydrate(s)
<1>1. OneMore(t, s, e) /\ Rehydrate(t) = Apply(o, e)
  BY AppendIsOneMore, RehydrateAppend
<1>2. /\ o \in OrderState /\ ItemsAdded(s, o) /\ PaidOnce(s, o) /\ CancelledLast(s, o)
      /\ FailuresNumbered(s, o)
  BY DEF Telling
<1>3. MayFollow(o, e) /\ Follows(o, e)
  BY DEF Follows
<1> HIDE DEF t, o
<1>4. /\ Apply(o, e) \in OrderState /\ ItemsAdded(t, Apply(o, e)) /\ PaidOnce(t, Apply(o, e))
      /\ CancelledLast(t, Apply(o, e)) /\ FailuresNumbered(t, Apply(o, e))
  BY <1>1, <1>2, <1>3, ApplyFields, ItemsStep, PaidStep, CancelledStep, FailuresStep
<1>5. Telling(t)
  BY <1>1, <1>4 DEF Telling
<1>. QED
  BY <1>1, <1>2, <1>3, <1>5, ApplyFields DEF t, o

-----------------------------------------------------------------------------
(* What a command raises on order o: one event that may follow, or the     *)
(* last permitted failure and the cancellation.                            *)
RaisesOne(o, b) ==
  \E e : /\ b = <<e>> /\ MayFollow(o, e)
         /\ e.type = "PAYMENT_FAILED" => o.failures + 1 < MaxPaymentFailures
RaisesTwo(o, b) ==
  \E f, c : /\ b = <<f, c>> /\ o.status = "INVENTORY_RESERVED"
            /\ f.type = "PAYMENT_FAILED" /\ f.n = o.failures + 1
            /\ c.type = "CANCELLED" /\ c.payment = o.payment

LEMMA MethodRaises ==
  ASSUME NEW o \in OrderState, NEW b,
         \/ b \in AddItem(o) \/ b \in Confirm(o) \/ b \in MarkInventoryReserved(o)
         \/ b \in MarkInventoryFailed(o) \/ b \in Cancel(o) \/ b \in Ship(o)
         \/ \E p \in Payments : b \in MarkPaid(o, p)
         \/ \E p \in Payments : b \in RecordPaymentFailed(o, p)
  PROVE  RaisesOne(o, b) \/ RaisesTwo(o, b)
<1>1. CASE b \in AddItem(o)
  <2>1. o.status = "DRAFT" /\ b = <<Event("ITEM_ADDED")>>
    BY <1>1 DEF AddItem, When
  <2>2. Event("ITEM_ADDED").type = "ITEM_ADDED"
    BY DEF Event
  <2>. QED
    BY <2>1, <2>2 DEF RaisesOne, MayFollow
<1>2. CASE b \in Confirm(o)
  <2> DEFINE e == [Event("CONFIRMED") EXCEPT !.n = o.items]
  <2>1. o.status = "DRAFT" /\ b = <<e>>
    BY <1>2 DEF Confirm, When
  <2>2. e.type = "CONFIRMED" /\ e.n = o.items
    BY DEF Event
  <2>. HIDE DEF e
  <2>. QED
    BY <2>1, <2>2 DEF RaisesOne, MayFollow
<1>3. CASE b \in MarkInventoryReserved(o)
  <2>1. PICK e : o.status = "AWAITING_INVENTORY" /\ b = <<e>> /\ e.type = "INVENTORY_RESERVED"
    BY <1>3, MarkInventoryReservedEffect
  <2>. QED
    BY <2>1 DEF RaisesOne, MayFollow
<1>4. CASE b \in MarkInventoryFailed(o)
  <2>1. PICK e : o.status = "AWAITING_INVENTORY" /\ b = <<e>> /\ e.type = "INVENTORY_FAILED"
    BY <1>4, MarkInventoryFailedEffect
  <2>. QED
    BY <2>1 DEF RaisesOne, MayFollow
<1>5. CASE b \in Cancel(o)
  <2>1. PICK e : /\ o.status \notin {"CANCELLED", "SHIPPED"} /\ b = <<e>>
                 /\ e.type = "CANCELLED" /\ e.payment = o.payment
    BY <1>5, CancelEffect
  <2>. QED
    BY <2>1 DEF RaisesOne, MayFollow
<1>6. CASE b \in Ship(o)
  <2>1. PICK e : o.status = "PAID" /\ b = <<e>> /\ e.type = "SHIPPED"
    BY <1>6, ShipEffect
  <2>. QED
    BY <2>1 DEF RaisesOne, MayFollow
<1>7. ASSUME NEW p \in Payments, b \in MarkPaid(o, p) PROVE RaisesOne(o, b)
  <2> DEFINE e == [Event("PAID") EXCEPT !.payment = p]
  <2>1. o.status = "INVENTORY_RESERVED" /\ b = <<e>>
    BY <1>7 DEF MarkPaid, When
  <2>2. e.type = "PAID" /\ e.payment = p
    BY DEF Event
  <2>. HIDE DEF e
  <2>. QED
    BY <2>1, <2>2 DEF RaisesOne, MayFollow
<1>8. ASSUME NEW p \in Payments, b \in RecordPaymentFailed(o, p)
      PROVE  RaisesOne(o, b) \/ RaisesTwo(o, b)
  <2>1. FailureCounted(o, b)
    BY <1>8, RecordPaymentFailedEffect
  <2>2. o.status = "INVENTORY_RESERVED" /\ o.failures \in Nat /\ MaxPaymentFailures \in Nat
    BY <2>1, MaxPaymentFailuresAssumption DEF FailureCounted, OrderState
  <2>3. ASSUME o.failures + 1 < MaxPaymentFailures,
               NEW f, b = <<f>>, f.type = "PAYMENT_FAILED", f.n = o.failures + 1
        PROVE  RaisesOne(o, b)
    <3>1. MayFollow(o, f)
      BY <2>2, <2>3 DEF MayFollow
    <3>. QED
      BY <2>3, <3>1 DEF RaisesOne
  <2>4. ASSUME NEW f, NEW c, b = <<f, c>>, f.type = "PAYMENT_FAILED", f.n = o.failures + 1,
               c.type = "CANCELLED", c.payment = o.payment
        PROVE  RaisesTwo(o, b)
    BY <2>2, <2>4 DEF RaisesTwo
  <2>. QED
    BY <2>1, <2>3, <2>4 DEF FailureCounted
<1>. QED
  BY <1>1, <1>2, <1>3, <1>4, <1>5, <1>6, <1>7, <1>8

LEMMA CommandRaises ==
  ASSUME NEW s, s # <<>>, Rehydrate(s) \in OrderState, NEW c \in OrderCommands,
         NEW b \in OrderRaises(s, c)
  PROVE  RaisesOne(Rehydrate(s), b) \/ RaisesTwo(Rehydrate(s), b)
<1> DEFINE o == Rehydrate(s)
<1> HIDE DEF o
<1>1. c.name \in {"MarkPaid", "RecordPaymentFailed"} => c.payment \in Payments
  BY DEF OrderCommands
<1>2. \/ b \in AddItem(o) \/ b \in Confirm(o) \/ b \in MarkInventoryReserved(o)
      \/ b \in MarkInventoryFailed(o) \/ b \in Cancel(o) \/ b \in Ship(o)
      \/ c.name = "MarkPaid" /\ b \in MarkPaid(o, c.payment)
      \/ c.name = "RecordPaymentFailed" /\ b \in RecordPaymentFailed(o, c.payment)
  BY DEF OrderRaises, OrderCommands, o
<1>. QED
  BY <1>1, <1>2, MethodRaises DEF o

(* A stream's life goes on with every batch a command raises.              *)
LEMMA LifeGoesOn ==
  ASSUME NEW S, NEW s \in Seq(S), s # <<>>, Life(s), NEW c \in OrderCommands,
         NEW b \in OrderRaises(s, c), b \in Seq(S)
  PROVE  Life(s \o b)
<1> DEFINE o == Rehydrate(s)
<1>1. Telling(s) /\ o \in OrderState /\ (o.status # "CANCELLED" => o.failures < MaxPaymentFailures)
  BY DEF Life, Telling
<1>2. o.failures \in Nat /\ MaxPaymentFailures \in Nat
  BY <1>1, MaxPaymentFailuresAssumption DEF OrderState
<1>3. ASSUME RaisesOne(o, b) PROVE Life(s \o b)
  <2>1. PICK e : /\ b = <<e>> /\ MayFollow(o, e)
                 /\ e.type = "PAYMENT_FAILED" => o.failures + 1 < MaxPaymentFailures
    BY <1>3 DEF RaisesOne
  <2>2. e \in S /\ s \o b = Append(s, e)
    BY <2>1
  <2>3. o.status # "CANCELLED"
    BY <2>1 DEF MayFollow
  <2>4. Follows(o, e)
    BY <1>1, <2>1, <2>3 DEF Follows
  <2>5. /\ Telling(Append(s, e))
        /\ Rehydrate(Append(s, e)).failures =
             IF e.type = "PAYMENT_FAILED" THEN o.failures + 1 ELSE o.failures
    BY <1>1, <2>2, <2>4, TellingStep
  <2>6. Rehydrate(Append(s, e)).failures < MaxPaymentFailures
    BY <1>1, <2>1, <2>3, <2>5
  <2>. QED
    BY <2>2, <2>5, <2>6 DEF Life
<1>4. ASSUME RaisesTwo(o, b) PROVE Life(s \o b)
  <2>1. PICK f, d : /\ b = <<f, d>> /\ o.status = "INVENTORY_RESERVED"
                    /\ f.type = "PAYMENT_FAILED" /\ f.n = o.failures + 1
                    /\ d.type = "CANCELLED" /\ d.payment = o.payment
    BY <1>4 DEF RaisesTwo
  <2> DEFINE t == Append(s, f)
  <2>2. f \in S /\ d \in S /\ t \in Seq(S) /\ s \o b = Append(t, d)
    BY <2>1
  <2>3. Follows(o, f)
    BY <1>1, <1>2, <2>1 DEF Follows, MayFollow
  <2>4. /\ Telling(t) /\ Rehydrate(t).status = "INVENTORY_RESERVED"
        /\ Rehydrate(t) = Apply(o, f)
    BY <1>1, <2>1, <2>2, <2>3, TellingStep, RehydrateAppend DEF NewStatus
  <2>5. Rehydrate(t).payment = o.payment
    BY <1>1, <2>1, <2>3, <2>4, ApplyFields DEF Follows
  <2> HIDE DEF t
  <2>6. Follows(Rehydrate(t), d)
    BY <2>1, <2>4, <2>5 DEF Follows, MayFollow
  <2>7. Telling(Append(t, d)) /\ Rehydrate(Append(t, d)).status = "CANCELLED"
    BY <2>1, <2>2, <2>4, <2>6, TellingStep DEF NewStatus
  <2>. QED
    BY <2>2, <2>7 DEF Life
<1>. QED
  BY <1>1, <1>3, <1>4, CommandRaises

(* A new order's stream.                                                   *)
LEMMA NoEventsAt ==
  ASSUME NEW x
  PROVE  At(<<>>, x) = {} /\ Cardinality(At(<<>>, x)) = 0
BY FS_EmptySet DEF At

LEMMA EmptyLife == Life(<<>>) /\ Rehydrate(<<>>) = NewOrder
<1>1. Rehydrate(<<>>) = NewOrder
  BY ReplayEmpty DEF Rehydrate
<1>2. NewOrder \in OrderState /\ 0 < MaxPaymentFailures
  BY MaxPaymentFailuresAssumption DEF NewOrder, OrderState, OrderStatus
<1>. QED
  BY <1>1, <1>2, NoEventsAt DEF Life, Telling, ItemsAdded, PaidOnce, CancelledLast,
     FailuresNumbered, NewOrder

LEMMA LifeBegins ==
  ASSUME NEW c \in OrderCommands, NEW b \in OrderRaises(<<>>, c)
  PROVE  Life(b)
<1> DEFINE e == Event("CREATED")
           t == <<e>>
<1>1. b = t
  BY DEF OrderRaises, When
<1>2. e.type = "CREATED"
  BY DEF Event
<1>3. Rehydrate(t) = NewOrder
  <2>1. Rehydrate(t) = Apply(NewOrder, e)
    BY ReplayOne DEF Rehydrate
  <2>2. Apply(NewOrder, e) = NewOrder
    BY <1>2 DEF Apply, NewOrder
  <2>. QED
    BY <2>1, <2>2
<1>4. NewOrder \in OrderState /\ 0 < MaxPaymentFailures
  BY MaxPaymentFailuresAssumption DEF NewOrder, OrderState, OrderStatus
<1>5. \A x : x # "CREATED" => At(t, x) = {}
  BY <1>2 DEF At
<1> HIDE DEF e, t
<1>6. Telling(t)
  <2>1. /\ At(t, "ITEM_ADDED") = {} /\ At(t, "CONFIRMED") = {} /\ At(t, "PAID") = {}
        /\ At(t, "SHIPPED") = {} /\ At(t, "CANCELLED") = {} /\ At(t, "PAYMENT_FAILED") = {}
        /\ Cardinality({}) = 0
    BY <1>5, FS_EmptySet
  <2>2. ItemsAdded(t, NewOrder) /\ PaidOnce(t, NewOrder)
    BY <2>1 DEF ItemsAdded, PaidOnce, NewOrder
  <2>3. CancelledLast(t, NewOrder) /\ FailuresNumbered(t, NewOrder)
    BY <2>1 DEF CancelledLast, FailuresNumbered, NewOrder
  <2>. QED
    BY <1>3, <1>4, <2>2, <2>3 DEF Telling
<1>. QED
  BY <1>1, <1>3, <1>4, <1>6 DEF Life, NewOrder

-----------------------------------------------------------------------------
(* Handlers that race keep every stream a life.                            *)
LEMMA InitLife == Init => IInv
BY InitHistory, EmptyLife DEF Init, IInv

LEMMA StepLife == OrderDomain /\ IInv /\ [Next]_vars => IInv'
<1> SUFFICES ASSUME OrderDomain, IInv, [Next]_vars PROVE IInv'
  OBVIOUS
<1>1. HistoryInv' /\ HistoryInv
  BY HistoryStep DEF IInv
<1>2. CASE events' = events
  BY <1>1, <1>2 DEF IInv
<1>3. CASE events' # events
  <2>0. PICK a \in Aggregates, c \in Commands : \E b \in Raises(events[a], c) :
          /\ b \in Seq(Events) \ {<<>>}
          /\ events' = [events EXCEPT ![a] = @ \o b]
    BY <1>1, <1>3, CommitExecutes
  <2>1. PICK b \in Raises(events[a], c) :
          b \in Seq(Events) /\ events' = [events EXCEPT ![a] = @ \o b]
    BY <2>0
  <2> DEFINE s == events[a]
  <2>2. s \in Seq(Events) /\ Life(s) /\ events \in [Aggregates -> Seq(Events)]
    BY <1>1 DEF HistoryInv, TypeOK, IInv
  <2>3. c \in OrderCommands /\ b \in OrderRaises(s, c)
    BY <2>1, <2>2 DEF OrderDomain
  <2> HIDE DEF s
  <2>4. s = <<>> => Life(s \o b)
    <3>. SUFFICES ASSUME s = <<>> PROVE Life(s \o b)
      OBVIOUS
    <3>1. s \o b = b
      BY <2>1
    <3>2. Life(b)
      BY <2>3, LifeBegins
    <3>. QED
      BY <3>1, <3>2
  <2>5. Life(s \o b)
    BY <2>1, <2>2, <2>3, <2>4, LifeGoesOn
  <2>6. \A d \in Aggregates : Life(events'[d])
    BY <2>1, <2>2, <2>5 DEF IInv, s
  <2>. QED
    BY <1>1, <2>6 DEF IInv
<1>. QED
  BY <1>2, <1>3

(* The inductive invariant of the order service's streams.                 *)
THEOREM StreamsTellLives == ASSUME OrderDomain PROVE Spec => []IInv
BY InitLife, StepLife, PTL DEF Spec

LEMMA LifeFacts ==
  ASSUME IInv, NEW a \in Aggregates
  PROVE  LET o == Rehydrate(events[a]) IN
         /\ events[a] \in Seq(Events) /\ Life(events[a])
         /\ o \in OrderState /\ ItemsAdded(events[a], o) /\ PaidOnce(events[a], o)
         /\ CancelledLast(events[a], o) /\ FailuresNumbered(events[a], o)
BY DEF IInv, HistoryInv, TypeOK, Life, Telling

(* The items an order's confirmation announces are the items added to it:  *)
(* addItem and confirm never interleave on the same stream.                *)
THEOREM ConfirmationCountsTheItems ==
  ASSUME OrderDomain PROVE Spec => []ConfirmedItemsAreTheItemsAdded
<1>1. IInv => ConfirmedItemsAreTheItemsAdded
  BY LifeFacts DEF ItemsAdded, ConfirmedItemsAreTheItemsAdded
<1>. QED
  BY <1>1, StreamsTellLives, PTL

(* markPaid, ship, cancel and recordPaymentFailed, executed by handlers    *)
(* that race, give every order one life.                                   *)
THEOREM OrdersLiveOnce == ASSUME OrderDomain PROVE Spec => []OrderLifeCycle
<1>1. IInv => ShippedOrderWasPaid
  <2>. SUFFICES ASSUME IInv, NEW a \in Aggregates
                PROVE  /\ Cardinality(At(events[a], "PAID")) <= 1
                       /\ At(events[a], "SHIPPED") # {} =>
                            /\ At(events[a], "PAID") # {}
                            /\ At(events[a], "CANCELLED") = {}
    BY DEF ShippedOrderWasPaid
  <2>1. /\ PaidOnce(events[a], Rehydrate(events[a]))
        /\ CancelledLast(events[a], Rehydrate(events[a]))
    BY LifeFacts
  <2>2. Cardinality(At(events[a], "PAID")) <= 1
    BY <2>1, FS_EmptySet, FS_Singleton DEF PaidOnce
  <2>. QED
    BY <2>1, <2>2 DEF PaidOnce, CancelledLast
<1>2. IInv => CancellationIsFinalAndRefundable
  <2>. SUFFICES ASSUME IInv, NEW a \in Aggregates, NEW v \in At(events[a], "CANCELLED")
                PROVE  /\ v = Len(events[a])
                       /\ events[a][v].payment =
                            IF At(events[a], "PAID") = {} THEN NoPayment
                            ELSE events[a][CHOOSE p \in At(events[a], "PAID") : TRUE].payment
    BY DEF CancellationIsFinalAndRefundable
  <2>. DEFINE s == events[a]
  <2>1. PaidOnce(s, Rehydrate(s)) /\ CancelledLast(s, Rehydrate(s))
    BY LifeFacts
  <2>2. v = Len(s) /\ s[v].payment = Rehydrate(s).payment
    BY <2>1 DEF CancelledLast
  <2>. HIDE DEF s
  <2>3. ASSUME NEW u, At(s, "PAID") = {u}
        PROVE  (CHOOSE p \in At(s, "PAID") : TRUE) = u
    BY <2>3
  <2>4. Rehydrate(s).payment =
          IF At(s, "PAID") = {} THEN NoPayment
          ELSE s[CHOOSE p \in At(s, "PAID") : TRUE].payment
    BY <2>1, <2>3 DEF PaidOnce
  <2>. QED
    BY <2>2, <2>4 DEF s
<1>3. IInv => PaymentFailuresAreCounted
  <2>. SUFFICES ASSUME IInv, NEW a \in Aggregates, NEW v \in At(events[a], "PAYMENT_FAILED")
                PROVE  /\ events[a][v].n =
                            Cardinality({u \in At(events[a], "PAYMENT_FAILED") : u <= v})
                       /\ events[a][v].n <= MaxPaymentFailures
                       /\ events[a][v].n = MaxPaymentFailures =>
                            v < Len(events[a]) /\ events[a][v + 1].type = "CANCELLED"
    BY DEF PaymentFailuresAreCounted
  <2>. DEFINE s == events[a]
              o == Rehydrate(s)
              F == At(s, "PAYMENT_FAILED")
              U == {u \in F : u <= v}
  <2>1. /\ s \in Seq(Events) /\ Life(s) /\ o \in OrderState
        /\ CancelledLast(s, o) /\ FailuresNumbered(s, o)
    BY LifeFacts
  <2>0. v \in At(s, "PAYMENT_FAILED")
    OBVIOUS
  <2>. HIDE DEF s, o
  <2>2. /\ o.failures = Cardinality(F) /\ s[v].n = Cardinality(U)
        /\ s[v].n = MaxPaymentFailures /\ v # Len(s) => s[v + 1].type = "CANCELLED"
    BY <2>0, <2>1 DEF FailuresNumbered
  <2>3. v \in 1 .. Len(s) /\ s[v].type = "PAYMENT_FAILED" /\ Len(s) \in Nat
        /\ F \subseteq 1 .. Len(s)
    BY <2>0, <2>1 DEF At
  <2>4. IsFiniteSet(F)
    <3>1. IsFiniteSet(1 .. Len(s))
      BY <2>3, FS_Interval
    <3>. HIDE DEF F
    <3>. QED
      BY <2>3, <3>1, FS_Subset
  <2>5. Cardinality(U) <= Cardinality(F)
    BY <2>4, FS_Subset
  <2>6. o.failures <= MaxPaymentFailures /\ o.failures \in Nat
    BY <2>1, MaxPaymentFailuresAssumption DEF OrderState
  <2>7. s[v].n = MaxPaymentFailures => v # Len(s)
    <3>. SUFFICES ASSUME v = Len(s), s[v].n = MaxPaymentFailures PROVE FALSE
      OBVIOUS
    <3>1. U = F
      BY <2>3
    <3>2. o.status = "CANCELLED"
      <4>1. o.failures = MaxPaymentFailures
        BY <2>2, <3>1
      <4>2. o.status # "CANCELLED" => o.failures < MaxPaymentFailures
        BY <2>1 DEF Life, o
      <4>. QED
        BY <2>6, <4>1, <4>2, MaxPaymentFailuresAssumption
    <3>3. At(s, "CANCELLED") # {}
      BY <2>1, <3>2 DEF CancelledLast
    <3>4. s[v].type = "CANCELLED"
      BY <2>1, <3>3 DEF CancelledLast, At
    <3>. QED
      BY <2>3, <3>4
  <2>. QED
    BY <2>2, <2>3, <2>4, <2>5, <2>6, <2>7, FS_CardinalityType, FS_Subset,
       MaxPaymentFailuresAssumption DEF s
<1>. QED
  BY <1>1, <1>2, <1>3, StreamsTellLives, PTL DEF OrderLifeCycle
=============================================================================
