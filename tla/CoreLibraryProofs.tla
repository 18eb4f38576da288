------------------------- MODULE CoreLibraryProofs -------------------------
(***************************************************************************)
(* Theorems about the parts of libs/core: snapshots, messaging, circuit    *)
(* breaker, gateway, bulkhead, rate limiter, cache and versions, for any   *)
(* number of handlers, channels, calls, services, keys and versions and    *)
(* any limits.                                                             *)
(***************************************************************************)
EXTENDS MCCoreLibrary, FiniteSetTheorems, SequenceTheorems, WellFoundedInduction, TLAPS

(* Snapshots.  The event at version v is v, so that every stream and every *)
(* replay of one counts.                                                   *)
Count(n) == [i \in 1 .. n |-> i]

LEMMA CountIsSequence ==
  ASSUME NEW n \in Nat
  PROVE  /\ Count(n) \in Seq(Nat)
         /\ Len(Count(n)) = n
         /\ \A i \in 1 .. n : Count(n)[i] = i
BY DEF Count

LEMMA CountsAreEqual ==
  ASSUME NEW s \in Seq(Nat), NEW n \in Nat, Len(s) = n, \A i \in 1 .. n : s[i] = i
  PROVE  s = Count(n)
BY DEF Count

LEMMA CountsJoin ==
  ASSUME NEW n \in Nat, NEW k \in Nat, NEW a \in Seq(Nat), NEW b \in Seq(Nat),
         Len(a) = n, \A i \in 1 .. n : a[i] = i,
         Len(b) = k, \A i \in 1 .. k : b[i] = n + i
  PROVE  a \o b = Count(n + k)
<1> DEFINE c == a \o b
<1>1. c \in Seq(Nat) /\ Len(c) = n + k
  BY ConcatProperties
<1>2. \A i \in 1 .. n + k : c[i] = IF i <= n THEN a[i] ELSE b[i - n]
  BY ConcatProperties
<1> HIDE DEF c
<1>3. \A i \in 1 .. n + k : c[i] = i
  BY <1>2
<1>4. c = Count(n + k)
  BY <1>1, <1>3, CountsAreEqual
<1> QED BY <1>4 DEF c

(* What loadFromHistory applies after a snapshot completes the history.    *)
LEMMA PrefixAndRest ==
  ASSUME NEW n \in Nat, NEW v \in 0 .. n
  PROVE  LET rest == SubSeq(Count(n), v + 1, n)
         IN /\ SubSeq(Count(n), 1, v) = Count(v)
            /\ Count(v) \o rest = Count(n)
            /\ IF rest = <<>> THEN v = n ELSE rest[Len(rest)] = n
<1> DEFINE s == Count(n)
           a == SubSeq(s, 1, v)
           b == SubSeq(s, v + 1, n)
<1>1. s \in Seq(Nat) /\ Len(s) = n /\ \A i \in 1 .. n : s[i] = i
  BY CountIsSequence
<1>2. a \in Seq(Nat) /\ Len(a) = v /\ \A i \in 1 .. v : a[i] = i
  <2> HIDE DEF s
  <2>1. \A i \in 1 .. v : s[i] \in Nat
    BY <1>1
  <2> QED BY <1>1, <2>1, SubSeqProperties
<1>3. b \in Seq(Nat) /\ Len(b) = n - v /\ \A i \in 1 .. n - v : b[i] = v + i
  <2> DEFINE m == v + 1
  <2>1. m \in 1 .. n + 1
    OBVIOUS
  <2>2. \A i \in m .. n : s[i] = i /\ s[i] \in Nat
    BY <1>1
  <2> HIDE DEF s, m
  <2> DEFINE c == SubSeq(s, m, n)
  <2>3. /\ c \in Seq(Nat)
        /\ Len(c) = IF m <= n THEN n - m + 1 ELSE 0
        /\ \A i \in 1 .. n - m + 1 : c[i] = s[m + i - 1]
    BY <2>1, <2>2, SubSeqProperties
  <2> HIDE DEF c
  <2>4. \A i \in 1 .. n - m + 1 : c[i] = m + i - 1
    BY <2>1, <2>2, <2>3
  <2>5. c \in Seq(Nat) /\ Len(c) = n - v /\ \A i \in 1 .. n - v : c[i] = v + i
    BY <2>1, <2>3, <2>4 DEF m
  <2> QED BY <2>5 DEF c, m
<1>4. a = Count(v)
  <2> HIDE DEF a
  <2> QED BY <1>2, CountsAreEqual
<1>5. a \o b = Count(n)
  <2> HIDE DEF a, b
  <2>0. n - v \in Nat /\ v \in Nat
    OBVIOUS
  <2>1. a \o b = Count(v + (n - v))
    BY <1>2, <1>3, <2>0, CountsJoin, ZenonT(60)
  <2>2. v + (n - v) = n
    OBVIOUS
  <2> QED BY <2>1, <2>2
<1>6. IF b = <<>> THEN v = n ELSE b[Len(b)] = n
  <2> HIDE DEF b
  <2> QED BY <1>3
<1> QED BY <1>4, <1>5, <1>6

LEMMA CountGrows ==
  ASSUME NEW n \in Nat, NEW k \in Nat
  PROVE  Count(n) \o [i \in 1 .. k |-> n + i] = Count(n + k)
<1> DEFINE a == Count(n)
           b == [i \in 1 .. k |-> n + i]
<1>1. a \in Seq(Nat) /\ Len(a) = n /\ \A i \in 1 .. n : a[i] = i
  BY CountIsSequence
<1>2. b \in Seq(Nat) /\ Len(b) = k /\ \A i \in 1 .. k : b[i] = n + i
  OBVIOUS
<1> HIDE DEF a, b
<1>3. a \o b = Count(n + k)
  BY <1>1, <1>2, CountsJoin
<1> QED BY <1>3 DEF a, b

-----------------------------------------------------------------------------
(* An aggregate, a snapshot or a row that holds what it claims to hold.    *)
Restored(x) == x.version \in 0 .. Len(stream) /\ x.state = Count(x.version)

SnapshotRow == [version : Nat, state : Seq(Nat), expired : BOOLEAN]

SnapshotInv ==
  /\ \E n \in Nat : stream = Count(n)
  /\ Restored(row) /\ row \in SnapshotRow
  /\ DOMAIN phase = Handlers /\ DOMAIN found = Handlers /\ DOMAIN loaded = Handlers
  /\ since \in [Handlers -> 0 .. Len(stream)]
  /\ \A h \in Handlers :
       /\ phase[h] = "reading" => Restored(found[h])
       /\ phase[h] \in {"loaded", "saved"} =>
            Restored(loaded[h]) /\ loaded[h].version >= since[h]

LEMMA InitSnapshots == SnapshotInit => SnapshotInv
<1> SUFFICES ASSUME SnapshotInit PROVE SnapshotInv
  OBVIOUS
<1>1. Count(0) = <<>> /\ Len(Count(0)) = 0 /\ Count(0) \in Seq(Nat)
  BY DEF Count
<1>2. stream = Count(0) /\ Restored(row) /\ row \in SnapshotRow
  BY <1>1 DEF SnapshotInit, Restored, NoRow, SnapshotRow
<1> QED BY <1>1, <1>2 DEF SnapshotInit, SnapshotInv

LEMMA StreamLength ==
  ASSUME SnapshotInv
  PROVE  Len(stream) \in Nat /\ stream = Count(Len(stream))
BY CountIsSequence DEF SnapshotInv

(* While the stream stays or grows, what was restored stays restored.      *)
LEMMA RestoredStays ==
  ASSUME SnapshotInv, Len(stream)' \in Nat, Len(stream)' >= Len(stream), NEW x, Restored(x)
  PROVE  x.version \in (0 .. Len(stream))' /\ x.state = Count(x.version)
BY StreamLength DEF Restored

LEMMA SaveRestores ==
  ASSUME SnapshotInv, NEW h \in Handlers, NEW n \in 1 .. MaxBatch, Save(h, n)
  PROVE  SnapshotInv'
<1> DEFINE v == loaded[h].version
           events == [i \in 1 .. n |-> v + i]
<1>0. n \in Nat /\ Len(stream) \in Nat
  BY StreamLength, SnapshotAssumption
<1>1. CASE /\ v = Len(stream) /\ stream' = stream \o events
           /\ loaded' = [loaded EXCEPT ![h] = [version |-> @.version + n, state |-> @.state \o events]]
           /\ phase' = [phase EXCEPT ![h] = "saved"]
  <2>1. /\ phase[h] = "loaded" /\ since' = [since EXCEPT ![h] = 0]
        /\ row' = row /\ found' = found
    BY DEF Save
  <2>2. v \in Nat /\ loaded[h].state = Count(v) /\ stream = Count(v)
    BY <1>0, <1>1, <2>1, StreamLength DEF SnapshotInv, Restored
  <2>3. Count(v) \o events = Count(v + n)
    BY <1>0, <2>2, CountGrows
  <2>4. stream' = Count(v + n) /\ loaded'[h] = [version |-> v + n, state |-> Count(v + n)]
    BY <1>1, <2>2, <2>3 DEF SnapshotInv
  <2>5. Len(stream)' = v + n
    <3>1. v + n \in Nat
      BY <1>0, <2>2
    <3>2. Len(Count(v + n)) = v + n
      BY <3>1, CountIsSequence
    <3> QED BY <2>4, <3>2
  <2> HIDE DEF v, events
  <2>6. Len(stream)' >= Len(stream) /\ Len(stream)' \in Nat
    BY <1>0, <1>1, <2>2, <2>5
  <2>7. \A x : Restored(x) => x.version \in (0 .. Len(stream))' /\ x.state = Count(x.version)
    BY <2>6, RestoredStays
  <2>8. (Restored(row) /\ row \in SnapshotRow)'
    BY <2>1, <2>7 DEF SnapshotInv, Restored, SnapshotRow
  <2>9. since' \in [Handlers -> (0 .. Len(stream))']
    BY <1>0, <2>1, <2>6 DEF SnapshotInv
  <2>10. ASSUME NEW g \in Handlers
         PROVE  (/\ phase[g] = "reading" => Restored(found[g])
                 /\ phase[g] \in {"loaded", "saved"} =>
                      Restored(loaded[g]) /\ loaded[g].version >= since[g])'
    <3>1. CASE g = h
      <4>1. phase'[g] = "saved" /\ since'[g] = 0
        BY <1>1, <2>1, <3>1 DEF SnapshotInv
      <4>2. loaded'[g].version = v + n /\ loaded'[g].state = Count(v + n)
        BY <2>4, <3>1
      <4> QED BY <1>0, <2>2, <2>5, <4>1, <4>2 DEF Restored
    <3>2. CASE g # h
      <4>1. phase'[g] = phase[g] /\ loaded'[g] = loaded[g] /\ found'[g] = found[g] /\ since'[g] = since[g]
        BY <1>1, <2>1, <3>2 DEF SnapshotInv
      <4> QED BY <4>1, <2>7 DEF SnapshotInv, Restored
    <3> QED BY <3>1, <3>2
  <2>11. \E m \in Nat : stream' = Count(m)
    BY <1>0, <2>2, <2>4
  <2>12. DOMAIN phase' = Handlers /\ DOMAIN found' = Handlers /\ DOMAIN loaded' = Handlers
    BY <1>1, <2>1 DEF SnapshotInv
  <2> QED BY <2>8, <2>9, <2>10, <2>11, <2>12 DEF SnapshotInv, Restored
<1>2. CASE /\ v < Len(stream) /\ stream' = stream
           /\ phase' = [phase EXCEPT ![h] = "idle"]
           /\ loaded' = [loaded EXCEPT ![h] = Nothing]
  <2>1. since' = [since EXCEPT ![h] = 0] /\ row' = row /\ found' = found
    BY DEF Save
  <2> QED BY <1>0, <1>2, <2>1 DEF SnapshotInv, Restored, SnapshotRow
<1> QED BY <1>1, <1>2 DEF Save

LEMMA SnapshotStep == SnapshotInv /\ [SnapshotNext]_snapshotVars => SnapshotInv'
<1> SUFFICES ASSUME SnapshotInv, [SnapshotNext]_snapshotVars PROVE SnapshotInv'
  OBVIOUS
<1> USE StreamLength
<1>1. ASSUME NEW h \in Handlers, ReadSnapshot(h) PROVE SnapshotInv'
  BY <1>1 DEF ReadSnapshot, SnapshotInv, Restored
<1>2. ASSUME NEW h \in Handlers, ReadEvents(h) PROVE SnapshotInv'
  <2> DEFINE rest == SubSeq(stream, found[h].version + 1, Len(stream))
  <2>1. phase[h] = "reading" /\ Restored(found[h])
    BY <1>2 DEF ReadEvents, SnapshotInv
  <2>2. /\ Count(found[h].version) \o rest = Count(Len(stream))
        /\ IF rest = <<>> THEN found[h].version = Len(stream) ELSE rest[Len(rest)] = Len(stream)
    BY <2>1, PrefixAndRest DEF Restored
  <2>3. FromSnapshot(found[h], EventsAfter(found[h])) =
          [version |-> Len(stream), state |-> Count(Len(stream))]
    BY <2>1, <2>2 DEF FromSnapshot, EventsAfter, Restored
  <2>4. /\ stream' = stream /\ row' = row /\ since' = since
        /\ loaded' = [loaded EXCEPT ![h] = [version |-> Len(stream), state |-> Count(Len(stream))]]
        /\ phase' = [phase EXCEPT ![h] = "loaded"] /\ found' = [found EXCEPT ![h] = NoRow]
    BY <1>2, <2>3 DEF ReadEvents
  <2> HIDE DEF rest
  <2> QED BY <2>4 DEF SnapshotInv, Restored
<1>3. ASSUME NEW h \in Handlers, CreateSnapshot(h) PROVE SnapshotInv'
  <2>1. Restored(loaded[h]) /\ loaded[h].version \in Nat /\ loaded[h].state \in Seq(Nat)
    BY <1>3, CountIsSequence DEF CreateSnapshot, SnapshotInv, Restored
  <2>2. (Restored(row) /\ row \in SnapshotRow)'
    BY <1>3, <2>1 DEF CreateSnapshot, SavedRow, SnapshotRow, SnapshotInv, Restored
  <2> QED BY <1>3, <2>2 DEF CreateSnapshot, SnapshotInv, Restored
<1>4. ASSUME NEW h \in Handlers, Stop(h) PROVE SnapshotInv'
  BY <1>4 DEF Stop, SnapshotInv, Restored
<1>5. ASSUME RowExpires \/ CleanupExpired \/ DeleteSnapshots PROVE SnapshotInv'
  <2>1. Restored(NoRow) /\ NoRow \in SnapshotRow
    <3>1. Count(0) = <<>> /\ Count(0) \in Seq(Nat)
      BY DEF Count
    <3> QED BY <3>1 DEF NoRow, SnapshotRow, Restored
  <2>2. row \in SnapshotRow /\ Restored(row)
    BY DEF SnapshotInv
  <2>3. row' = NoRow \/ row' = [row EXCEPT !.expired = TRUE]
    BY <1>5 DEF RowExpires, CleanupExpired, DeleteSnapshots
  <2>4. row' \in SnapshotRow /\ row'.version \in 0 .. Len(stream) /\ row'.state = Count(row'.version)
    BY <2>1, <2>2, <2>3 DEF SnapshotRow, Restored
  <2>5. UNCHANGED <<stream, phase, found, loaded, since>>
    BY <1>5 DEF RowExpires, CleanupExpired, DeleteSnapshots
  <2> QED BY <2>4, <2>5 DEF SnapshotInv, Restored
<1>6. CASE UNCHANGED snapshotVars
  BY <1>6 DEF snapshotVars, SnapshotInv, Restored
<1> QED BY <1>1, <1>2, <1>3, <1>4, <1>5, <1>6, SaveRestores DEF SnapshotNext

LEMMA RestoredIsCounted == SnapshotInv => RestoredIsReplayed
<1> SUFFICES ASSUME SnapshotInv, NEW h \in Handlers, phase[h] \in {"loaded", "saved"}
             PROVE  /\ loaded[h].state = SubSeq(stream, 1, loaded[h].version)
                    /\ loaded[h].version >= since[h]
  BY DEF RestoredIsReplayed
<1> DEFINE n == Len(stream)
           v == loaded[h].version
<1>1. /\ n \in Nat /\ stream = Count(n) /\ v \in 0 .. n
      /\ loaded[h].state = Count(v) /\ v >= since[h]
  BY StreamLength DEF SnapshotInv, Restored
<1> HIDE DEF n, v
<1>2. SubSeq(Count(n), 1, v) = Count(v)
  BY <1>1, PrefixAndRest
<1> QED BY <1>1, <1>2 DEF n, v

-----------------------------------------------------------------------------
(* Messaging.  What the queue and the handlers hold.                       *)
Copies == [msg : Messages, tries : 0 .. ConsumerRetries]

Deliveries == [on : Channels, tag : Nat, msg : Messages, tries : 0 .. ConsumerRetries]

Handling == [on : Channels, tag : Nat, msg : Messages, tries : 0 .. ConsumerRetries,
             via : Channels, doing : {"handling", "backoff"}]

Broker == [waiting : SUBSET Copies, unacked : SUBSET Deliveries, dead : SUBSET Messages]

QueueTypes ==
  /\ broker \in Broker
  /\ handlers \in SUBSET Handling
  /\ \A h \in handlers : h.doing = "backoff" => h.tries < ConsumerRetries

LinkTypes ==
  /\ connects \in Connections /\ channel \in Channels \union {Null}
  /\ open \in SUBSET Channels /\ broken \in SUBSET open /\ consumers \in SUBSET Alive
  /\ setting \in SUBSET Channels
  /\ tags \in [Channels -> Nat]
  /\ timers \in Nat /\ resubscribing \in Nat

OtherTypes ==
  /\ unsent \in SUBSET Messages /\ done \in SUBSET Messages
  /\ connected \in BOOLEAN /\ subscribed \in BOOLEAN /\ ending \in BOOLEAN
  /\ crossed \in BOOLEAN /\ parted \in BOOLEAN /\ orphaned \in BOOLEAN

(* A tag names one delivery of its channel, as long as the channel lives:  *)
(* the next tag is a new one, and a handler that holds a tag and the broker*)
(* mean the same message by it.                                            *)
TagsAreNew ==
  /\ \A u \in broker.unacked : u.on \in Alive /\ u.tag <= tags[u.on]
  /\ \A h \in handlers : h.on \in open => h.tag <= tags[h.on]

OneMeaning ==
  \A h \in handlers, u \in broker.unacked : h.on = u.on /\ h.tag = u.tag => h.msg = u.msg

OwnChannel == ~crossed => \A h \in handlers : h.via = h.on

MessagingInv ==
  /\ QueueTypes /\ LinkTypes /\ OtherTypes
  /\ TagsAreNew /\ OneMeaning /\ OwnChannel
  /\ NoMessageIsLost

Holds(b, m) == m \in b.dead \/ \E c \in b.waiting \union b.unacked : c.msg = m

LEMMA KeptMeans ==
  ASSUME NEW m
  PROVE  Kept(m) <=> (m \in unsent \/ m \in done \/ Holds(broker, m))
BY DEF Kept, Holds

(* What a queue still holds when deliveries go back to it.                 *)
LEMMA RequeueKeeps ==
  ASSUME NEW b \in Broker, NEW closing
  PROVE  /\ Requeue(b, closing) \in Broker
         /\ Requeue(b, closing).unacked = {u \in b.unacked : u.on \notin closing}
         /\ b.waiting \subseteq Requeue(b, closing).waiting
         /\ \A m : Holds(b, m) => Holds(Requeue(b, closing), m)
<1> DEFINE back == {u \in b.unacked : u.on \in closing}
           copies == {Copy(u) : u \in back}
           r == Requeue(b, closing)
<1>1. r = [b EXCEPT !.unacked = @ \ back, !.waiting = @ \union copies]
  BY DEF Requeue
<1>2. copies \in SUBSET Copies /\ \A u \in back : Copy(u) \in copies /\ Copy(u).msg = u.msg
  BY DEF Copy, Copies, Broker, Deliveries
<1> HIDE DEF copies, r
<1>3. /\ r.unacked = b.unacked \ back
      /\ r.waiting = b.waiting \union copies
      /\ r.dead = b.dead
  BY <1>1 DEF Broker
<1>4. r \in Broker
  BY <1>1, <1>2 DEF Broker
<1>5. ASSUME NEW m, Holds(b, m) PROVE Holds(r, m)
  BY <1>2, <1>3, <1>5 DEF Holds
<1> QED BY <1>3, <1>4, <1>5 DEF r

(* The broker and one answer: nothing is delivered by it, and only the     *)
(* delivery it is taken for goes.                                          *)
LEMMA AnsweredKeeps ==
  ASSUME NEW b \in Broker, NEW h \in Handling, NEW rejected \in BOOLEAN
  PROVE  LET r == Answered(h, b, rejected)
             meant(u) == u.on = h.via /\ u.tag = h.tag
         IN /\ r \in Broker /\ r.unacked \subseteq b.unacked /\ b.waiting \subseteq r.waiting
            /\ (\E u \in b.unacked : meant(u)) \/ \A u \in r.unacked : u.on # h.via
            /\ \A m : Holds(b, m) =>
                 Holds(r, m) \/ (~rejected /\ \E u \in b.unacked : meant(u) /\ u.msg = m)
<1> DEFINE r == Answered(h, b, rejected)
           meant == {u \in b.unacked : u.on = h.via /\ u.tag = h.tag}
<1>1. CASE meant = {}
  <2>1. r = Requeue(b, {h.via})
    BY <1>1 DEF Answered
  <2>2. /\ r \in Broker /\ r.unacked = {u \in b.unacked : u.on \notin {h.via}}
        /\ b.waiting \subseteq r.waiting /\ \A m : Holds(b, m) => Holds(r, m)
    BY <2>1, RequeueKeeps
  <2> HIDE DEF r
  <2>3. r.unacked \subseteq b.unacked /\ \A u \in r.unacked : u.on # h.via
    BY <2>2
  <2> QED BY <2>2, <2>3 DEF r
<1>2. CASE meant # {}
  <2> DEFINE rejects == {u.msg : u \in meant}
  <2>1. r = [b EXCEPT !.unacked = @ \ meant, !.dead = IF rejected THEN @ \union rejects ELSE @]
    BY <1>2 DEF Answered
  <2>2. rejects \in SUBSET Messages /\ \A u \in meant : u.msg \in rejects
    BY DEF Broker, Deliveries
  <2>3. \E u \in b.unacked : u.on = h.via /\ u.tag = h.tag
    BY <1>2
  <2>4. \A u : u \in meant <=> u \in b.unacked /\ u.on = h.via /\ u.tag = h.tag
    OBVIOUS
  <2> HIDE DEF r, meant, rejects
  <2>5. /\ r.unacked = b.unacked \ meant /\ r.waiting = b.waiting
        /\ r.dead = IF rejected THEN b.dead \union rejects ELSE b.dead
    BY <2>1 DEF Broker
  <2>6. r \in Broker
    BY <2>1, <2>2 DEF Broker
  <2>7. ASSUME NEW m, Holds(b, m), ~(~rejected /\ \E u \in meant : u.msg = m)
        PROVE  Holds(r, m)
    BY <2>2, <2>5, <2>7 DEF Holds
  <2> QED BY <2>3, <2>4, <2>5, <2>6, <2>7 DEF r
<1> QED BY <1>1, <1>2

(* What an answer does to the broker, if it reaches it.                    *)
LEMMA AnswerStep ==
  ASSUME MessagingInv, NEW h \in handlers, NEW b \in Broker, b.unacked = broker.unacked,
         NEW rejected \in BOOLEAN, Answer(h, b, rejected)
  PROVE  /\ broker' \in Broker /\ broker'.unacked \subseteq broker.unacked
         /\ b.waiting \subseteq broker'.waiting
         /\ open' \in SUBSET open /\ broken' \in SUBSET open' /\ consumers' \in SUBSET Alive'
         /\ \A u \in broker'.unacked : u.on \in Alive'
         /\ \A m : ~crossed /\ Holds(b, m) => Holds(broker', m) \/ (~rejected /\ m = h.msg)
         /\ h.via \in broken => broker' = b
<1>1. h \in Handling
  BY DEF MessagingInv, QueueTypes
<1>2. CASE h.via \in broken
  <2>1. broker' = b /\ UNCHANGED <<open, broken, consumers>>
    BY <1>2 DEF Answer
  <2> QED BY <2>1 DEF MessagingInv, LinkTypes, TagsAreNew, Alive
<1>3. CASE h.via \notin broken /\ \E u \in b.unacked : u.on = h.via /\ u.tag = h.tag
  <2>1. broker' = Answered(h, b, rejected) /\ UNCHANGED <<open, broken, consumers>>
    BY <1>3 DEF Answer
  <2> QED BY <1>1, <1>3, <2>1, AnsweredKeeps
          DEF MessagingInv, LinkTypes, TagsAreNew, OneMeaning, OwnChannel, Alive
<1>4. CASE h.via \notin broken /\ ~\E u \in b.unacked : u.on = h.via /\ u.tag = h.tag
  <2>1. /\ broker' = Answered(h, b, rejected) /\ broken' = broken
        /\ open' = open \ {h.via} /\ consumers' = consumers \ {h.via}
    BY <1>4 DEF Answer
  <2>2. /\ broker' \in Broker /\ broker'.unacked \subseteq b.unacked
        /\ b.waiting \subseteq broker'.waiting /\ \A u \in broker'.unacked : u.on # h.via
        /\ \A m : Holds(b, m) => Holds(broker', m)
    BY <1>1, <1>4, <2>1, AnsweredKeeps
  <2> QED BY <1>4, <2>1, <2>2 DEF MessagingInv, LinkTypes, TagsAreNew, Alive
<1> QED BY <1>2, <1>3, <1>4

(* Tags keep their meaning while nothing is delivered and no channel opens.*)
LEMMA QuietTags ==
  ASSUME MessagingInv, tags' = tags, open' \subseteq open, crossed' = crossed,
         broker'.unacked \subseteq broker.unacked, \A u \in broker'.unacked : u.on \in Alive',
         \A g \in handlers' : \E h \in handlers :
            g.on = h.on /\ g.via = h.via /\ g.tag = h.tag /\ g.msg = h.msg
  PROVE  (TagsAreNew /\ OneMeaning /\ OwnChannel)'
BY DEF MessagingInv, TagsAreNew, OneMeaning, OwnChannel

LEMMA LostOnlyIfParted ==
  ASSUME \A m \in Messages : ~crossed' /\ ~parted' =>
           m \in unsent' \/ m \in done' \/ Holds(broker', m)
  PROVE  NoMessageIsLost'
BY DEF NoMessageIsLost, AckedWasProcessed, Kept, Holds

LEMMA KeptSoFar ==
  ASSUME MessagingInv, ~crossed, ~parted, NEW m \in Messages
  PROVE  m \in unsent \/ m \in done \/ Holds(broker, m)
BY KeptMeans DEF MessagingInv, NoMessageIsLost, AckedWasProcessed

(* Steps that deliver nothing, open no channel and drop no message that is *)
(* not done.                                                               *)
LEMMA QuietStep ==
  ASSUME MessagingInv, UNCHANGED <<sending, tags, crossed>>,
         broker' \in Broker, broker'.unacked \subseteq broker.unacked,
         \A u \in broker'.unacked : u.on \in Alive',
         open' \in SUBSET open, broken' \in SUBSET open', consumers' \in SUBSET Alive',
         handlers' \subseteq handlers,
         channel' \in Channels \union {Null}, setting' \in SUBSET Channels,
         timers' \in Nat, resubscribing' \in Nat,
         connected' \in BOOLEAN, subscribed' \in BOOLEAN, ending' \in BOOLEAN,
         orphaned' \in BOOLEAN, parted' \in BOOLEAN, parted => parted',
         done' \in SUBSET Messages, done \subseteq done',
         \A m : ~crossed /\ ~parted' /\ Holds(broker, m) => m \in done' \/ Holds(broker', m)
  PROVE  MessagingInv'
<1>1. QueueTypes'
  BY DEF MessagingInv, QueueTypes
<1>2. LinkTypes'
  <2>1. connects' \in Connections /\ open' \in SUBSET Channels /\ tags' \in [Channels -> Nat]
    BY DEF MessagingInv, LinkTypes, sending
  <2> QED BY <2>1 DEF LinkTypes
<1>3. OtherTypes'
  BY DEF MessagingInv, OtherTypes, sending
<1>4. (TagsAreNew /\ OneMeaning /\ OwnChannel)'
  BY QuietTags
<1>5. ASSUME NEW n \in Messages, ~crossed', ~parted'
      PROVE  n \in unsent' \/ n \in done' \/ Holds(broker', n)
  <2>1. n \in unsent \/ n \in done \/ Holds(broker, n)
    BY <1>5, KeptSoFar
  <2> QED BY <1>5, <2>1 DEF sending
<1>6. NoMessageIsLost'
  BY <1>5, LostOnlyIfParted
<1> QED BY <1>1, <1>2, <1>3, <1>4, <1>6 DEF MessagingInv

-----------------------------------------------------------------------------
(* One lemma per operation.                                                *)
LEMMA InitMessaging == MessagingInit => MessagingInv
<1> SUFFICES ASSUME MessagingInit PROVE MessagingInv
  OBVIOUS
<1>1. connects \in Connections /\ connects \in Channels /\ 1 .. connects \subseteq Channels
      /\ connects \in 1 .. connects
  BY MessagingAssumption DEF MessagingInit
<1>2. broker = [waiting |-> {}, unacked |-> {}, dead |-> {}] /\ handlers = {} /\ unsent = Messages
  BY DEF MessagingInit
<1>3. QueueTypes
  BY <1>2 DEF QueueTypes, Broker
<1>4. LinkTypes
  BY <1>1 DEF MessagingInit, LinkTypes, Alive
<1>5. OtherTypes
  BY DEF MessagingInit, OtherTypes
<1>6. TagsAreNew /\ OneMeaning /\ OwnChannel
  BY <1>2 DEF TagsAreNew, OneMeaning, OwnChannel
<1>7. NoMessageIsLost
  BY <1>2 DEF NoMessageIsLost, AckedWasProcessed, Kept
<1> QED BY <1>3, <1>4, <1>5, <1>6, <1>7 DEF MessagingInv

LEMMA ReceiveStep ==
  ASSUME MessagingInv, NEW m \in Messages, Receive(m)
  PROVE  MessagingInv'
<1> DEFINE copy == [msg |-> m, tries |-> 0]
<1>1. /\ broker' = [broker EXCEPT !.waiting = @ \union {copy}]
      /\ UNCHANGED <<connects, open, broken, tags, consumers, linkVars, handlers, histories>>
      /\ unsent' = unsent \ {m} \/ unsent' = unsent
  BY DEF Receive
<1>2. copy \in Copies /\ copy.msg = m
  BY MessagingAssumption DEF Copies
<1> HIDE DEF copy
<1>3. /\ broker' \in Broker /\ broker'.unacked = broker.unacked /\ broker'.dead = broker.dead
      /\ broker'.waiting = broker.waiting \union {copy}
  BY <1>1, <1>2 DEF MessagingInv, QueueTypes, Broker
<1>4. (QueueTypes /\ LinkTypes /\ OtherTypes)'
  BY <1>1, <1>3 DEF MessagingInv, QueueTypes, LinkTypes, OtherTypes, linkVars, histories, Alive
<1>5. (TagsAreNew /\ OneMeaning /\ OwnChannel)'
  BY <1>1, <1>3, QuietTags DEF MessagingInv, TagsAreNew, histories, Alive
<1>6. ASSUME NEW n \in Messages, ~crossed', ~parted'
      PROVE  n \in unsent' \/ n \in done' \/ Holds(broker', n)
  <2>1. n \in unsent \/ n \in done \/ Holds(broker, n)
    BY <1>1, <1>6, KeptSoFar DEF histories
  <2> QED BY <1>1, <1>2, <1>3, <2>1 DEF Holds, histories
<1>7. NoMessageIsLost'
  BY <1>6, LostOnlyIfParted
<1> QED BY <1>4, <1>5, <1>7 DEF MessagingInv

LEMMA DeliverStep ==
  ASSUME MessagingInv, NEW c \in Channels, Deliver(c)
  PROVE  MessagingInv'
<1> DEFINE tag == tags[c] + 1
<1>1. /\ c \in consumers /\ tags' = [tags EXCEPT ![c] = tag]
      /\ UNCHANGED <<mishaps, sending, open, broken, consumers, linkVars, done, parted, orphaned>>
  BY DEF Deliver
<1>2. PICK w \in broker.waiting :
        LET delivery == [on |-> c, tag |-> tag, msg |-> w.msg, tries |-> w.tries]
        IN /\ broker' = [broker EXCEPT !.waiting = @ \ {w}, !.unacked = @ \union {delivery}]
           /\ handlers' = IF channel = Null THEN handlers
                          ELSE handlers \union
                               {[on |-> c, tag |-> tag, msg |-> w.msg, tries |-> w.tries,
                                 via |-> channel, doing |-> "handling"]}
           /\ crossed' = (crossed \/ channel \notin {c, Null})
  BY DEF Deliver
<1> DEFINE delivery == [on |-> c, tag |-> tag, msg |-> w.msg, tries |-> w.tries]
           handler == [on |-> c, tag |-> tag, msg |-> w.msg, tries |-> w.tries,
                       via |-> channel, doing |-> "handling"]
<1>3. /\ w \in Copies /\ tag \in Nat /\ tag > tags[c] /\ c \in Alive /\ c \in open
      /\ tags[c] \in Nat
  BY <1>1, <1>2 DEF MessagingInv, QueueTypes, LinkTypes, Broker, Alive
<1>4. /\ delivery \in Deliveries /\ delivery.on = c /\ delivery.tag = tag /\ delivery.msg = w.msg
      /\ channel # Null => handler \in Handling
      /\ handler.on = c /\ handler.tag = tag /\ handler.msg = w.msg
      /\ handler.via = channel /\ handler.doing = "handling"
  BY <1>3 DEF Deliveries, Handling, Copies, MessagingInv, LinkTypes
<1>5. /\ broker' = [broker EXCEPT !.waiting = @ \ {w}, !.unacked = @ \union {delivery}]
      /\ (handlers' = handlers \/ (channel # Null /\ handlers' = handlers \union {handler}))
      /\ crossed' = (crossed \/ channel \notin {c, Null})
  BY <1>2
<1> HIDE DEF tag, delivery, handler
<1>6. /\ broker' \in Broker /\ broker'.unacked = broker.unacked \union {delivery}
      /\ broker'.dead = broker.dead /\ broker'.waiting = broker.waiting \ {w}
  BY <1>4, <1>5 DEF MessagingInv, QueueTypes, Broker
<1>7. QueueTypes'
  BY <1>4, <1>5, <1>6 DEF MessagingInv, QueueTypes
<1>8. LinkTypes' /\ OtherTypes'
  BY <1>1, <1>3, <1>5 DEF MessagingInv, LinkTypes, OtherTypes, linkVars, sending, Alive
<1>9. TagsAreNew'
  <2>1. open' = open /\ Alive' = Alive /\ tags'[c] = tag /\ \A d \in Channels : d # c => tags'[d] = tags[d]
    BY <1>1, <1>3 DEF MessagingInv, LinkTypes, Alive
  <2>2. ASSUME NEW u \in broker'.unacked PROVE u.on \in Alive' /\ u.tag <= tags'[u.on]
    <3>1. CASE u = delivery
      BY <1>3, <1>4, <2>1, <3>1
    <3>2. CASE u \in broker.unacked
      <4>1. u \in Deliveries
        BY <3>2 DEF MessagingInv, QueueTypes, Broker
      <4> QED BY <1>3, <2>1, <3>2, <4>1 DEF MessagingInv, TagsAreNew, Deliveries
    <3> QED BY <1>6, <3>1, <3>2
  <2>3. ASSUME NEW h \in handlers', h.on \in open' PROVE h.tag <= tags'[h.on]
    <3>1. CASE h = handler
      BY <1>3, <1>4, <2>1, <3>1
    <3>2. CASE h \in handlers
      <4>1. h \in Handling
        BY <3>2 DEF MessagingInv, QueueTypes
      <4> QED BY <1>3, <2>1, <2>3, <3>2, <4>1 DEF MessagingInv, TagsAreNew, Handling
    <3> QED BY <1>5, <3>1, <3>2
  <2> QED BY <2>2, <2>3 DEF TagsAreNew
<1>10. OneMeaning'
  <2> SUFFICES ASSUME NEW h \in handlers', NEW u \in broker'.unacked, h.on = u.on, h.tag = u.tag
               PROVE  h.msg = u.msg
    BY DEF OneMeaning
  <2>1. CASE h \in handlers /\ u \in broker.unacked
    BY <2>1 DEF MessagingInv, OneMeaning
  <2>2. CASE h \in handlers /\ u = delivery
    <3>1. h.on \in open /\ h.tag <= tags[c] /\ h.tag \in Nat
      BY <1>3, <1>4, <2>2 DEF MessagingInv, TagsAreNew, QueueTypes, Handling
    <3> QED BY <1>3, <1>4, <2>2, <3>1
  <2>3. CASE h = handler /\ u \in broker.unacked
    <3>1. u.tag <= tags[c] /\ u.tag \in Nat
      BY <1>3, <1>4, <2>3 DEF MessagingInv, TagsAreNew, QueueTypes, Broker, Deliveries
    <3> QED BY <1>3, <1>4, <2>3, <3>1
  <2>4. CASE h = handler /\ u = delivery
    BY <1>4, <2>4
  <2> QED BY <1>5, <1>6, <2>1, <2>2, <2>3, <2>4
<1>11. OwnChannel'
  BY <1>4, <1>5 DEF MessagingInv, OwnChannel
<1>12. ASSUME NEW n \in Messages, ~crossed', ~parted'
       PROVE  n \in unsent' \/ n \in done' \/ Holds(broker', n)
  <2>1. n \in unsent \/ n \in done \/ Holds(broker, n)
    BY <1>1, <1>5, <1>12, KeptSoFar
  <2>2. Holds(broker, n) => Holds(broker', n)
    BY <1>4, <1>6 DEF Holds
  <2> QED BY <1>1, <2>1, <2>2 DEF sending
<1>13. NoMessageIsLost'
  BY <1>12, LostOnlyIfParted
<1> QED BY <1>7, <1>8, <1>9, <1>10, <1>11, <1>13 DEF MessagingInv

(* What handlers do that answer, give up, return or retry.                 *)
LEMMA AnsweringStep ==
  ASSUME MessagingInv, NEW h \in handlers, NEW b \in Broker, NEW rejected \in BOOLEAN,
         b.unacked = broker.unacked, \A m : Holds(broker, m) => Holds(b, m),
         handlers' = handlers \ {h},
         \/ Answer(h, b, rejected)
         \/ b = broker /\ ~rejected /\ UNCHANGED <<broker, open, broken, consumers>>,
         UNCHANGED <<sending, tags, linkVars, crossed, orphaned>>,
         done' \in SUBSET Messages, done \subseteq done',
         parted' \in BOOLEAN, parted => parted',
         parted' \/ rejected \/ h.msg \in done' \/ Holds(broker', h.msg) \/ broker' = b
  PROVE  MessagingInv'
<1>1. /\ broker' \in Broker /\ broker'.unacked \subseteq broker.unacked
      /\ open' \in SUBSET open /\ broken' \in SUBSET open' /\ consumers' \in SUBSET Alive'
      /\ \A u \in broker'.unacked : u.on \in Alive'
      /\ \A m : ~crossed /\ Holds(b, m) => Holds(broker', m) \/ (~rejected /\ m = h.msg)
  <2>1. CASE Answer(h, b, rejected)
    BY <2>1, AnswerStep
  <2>2. CASE b = broker /\ UNCHANGED <<broker, open, broken, consumers>>
    BY <2>2 DEF MessagingInv, QueueTypes, LinkTypes, TagsAreNew, Alive
  <2> QED BY <2>1, <2>2
<1>2. ASSUME NEW m, ~crossed, ~parted', Holds(broker, m)
      PROVE  m \in done' \/ Holds(broker', m)
  BY <1>1, <1>2
<1>3. /\ channel' \in Channels \union {Null} /\ setting' \in SUBSET Channels
      /\ timers' \in Nat /\ resubscribing' \in Nat
  BY DEF MessagingInv, LinkTypes, linkVars
<1>4. /\ connected' \in BOOLEAN /\ subscribed' \in BOOLEAN /\ ending' \in BOOLEAN
      /\ orphaned' \in BOOLEAN
  BY DEF MessagingInv, OtherTypes, linkVars
<1> QED BY <1>1, <1>2, <1>3, <1>4, QuietStep

LEMMA RepublishedKeeps ==
  ASSUME MessagingInv, NEW h \in handlers, h.doing = "backoff"
  PROVE  /\ Republished(h) \in Broker /\ Republished(h).unacked = broker.unacked
         /\ \A m : Holds(broker, m) => Holds(Republished(h), m)
         /\ channel \in Alive => \E c \in Republished(h).waiting : c.msg = h.msg
         /\ channel \notin Alive => Republished(h) = broker
<1> DEFINE copy == [msg |-> h.msg, tries |-> h.tries + 1]
           r == Republished(h)
<1>1. CASE channel \notin Alive
  BY <1>1 DEF Republished, MessagingInv, QueueTypes
<1>2. CASE channel \in Alive
  <2>1. h \in Handling /\ h.tries < ConsumerRetries
    BY DEF MessagingInv, QueueTypes
  <2>2. copy \in Copies /\ copy.msg = h.msg
    BY <2>1, MessagingAssumption DEF Copies, Handling
  <2>3. r = [broker EXCEPT !.waiting = @ \union {copy}]
    BY <1>2 DEF Republished
  <2> HIDE DEF copy, r
  <2>4. /\ r \in Broker /\ r.unacked = broker.unacked /\ r.dead = broker.dead
        /\ r.waiting = broker.waiting \union {copy}
    BY <2>2, <2>3 DEF MessagingInv, QueueTypes, Broker
  <2>5. (\A m : Holds(broker, m) => Holds(r, m)) /\ \E c \in r.waiting : c.msg = h.msg
    BY <2>2, <2>4 DEF Holds
  <2> QED BY <1>2, <2>4, <2>5 DEF r
<1> QED BY <1>1, <1>2

LEMMA HandlerStep ==
  ASSUME MessagingInv, NEW h \in handlers,
         HandlerReturns(h) \/ GivesUp(h) \/ RetryTimer(h)
  PROVE  MessagingInv'
<1>0. h \in Handling /\ broker \in Broker /\ done \in SUBSET Messages /\ parted \in BOOLEAN
  BY DEF MessagingInv, QueueTypes, OtherTypes
<1>1. CASE HandlerReturns(h)
  <2>1. /\ done' = done \union {h.msg} /\ handlers' = handlers \ {h}
        /\ UNCHANGED <<sending, tags, linkVars, crossed, parted, orphaned>>
        /\ \/ Answer(h, broker, FALSE)
           \/ UNCHANGED <<broker, open, broken, consumers>>
    BY <1>1 DEF HandlerReturns
  <2>2. done' \in SUBSET Messages /\ done \subseteq done' /\ h.msg \in done'
    BY <1>0, <2>1 DEF Handling
  <2> QED BY <1>0, <2>1, <2>2, AnsweringStep
<1>2. CASE GivesUp(h)
  <2>1. /\ handlers' = handlers \ {h} /\ Answer(h, broker, TRUE)
        /\ UNCHANGED <<sending, tags, linkVars, done, crossed, parted, orphaned>>
    BY <1>2 DEF GivesUp, histories
  <2> QED BY <1>0, <2>1, AnsweringStep
<1>3. CASE RetryTimer(h)
  <2>1. /\ h.doing = "backoff" /\ handlers' = handlers \ {h} /\ Answer(h, Republished(h), FALSE)
        /\ parted' = (parted \/ channel # h.via) /\ h.via \in open
        /\ UNCHANGED <<sending, tags, linkVars, done, crossed, orphaned>>
    BY <1>3 DEF RetryTimer, Retries, Answer
  <2>2. /\ Republished(h) \in Broker /\ Republished(h).unacked = broker.unacked
        /\ \A m : Holds(broker, m) => Holds(Republished(h), m)
        /\ channel \in Alive => \E c \in Republished(h).waiting : c.msg = h.msg
    BY <2>1, RepublishedKeeps
  <2>3. /\ Republished(h).waiting \subseteq broker'.waiting
        /\ h.via \in broken => broker' = Republished(h)
    BY <2>1, <2>2, AnswerStep
  <2>4. channel \in Alive => Holds(broker', h.msg)
    BY <2>2, <2>3 DEF Holds
  <2>5. parted' \/ Holds(broker', h.msg) \/ broker' = Republished(h)
    BY <2>1, <2>3, <2>4 DEF Alive
  <2>6. parted' \in BOOLEAN /\ (parted => parted')
    BY <1>0, <2>1
  <2> QED BY <1>0, <2>1, <2>2, <2>5, <2>6, AnsweringStep
<1> QED BY <1>1, <1>2, <1>3

LEMMA HandlerThrowsStep ==
  ASSUME MessagingInv, NEW h \in handlers, HandlerThrows(h)
  PROVE  MessagingInv'
<1> DEFINE later == [h EXCEPT !.doing = "backoff"]
<1>1. /\ handlers' = (handlers \ {h}) \union {later} /\ h.tries < ConsumerRetries
      /\ UNCHANGED <<mishaps, sending, brokerVars, linkVars, histories>>
  BY DEF HandlerThrows
<1>2. h \in Handling
  BY DEF MessagingInv, QueueTypes
<1>3. /\ later \in Handling /\ later.on = h.on /\ later.via = h.via /\ later.tag = h.tag
      /\ later.msg = h.msg /\ later.tries = h.tries
  BY <1>2 DEF Handling
<1> HIDE DEF later
<1>4. QueueTypes'
  BY <1>1, <1>3 DEF MessagingInv, QueueTypes, brokerVars
<1>5. LinkTypes' /\ OtherTypes'
  BY <1>1 DEF MessagingInv, LinkTypes, OtherTypes, sending, brokerVars, linkVars, histories, Alive
<1>6. /\ tags' = tags /\ open' = open /\ broker' = broker /\ crossed' = crossed
      /\ \A g \in handlers' : \E f \in handlers :
           g.on = f.on /\ g.via = f.via /\ g.tag = f.tag /\ g.msg = f.msg
  BY <1>1, <1>3 DEF brokerVars, histories
<1>7. \A u \in broker'.unacked : u.on \in Alive'
  BY <1>1, <1>6 DEF MessagingInv, TagsAreNew, Alive, brokerVars
<1>8. (TagsAreNew /\ OneMeaning /\ OwnChannel)'
  BY <1>6, <1>7, QuietTags
<1>9. NoMessageIsLost'
  BY <1>1 DEF MessagingInv, NoMessageIsLost, AckedWasProcessed, Kept, brokerVars, sending, histories
<1> QED BY <1>4, <1>5, <1>8, <1>9 DEF MessagingInv

LEMMA RestartStep ==
  ASSUME MessagingInv, Restart
  PROVE  MessagingInv'
<1>1. /\ broker' = Requeue(broker, Channels)
      /\ open' = 1 .. connects /\ broken' = {} /\ consumers' = {connects}
      /\ tags' = [c \in Channels |-> 0]
      /\ channel' = connects /\ connected' = TRUE /\ timers' = 0 /\ setting' = {}
      /\ subscribed' = TRUE /\ resubscribing' = 0 /\ ending' = FALSE /\ handlers' = {}
      /\ UNCHANGED <<connects, unsent, done, crossed, parted, orphaned>>
  BY DEF Restart, sending, histories
<1>2. /\ broker' \in Broker /\ broker'.unacked = {u \in broker.unacked : u.on \notin Channels}
      /\ \A m : Holds(broker, m) => Holds(broker', m)
  BY <1>1, RequeueKeeps DEF MessagingInv, QueueTypes
<1>3. broker'.unacked = {}
  BY <1>2 DEF MessagingInv, QueueTypes, Broker, Deliveries
<1>4. connects \in Channels /\ 1 .. connects \subseteq Channels /\ connects \in 1 .. connects
  BY MessagingAssumption DEF MessagingInv, LinkTypes
<1>5. QueueTypes'
  BY <1>1, <1>2 DEF QueueTypes
<1>6. LinkTypes'
  BY <1>1, <1>4 DEF MessagingInv, LinkTypes, Alive
<1>7. OtherTypes'
  BY <1>1 DEF MessagingInv, OtherTypes
<1>8. (TagsAreNew /\ OneMeaning /\ OwnChannel)'
  BY <1>1, <1>3 DEF TagsAreNew, OneMeaning, OwnChannel
<1>9. ASSUME NEW n \in Messages, ~crossed', ~parted'
      PROVE  n \in unsent' \/ n \in done' \/ Holds(broker', n)
  BY <1>1, <1>2, <1>9, KeptSoFar
<1>10. NoMessageIsLost'
  BY <1>9, LostOnlyIfParted
<1> QED BY <1>5, <1>6, <1>7, <1>8, <1>10 DEF MessagingInv

(* Connections that break or are closed, with what the broker takes back.  *)
LEMMA ClosingStep ==
  ASSUME MessagingInv, NEW b \in Broker, NEW c, b.unacked = broker.unacked,
         \A m : Holds(broker, m) => Holds(b, m),
         broker' = Requeue(b, {c}), consumers' = consumers \ {c},
         \/ open' = open \ {c} /\ broken' = broken /\ c \notin broken
         \/ open' = open /\ broken' = broken \union {c} /\ c \in open
  PROVE  /\ broker' \in Broker /\ broker'.unacked \subseteq broker.unacked
         /\ \A u \in broker'.unacked : u.on \in Alive'
         /\ \A m : Holds(broker, m) => Holds(broker', m)
         /\ open' \in SUBSET open /\ broken' \in SUBSET open' /\ consumers' \in SUBSET Alive'
<1>1. /\ broker' \in Broker /\ broker'.unacked = {u \in b.unacked : u.on \notin {c}}
      /\ \A m : Holds(b, m) => Holds(broker', m)
  BY RequeueKeeps
<1>2. \A u \in broker'.unacked : u \in broker.unacked /\ u.on \in Alive /\ u.on # c
  BY <1>1 DEF MessagingInv, TagsAreNew
<1> QED BY <1>1, <1>2 DEF MessagingInv, LinkTypes, Alive

(* A timer cut short, a shutdown, and connections that break.              *)
LEMMA ShutDownStep ==
  ASSUME MessagingInv, Terminate \/ \E h \in handlers : Exit(h)
  PROVE  MessagingInv'
<1>0. /\ broker \in Broker /\ done \in SUBSET Messages /\ channel \in Channels \union {Null}
      /\ setting \in SUBSET Channels /\ timers \in Nat /\ resubscribing \in Nat
      /\ connected \in BOOLEAN /\ subscribed \in BOOLEAN
      /\ parted \in BOOLEAN /\ orphaned \in BOOLEAN
      /\ broken \in SUBSET open /\ \A u \in broker.unacked : u.on \in Alive
  BY DEF MessagingInv, QueueTypes, LinkTypes, OtherTypes, TagsAreNew
<1>1. /\ UNCHANGED <<sending, open, broken, tags, channel, connected, timers, setting,
                     subscribed, resubscribing, histories>>
      /\ handlers' \subseteq handlers
      /\ ending' = TRUE /\ consumers' \subseteq consumers
      /\ \/ broker' = broker
         \/ \E h \in handlers : h.doing = "backoff" /\ broker' = Republished(h)
  BY DEF Terminate, Exit, ShutDown
<1>2. /\ broker' \in Broker /\ broker'.unacked = broker.unacked
      /\ \A m : Holds(broker, m) => Holds(broker', m)
  BY <1>0, <1>1, RepublishedKeeps
<1>3. consumers' \in SUBSET Alive' /\ \A u \in broker'.unacked : u.on \in Alive'
  BY <1>0, <1>1, <1>2 DEF MessagingInv, LinkTypes, Alive
<1> QED BY <1>0, <1>1, <1>2, <1>3, QuietStep DEF histories

LEMMA ClosesStep ==
  ASSUME MessagingInv,
         \/ ChannelCloses \/ \E h \in handlers : RetryCutShort(h)
         \/ \E c \in Channels : ConnectionBreaks(c)
  PROVE  MessagingInv'
<1>0. /\ broker \in Broker /\ done \in SUBSET Messages /\ channel \in Channels \union {Null}
      /\ setting \in SUBSET Channels /\ timers \in Nat /\ resubscribing \in Nat
      /\ connected \in BOOLEAN /\ subscribed \in BOOLEAN /\ ending \in BOOLEAN
      /\ parted \in BOOLEAN /\ orphaned \in BOOLEAN
  BY DEF MessagingInv, QueueTypes, LinkTypes, OtherTypes
<1>1. CASE ChannelCloses
  <2>1. /\ channel \in Alive
        /\ open' = open \ {channel} /\ consumers' = consumers \ {channel}
        /\ broker' = Requeue(broker, {channel}) /\ channel' = Null /\ connected' = FALSE
        /\ UNCHANGED <<sending, broken, tags, timers, setting, subscribed, resubscribing, ending,
                        handlers, histories>>
    BY <1>1 DEF ChannelCloses
  <2>2. channel \notin broken
    BY <2>1 DEF Alive
  <2>3. /\ broker' \in Broker /\ broker'.unacked \subseteq broker.unacked
        /\ \A u \in broker'.unacked : u.on \in Alive'
        /\ \A m : Holds(broker, m) => Holds(broker', m)
        /\ open' \in SUBSET open /\ broken' \in SUBSET open' /\ consumers' \in SUBSET Alive'
    BY <1>0, <2>1, <2>2, ClosingStep
  <2> QED BY <1>0, <2>1, <2>3, QuietStep DEF histories
<1>2. ASSUME NEW h \in handlers, RetryCutShort(h) PROVE MessagingInv'
  <2>1. /\ h.doing = "backoff" /\ h.via \in open /\ handlers' = handlers \ {h}
        /\ parted' = (parted \/ channel # h.via)
        /\ broker' = Requeue(Republished(h), {h.via}) /\ open' = open
        /\ broken' = broken \union {h.via} /\ consumers' = consumers \ {h.via}
        /\ UNCHANGED <<sending, tags, linkVars, done, crossed, orphaned>>
    BY <1>2 DEF RetryCutShort, Retries, Alive
  <2>2. /\ Republished(h) \in Broker /\ Republished(h).unacked = broker.unacked
        /\ \A m : Holds(broker, m) => Holds(Republished(h), m)
    BY <2>1, RepublishedKeeps
  <2>3. /\ broker' \in Broker /\ broker'.unacked \subseteq broker.unacked
        /\ \A u \in broker'.unacked : u.on \in Alive'
        /\ \A m : Holds(broker, m) => Holds(broker', m)
        /\ open' \in SUBSET open /\ broken' \in SUBSET open' /\ consumers' \in SUBSET Alive'
    BY <2>1, <2>2, ClosingStep
  <2>4. parted' \in BOOLEAN /\ (parted => parted')
    BY <1>0, <2>1
  <2> QED BY <1>0, <2>1, <2>3, <2>4, QuietStep DEF linkVars
<1>3. ASSUME NEW c \in Channels, ConnectionBreaks(c) PROVE MessagingInv'
  <2>1. /\ c \in open /\ broker' = Requeue(broker, {c}) /\ open' = open
        /\ broken' = broken \union {c} /\ consumers' = consumers \ {c}
        /\ UNCHANGED <<sending, tags, linkVars, handlers, histories>>
    BY <1>3 DEF ConnectionBreaks, Alive
  <2>2. /\ broker' \in Broker /\ broker'.unacked \subseteq broker.unacked
        /\ \A u \in broker'.unacked : u.on \in Alive'
        /\ \A m : Holds(broker, m) => Holds(broker', m)
        /\ open' \in SUBSET open /\ broken' \in SUBSET open' /\ consumers' \in SUBSET Alive'
    BY <1>0, <2>1, ClosingStep
  <2> QED BY <1>0, <2>1, <2>2, QuietStep DEF linkVars, histories
<1> QED BY <1>1, <1>2, <1>3

LEMMA LinkStep ==
  ASSUME MessagingInv, Resubscribe \/ \E c \in Channels : SetUp(c) \/ ConnectionCloses(c)
  PROVE  MessagingInv'
<1>0. /\ broker \in Broker /\ done \in SUBSET Messages /\ channel \in Channels \union {Null}
      /\ setting \in SUBSET Channels /\ timers \in Nat /\ resubscribing \in Nat
      /\ connected \in BOOLEAN /\ subscribed \in BOOLEAN /\ ending \in BOOLEAN
      /\ parted \in BOOLEAN /\ orphaned \in BOOLEAN
      /\ broken \in SUBSET open /\ consumers \in SUBSET Alive
      /\ \A u \in broker.unacked : u.on \in Alive
  BY DEF MessagingInv, QueueTypes, LinkTypes, OtherTypes, TagsAreNew
<1> DEFINE Quiet ==
             /\ UNCHANGED <<sending, broker, tags, channel, ending, handlers, done, crossed, parted>>
             /\ open' \in SUBSET open /\ broken' \in SUBSET open' /\ Alive' = Alive
             /\ consumers' \in SUBSET Alive /\ setting' \in SUBSET Channels
             /\ timers' \in Nat /\ resubscribing' \in Nat
           Flags == connected' \in BOOLEAN /\ subscribed' \in BOOLEAN /\ orphaned' \in BOOLEAN
<1>1. ASSUME Resubscribe PROVE Quiet /\ Flags
  <2>1. /\ resubscribing > 0 /\ resubscribing' = resubscribing - 1
        /\ UNCHANGED <<sending, broker, open, broken, tags, channel, timers, setting, ending,
                       handlers, done, crossed, parted>>
        /\ \/ channel \in Alive /\ consumers' = consumers \union {channel}
           \/ consumers' = consumers
    BY <1>1 DEF Resubscribe, Alive
  <2>2. resubscribing' \in Nat
    BY <1>0, <2>1
  <2>3. Quiet
    BY <1>0, <2>1, <2>2 DEF Alive
  <2>4. /\ connected' = connected /\ (subscribed' = TRUE \/ subscribed' = subscribed)
        /\ (orphaned' = TRUE \/ orphaned' = orphaned)
    BY <1>1 DEF Resubscribe
  <2> QED BY <1>0, <2>3, <2>4
<1>2. ASSUME NEW c \in Channels, SetUp(c) PROVE Quiet /\ Flags
  <2>1. /\ setting' = setting \ {c}
        /\ UNCHANGED <<sending, broker, open, broken, tags, consumers, channel, ending, handlers,
                       done, crossed, parted, connected, orphaned>>
        /\ (timers' = timers \/ timers' = timers + 1)
        /\ (resubscribing' = resubscribing \/ resubscribing' = resubscribing + 1)
        /\ (subscribed' = FALSE \/ subscribed' = subscribed)
    BY <1>2 DEF SetUp, brokerVars, histories
  <2>2. timers' \in Nat /\ resubscribing' \in Nat
    BY <1>0, <2>1
  <2> QED BY <1>0, <2>1, <2>2 DEF Alive
<1>3. ASSUME NEW c \in Channels, ConnectionCloses(c) PROVE Quiet /\ Flags
  <2>1. /\ open' = open \ {c} /\ broken' = broken \ {c} /\ connected' = FALSE /\ c \in broken
        /\ UNCHANGED <<sending, broker, tags, consumers, channel, setting, ending, handlers, done,
                       crossed, parted, subscribed, resubscribing, orphaned>>
        /\ (timers' = timers \/ timers' = timers + 1)
    BY <1>3 DEF ConnectionCloses, histories
  <2>2. timers' \in Nat
    BY <1>0, <2>1
  <2> QED BY <1>0, <2>1, <2>2 DEF Alive
<1>4. ASSUME Quiet, Flags PROVE MessagingInv'
  <2>1. ending' \in BOOLEAN /\ parted' \in BOOLEAN /\ (parted => parted')
    BY <1>0, <1>4
  <2> QED BY <1>0, <1>4, <2>1, QuietStep
<1> QED BY <1>1, <1>2, <1>3, <1>4

LEMMA ReconnectStep == ASSUME MessagingInv, Reconnect PROVE MessagingInv'
<1> DEFINE used == open \union setting \union {channel} \union {h.on : h \in handlers}
                   \union {h.via : h \in handlers}
           new == CHOOSE c \in Channels \ used : TRUE
<1>1. /\ timers > 0 /\ Channels \ used # {}
      /\ open' = open \union {new} /\ setting' = setting \union {new}
      /\ channel' = new /\ tags' = [tags EXCEPT ![new] = 0]
      /\ timers' = timers - 1 /\ connected' = TRUE
      /\ UNCHANGED <<mishaps, sending, broker, broken, consumers, subscribed, resubscribing, ending,
                      handlers, histories>>
  BY DEF Reconnect
<1>2. new \in Channels \ used
  BY <1>1
<1>3. new \in Channels /\ new \notin open /\ \A h \in handlers : h.on # new
  BY <1>2
<1> HIDE DEF new, used
<1>4. (QueueTypes /\ LinkTypes /\ OtherTypes)'
  BY <1>1, <1>3 DEF MessagingInv, QueueTypes, LinkTypes, OtherTypes, sending, histories, Alive
<1>5. TagsAreNew'
  <2>1. \A c \in Channels : c # new => tags'[c] = tags[c]
    BY <1>1, <1>3 DEF MessagingInv, LinkTypes
  <2>2. open \subseteq Channels
    BY DEF MessagingInv, LinkTypes
  <2> QED BY <1>1, <1>3, <2>1, <2>2 DEF MessagingInv, TagsAreNew, Alive
<1>6. OneMeaning' /\ OwnChannel' /\ NoMessageIsLost'
  BY <1>1 DEF MessagingInv, OneMeaning, OwnChannel, NoMessageIsLost, AckedWasProcessed, Kept,
              sending, histories
<1> QED BY <1>4, <1>5, <1>6 DEF MessagingInv

LEMMA MessagingKeeps == MessagingInv /\ [MessagingNext]_messagingVars => MessagingInv'
<1> SUFFICES ASSUME MessagingInv, [MessagingNext]_messagingVars PROVE MessagingInv'
  OBVIOUS
<1>1. CASE UNCHANGED messagingVars
  BY <1>1 DEF messagingVars, sending, brokerVars, linkVars, histories, MessagingInv, QueueTypes,
              LinkTypes, OtherTypes, TagsAreNew, OneMeaning, OwnChannel, NoMessageIsLost,
              AckedWasProcessed, Kept, Alive
<1>2. CASE MessagingStep
  BY <1>2, DeliverStep, HandlerStep, HandlerThrowsStep, ShutDownStep, ClosesStep, RestartStep,
     LinkStep, ReconnectStep
     DEF MessagingStep, Ends
<1> QED BY <1>1, <1>2, ReceiveStep, ClosesStep, ShutDownStep, RestartStep DEF MessagingNext, Crash

-----------------------------------------------------------------------------
(* Circuit breaker and gateway.  The counters of one breaker.              *)
CountersAgree(b) ==
  /\ b.successes < SuccessThreshold
  /\ b.state = "CLOSED" => b.failures < FailureThreshold /\ b.successes = 0

BreakerInv == breaker \in [Services -> {b \in Breaker : CountersAgree(b)}]

LEMMA MethodsKeepCounters ==
  ASSUME NEW b \in Breaker, CountersAgree(b), NEW c,
         \/ c \in {Opened(b), HalfOpened(b), Closed(b), Entered(b), OnSuccess(b), OnFailure(b)}
         \/ c = [b EXCEPT !.state = "DUE"]
  PROVE  c \in Breaker /\ CountersAgree(c)
<1> DEFINE Fine(d) == d \in Breaker /\ CountersAgree(d)
<1>0. /\ FailureThreshold \in Nat \ {0} /\ SuccessThreshold \in Nat \ {0}
      /\ b.state \in {"CLOSED", "OPEN", "DUE", "HALF_OPEN"}
      /\ b.failures \in 0 .. FailureThreshold /\ b.successes \in 0 .. SuccessThreshold
  BY BreakerAssumption DEF Breaker
<1>1. Fine(Opened(b)) /\ Fine(HalfOpened(b)) /\ Fine(Closed(b)) /\ Fine([b EXCEPT !.state = "DUE"])
  <2>1. Fine(Opened(b))
    BY <1>0 DEF Opened, Breaker, CountersAgree
  <2>2. Fine(HalfOpened(b))
    BY <1>0 DEF HalfOpened, Breaker, CountersAgree
  <2>3. Fine(Closed(b))
    BY <1>0 DEF Closed, Breaker, CountersAgree
  <2>4. Fine([b EXCEPT !.state = "DUE"])
    BY <1>0 DEF Breaker, CountersAgree
  <2> QED BY <2>1, <2>2, <2>3, <2>4
<1>2. Fine(Entered(b))
  <2>1. Fine(b)
    OBVIOUS
  <2> HIDE DEF Fine
  <2> QED BY <1>1, <2>1 DEF Entered
<1>3. Fine(OnSuccess(b))
  <2>1. b.state # "HALF_OPEN" => Fine([b EXCEPT !.failures = 0])
    BY <1>0 DEF Breaker, CountersAgree
  <2>2. b.state = "HALF_OPEN" /\ b.successes + 1 < SuccessThreshold =>
          Fine([b EXCEPT !.successes = b.successes + 1])
    BY <1>0 DEF Breaker, CountersAgree
  <2> HIDE DEF Fine
  <2> QED BY <1>0, <1>1, <2>1, <2>2 DEF OnSuccess
<1>4. Fine(OnFailure(b))
  <2>1. b.state = "CLOSED" /\ b.failures + 1 < FailureThreshold =>
          Fine([b EXCEPT !.failures = b.failures + 1])
    BY <1>0 DEF Breaker, CountersAgree
  <2>2. Fine(b)
    OBVIOUS
  <2> HIDE DEF Fine
  <2> QED BY <1>0, <1>1, <2>1, <2>2 DEF OnFailure
<1>5. Fine(c)
  <2> HIDE DEF Fine
  <2> QED BY <1>1, <1>2, <1>3, <1>4
<1> QED BY <1>5

LEMMA InitBreaker == BreakerInit => BreakerInv
<1>1. NewBreaker \in Breaker /\ CountersAgree(NewBreaker)
  BY BreakerAssumption DEF NewBreaker, Breaker, CountersAgree
<1> QED BY <1>1 DEF BreakerInit, BreakerInv

(* Every step moves each breaker by one of its methods, or not at all.     *)
LEMMA BreakersKeep ==
  ASSUME BreakerInv, DOMAIN breaker' = Services,
         breaker' = [s \in Services |-> breaker'[s]],
         \A s \in Services :
           \/ breaker'[s] = breaker[s]
           \/ breaker'[s] \in {Opened(breaker[s]), HalfOpened(breaker[s]), Closed(breaker[s]),
                               Entered(breaker[s]), OnSuccess(breaker[s]), OnFailure(breaker[s])}
           \/ breaker'[s] = [breaker[s] EXCEPT !.state = "DUE"]
  PROVE  BreakerInv'
<1>1. ASSUME NEW s \in Services PROVE breaker'[s] \in {b \in Breaker : CountersAgree(b)}
  BY MethodsKeepCounters DEF BreakerInv
<1> QED BY <1>1 DEF BreakerInv

LEMMA BreakerMoves ==
  ASSUME BreakerInv,
         \/ \E c \in Calls, s \in Services : Execute(c, s)
         \/ \E c \in Calls : Succeed(c) \/ Fail(c) \/ FailFiltered(c)
         \/ \E s \in Services : ResetTimeout(s) \/ Manual(s) \/ Recover(s)
         \/ \E to : SendAll(to)
         \/ UNCHANGED breaker
  PROVE  BreakerInv'
<1>0. breaker = [s \in Services |-> breaker[s]]
  BY DEF BreakerInv
<1>1. ASSUME NEW c \in Calls, NEW s \in Services, Execute(c, s) PROVE BreakerInv'
  BY <1>0, <1>1, BreakersKeep DEF Execute
<1>2. ASSUME NEW c \in Calls, Succeed(c) \/ Fail(c) PROVE BreakerInv'
  BY <1>0, <1>2, BreakersKeep DEF Succeed, Fail
<1>3. ASSUME NEW s \in Services, ResetTimeout(s) PROVE BreakerInv'
  BY <1>0, <1>3, BreakersKeep DEF ResetTimeout
<1>4. ASSUME NEW s \in Services, Manual(s) PROVE BreakerInv'
  BY <1>0, <1>4, BreakersKeep DEF Manual
<1>5. ASSUME NEW to, SendAll(to) PROVE BreakerInv'
  BY <1>0, <1>5, BreakersKeep DEF SendAll
<1>6. ASSUME \/ \E c \in Calls : FailFiltered(c)
             \/ \E s \in Services : Recover(s)
             \/ UNCHANGED breaker
      PROVE  BreakerInv'
  BY <1>6 DEF FailFiltered, Recover, BreakerInv
<1> QED BY <1>1, <1>2, <1>3, <1>4, <1>5, <1>6

LEMMA GatewayStep ==
  ASSUME BreakerInv, [BreakerNext]_breakerVars \/ [GatewayNext]_gatewayVars
  PROVE  BreakerInv'
<1>1. CASE [BreakerNext]_breakerVars
  BY <1>1, BreakerMoves DEF BreakerNext, Return, breakerVars
<1>2. CASE [GatewayNext]_gatewayVars
  <2>1. ASSUME NEW c \in Calls, NEW path, ProxyRequest(c, path) PROVE \E to : SendAll(to)
    BY <2>1 DEF ProxyRequest
  <2>2. ASSUME NEW path, Aggregate(path) PROVE \E to : SendAll(to)
    BY <2>2 DEF Aggregate
  <2>3. ASSUME NEW c \in Calls, Respond(c) \/ FetchFails(c) \/ Abort(c) PROVE Succeed(c) \/ Fail(c)
    BY <2>3 DEF Respond, FetchFails, Abort
  <2>4. Combine \/ FailFast \/ GatherTimeout => UNCHANGED breaker
    BY DEF Combine, FailFast, GatherTimeout, EndGather, breakerVars
  <2>5. ASSUME NEW s \in Services, TimeoutOver(s) PROVE ResetTimeout(s)
    BY <2>5 DEF TimeoutOver
  <2>6. UNCHANGED gatewayVars => UNCHANGED breaker
    BY DEF gatewayVars
  <2> QED BY <1>2, <2>1, <2>2, <2>3, <2>4, <2>5, <2>6, BreakerMoves DEF GatewayNext
<1> QED BY <1>1, <1>2

LEMMA BreakerAgrees == BreakerInv => CountersMatchState
BY DEF BreakerInv, CountersAgree, CountersMatchState

(* Bulkhead.  A set of numbers has a least one.                            *)
LEMMA LeastNumber ==
  ASSUME NEW S, S \subseteq Nat, S # {}
  PROVE  \E m \in S : \A n \in S : m <= n
<1>1. \E x \in S : \A y \in S : ~(<<y, x>> \in OpToRel(<, Nat))
  BY NatLessThanWellFounded, WFMin
<1>2. PICK x \in S : \A y \in S : ~(y < x)
  BY <1>1 DEF OpToRel
<1> QED BY <1>2

LEMMA NoneOrOne ==
  ASSUME NEW n \in Int, NEW S \in SUBSET (1 .. n)
  PROVE  Cardinality(S) < 1 <=> S = {}
<1>1. IsFiniteSet(1 .. n)
  BY FS_Interval
<1>2. IsFiniteSet(S) /\ Cardinality(S) \in Nat
  BY <1>1, FS_Subset, FS_CardinalityType
<1>3. Cardinality(S) = 0 <=> S = {}
  BY <1>2, FS_EmptySet
<1> QED BY <1>2, <1>3

Queued == {c \in Callers : at[c] = "queued"}

LEMMA UpToMeansInterval ==
  ASSUME NEW n \in Nat, NEW k \in 0 .. n, NEW T, T \subseteq 1 .. n,
         \A i \in 1 .. n : i \in T <=> i <= k
  PROVE  T = 1 .. k
<1>1. ASSUME NEW i \in T PROVE i \in 1 .. k
  BY <1>1
<1>2. ASSUME NEW i \in 1 .. k PROVE i \in T
  BY <1>2
<1> QED BY <1>1, <1>2

(* The queue that is left when its first k calls were taken.               *)
LEMMA QueueIsTakenInOrder ==
  ASSUME queue \in Seq(Callers)
  PROVE  \E k \in 0 .. Len(queue) :
           /\ Taken(1) = 1 .. k
           /\ \A j \in 1 .. k - 1 : queue[j] \in aged
           /\ k < Len(queue) => k > 0 /\ queue[k] \notin aged
<1> DEFINE n == Len(queue)
           live == {i \in 1 .. n : queue[i] \notin aged}
           Reached(k) == /\ Taken(1) = 1 .. k
                         /\ \A j \in 1 .. k - 1 : queue[j] \in aged
                         /\ k < n => k > 0 /\ queue[k] \notin aged
<1> SUFFICES \E k \in 0 .. n : Reached(k)
  OBVIOUS
<1>1. n \in Nat /\ DOMAIN queue = 1 .. n
  OBVIOUS
<1>2. \A i \in 1 .. n : i \in Taken(1) <=> \A j \in 1 .. (i - 1) : queue[j] \in aged
  <2> SUFFICES ASSUME NEW i \in 1 .. n
               PROVE  i \in Taken(1) <=> \A j \in 1 .. (i - 1) : queue[j] \in aged
    OBVIOUS
  <2> DEFINE before == {j \in 1 .. (i - 1) : queue[j] \notin aged}
  <2>1. Cardinality(before) < 1 <=> before = {}
    <3>1. before \in SUBSET (1 .. (i - 1)) /\ i - 1 \in Int
      <4>1. i \in Int
        BY <1>1
      <4>2. before \subseteq 1 .. (i - 1)
        OBVIOUS
      <4> QED BY <4>1, <4>2
    <3> HIDE DEF before
    <3> QED BY <3>1, NoneOrOne
  <2>2. before = {} <=> \A j \in 1 .. (i - 1) : queue[j] \in aged
    OBVIOUS
  <2>3. i \in Taken(1) <=> Cardinality(before) < 1
    BY <1>1 DEF Taken
  <2> QED BY <2>1, <2>2, <2>3
<1>3. Taken(1) \subseteq 1 .. n
  BY <1>1 DEF Taken
<1>4. CASE live = {}
  <2>1. \A i \in 1 .. n : queue[i] \in aged
    BY <1>4
  <2>2. Taken(1) = 1 .. n
    <3> HIDE DEF n, live
    <3>1. \A i \in 1 .. n : i \in Taken(1) <=> i <= n
      BY <1>1, <1>2, <2>1
    <3> DEFINE T == Taken(1)
    <3>2. T \subseteq 1 .. n /\ (\A i \in 1 .. n : i \in T <=> i <= n) /\ n \in 0 .. n
      BY <1>1, <1>3, <3>1
    <3> HIDE DEF T
    <3>3. T = 1 .. n
      BY <1>1, <3>2, UpToMeansInterval
    <3> QED BY <3>3 DEF T
  <2>3. Reached(n)
    <3> HIDE DEF n
    <3> QED BY <1>1, <2>1, <2>2
  <2> HIDE DEF Reached, n
  <2> QED BY <1>1, <2>3
<1>5. CASE live # {}
  <2>1. PICK k \in live : \A i \in live : k <= i
    <3>1. live \subseteq Nat
      BY <1>1
    <3> HIDE DEF live
    <3> QED BY <1>5, <3>1, LeastNumber
  <2>2. k \in 1 .. n /\ queue[k] \notin aged /\ \A j \in 1 .. n : j < k => queue[j] \in aged
    <3> HIDE DEF n
    <3> QED BY <1>1, <2>1
  <2> HIDE DEF live, n
  <2>3. \A i \in 1 .. n : i \in Taken(1) <=> i <= k
    <3>1. ASSUME NEW i \in 1 .. n, i <= k PROVE i \in Taken(1)
      BY <1>1, <1>2, <2>2, <3>1
    <3>2. ASSUME NEW i \in 1 .. n, i \in Taken(1) PROVE i <= k
      BY <1>1, <1>2, <2>2, <3>2
    <3> QED BY <3>1, <3>2
  <2>4. Taken(1) = 1 .. k
    BY <1>1, <1>3, <2>2, <2>3, UpToMeansInterval
  <2>5. Reached(k) /\ k \in 0 .. n
    BY <1>1, <2>2, <2>4
  <2> HIDE DEF Reached
  <2> QED BY <2>5
<1> QED BY <1>4, <1>5

(* The n-th of a finite set of numbers numbers the set.                    *)
Smaller(S, i) == {j \in S : j < i}

LEMMA RanksAreDifferent ==
  ASSUME NEW S, S \subseteq Nat, IsFiniteSet(S), NEW i \in S, NEW k \in S, i < k
  PROVE  /\ Cardinality(Smaller(S, i)) \in Nat /\ Cardinality(Smaller(S, k)) \in Nat
         /\ Cardinality(Smaller(S, i)) < Cardinality(Smaller(S, k))
<1>1. /\ Smaller(S, i) \subseteq S /\ Smaller(S, k) \subseteq S
      /\ Smaller(S, i) \cup {i} \subseteq Smaller(S, k) /\ i \notin Smaller(S, i)
  <2>1. i \in Nat /\ k \in Nat /\ \A j \in S : j \in Nat
    OBVIOUS
  <2>2. \A j \in S : j < i => j < k
    BY <2>1
  <2>3. i \notin Smaller(S, i)
    BY <2>1 DEF Smaller
  <2> QED BY <2>1, <2>2, <2>3 DEF Smaller
<1>2. IsFiniteSet(Smaller(S, i)) /\ IsFiniteSet(Smaller(S, k))
  BY <1>1, FS_Subset
<1>3. Cardinality(Smaller(S, i) \cup {i}) = Cardinality(Smaller(S, i)) + 1
  BY <1>1, <1>2, FS_AddElement
<1>4. Cardinality(Smaller(S, i) \cup {i}) <= Cardinality(Smaller(S, k))
  BY <1>1, <1>2, FS_Subset
<1> QED BY <1>2, <1>3, <1>4, FS_CardinalityType

LEMMA NthNumbers ==
  ASSUME NEW S, S \subseteq Nat, IsFiniteSet(S)
  PROVE  /\ Cardinality(S) \in Nat
         /\ \A n \in 1 .. Cardinality(S) : Nth(S, n) \in S
         /\ \A m, n \in 1 .. Cardinality(S) : Nth(S, m) = Nth(S, n) => m = n
         /\ \A i \in S : \E n \in 1 .. Cardinality(S) : Nth(S, n) = i
<1> DEFINE size == Cardinality(S)
           rank == [i \in S |-> Cardinality(Smaller(S, i)) + 1]
<1>1. size \in Nat
  BY FS_CardinalityType
<1>2. ASSUME NEW i \in S PROVE Cardinality(Smaller(S, i)) \in Nat /\ rank[i] \in 1 .. size
  <2>1. Smaller(S, i) \subseteq S /\ i \notin Smaller(S, i) /\ Smaller(S, i) \cup {i} \subseteq S
    BY DEF Smaller
  <2>2. IsFiniteSet(Smaller(S, i)) /\ Cardinality(Smaller(S, i)) \in Nat
    BY <2>1, FS_Subset, FS_CardinalityType
  <2>3. Cardinality(Smaller(S, i) \cup {i}) = Cardinality(Smaller(S, i)) + 1
    BY <2>1, <2>2, FS_AddElement
  <2>4. Cardinality(Smaller(S, i) \cup {i}) <= size
    BY <2>1, FS_Subset
  <2> QED BY <1>1, <2>2, <2>3, <2>4
<1>3. ASSUME NEW i \in S, NEW k \in S, rank[i] = rank[k] PROVE i = k
  <2>1. i \in Nat /\ k \in Nat
    OBVIOUS
  <2>2. Cardinality(Smaller(S, i)) = Cardinality(Smaller(S, k))
    BY <1>2, <1>3
  <2> HIDE DEF rank, size
  <2>3. ASSUME i < k PROVE FALSE
    <3>1. /\ Cardinality(Smaller(S, i)) \in Nat
          /\ Cardinality(Smaller(S, i)) < Cardinality(Smaller(S, k))
      BY <2>3, RanksAreDifferent
    <3> QED BY <2>2, <3>1
  <2>4. ASSUME k < i PROVE FALSE
    <3>1. /\ Cardinality(Smaller(S, k)) \in Nat
          /\ Cardinality(Smaller(S, k)) < Cardinality(Smaller(S, i))
      BY <2>4, RanksAreDifferent
    <3> QED BY <2>2, <3>1
  <2> QED BY <2>1, <2>3, <2>4
<1>4. rank \in [S -> 1 .. size]
  BY <1>2
<1>5. \A n \in 1 .. size : \E i \in S : rank[i] = n
  <2> HIDE DEF rank
  <2>1. rank \in Injection(S, 1 .. size)
    BY <1>3, <1>4 DEF Injection, IsInjective
  <2>2. IsFiniteSet(1 .. size) /\ Cardinality(1 .. size) = size
    BY <1>1, FS_Interval
  <2>3. rank \in Surjection(S, 1 .. size)
    BY <2>1, <2>2, FS_Injection
  <2> QED BY <2>3 DEF Surjection
<1>6. \A i \in S, n \in 1 .. size : rank[i] = n <=> Cardinality({j \in S : j < i}) = n - 1
  BY <1>1, <1>2 DEF Smaller
<1> HIDE DEF rank, size
<1>7. ASSUME NEW n \in 1 .. size PROVE Nth(S, n) \in S /\ rank[Nth(S, n)] = n
  <2>1. \E i \in S : Cardinality({j \in S : j < i}) = n - 1
    BY <1>5, <1>6
  <2>2. Nth(S, n) \in S /\ Cardinality({j \in S : j < Nth(S, n)}) = n - 1
    BY <2>1 DEF Nth
  <2> QED BY <1>6, <2>2
<1>8. ASSUME NEW i \in S PROVE Nth(S, rank[i]) = i
  BY <1>3, <1>4, <1>7
<1>9. \A m, n \in 1 .. size : Nth(S, m) = Nth(S, n) => m = n
  BY <1>7
<1>10. \A i \in S : \E n \in 1 .. size : Nth(S, n) = i
  BY <1>4, <1>8
<1> QED BY <1>1, <1>7, <1>9, <1>10 DEF size
Waiting(q) == {q[i] : i \in DOMAIN q}
EachOnce(q) == \A i, j \in DOMAIN q : q[i] = q[j] => i = j

LEMMA RestOfQueue ==
  ASSUME NEW q \in Seq(Callers), EachOnce(q), NEW k \in 0 .. Len(q)
  PROVE  LET rest == SubSeq(q, k + 1, Len(q))
         IN /\ rest \in Seq(Callers) /\ Len(rest) = Len(q) - k
            /\ EachOnce(rest) /\ Waiting(rest) = Waiting(q) \ {q[i] : i \in 1 .. k}
<1> DEFINE n == Len(q)
           rest == SubSeq(q, k + 1, n)
<1>1. n \in Nat /\ k \in 0 .. n /\ DOMAIN q = 1 .. n /\ \A i \in 1 .. n : q[i] \in Callers
  OBVIOUS
<1> HIDE DEF n
<1>2. k + 1 \in Int /\ n \in Int /\ \A i \in k + 1 .. n : q[i] \in Callers
  BY <1>1
<1>3. /\ rest \in Seq(Callers) /\ Len(rest) = n - k
      /\ \A i \in 1 .. n - k : rest[i] = q[k + i]
  <2>1. /\ rest \in Seq(Callers) /\ Len(rest) = IF k + 1 <= n THEN n - (k + 1) + 1 ELSE 0
        /\ \A i \in 1 .. n - (k + 1) + 1 : rest[i] = q[(k + 1) + i - 1]
    BY <1>2, SubSeqProperties
  <2> HIDE DEF rest
  <2>2. n - (k + 1) + 1 = n - k /\ \A i \in 1 .. n - k : (k + 1) + i - 1 = k + i
    BY <1>1
  <2> QED BY <1>1, <2>1, <2>2
<1> HIDE DEF rest
<1>4. DOMAIN rest = 1 .. n - k
  BY <1>3
<1>5. EachOnce(rest)
  <2> SUFFICES ASSUME NEW i \in 1 .. n - k, NEW j \in 1 .. n - k, rest[i] = rest[j] PROVE i = j
    BY <1>4 DEF EachOnce
  <2>1. k + i \in 1 .. n /\ k + j \in 1 .. n /\ q[k + i] = q[k + j]
    BY <1>1, <1>3
  <2>2. k + i = k + j
    BY <1>1, <2>1 DEF EachOnce
  <2> QED BY <1>1, <2>2
<1>6. Waiting(rest) = Waiting(q) \ {q[i] : i \in 1 .. k}
  <2>1. ASSUME NEW i \in 1 .. n - k
        PROVE  rest[i] \in Waiting(q) /\ rest[i] \notin {q[j] : j \in 1 .. k}
    <3>1. k + i \in 1 .. n /\ rest[i] = q[k + i]
      BY <1>1, <1>3
    <3>2. \A j \in 1 .. k : j \in 1 .. n /\ j # k + i
      BY <1>1
    <3> QED BY <1>1, <3>1, <3>2 DEF Waiting, EachOnce
  <2>2. ASSUME NEW j \in 1 .. n, q[j] \notin {q[i] : i \in 1 .. k}
        PROVE  q[j] \in Waiting(rest)
    <3>1. j \notin 1 .. k
      BY <2>2
    <3>2. j - k \in 1 .. n - k /\ rest[j - k] = q[j]
      BY <1>1, <1>3, <3>1
    <3> QED BY <1>4, <3>2 DEF Waiting
  <2> QED BY <1>1, <1>4, <2>1, <2>2 DEF Waiting
<1> QED BY <1>3, <1>5, <1>6 DEF n, rest

LEMMA QueueGrows ==
  ASSUME NEW q \in Seq(Callers), EachOnce(q), NEW c \in Callers, c \notin Waiting(q)
  PROVE  /\ Append(q, c) \in Seq(Callers) /\ Len(Append(q, c)) = Len(q) + 1
         /\ EachOnce(Append(q, c)) /\ Waiting(Append(q, c)) = Waiting(q) \cup {c}
<1> DEFINE n == Len(q)
           r == Append(q, c)
<1>1. n \in Nat /\ DOMAIN q = 1 .. n
  OBVIOUS
<1>2. /\ r \in Seq(Callers) /\ Len(r) = n + 1
      /\ \A i \in 1 .. n : r[i] = q[i]
      /\ r[n + 1] = c
  BY AppendProperties
<1> HIDE DEF n, r
<1>3. DOMAIN r = 1 .. n + 1
  BY <1>2
<1>4. \A i \in 1 .. n + 1 : i \in 1 .. n \/ i = n + 1
  BY <1>1
<1>5. n + 1 \in 1 .. n + 1 /\ \A i \in 1 .. n : i \in 1 .. n + 1 /\ i # n + 1
  BY <1>1
<1>6. EachOnce(r)
  <2> SUFFICES ASSUME NEW i \in 1 .. n + 1, NEW j \in 1 .. n + 1, r[i] = r[j] PROVE i = j
    BY <1>3 DEF EachOnce
  <2> QED BY <1>1, <1>2, <1>4 DEF EachOnce, Waiting
<1>7. Waiting(r) = Waiting(q) \cup {c}
  BY <1>1, <1>2, <1>3, <1>4, <1>5 DEF Waiting
<1> QED BY <1>2, <1>6, <1>7 DEF n, r

(* The queue without those that are too old.                               *)
LEMMA UnagedQueue ==
  ASSUME queue \in Seq(Callers), EachOnce(queue)
  PROVE  /\ Unaged \in Seq(Callers) /\ Len(Unaged) <= Len(queue)
         /\ EachOnce(Unaged) /\ Waiting(Unaged) = Waiting(queue) \ aged
<1> DEFINE live == {i \in DOMAIN queue : queue[i] \notin aged}
           m == Cardinality(live)
<1>1. /\ Len(queue) \in Nat /\ DOMAIN queue = 1 .. Len(queue)
      /\ \A i \in DOMAIN queue : queue[i] \in Callers
  OBVIOUS
<1>2. IsFiniteSet(1 .. Len(queue)) /\ Cardinality(1 .. Len(queue)) = Len(queue)
  BY <1>1, FS_Interval
<1>3. live \subseteq 1 .. Len(queue) /\ live \subseteq Nat
  BY <1>1
<1>4. Unaged = [n \in 1 .. m |-> queue[Nth(live, n)]]
  BY DEF Unaged
<1>5. \A i : i \in live <=> i \in DOMAIN queue /\ queue[i] \notin aged
  OBVIOUS
<1> HIDE DEF live
<1>6. IsFiniteSet(live) /\ m <= Len(queue)
  BY <1>2, <1>3, FS_Subset
<1>7. /\ m \in Nat
      /\ \A n \in 1 .. m : Nth(live, n) \in live
      /\ \A n, k \in 1 .. m : Nth(live, n) = Nth(live, k) => n = k
      /\ \A i \in live : \E n \in 1 .. m : Nth(live, n) = i
  BY <1>3, <1>6, NthNumbers
<1> HIDE DEF m
<1>8. Unaged \in Seq(Callers) /\ Len(Unaged) = m /\ DOMAIN Unaged = 1 .. m
  BY <1>1, <1>4, <1>5, <1>7
<1>9. EachOnce(Unaged)
  BY <1>4, <1>5, <1>7, <1>8 DEF EachOnce
<1>10. Waiting(Unaged) = Waiting(queue) \ aged
  <2>1. ASSUME NEW n \in 1 .. m PROVE Unaged[n] \in Waiting(queue) \ aged
    BY <1>4, <1>5, <1>7 DEF Waiting
  <2>2. ASSUME NEW i \in DOMAIN queue, queue[i] \notin aged PROVE queue[i] \in Waiting(Unaged)
    <3>1. PICK n \in 1 .. m : Nth(live, n) = i
      BY <1>5, <1>7, <2>2
    <3> QED BY <1>4, <1>8, <3>1 DEF Waiting
  <2> QED BY <1>8, <2>1, <2>2 DEF Waiting
<1> QED BY <1>6, <1>8, <1>9, <1>10

(* Who is queued waits in the queue once, who is too old waits in it; the  *)
(* count can only be right because there are finitely many that run.       *)
BulkheadInv ==
  /\ BulkheadTypeOK
  /\ IsFiniteSet(Occupied) /\ activeCount = Cardinality(Occupied)
  /\ activeCount <= MaxConcurrent /\ Len(queue) <= MaxQueueSize
  /\ queue # <<>> => activeCount = MaxConcurrent
  /\ Waiting(queue) = Queued /\ EachOnce(queue) /\ aged \subseteq Queued

LEMMA InitBulkhead == BulkheadInit => BulkheadInv
<1> SUFFICES ASSUME BulkheadInit PROVE BulkheadInv
  OBVIOUS
<1>1. Occupied = {} /\ Queued = {} /\ Waiting(queue) = {} /\ EachOnce(queue)
  BY DEF BulkheadInit, Occupied, Queued, Waiting, EachOnce
<1>2. BulkheadTypeOK /\ Len(queue) = 0
  <2>1. at \in [Callers -> Places]
    BY DEF BulkheadInit, Places
  <2>2. queue \in Seq(Callers)
    BY EmptySeq DEF BulkheadInit
  <2> QED BY <2>1, <2>2 DEF BulkheadInit, BulkheadTypeOK
<1> QED BY <1>1, <1>2, FS_EmptySet, BulkheadAssumption DEF BulkheadInit, BulkheadInv

LEMMA EnterStep == ASSUME BulkheadInv, NEW c \in Callers, Enter(c) PROVE BulkheadInv'
<1>1. /\ IsFiniteSet(Occupied) /\ activeCount = Cardinality(Occupied)
      /\ activeCount <= MaxConcurrent /\ Len(queue) <= MaxQueueSize
      /\ queue # <<>> => activeCount = MaxConcurrent
      /\ Waiting(queue) = Queued /\ EachOnce(queue) /\ aged \subseteq Queued
  BY DEF BulkheadInv
<1>2. /\ at \in [Callers -> Places] /\ activeCount \in Nat /\ queue \in Seq(Callers)
      /\ aged \subseteq Callers /\ destroyed \in BOOLEAN
      /\ MaxConcurrent \in Nat \ {0} /\ MaxQueueSize \in Nat
  BY BulkheadAssumption DEF BulkheadInv, BulkheadTypeOK
<1>3. c \notin Occupied /\ c \notin Queued /\ UNCHANGED <<aged, destroyed>>
  BY DEF Enter, Occupied, Queued
<1>4. CASE /\ activeCount < MaxConcurrent
           /\ at' = [at EXCEPT ![c] = "active"]
           /\ activeCount' = activeCount + 1 /\ UNCHANGED queue
  <2>1. Occupied' = Occupied \cup {c} /\ Queued' = Queued
    BY <1>2, <1>3, <1>4 DEF Occupied, Queued
  <2>2. IsFiniteSet(Occupied') /\ Cardinality(Occupied') = activeCount + 1
    BY <1>1, <1>3, <2>1, FS_AddElement
  <2>3. queue = <<>>
    BY <1>1, <1>2, <1>4
  <2>4. BulkheadTypeOK'
    <3>1. at' \in [Callers -> Places]
      BY <1>2, <1>4 DEF Places
    <3>2. activeCount' \in Nat
      BY <1>2, <1>4
    <3> QED BY <1>2, <1>3, <1>4, <3>1, <3>2 DEF BulkheadTypeOK
  <2> QED BY <1>1, <1>2, <1>3, <1>4, <2>1, <2>2, <2>3, <2>4 DEF BulkheadInv
<1>5. CASE /\ activeCount >= MaxConcurrent /\ Len(queue) < MaxQueueSize
           /\ at' = [at EXCEPT ![c] = "queued"]
           /\ queue' = Append(queue, c) /\ UNCHANGED activeCount
  <2>1. Occupied' = Occupied /\ Queued' = Queued \cup {c}
    BY <1>2, <1>3, <1>5 DEF Occupied, Queued
  <2>2. /\ queue' \in Seq(Callers) /\ Len(queue') = Len(queue) + 1
        /\ EachOnce(queue') /\ Waiting(queue') = Waiting(queue) \cup {c}
    BY <1>1, <1>2, <1>3, <1>5, QueueGrows
  <2>3. BulkheadTypeOK'
    BY <1>2, <1>3, <1>5, <2>2 DEF BulkheadTypeOK, Places
  <2>4. activeCount' = MaxConcurrent /\ Len(queue') <= MaxQueueSize
    BY <1>1, <1>2, <1>5, <2>2
  <2> QED BY <1>1, <1>3, <1>5, <2>1, <2>2, <2>3, <2>4 DEF BulkheadInv
<1>6. CASE at' = [at EXCEPT ![c] = "full"] /\ UNCHANGED <<activeCount, queue>>
  <2>1. Occupied' = Occupied /\ Queued' = Queued
    BY <1>2, <1>3, <1>6 DEF Occupied, Queued
  <2>2. BulkheadTypeOK'
    BY <1>2, <1>3, <1>6 DEF BulkheadTypeOK, Places
  <2> QED BY <1>1, <1>3, <1>6, <2>1, <2>2 DEF BulkheadInv
<1> QED BY <1>4, <1>5, <1>6 DEF Enter

LEMMA AgeStep == ASSUME BulkheadInv, NEW c \in Callers, Age(c) PROVE BulkheadInv'
<1>1. /\ aged' = aged \cup {c} /\ c \in Queued
      /\ UNCHANGED <<at, activeCount, queue, destroyed>>
  BY DEF Age, Queued
<1> QED BY <1>1 DEF BulkheadInv, BulkheadTypeOK, Occupied, Queued

LEMMA CleanQueueStep == ASSUME BulkheadInv, CleanQueue PROVE BulkheadInv'
<1>1. /\ IsFiniteSet(Occupied) /\ activeCount = Cardinality(Occupied)
      /\ activeCount <= MaxConcurrent /\ Len(queue) <= MaxQueueSize
      /\ queue # <<>> => activeCount = MaxConcurrent
      /\ Waiting(queue) = Queued /\ EachOnce(queue) /\ aged \subseteq Queued
  BY DEF BulkheadInv
<1>2. /\ at \in [Callers -> Places] /\ activeCount \in Nat /\ queue \in Seq(Callers)
      /\ destroyed \in BOOLEAN /\ MaxQueueSize \in Nat
  BY BulkheadAssumption DEF BulkheadInv, BulkheadTypeOK
<1>3. /\ at' = [c \in Callers |-> IF c \in aged THEN "timed out" ELSE at[c]]
      /\ queue' = Unaged /\ aged' = {} /\ UNCHANGED <<activeCount, destroyed>>
  BY DEF CleanQueue, MoveAll
<1>4. /\ queue' \in Seq(Callers) /\ Len(queue') <= Len(queue)
      /\ EachOnce(queue') /\ Waiting(queue') = Queued \ aged
  BY <1>1, <1>2, <1>3, UnagedQueue
<1>5. Occupied' = Occupied /\ Queued' = Queued \ aged
  BY <1>1, <1>3 DEF Occupied, Queued
<1>6. BulkheadTypeOK'
  BY <1>2, <1>3, <1>4 DEF BulkheadTypeOK, Places
<1>7. Len(queue') <= MaxQueueSize /\ (queue' # <<>> => queue # <<>>)
  <2>1. Len(queue) \in Nat /\ Len(queue') \in Nat
    BY <1>2, <1>4
  <2>2. queue' # <<>> => Len(queue') > 0
    BY <1>4
  <2>3. queue = <<>> => Len(queue) = 0
    OBVIOUS
  <2> QED BY <1>1, <1>2, <1>4, <2>1, <2>2, <2>3
<1> QED BY <1>1, <1>3, <1>4, <1>5, <1>6, <1>7 DEF BulkheadInv

LEMMA DestroyStep == ASSUME BulkheadInv, Destroy PROVE BulkheadInv'
<1>1. /\ IsFiniteSet(Occupied) /\ activeCount = Cardinality(Occupied)
      /\ activeCount <= MaxConcurrent
  BY DEF BulkheadInv
<1>2. /\ at \in [Callers -> Places] /\ activeCount \in Nat /\ MaxQueueSize \in Nat
  BY BulkheadAssumption DEF BulkheadInv, BulkheadTypeOK
<1>3. /\ at' = [c \in Callers |-> IF c \in Queued THEN "destroyed" ELSE at[c]]
      /\ queue' = <<>> /\ aged' = {} /\ destroyed' = TRUE /\ UNCHANGED activeCount
  BY DEF Destroy, MoveAll, Queued
<1>4. Occupied' = Occupied /\ Queued' = {}
  BY <1>3 DEF Occupied, Queued
<1>5. BulkheadTypeOK'
  <2>1. at' \in [Callers -> Places]
    BY <1>2, <1>3 DEF Places
  <2>2. queue' \in Seq(Callers)
    BY <1>3, EmptySeq
  <2> QED BY <1>2, <1>3, <2>1, <2>2 DEF BulkheadTypeOK
<1>6. Len(queue') = 0 /\ Waiting(queue') = {} /\ EachOnce(queue')
  BY <1>3 DEF Waiting, EachOnce
<1> QED BY <1>1, <1>2, <1>3, <1>4, <1>5, <1>6 DEF BulkheadInv

(* Two facts about numbers.                                                *)
LEMMA OneBack == \A n \in Int : (n - 1) + 1 = n
OBVIOUS

LEMMA CountUpTo == \A n \in Nat : Cardinality(1 .. n) = n
<1> SUFFICES ASSUME NEW n \in Nat PROVE Cardinality(1 .. n) = n
  OBVIOUS
<1>1. Cardinality(1 .. n) = IF 1 > n THEN 0 ELSE n - 1 + 1
  BY FS_Interval
<1> QED BY <1>1

(* A call that settles passes its place to the first in the queue that is  *)
(* not too old: there is one place to pass when somebody waits.            *)
LEMMA LeaveStep == ASSUME BulkheadInv, NEW c \in Callers, Leave(c) PROVE BulkheadInv'
<1>1. /\ IsFiniteSet(Occupied) /\ activeCount = Cardinality(Occupied)
      /\ activeCount <= MaxConcurrent /\ Len(queue) <= MaxQueueSize
      /\ queue # <<>> => activeCount = MaxConcurrent
      /\ Waiting(queue) = Queued /\ EachOnce(queue) /\ aged \subseteq Queued
  BY DEF BulkheadInv
<1>2. /\ at \in [Callers -> Places] /\ activeCount \in Nat /\ queue \in Seq(Callers)
      /\ aged \subseteq Callers /\ destroyed \in BOOLEAN
      /\ MaxConcurrent \in Nat \ {0} /\ MaxQueueSize \in Nat /\ Len(queue) \in Nat
      /\ DOMAIN queue = 1 .. Len(queue)
  BY BulkheadAssumption DEF BulkheadInv, BulkheadTypeOK
<1> DEFINE taken == Taken(MaxConcurrent - (activeCount - 1))
           shifted == {queue[i] : i \in taken}
           started == shifted \ aged
<1>3. /\ at[c] = "active"
      /\ \E stage \in {"active", "stranded"} :
           at' = [d \in Callers |-> IF d = c THEN "returned"
                                    ELSE IF d \in started THEN stage
                                    ELSE IF d \in shifted THEN "timed out" ELSE at[d]]
      /\ activeCount' = (activeCount - 1) + Cardinality(started)
      /\ queue' = SubSeq(queue, Cardinality(taken) + 1, Len(queue))
      /\ aged' = aged \ shifted
      /\ UNCHANGED destroyed
  BY DEF Leave
<1>4. PICK k \in 0 .. Len(queue) :
        /\ taken = 1 .. k
        /\ \A j \in 1 .. k - 1 : queue[j] \in aged
        /\ k < Len(queue) => k > 0 /\ queue[k] \notin aged
  <2>1. CASE queue = <<>>
    <3>1. taken = 1 .. 0 /\ Len(queue) = 0
      BY <2>1 DEF Taken
    <3> HIDE DEF taken
    <3> QED BY <3>1
  <2>2. CASE queue # <<>>
    <3>1. MaxConcurrent - (activeCount - 1) = 1
      <4>1. activeCount = MaxConcurrent /\ activeCount \in Int
        BY <1>1, <1>2, <2>2
      <4> QED BY <4>1
    <3> QED BY <1>2, <3>1, QueueIsTakenInOrder
  <2> QED BY <2>1, <2>2
<1> HIDE DEF taken
<1>5. Cardinality(taken) = k
  <2>a. k \in Nat
    BY <1>2
  <2>b. taken = 1 .. k
    BY <1>4
  <2>1. k \in Nat /\ taken = 1 .. k
    BY <2>a, <2>b
  <2>2. Cardinality(1 .. k) = k
    BY <2>a, CountUpTo, Zenon
  <2> QED BY <2>1, <2>2
<1>6. /\ queue' \in Seq(Callers) /\ Len(queue') = Len(queue) - k
      /\ EachOnce(queue') /\ Waiting(queue') = Waiting(queue) \ shifted
  BY <1>1, <1>2, <1>3, <1>4, <1>5, RestOfQueue
<1>7. shifted \subseteq Queued
  BY <1>1, <1>2, <1>4 DEF Waiting
<1>8. \/ started = {} /\ k = Len(queue)
      \/ \E d \in Queued : started = {d}
  <2>1. \A i \in 1 .. k : i = k \/ i \in 1 .. k - 1
    OBVIOUS
  <2>2. CASE k > 0 /\ queue[k] \notin aged
    <3>1. k \in 1 .. k
      BY <2>2
    <3>2. started = {queue[k]} /\ queue[k] \in Queued
      BY <1>4, <1>7, <2>1, <2>2, <3>1
    <3> QED BY <3>2
  <2>3. CASE ~(k > 0 /\ queue[k] \notin aged)
    <3>0. Len(queue) \in Nat
      BY <1>2
    <3>1. ~(k < Len(queue))
      BY <1>4, <2>3
    <3>2. k = Len(queue)
      BY <3>0, <3>1
    <3>3. \A i \in 1 .. k : queue[i] \in aged
      BY <1>4, <2>1, <2>3
    <3> QED BY <1>4, <3>2, <3>3
  <2> QED BY <2>2, <2>3
<1>9. started \subseteq shifted /\ c \in Occupied /\ c \notin Queued
  BY <1>3 DEF Occupied, Queued
<1>10. Occupied \cap Queued = {}
  BY DEF Occupied, Queued
<1> HIDE DEF shifted, started
<1>11. Occupied' = (Occupied \ {c}) \cup started /\ Queued' = Queued \ shifted
  BY <1>3, <1>7, <1>9 DEF Occupied, Queued
<1>12. IsFiniteSet(Occupied \ {c}) /\ Cardinality(Occupied \ {c}) = activeCount - 1
  BY <1>1, <1>9, FS_RemoveElement
<1>13. /\ IsFiniteSet(Occupied') /\ activeCount' = Cardinality(Occupied')
       /\ activeCount' \in Nat /\ activeCount' <= MaxConcurrent
       /\ queue' # <<>> => activeCount' = MaxConcurrent
  <2>0. activeCount - 1 \in Nat
    BY <1>12, FS_CardinalityType
  <2>1. CASE started = {} /\ k = Len(queue)
    <3>1. Len(queue') = 0
      BY <1>2, <1>6, <2>1
    <3>2. queue' = <<>>
      BY <1>6, <3>1
    <3>3. Occupied' = Occupied \ {c} /\ activeCount' = activeCount - 1
      <4>1. Cardinality(started) = 0 /\ Occupied' = Occupied \ {c}
        BY <1>11, <2>1, FS_EmptySet
      <4>2. activeCount' = (activeCount - 1) + Cardinality(started)
        BY <1>3
      <4> QED BY <2>0, <4>1, <4>2
    <3> QED BY <1>1, <1>2, <1>12, <2>0, <3>2, <3>3
  <2>2. ASSUME NEW d \in Queued, started = {d}
        PROVE  /\ IsFiniteSet(Occupied') /\ activeCount' = Cardinality(Occupied')
               /\ activeCount' = activeCount /\ activeCount = MaxConcurrent
    <3>1. d \notin Occupied \ {c} /\ Occupied' = (Occupied \ {c}) \cup {d}
      BY <1>10, <1>11, <2>2
    <3>2. IsFiniteSet(Occupied') /\ Cardinality(Occupied') = (activeCount - 1) + 1
      <4> DEFINE rest == Occupied \ {c}
      <4>1. IsFiniteSet(rest) /\ Cardinality(rest) = activeCount - 1 /\ d \notin rest
        BY <1>12, <3>1
      <4> HIDE DEF rest
      <4>2. IsFiniteSet(rest \cup {d}) /\ Cardinality(rest \cup {d}) = (activeCount - 1) + 1
        BY <4>1, FS_AddElement
      <4> QED BY <3>1, <4>2 DEF rest
    <3>3. activeCount' = (activeCount - 1) + 1
      BY <1>3, <2>2, FS_Singleton
    <3>4. queue # <<>>
      BY <1>1 DEF Waiting
    <3>5. activeCount = MaxConcurrent /\ activeCount \in Int
      BY <1>1, <1>2, <3>4
    <3>6. (activeCount - 1) + 1 = activeCount
      BY <3>5, OneBack, Zenon
    <3> QED BY <3>2, <3>3, <3>5, <3>6, Zenon
  <2> QED BY <1>1, <1>2, <1>8, <2>1, <2>2
<1>14. BulkheadTypeOK'
  BY <1>2, <1>3, <1>6, <1>13 DEF BulkheadTypeOK, Places
<1>15. Len(queue') <= MaxQueueSize
  BY <1>1, <1>2, <1>6
<1>16. aged' \subseteq Queued'
  BY <1>1, <1>3, <1>11
<1> QED BY <1>1, <1>6, <1>11, <1>13, <1>14, <1>15, <1>16 DEF BulkheadInv

LEMMA BulkheadKeeps == BulkheadInv /\ [BulkheadNext]_bulkheadVars => BulkheadInv'
<1>1. UNCHANGED bulkheadVars /\ BulkheadInv => BulkheadInv'
  BY DEF bulkheadVars, BulkheadInv, BulkheadTypeOK, Occupied, Queued
<1> QED BY <1>1, EnterStep, LeaveStep, AgeStep, CleanQueueStep, DestroyStep DEF BulkheadNext

LEMMA BulkheadCounts == BulkheadInv => NoIdleCapacity
BY DEF BulkheadInv, NoIdleCapacity, Occupied, Queued, Waiting

-----------------------------------------------------------------------------
(* Cache.  What a writer has still to do: after its write it evicts every  *)
(* key that it outdated and that anybody would evict.                      *)
CacheCalls == [op : {"write", "keys", "del"}, keys : SUBSET Keys]

NoWrite(plan) == \A i \in DOMAIN plan : plan[i].op # "write"
Reaches(plan, k) == \E i \in DOMAIN plan : k \in plan[i].keys
Due(plan, k) == NoWrite(plan) /\ Reaches(plan, k)
Evictable(k) == ~k.early /\ EvictionReaches(k)

(* No call after a write is a write, and what it outdates comes after it.  *)
EvictsAfter(plan) ==
  \A i \in DOMAIN plan : plan[i].op = "write" =>
    /\ \A j \in DOMAIN plan : j > i => plan[j].op # "write"
    /\ \A k \in plan[i].keys : Evictable(k) =>
         \E j \in DOMAIN plan : j > i /\ k \in plan[j].keys

CacheMethods ==
  {r \in [step : {"idle", "loading", "storing", "writing"}, for : SUBSET Keys,
          val : Values, plan : Seq(CacheCalls)] :
     /\ EvictsAfter(r.plan) /\ (r.step = "writing" <=> r.plan # <<>>)
     /\ \A j, k \in r.for : j = k}

(* An entry is out of date only while somebody who has already written is  *)
(* on the way to evict it: an eviction that the write may still cancel     *)
(* does not count.                                                         *)
CacheInv ==
  /\ entry \in [Keys -> Values]
  /\ user \in [CacheUsers -> CacheMethods]
  /\ raced \subseteq Keys
  /\ \A k \in Keys : entry[k] = "outdated" /\ Evictable(k) =>
       k \in raced \/ \E u \in CacheUsers : Due(user[u].plan, k)

(* A plan whose first call has been made.                                  *)
LEMMA PlanShrinks ==
  ASSUME NEW p \in Seq(CacheCalls), EvictsAfter(p), p # <<>>
  PROVE  /\ Tail(p) \in Seq(CacheCalls) /\ EvictsAfter(Tail(p)) /\ Head(p) \in CacheCalls
         /\ \A k : Due(p, k) /\ k \notin Head(p).keys => Due(Tail(p), k)
         /\ NoWrite(p) => NoWrite(Tail(p)) /\ Head(p).op # "write"
         /\ Head(p).op = "write" => \A k \in Head(p).keys : Evictable(k) => Due(Tail(p), k)
<1> DEFINE t == Tail(p)
           n == Len(p)
<1>1. n \in Nat /\ n > 0 /\ DOMAIN p = 1 .. n /\ Head(p) = p[1] /\ p[1] \in CacheCalls
  OBVIOUS
<1>2. /\ t \in Seq(CacheCalls) /\ DOMAIN t = 1 .. n - 1
      /\ \A i \in 1 .. n - 1 : t[i] = p[i + 1]
  BY HeadTailProperties
<1> HIDE DEF t, n
<1>3. \A i \in 1 .. n - 1 : i + 1 \in 1 .. n /\ i + 1 > 1
  BY <1>1
<1>4. \A j \in 1 .. n : j > 1 => j - 1 \in 1 .. n - 1 /\ t[j - 1] = p[j]
  BY <1>1, <1>2
<1>5. EvictsAfter(t)
  <2> SUFFICES ASSUME NEW i \in 1 .. n - 1, t[i].op = "write"
               PROVE  /\ \A j \in 1 .. n - 1 : j > i => t[j].op # "write"
                      /\ \A k \in t[i].keys : Evictable(k) =>
                           \E j \in 1 .. n - 1 : j > i /\ k \in t[j].keys
    BY <1>2 DEF EvictsAfter
  <2>1. /\ i + 1 \in DOMAIN p /\ p[i + 1].op = "write"
    BY <1>1, <1>2, <1>3
  <2>2. /\ \A j \in 1 .. n : j > i + 1 => p[j].op # "write"
        /\ \A k \in p[i + 1].keys : Evictable(k) =>
             \E j \in 1 .. n : j > i + 1 /\ k \in p[j].keys
    BY <1>1, <2>1 DEF EvictsAfter
  <2>3. ASSUME NEW j \in 1 .. n - 1, j > i PROVE t[j].op # "write"
    BY <1>1, <1>2, <1>3, <2>2, <2>3
  <2>4. ASSUME NEW k \in t[i].keys, Evictable(k)
        PROVE  \E j \in 1 .. n - 1 : j > i /\ k \in t[j].keys
    <3>1. PICK j \in 1 .. n : j > i + 1 /\ k \in p[j].keys
      BY <1>2, <2>2, <2>4
    <3>2. j - 1 \in 1 .. n - 1 /\ j - 1 > i /\ t[j - 1] = p[j]
      BY <1>1, <1>4, <3>1
    <3> QED BY <3>1, <3>2
  <2> QED BY <2>3, <2>4
<1>6. NoWrite(p) => NoWrite(t) /\ Head(p).op # "write"
  BY <1>1, <1>2, <1>3 DEF NoWrite
<1>7. ASSUME NEW k, Due(p, k), k \notin Head(p).keys PROVE Due(t, k)
  <2>1. PICK j \in 1 .. n : k \in p[j].keys
    BY <1>1, <1>7 DEF Due, Reaches
  <2>2. j > 1
    BY <1>1, <1>7, <2>1
  <2> QED BY <1>2, <1>4, <1>6, <1>7, <2>1, <2>2 DEF Due, Reaches
<1>8. ASSUME Head(p).op = "write", NEW k \in Head(p).keys, Evictable(k) PROVE Due(t, k)
  <2>1. /\ \A j \in 1 .. n : j > 1 => p[j].op # "write"
        /\ \E j \in 1 .. n : j > 1 /\ k \in p[j].keys
    BY <1>1, <1>8 DEF EvictsAfter
  <2>2. NoWrite(t)
    BY <1>2, <1>3, <2>1 DEF NoWrite
  <2> QED BY <1>2, <1>4, <2>1, <2>2 DEF Due, Reaches
<1> QED BY <1>1, <1>2, <1>5, <1>6, <1>7, <1>8 DEF t

(* The call of DEL that follows KEYS.                                      *)
LEMMA PlanGainsDel ==
  ASSUME NEW t \in Seq(CacheCalls), EvictsAfter(t), NEW c \in CacheCalls, c.op # "write"
  PROVE  /\ <<c>> \o t \in Seq(CacheCalls) /\ EvictsAfter(<<c>> \o t) /\ <<c>> \o t # <<>>
         /\ NoWrite(t) => NoWrite(<<c>> \o t)
         /\ \A k : NoWrite(t) /\ (k \in c.keys \/ Reaches(t, k)) => Due(<<c>> \o t, k)
<1> DEFINE p == <<c>> \o t
           n == Len(t)
<1>1. n \in Nat /\ DOMAIN t = 1 .. n
  OBVIOUS
<1>2. /\ p \in Seq(CacheCalls) /\ Len(p) = 1 + n /\ p[1] = c
      /\ \A i \in 1 .. n : p[i + 1] = t[i]
  <2>1. <<c>> \in Seq(CacheCalls) /\ Len(<<c>>) = 1 /\ <<c>>[1] = c
    OBVIOUS
  <2> DEFINE s == <<c>>
  <2> HIDE DEF s
  <2>2. /\ s \o t \in Seq(CacheCalls) /\ Len(s \o t) = Len(s) + Len(t)
        /\ \A i \in 1 .. Len(s) + Len(t) :
             (s \o t)[i] = IF i <= Len(s) THEN s[i] ELSE t[i - Len(s)]
    BY <2>1, ConcatProperties DEF s
  <2>3. Len(s) = 1 /\ s[1] = c
    BY <2>1 DEF s
  <2>4. \A i \in 1 .. n : i + 1 \in 1 .. 1 + n /\ ~(i + 1 <= 1) /\ (i + 1) - 1 = i
    BY <1>1
  <2>5. 1 \in 1 .. 1 + n
    BY <1>1
  <2> QED BY <2>2, <2>3, <2>4, <2>5 DEF s
<1> HIDE DEF p, n
<1>3. DOMAIN p = 1 .. n + 1 /\ p # <<>>
  BY <1>1, <1>2
<1>4. \A i \in 1 .. n + 1 : i = 1 \/ (i - 1 \in 1 .. n /\ i = (i - 1) + 1)
  BY <1>1
<1>5. \A i \in 1 .. n : i + 1 \in 1 .. n + 1
  BY <1>1
<1>6. EvictsAfter(p)
  <2> SUFFICES ASSUME NEW i \in 1 .. n + 1, p[i].op = "write"
               PROVE  /\ \A j \in 1 .. n + 1 : j > i => p[j].op # "write"
                      /\ \A k \in p[i].keys : Evictable(k) =>
                           \E j \in 1 .. n + 1 : j > i /\ k \in p[j].keys
    BY <1>3 DEF EvictsAfter
  <2>1. i # 1 /\ i - 1 \in DOMAIN t /\ t[i - 1] = p[i] /\ t[i - 1].op = "write"
    BY <1>1, <1>2, <1>4
  <2>2. /\ \A j \in 1 .. n : j > i - 1 => t[j].op # "write"
        /\ \A k \in t[i - 1].keys : Evictable(k) =>
             \E j \in 1 .. n : j > i - 1 /\ k \in t[j].keys
    BY <1>1, <2>1 DEF EvictsAfter
  <2>3. ASSUME NEW j \in 1 .. n + 1, j > i PROVE p[j].op # "write"
    <3>1. j - 1 \in 1 .. n /\ j - 1 > i - 1 /\ p[j] = t[j - 1]
      BY <1>1, <1>2, <1>4, <2>3
    <3> QED BY <2>2, <3>1
  <2>4. ASSUME NEW k \in p[i].keys, Evictable(k)
        PROVE  \E j \in 1 .. n + 1 : j > i /\ k \in p[j].keys
    <3>1. PICK j \in 1 .. n : j > i - 1 /\ k \in t[j].keys
      BY <2>1, <2>2, <2>4
    <3>2. j + 1 \in 1 .. n + 1 /\ j + 1 > i /\ p[j + 1] = t[j]
      BY <1>1, <1>2, <1>5, <3>1
    <3> QED BY <3>1, <3>2
  <2> QED BY <2>3, <2>4
<1>7. NoWrite(t) => NoWrite(p)
  <2> SUFFICES ASSUME NoWrite(t), NEW i \in 1 .. n + 1 PROVE p[i].op # "write"
    BY <1>3 DEF NoWrite
  <2>1. CASE i = 1
    BY <1>2, <2>1
  <2>2. CASE i - 1 \in 1 .. n /\ i = (i - 1) + 1
    <3>1. p[i] = t[i - 1] /\ t[i - 1].op # "write"
      BY <1>1, <1>2, <2>2 DEF NoWrite
    <3> QED BY <3>1
  <2> QED BY <1>4, <2>1, <2>2
<1>8. ASSUME NEW k, NoWrite(t), k \in c.keys \/ Reaches(t, k) PROVE Due(p, k)
  <2>1. 1 \in 1 .. n + 1
    BY <1>1
  <2> QED BY <1>1, <1>2, <1>3, <1>5, <1>7, <1>8, <2>1 DEF Due, Reaches
<1> QED BY <1>2, <1>3, <1>6, <1>7, <1>8 DEF p

(* The plans that writers begin with.                                      *)
LEMMA PairIsAPlan ==
  ASSUME NEW c \in CacheCalls, NEW d \in CacheCalls, \/ c.op # "write"
                                                     \/ d.op # "write",
         c.op = "write" => \A k \in c.keys : Evictable(k) => k \in d.keys,
         d.op = "write" => \A k \in d.keys : ~Evictable(k)
  PROVE  <<c, d>> \in Seq(CacheCalls) /\ EvictsAfter(<<c, d>>) /\ <<c, d>> # <<>>
<1> DEFINE p == <<c, d>>
<1>1. p \in Seq(CacheCalls) /\ DOMAIN p = {1, 2} /\ p[1] = c /\ p[2] = d /\ p # <<>>
  OBVIOUS
<1> HIDE DEF p
<1>2. EvictsAfter(p)
  BY <1>1 DEF EvictsAfter
<1> QED BY <1>1, <1>2 DEF p

LEMMA EvictPlanIsAPlan ==
  ASSUME NEW keys \in SUBSET Keys, NEW op \in {"keys", "del"}, NEW early \in BOOLEAN,
         early => \A k \in keys : k.early
  PROVE  LET plan == EvictPlan(Call(op, keys), early)
         IN plan \in Seq(CacheCalls) /\ EvictsAfter(plan) /\ plan # <<>>
<1> DEFINE c == Call(op, keys)
           w == Call("write", keys)
<1>1. c \in CacheCalls /\ w \in CacheCalls /\ c.op # "write" /\ w.op = "write"
      /\ c.keys = keys /\ w.keys = keys
  BY DEF Call, CacheCalls
<1>2. EvictPlan(c, early) = IF early THEN <<c, w>> ELSE <<w, c>>
  BY <1>1 DEF EvictPlan
<1> HIDE DEF c, w
<1>3. CASE early
  BY <1>1, <1>2, <1>3, PairIsAPlan DEF Evictable, c
<1>4. CASE ~early
  BY <1>1, <1>2, <1>4, PairIsAPlan DEF c
<1> QED BY <1>3, <1>4

LEMMA RelatedPlanIsAPlan ==
  ASSUME NEW k \in Keys, k.family = "aggregate"
  PROVE  RelatedPlan(k) \in Seq(CacheCalls) /\ EvictsAfter(RelatedPlan(k)) /\ RelatedPlan(k) # <<>>
<1> DEFINE p == RelatedPlan(k)
           lists == KeysOf("list", k.type)
           queries == KeysOf("query", k.type)
<1>1. /\ Affected(k) \subseteq Keys /\ {k} \subseteq Keys /\ lists \subseteq Keys
      /\ queries \subseteq Keys
  BY DEF Affected, KeysOf
<1>2. \A j \in Affected(k) : Evictable(j) => j \in {k} \/ j \in lists \/ j \in queries
  BY CacheAssumption DEF Affected, KeysOf, Evictable, EvictionReaches
<1>3. p = <<Call("write", Affected(k)), Call("del", {k}), Call("keys", lists), Call("keys", queries)>>
  BY DEF RelatedPlan
<1> HIDE DEF p, lists, queries
<1>4. \A op \in {"write", "keys", "del"}, keys \in SUBSET Keys :
        Call(op, keys) \in CacheCalls /\ Call(op, keys).op = op /\ Call(op, keys).keys = keys
  BY DEF Call, CacheCalls
<1>5. /\ p \in Seq(CacheCalls) /\ p # <<>> /\ DOMAIN p = {1, 2, 3, 4}
      /\ p[1].op = "write" /\ p[1].keys = Affected(k)
      /\ p[2].op = "del" /\ p[2].keys = {k}
      /\ p[3].op = "keys" /\ p[3].keys = lists
      /\ p[4].op = "keys" /\ p[4].keys = queries
  BY <1>1, <1>3, <1>4
<1>6. EvictsAfter(p)
  <2>1. ASSUME NEW i \in DOMAIN p, p[i].op = "write" PROVE i = 1
    BY <1>5, <2>1
  <2>2. \A j \in DOMAIN p : j > 1 => p[j].op # "write"
    BY <1>5
  <2>3. ASSUME NEW j \in p[1].keys, Evictable(j)
        PROVE  \E i \in DOMAIN p : i > 1 /\ j \in p[i].keys
    <3>1. j \in p[2].keys \/ j \in p[3].keys \/ j \in p[4].keys
      BY <1>2, <1>5, <2>3
    <3>2. {2, 3, 4} \subseteq DOMAIN p /\ 2 > 1 /\ 3 > 1 /\ 4 > 1
      BY <1>5
    <3> QED BY <3>1, <3>2
  <2> QED BY <2>1, <2>2, <2>3 DEF EvictsAfter
<1> QED BY <1>5, <1>6 DEF p

LEMMA EmptyPlan ==
  ASSUME NEW k PROVE <<>> \in Seq(CacheCalls) /\ EvictsAfter(<<>>) /\ ~Due(<<>>, k)
BY EmptySeq DEF EvictsAfter, Due, Reaches

LEMMA MethodsAreMade ==
  ASSUME NEW step \in {"idle", "loading", "storing", "writing"}, NEW for \in SUBSET Keys,
         NEW val \in Values, NEW plan \in Seq(CacheCalls), EvictsAfter(plan),
         step = "writing" <=> plan # <<>>, \A j, k \in for : j = k
  PROVE  [step |-> step, for |-> for, val |-> val, plan |-> plan] \in CacheMethods
BY DEF CacheMethods

LEMMA RestIsAMethod ==
  /\ AtRest \in CacheMethods /\ AtRest.plan = <<>>
  /\ \A plan \in Seq(CacheCalls) :
       EvictsAfter(plan) => Remaining(plan) \in CacheMethods /\ Remaining(plan).plan = plan
<1>1. AtRest = [step |-> "idle", for |-> {}, val |-> "absent", plan |-> <<>>]
  BY DEF AtRest, Reader
<1>2. "absent" \in Values /\ {} \in SUBSET Keys
  BY DEF Values
<1>3. AtRest \in CacheMethods /\ AtRest.plan = <<>>
  <2>1. <<>> \in Seq(CacheCalls) /\ EvictsAfter(<<>>)
    BY EmptyPlan
  <2>2. [step |-> "idle", for |-> {}, val |-> "absent", plan |-> <<>>] \in CacheMethods
    BY <1>2, <2>1, MethodsAreMade
  <2> QED BY <1>1, <2>2
<1>4. ASSUME NEW plan \in Seq(CacheCalls), EvictsAfter(plan)
      PROVE  Remaining(plan) \in CacheMethods /\ Remaining(plan).plan = plan
  <2>1. CASE plan = <<>>
    BY <1>3, <2>1 DEF Remaining
  <2>2. CASE plan # <<>>
    <3>1. Remaining(plan) = [step |-> "writing", for |-> {}, val |-> "absent", plan |-> plan]
      BY <2>2 DEF Remaining, Writer
    <3>2. [step |-> "writing", for |-> {}, val |-> "absent", plan |-> plan] \in CacheMethods
      BY <1>2, <1>4, <2>2, MethodsAreMade
    <3> QED BY <3>1, <3>2
  <2> QED BY <2>1, <2>2
<1> QED BY <1>3, <1>4

(* What a step of one method has to show.                                  *)
LEMMA MethodSteps ==
  ASSUME CacheInv, NEW u \in CacheUsers, NEW r \in CacheMethods, Becomes(u, r),
         entry' \in [Keys -> Values], raced' \subseteq Keys,
         \A k \in Keys : entry'[k] = "outdated" /\ Evictable(k) =>
           \/ k \in raced' \/ Due(r.plan, k)
           \/ entry[k] = "outdated" /\ k \notin raced /\ ~Due(user[u].plan, k)
  PROVE  CacheInv'
<1>1. user' = [user EXCEPT ![u] = r] /\ user \in [CacheUsers -> CacheMethods]
  BY DEF Becomes, CacheInv
<1>2. /\ user' \in [CacheUsers -> CacheMethods] /\ user'[u] = r
      /\ \A w \in CacheUsers : w # u => user'[w] = user[w]
  BY <1>1
<1>3. ASSUME NEW k \in Keys, entry'[k] = "outdated", Evictable(k)
      PROVE  k \in raced' \/ \E w \in CacheUsers : Due(user'[w].plan, k)
  <2>1. CASE Due(r.plan, k)
    BY <1>2, <2>1
  <2>2. CASE entry[k] = "outdated" /\ k \notin raced /\ ~Due(user[u].plan, k)
    <3>1. PICK w \in CacheUsers : Due(user[w].plan, k)
      BY <1>3, <2>2 DEF CacheInv
    <3>2. w # u
      BY <2>2, <3>1
    <3> QED BY <1>2, <3>1, <3>2
  <2> QED BY <1>3, <2>1, <2>2
<1> QED BY <1>2, <1>3 DEF CacheInv

LEMMA InitCache == CacheInit => CacheInv
<1> SUFFICES ASSUME CacheInit PROVE CacheInv
  OBVIOUS
<1>1. /\ entry = [k \in Keys |-> "absent"] /\ user = [u \in CacheUsers |-> AtRest] /\ raced = {}
  BY DEF CacheInit
<1>2. "absent" \in Values
  BY DEF Values
<1> QED BY <1>1, <1>2, RestIsAMethod DEF CacheInv

(* Readers.                                                                *)
LEMMA ReaderStep ==
  ASSUME CacheInv, NEW u \in CacheUsers,
         (\E k \in Keys : GetMiss(u, k) \/ Warm(u, k)) \/ Load(u) \/ SetEntry(u)
  PROVE  CacheInv'
<1>1. /\ entry \in [Keys -> Values] /\ raced \subseteq Keys
      /\ user[u] \in CacheMethods
  BY DEF CacheInv
<1>2. /\ user[u].step \in {"idle", "loading", "storing", "writing"} /\ user[u].for \in SUBSET Keys
      /\ user[u].val \in Values /\ user[u].plan \in Seq(CacheCalls)
      /\ (user[u].step = "writing" <=> user[u].plan # <<>>)
      /\ \A j, k \in user[u].for : j = k
      /\ user[u] = [step |-> user[u].step, for |-> user[u].for, val |-> user[u].val,
                    plan |-> user[u].plan]
  BY <1>1 DEF CacheMethods
<1>3. "absent" \in Values /\ "current" \in Values
  BY DEF Values
<1>4. AtRest = [step |-> "idle", for |-> {}, val |-> "absent", plan |-> <<>>]
  BY DEF AtRest, Reader
<1>5. ASSUME user[u].step # "writing" PROVE \A k : ~Due(user[u].plan, k)
  BY <1>2, <1>5, EmptyPlan
<1>6. ASSUME NEW k \in Keys, GetMiss(u, k) \/ Warm(u, k) PROVE CacheInv'
  <2> DEFINE r == [step |-> "loading", for |-> {k}, val |-> "absent", plan |-> <<>>]
  <2>1. Reader("loading", {k}, "absent") = r
    BY DEF Reader
  <2>2. Becomes(u, r) /\ UNCHANGED <<entry, raced>> /\ user[u] = AtRest
    BY <1>6, <2>1 DEF GetMiss, Warm
  <2>3. r \in CacheMethods
    BY <1>3, EmptyPlan, MethodsAreMade
  <2>4. \A j : ~Due(user[u].plan, j)
    BY <1>4, <1>5, <2>2
  <2> HIDE DEF r
  <2> QED BY <1>1, <2>2, <2>3, <2>4, MethodSteps DEF CacheInv
<1>7. ASSUME Load(u) PROVE CacheInv'
  <2> DEFINE r == [step |-> "storing", for |-> user[u].for, val |-> "current",
                   plan |-> <<>>]
  <2>1. user[u].plan = <<>> /\ \A k : ~Due(user[u].plan, k)
    BY <1>2, <1>5, <1>7 DEF Load
  <2>2. Reader("storing", user[u].for, "current") = r
    BY DEF Reader
  <2>3. (Becomes(u, r) \/ Becomes(u, AtRest)) /\ UNCHANGED <<entry, raced>>
    BY <1>7, <2>2 DEF Load
  <2>4. r \in CacheMethods
    BY <1>2, <1>3, <2>1, EmptyPlan, MethodsAreMade
  <2> HIDE DEF r
  <2> QED BY <1>1, <2>1, <2>3, <2>4, RestIsAMethod, MethodSteps DEF CacheInv
<1>8. ASSUME SetEntry(u) PROVE CacheInv'
  <2>1. PICK k \in user[u].for : entry' = [entry EXCEPT ![k] = user[u].val]
    BY <1>8 DEF SetEntry
  <2>2. /\ raced' = IF user[u].val = "outdated" THEN raced \union user[u].for
                    ELSE raced \ user[u].for
        /\ Becomes(u, AtRest) /\ user[u].step = "storing"
    BY <1>8 DEF SetEntry
  <2>3. \A j : ~Due(user[u].plan, j)
    BY <1>5, <2>2
  <2>4. raced' \subseteq Keys /\ entry' \in [Keys -> Values]
    BY <1>1, <1>2, <2>1, <2>2
  <2>5. ASSUME NEW j \in Keys, entry'[j] = "outdated"
        PROVE  j \in raced' \/ (entry[j] = "outdated" /\ j \notin raced)
    <3>1. CASE user[u].val = "outdated"
      BY <1>1, <1>2, <2>1, <2>2, <2>5, <3>1
    <3>2. CASE user[u].val # "outdated"
      <4>1. j # k /\ entry'[j] = entry[j]
        BY <1>1, <2>1, <2>5, <3>2
      <4>2. j \notin user[u].for /\ raced' = raced \ user[u].for
        BY <1>2, <2>2, <3>2, <4>1
      <4> QED BY <2>5, <4>1, <4>2
    <3> QED BY <3>1, <3>2
  <2> QED BY <2>2, <2>3, <2>4, <2>5, RestIsAMethod, MethodSteps
<1> QED BY <1>6, <1>7, <1>8

(* Writers.                                                                *)
LEMMA BeginStep ==
  ASSUME CacheInv, NEW u \in CacheUsers, Evict(u) \/ InvalidateRelated(u) \/ Clear(u)
  PROVE  CacheInv'
<1>1. ASSUME NEW plan \in Seq(CacheCalls), EvictsAfter(plan), plan # <<>>, Begin(u, plan)
      PROVE  CacheInv'
  <2> DEFINE r == [step |-> "writing", for |-> {}, val |-> "absent", plan |-> plan]
  <2>1. Writer(plan) = r
    BY DEF Writer
  <2>3. r \in CacheMethods
    <3>1. "absent" \in Values /\ {} \in SUBSET Keys
      BY DEF Values
    <3> QED BY <1>1, <3>1, MethodsAreMade
  <2>4. \A k : ~Due(user[u].plan, k)
    BY <1>1, RestIsAMethod, EmptyPlan DEF Begin
  <2>5. Becomes(u, r) /\ UNCHANGED <<entry, raced>>
    BY <1>1, <2>1 DEF Begin
  <2> HIDE DEF r
  <2> QED BY <2>3, <2>4, <2>5, MethodSteps DEF CacheInv
<1>2. ASSUME NEW k \in Keys,
             \/ Begin(u, EvictPlan(Call("del", {k}), k.early))
             \/ Begin(u, EvictPlan(Call("keys", KeysOf(k.family, k.type)), k.early))
      PROVE  CacheInv'
  <2>1. /\ {k} \in SUBSET Keys /\ KeysOf(k.family, k.type) \in SUBSET Keys /\ k.early \in BOOLEAN
        /\ k.early => \A j \in KeysOf(k.family, k.type) : j.early
    BY CacheAssumption DEF KeysOf
  <2>2. CASE Begin(u, EvictPlan(Call("del", {k}), k.early))
    <3> DEFINE p == EvictPlan(Call("del", {k}), k.early)
    <3>1. p \in Seq(CacheCalls) /\ EvictsAfter(p) /\ p # <<>>
      BY <2>1, EvictPlanIsAPlan
    <3> HIDE DEF p
    <3> QED BY <1>1, <2>2, <3>1 DEF p
  <2>3. CASE Begin(u, EvictPlan(Call("keys", KeysOf(k.family, k.type)), k.early))
    <3> DEFINE p == EvictPlan(Call("keys", KeysOf(k.family, k.type)), k.early)
    <3>1. p \in Seq(CacheCalls) /\ EvictsAfter(p) /\ p # <<>>
      BY <2>1, EvictPlanIsAPlan
    <3> HIDE DEF p
    <3> QED BY <1>1, <2>3, <3>1 DEF p
  <2> QED BY <1>2, <2>2, <2>3
<1>3. ASSUME InvalidateRelated(u) PROVE CacheInv'
  BY <1>1, <1>3, RelatedPlanIsAPlan DEF InvalidateRelated
<1>4. ASSUME Clear(u) PROVE CacheInv'
  <2> DEFINE p == <<Call("keys", Keys)>>
  <2>1. Call("keys", Keys) \in CacheCalls /\ Call("keys", Keys).op # "write"
    BY DEF Call, CacheCalls
  <2>2. p \in Seq(CacheCalls) /\ p # <<>> /\ DOMAIN p = {1} /\ p[1].op # "write"
    BY <2>1
  <2> HIDE DEF p
  <2>3. EvictsAfter(p)
    BY <2>2 DEF EvictsAfter
  <2> QED BY <1>1, <1>4, <2>2, <2>3 DEF Clear, p
<1> QED BY <1>2, <1>3, <1>4 DEF Evict

(* KEYS, DEL and their failures.                                           *)
LEMMA EvictionStep ==
  ASSUME CacheInv, NEW u \in CacheUsers, FindKeys(u) \/ Del(u) \/ EvictionFails(u)
  PROVE  CacheInv'
<1> DEFINE p == user[u].plan
           c == Upcoming(u)
<1>1. /\ entry \in [Keys -> Values] /\ raced \subseteq Keys
      /\ user[u] \in CacheMethods
  BY DEF CacheInv
<1>2. p \in Seq(CacheCalls) /\ EvictsAfter(p) /\ p # <<>> /\ c = Head(p)
  BY <1>1 DEF CacheMethods, FindKeys, Del, EvictionFails, Upcoming
<1> HIDE DEF p, c
<1>3. /\ Tail(p) \in Seq(CacheCalls) /\ EvictsAfter(Tail(p)) /\ c \in CacheCalls
      /\ \A k : Due(p, k) /\ k \notin c.keys => Due(Tail(p), k)
      /\ NoWrite(p) => NoWrite(Tail(p))
  BY <1>2, PlanShrinks
<1>4. c.keys \subseteq Keys
  BY <1>3 DEF CacheCalls
<1>5. ASSUME FindKeys(u) PROVE CacheInv'
  <2> DEFINE hits == c.keys \intersect Held
             d == Call("del", hits)
             q == IF hits = {} THEN Tail(p) ELSE <<d>> \o Tail(p)
  <2>1. Becomes(u, Remaining(q)) /\ UNCHANGED <<entry, raced>>
    BY <1>5 DEF FindKeys, p, c
  <2>2. d \in CacheCalls /\ d.op # "write" /\ d.keys = hits
    BY <1>4 DEF Call, CacheCalls
  <2>3. \A k \in Keys : entry[k] = "outdated" /\ k \in c.keys => k \in hits
    BY DEF Held
  <2> HIDE DEF hits, d
  <2>4. CASE hits = {}
    <3>1. q = Tail(p)
      BY <2>4
    <3> HIDE DEF q
    <3>2. Remaining(q) \in CacheMethods /\ Remaining(q).plan = Tail(p)
      BY <1>3, <3>1, RestIsAMethod
    <3>3. \A k \in Keys : entry[k] = "outdated" /\ Due(p, k) => Due(Tail(p), k)
      BY <1>3, <2>3, <2>4
    <3> QED BY <1>1, <2>1, <3>2, <3>3, MethodSteps DEF CacheInv, p
  <2>5. CASE hits # {}
    <3>1. q = <<d>> \o Tail(p)
      BY <2>5
    <3> HIDE DEF q
    <3>2. /\ q \in Seq(CacheCalls) /\ EvictsAfter(q)
          /\ \A k : NoWrite(Tail(p)) /\ (k \in d.keys \/ Reaches(Tail(p), k)) => Due(q, k)
      BY <1>3, <2>2, <3>1, PlanGainsDel
    <3>3. Remaining(q) \in CacheMethods /\ Remaining(q).plan = q
      BY <3>2, RestIsAMethod
    <3>4. ASSUME NEW k \in Keys, entry[k] = "outdated", Due(p, k) PROVE Due(q, k)
      <4>1. NoWrite(Tail(p))
        BY <1>3, <3>4 DEF Due
      <4>2. CASE k \in c.keys
        BY <2>2, <2>3, <3>2, <3>4, <4>1, <4>2
      <4>3. CASE k \notin c.keys
        BY <1>3, <3>2, <3>4, <4>1, <4>3 DEF Due
      <4> QED BY <4>2, <4>3
    <3> QED BY <1>1, <2>1, <3>3, <3>4, MethodSteps DEF CacheInv, p
  <2> QED BY <2>4, <2>5
<1>6. ASSUME Del(u) PROVE CacheInv'
  <2>1. /\ entry' = [k \in Keys |-> IF k \in c.keys THEN "absent" ELSE entry[k]]
        /\ raced' = raced \ c.keys
        /\ Becomes(u, Remaining(Tail(p)))
    BY <1>6 DEF Del, p, c
  <2>2. Remaining(Tail(p)) \in CacheMethods /\ Remaining(Tail(p)).plan = Tail(p)
    BY <1>3, RestIsAMethod
  <2>3. raced' \subseteq Keys /\ entry' \in [Keys -> Values]
    BY <1>1, <2>1 DEF Values
  <2>4. ASSUME NEW k \in Keys, entry'[k] = "outdated"
        PROVE  k \notin c.keys /\ entry[k] = "outdated" /\ (k \in raced => k \in raced')
    BY <2>1, <2>4
  <2> QED BY <1>3, <2>1, <2>2, <2>3, <2>4, MethodSteps DEF p
<1>7. ASSUME EvictionFails(u) PROVE CacheInv'
  <2>1. /\ raced' = raced \union {k \in Keys : entry[k] = "outdated" /\ Owed(u, k)}
        /\ Becomes(u, AtRest) /\ UNCHANGED entry
    BY <1>7 DEF EvictionFails
  <2>2. ASSUME NEW k \in Keys, Due(p, k) PROVE Owed(u, k)
    BY <2>2 DEF Due, NoWrite, Reaches, Owed, p
  <2>3. raced' \subseteq Keys
    BY <1>1, <2>1
  <2> QED BY <1>1, <2>1, <2>2, <2>3, RestIsAMethod, MethodSteps DEF p
<1> QED BY <1>5, <1>6, <1>7

(* The method itself: what it outdates it is about to evict.               *)
LEMMA RunMethodStep == ASSUME CacheInv, NEW u \in CacheUsers, RunMethod(u) PROVE CacheInv'
<1> DEFINE p == user[u].plan
           c == Upcoming(u)
           rest == Remaining(Tail(p))
<1>1. /\ entry \in [Keys -> Values] /\ raced \subseteq Keys
      /\ user \in [CacheUsers -> CacheMethods]
      /\ \A k \in Keys : entry[k] = "outdated" /\ Evictable(k) =>
           k \in raced \/ \E w \in CacheUsers : Due(user[w].plan, k)
  BY DEF CacheInv
<1>2. p \in Seq(CacheCalls) /\ EvictsAfter(p) /\ p # <<>> /\ c = Head(p) /\ c.op = "write"
  BY <1>1 DEF CacheMethods, RunMethod, Upcoming
<1>3. UNCHANGED raced
  BY DEF RunMethod
<1>4. \/ /\ entry' = [k \in Keys |-> IF k \in c.keys THEN Outdate(entry[k]) ELSE entry[k]]
         /\ user' = [w \in CacheUsers |->
              IF w = u THEN rest
              ELSE IF user[w].for \intersect c.keys # {} THEN [user[w] EXCEPT !.val = Outdate(@)]
              ELSE user[w]]
      \/ Becomes(u, AtRest) /\ UNCHANGED entry
  BY DEF RunMethod
<1> HIDE DEF p, c
<1>5. /\ Tail(p) \in Seq(CacheCalls) /\ EvictsAfter(Tail(p))
      /\ NoWrite(p) => c.op # "write"
      /\ \A k \in c.keys : Evictable(k) => Due(Tail(p), k)
  BY <1>2, PlanShrinks
<1>6. rest \in CacheMethods /\ rest.plan = Tail(p)
  BY <1>5, RestIsAMethod
<1>7. \A k : ~Due(p, k)
  BY <1>2, <1>5 DEF Due
<1> HIDE DEF rest
<1>8. CASE Becomes(u, AtRest) /\ UNCHANGED entry
  BY <1>1, <1>3, <1>7, <1>8, RestIsAMethod, MethodSteps DEF p
<1>9. CASE /\ entry' = [k \in Keys |-> IF k \in c.keys THEN Outdate(entry[k]) ELSE entry[k]]
           /\ user' = [w \in CacheUsers |->
                IF w = u THEN rest
                ELSE IF user[w].for \intersect c.keys # {} THEN [user[w] EXCEPT !.val = Outdate(@)]
                ELSE user[w]]
  <2>1. \A v \in Values : Outdate(v) \in Values
    BY DEF Outdate, Values
  <2>2. \A r \in CacheMethods :
          LET s == [r EXCEPT !.val = Outdate(@)] IN s \in CacheMethods /\ s.plan = r.plan
    BY <2>1 DEF CacheMethods
  <2>3. /\ user' \in [CacheUsers -> CacheMethods] /\ user'[u].plan = Tail(p)
        /\ \A w \in CacheUsers : w # u => user'[w].plan = user[w].plan
    BY <1>1, <1>6, <1>9, <2>2
  <2>4. entry' \in [Keys -> Values]
    BY <1>1, <1>9, <2>1
  <2>5. ASSUME NEW k \in Keys, entry'[k] = "outdated", Evictable(k)
        PROVE  k \in raced' \/ \E w \in CacheUsers : Due(user'[w].plan, k)
    <3>1. CASE k \in c.keys
      BY <1>5, <2>3, <2>5, <3>1
    <3>2. CASE k \notin c.keys /\ k \notin raced
      <4>1. PICK w \in CacheUsers : Due(user[w].plan, k)
        BY <1>1, <1>9, <2>5, <3>2
      <4>2. w # u
        BY <1>7, <4>1 DEF p
      <4> QED BY <2>3, <4>1, <4>2
    <3> QED BY <1>3, <3>1, <3>2
  <2> QED BY <1>1, <1>3, <2>3, <2>4, <2>5 DEF CacheInv
<1> QED BY <1>4, <1>8, <1>9

LEMMA ExpireStep == ASSUME CacheInv, NEW k \in Keys, ExpireEntry(k) PROVE CacheInv'
<1>1. /\ entry' = [entry EXCEPT ![k] = "absent"] /\ raced' = raced \ {k} /\ UNCHANGED user
  BY DEF ExpireEntry
<1>2. "absent" \in Values
  BY DEF Values
<1> QED BY <1>1, <1>2 DEF CacheInv

LEMMA CacheKeeps == CacheInv /\ [CacheNext]_cacheVars => CacheInv'
<1>1. CacheInv /\ UNCHANGED cacheVars => CacheInv'
  BY DEF cacheVars, CacheInv
<1> QED BY <1>1, ReaderStep, BeginStep, EvictionStep, RunMethodStep, ExpireStep DEF CacheNext

LEMMA DueIsOwed == CacheInv => OutdatedEntryIsOwedOrRaced
<1> SUFFICES ASSUME CacheInv, NEW k \in Keys, entry[k] = "outdated", Evictable(k), k \notin raced
             PROVE  \E u \in CacheUsers : Owed(u, k)
  BY DEF OutdatedEntryIsOwedOrRaced, Evictable
<1>1. PICK u \in CacheUsers : Due(user[u].plan, k)
  BY DEF CacheInv
<1> QED BY <1>1 DEF Due, NoWrite, Reaches, Owed

-----------------------------------------------------------------------------
(* Rate limiter.  A request is admitted a window after the one gap places  *)
(* before it.                                                              *)
Ordered(s) == \A i, j \in 1 .. Len(s) : i <= j => s[i] <= s[j]

Spaced(s, gap) == \A i \in 1 .. Len(s) : i + gap <= Len(s) => s[i] + WindowMs <= s[i + gap]

Gap == IF strategy = "sliding-window" THEN MaxRequests ELSE 2 * MaxRequests

Past(s) == s \in Seq(Nat) /\ Ordered(s) /\ \A i \in 1 .. Len(s) : s[i] <= now

(* b is what is left of s after its first m elements.                      *)
IsTail(b, s, m) ==
  /\ m \in 0 .. Len(s) /\ b \in Seq(Nat) /\ Len(b) = Len(s) - m
  /\ \A k \in 1 .. Len(b) : b[k] = s[m + k]

Expired(s, m) == \A i \in 1 .. m : s[i] + WindowMs <= now

Remembers(b, s) == \E m \in 0 .. Len(s) : IsTail(b, s, m) /\ Expired(s, m)

(* All but the last count + MaxRequests of the requests s are a window     *)
(* older than the present one, which begins at start.                      *)
WindowsFollow(s, count, start) ==
  \A j \in 1 .. Len(s) :
    /\ j + count + MaxRequests <= Len(s) => s[j] + WindowMs <= start
    /\ j + count <= Len(s) => s[j] <= start

(* Since any request no more tokens were spent or are left than a full     *)
(* bucket and the refill up to last give.                                  *)
TokensLast(s, count, last) ==
  \A j \in 1 .. Len(s) :
    WindowMs * ((Len(s) - j) + count) <= WindowMs * (MaxRequests - 1) + (last - s[j]) * MaxRequests

Buckets == [count : Int, resetTime : Int, requests : Seq(Nat)]

Start(b) == b.resetTime - WindowMs

(* What bucket b knows of the requests s admitted.                         *)
BucketFits(b, s) ==
  /\ b \in Buckets /\ b.count \in 0 .. MaxRequests /\ Start(b) <= now
  /\ IF strategy = "sliding-window" THEN Remembers(b.requests, s) ELSE b.requests = <<>>
  /\ strategy = "fixed-window" => WindowsFollow(s, b.count, Start(b))
  /\ strategy = "token-bucket" => TokensLast(s, b.count, Start(b))

Fits(b, s) == Past(s) /\ Spaced(s, Gap) /\ BucketFits(b, s)

TheBucket == IF bucket = NoBucket THEN NewBucket ELSE bucket

LimiterInv ==
  /\ strategy \in Strategies /\ now \in Nat /\ now <= MaxTime
  /\ Fits(TheBucket, admitted)

(* Induction over the natural numbers, for a set.                          *)
LEMMA NatSetInduction ==
  ASSUME NEW T, 0 \in T, \A n \in Nat : n \in T => n + 1 \in T
  PROVE  \A n \in Nat : n \in T
<1> DEFINE rest == {n \in Nat : n \notin T}
<1>. SUFFICES ASSUME rest # {} PROVE FALSE
  OBVIOUS
<1>1. \E x \in rest : \A y \in rest : ~(<<y, x>> \in OpToRel(<, Nat))
  BY NatLessThanWellFounded, WFMin
<1>2. PICK x \in rest : \A y \in rest : ~(y < x)
  BY <1>1 DEF OpToRel
<1>3. x # 0 /\ x - 1 \in Nat /\ x - 1 < x
  BY <1>2
<1>4. x - 1 \notin rest
  BY <1>2, <1>3
<1>. QED
  BY <1>2, <1>3, <1>4

LEMMA Products ==
  /\ \A w \in Nat : \A a, b \in Int : a <= b => w * a <= w * b
  /\ \A w, a, b \in Int : w * (a + b) = w * a + w * b
  /\ \A w, a, b \in Int : (a + b) * w = a * w + b * w
<1>1. \A w \in Nat : \A a, b \in Int : a <= b => w * a <= w * b
  <2> SUFFICES ASSUME NEW w \in Nat, NEW a \in Int, NEW b \in Int, a <= b PROVE w * a <= w * b
    OBVIOUS
  <2>1. PICK d \in Nat : b = a + d
    <3>1. b - a \in Nat /\ b = a + (b - a)
      OBVIOUS
    <3> QED BY <3>1
  <2>2. w * d \in Nat /\ w * b = w * a + w * d
    BY <2>1
  <2> QED BY <2>2
<1>2. \A w, a, b \in Int : w * (a + b) = w * a + w * b
  OBVIOUS
<1>3. \A w, a, b \in Int : (a + b) * w = a * w + b * w
  OBVIOUS
<1> QED BY <1>1, <1>2, <1>3

LEMMA Division ==
  ASSUME NEW x \in Nat, NEW w \in Nat \ {0}
  PROVE  x \div w \in Nat /\ w * (x \div w) <= x
OBVIOUS

LEMMA LimitsAreNumbers ==
  /\ WindowMs \in Nat \ {0} /\ MaxRequests \in Nat \ {0} /\ MaxTime \in Nat
  /\ Gap \in Nat \ {0} /\ Gap = IF strategy = "sliding-window" THEN MaxRequests ELSE 2 * MaxRequests
<1>1. WindowMs \in Nat \ {0} /\ MaxRequests \in Nat \ {0} /\ MaxTime \in Nat
  BY LimiterAssumption
<1> QED BY <1>1 DEF Gap

(* The filter keeps the end of an ordered sequence.                        *)
Keeps(r, t) == IF t > now - WindowMs THEN Append(r, t) ELSE r

Filtering(s, f, n) == f = [k \in 0 .. n |-> IF k = 0 THEN <<>> ELSE Keeps(f[k - 1], s[k])]

LEMMA FilterExists == ASSUME NEW s, NEW n \in Nat PROVE \E f : Filtering(s, f, n)
<1> DEFINE T == {k \in Nat : \E f : Filtering(s, f, k)}
<1>1. 0 \in T
  <2> DEFINE f == [k \in 0 .. 0 |-> <<>>]
  <2>1. Filtering(s, f, 0)
    BY DEF Filtering
  <2> QED BY <2>1
<1>2. ASSUME NEW k \in Nat, k \in T PROVE k + 1 \in T
  <2>1. PICK f : Filtering(s, f, k)
    BY <1>2
  <2> DEFINE g == [m \in 0 .. (k + 1) |-> IF m = k + 1 THEN Keeps(f[k], s[k + 1]) ELSE f[m]]
  <2>2. ASSUME NEW m \in 0 .. (k + 1)
        PROVE  g[m] = IF m = 0 THEN <<>> ELSE Keeps(g[m - 1], s[m])
    <3>1. CASE m = k + 1
      <4>1. m - 1 = k /\ k \in 0 .. (k + 1) /\ k # k + 1 /\ m # 0
        BY <3>1
      <4>2. g[k] = f[k]
        BY <4>1
      <4> QED BY <3>1, <4>1, <4>2
    <3>2. CASE m # k + 1
      <4>1. m \in 0 .. k /\ (m # 0 => m - 1 \in 0 .. k /\ m - 1 \in 0 .. (k + 1) /\ m - 1 # k + 1)
        BY <3>2
      <4>2. f[m] = IF m = 0 THEN <<>> ELSE Keeps(f[m - 1], s[m])
        BY <2>1, <4>1 DEF Filtering
      <4>3. g[m] = f[m] /\ (m # 0 => g[m - 1] = f[m - 1])
        BY <3>2, <4>1
      <4> QED BY <4>2, <4>3
    <3> QED BY <3>1, <3>2
  <2>3. Filtering(s, g, k + 1)
    BY <2>2 DEF Filtering
  <2> QED BY <2>3
<1> HIDE DEF T
<1>3. \A k \in Nat : k \in T => k + 1 \in T
  BY ONLY <1>2
<1>4. \A k \in Nat : k \in T
  BY ONLY <1>1, <1>3, NatSetInduction
<1> QED BY <1>4 DEF T

(* r is the end of the first n elements of s, after the first m of them.   *)
EndsAt(s, r, n, m) ==
  /\ m \in 0 .. n /\ r \in Seq(Nat) /\ Len(r) = n - m /\ \A k \in 1 .. Len(r) : r[k] = s[m + k]
  /\ Expired(s, m) /\ \A i \in m + 1 .. n : s[i] + WindowMs > now

LEMMA KeepsEnd ==
  ASSUME NEW s \in Seq(Nat), Ordered(s), now \in Nat, NEW n \in Nat, n + 1 <= Len(s),
         NEW r, NEW m, EndsAt(s, r, n, m)
  PROVE  \E p \in 0 .. n + 1 : EndsAt(s, Keeps(r, s[n + 1]), n + 1, p)
<1>0. WindowMs \in Nat /\ \A i \in 1 .. Len(s) : s[i] \in Nat
  BY LimitsAreNumbers
<1>1. /\ m \in 0 .. n /\ r \in Seq(Nat) /\ Len(r) = n - m /\ \A k \in 1 .. Len(r) : r[k] = s[m + k]
      /\ Expired(s, m) /\ \A i \in m + 1 .. n : s[i] + WindowMs > now
  BY DEF EndsAt
<1>2. n + 1 \in 1 .. Len(s) /\ s[n + 1] \in Nat
  BY <1>0
<1>3. CASE s[n + 1] > now - WindowMs
  <2> DEFINE q == Append(r, s[n + 1])
  <2>1. q \in Seq(Nat) /\ Len(q) = n + 1 - m /\ m \in 0 .. n + 1
    BY <1>1, <1>2
  <2>2. \A k \in 1 .. Len(q) : q[k] = s[m + k]
    <3> SUFFICES ASSUME NEW k \in 1 .. Len(q) PROVE q[k] = s[m + k]
      OBVIOUS
    <3>1. CASE k = Len(r) + 1
      BY <1>1, <1>2, <3>1
    <3>2. CASE k \in 1 .. Len(r)
      BY <1>1, <1>2, <3>2
    <3> QED BY <1>1, <2>1, <3>1, <3>2
  <2>3. \A i \in m + 1 .. n + 1 : s[i] + WindowMs > now
    BY <1>0, <1>1, <1>2, <1>3
  <2> HIDE DEF q
  <2>4. EndsAt(s, q, n + 1, m)
    BY <1>1, <2>1, <2>2, <2>3 DEF EndsAt
  <2> QED BY <1>3, <2>1, <2>4 DEF q, Keeps
<1>4. CASE ~(s[n + 1] > now - WindowMs)
  <2>1. s[n + 1] + WindowMs <= now
    BY <1>0, <1>2, <1>4
  <2>2. m = n
    <3> SUFFICES ASSUME m # n PROVE FALSE
      OBVIOUS
    <3>1. n \in m + 1 .. n /\ n \in 1 .. Len(s) /\ n <= n + 1
      BY <1>1, <1>2
    <3>2. s[n] + WindowMs > now
      BY <1>1, <3>1
    <3>3. s[n] <= s[n + 1]
      BY <1>2, <3>1 DEF Ordered
    <3> QED BY <1>0, <1>2, <2>1, <3>1, <3>2, <3>3
  <2>3. Len(r) = n + 1 - (n + 1) /\ n + 1 \in 0 .. n + 1
    BY <1>1, <2>2
  <2>4. Expired(s, n + 1)
    <3>1. \A i \in 1 .. n + 1 : i \in 1 .. n \/ i = n + 1
      OBVIOUS
    <3> QED BY <1>1, <2>1, <2>2, <3>1 DEF Expired
  <2>5. \A k \in 1 .. Len(r) : r[k] = s[n + 1 + k]
    BY <2>3
  <2>6. \A i \in (n + 1) + 1 .. n + 1 : s[i] + WindowMs > now
    OBVIOUS
  <2>7. EndsAt(s, r, n + 1, n + 1)
    BY <1>1, <2>3, <2>4, <2>5, <2>6 DEF EndsAt
  <2> QED BY <1>4, <2>3, <2>7 DEF Keeps
<1> QED BY <1>3, <1>4

LEMMA RecentIsTail ==
  ASSUME NEW s \in Seq(Nat), Ordered(s), now \in Nat
  PROVE  \E m \in 0 .. Len(s) : EndsAt(s, Recent(s), Len(s), m)
<1> DEFINE f == CHOOSE f : Filtering(s, f, Len(s))
<1>0. Len(s) \in Nat
  OBVIOUS
<1>1. Filtering(s, f, Len(s))
  BY <1>0, FilterExists
<1>2. Recent(s) = f[Len(s)]
  BY DEF Recent, Filtering, Keeps
<1> HIDE DEF f
<1>3. f[0] = <<>> /\ \A k \in 1 .. Len(s) : f[k] = Keeps(f[k - 1], s[k])
  <2>1. 0 \in 0 .. Len(s) /\ \A k \in 1 .. Len(s) : k \in 0 .. Len(s) /\ k # 0
    BY <1>0
  <2> QED BY <1>1, <2>1 DEF Filtering
<1> DEFINE T == {n \in Nat : n <= Len(s) => \E m \in 0 .. n : EndsAt(s, f[n], n, m)}
<1>4. 0 \in T
  <2>1. EndsAt(s, <<>>, 0, 0)
    BY DEF EndsAt, Expired
  <2> QED BY <1>3, <2>1
<1>5. ASSUME NEW n \in Nat, n \in T PROVE n + 1 \in T
  <2> SUFFICES ASSUME n + 1 <= Len(s) PROVE \E m \in 0 .. n + 1 : EndsAt(s, f[n + 1], n + 1, m)
    OBVIOUS
  <2>1. PICK m \in 0 .. n : EndsAt(s, f[n], n, m)
    BY <1>0, <1>5
  <2>2. n + 1 \in 1 .. Len(s) /\ (n + 1) - 1 = n
    BY <1>0
  <2>3. f[n + 1] = Keeps(f[n], s[n + 1])
    BY <1>3, <2>2
  <2> QED BY <2>1, <2>3, KeepsEnd
<1> HIDE DEF T
<1>6. \A n \in Nat : n \in T => n + 1 \in T
  BY ONLY <1>5
<1>7. \A n \in Nat : n \in T
  BY ONLY <1>4, <1>6, NatSetInduction
<1>8. \E m \in 0 .. Len(s) : EndsAt(s, f[Len(s)], Len(s), m)
  BY <1>0, <1>7 DEF T
<1> QED BY <1>2, <1>8

LEMMA PastGrows ==
  ASSUME now \in Nat, NEW s, Past(s)
  PROVE  Past(Append(s, now)) /\ Len(Append(s, now)) = Len(s) + 1
<1> DEFINE q == Append(s, now)
<1>1. q \in Seq(Nat) /\ Len(q) = Len(s) + 1 /\ q[Len(s) + 1] = now
      /\ \A i \in 1 .. Len(s) : q[i] = s[i] /\ s[i] \in Nat /\ s[i] <= now
  BY DEF Past
<1>2. \A i \in 1 .. Len(q) : i \in 1 .. Len(s) \/ i = Len(s) + 1
  BY <1>1 DEF Past
<1> HIDE DEF q
<1>3. \A i \in 1 .. Len(q) : q[i] <= now
  BY <1>1, <1>2
<1>4. Ordered(q)
  <2> SUFFICES ASSUME NEW i \in 1 .. Len(q), NEW j \in 1 .. Len(q), i <= j PROVE q[i] <= q[j]
    BY DEF Ordered
  <2>1. CASE j = Len(s) + 1
    BY <1>1, <1>3, <2>1
  <2>2. CASE j # Len(s) + 1
    <3>1. j \in 1 .. Len(s) /\ i \in 1 .. Len(s)
      BY <1>1, <1>2, <2>2 DEF Past
    <3> QED BY <1>1, <3>1 DEF Past, Ordered
  <2> QED BY <2>1, <2>2
<1> QED BY <1>1, <1>3, <1>4 DEF Past, q

(* The request gap places back is a window old.                            *)
OldEnough(s, gap) == \A i \in 1 .. Len(s) : i + gap = Len(s) + 1 => s[i] + WindowMs <= now

LEMMA SpacedGrows ==
  ASSUME now \in Nat, NEW s, Past(s), NEW gap \in Nat \ {0}, Spaced(s, gap), OldEnough(s, gap)
  PROVE  Spaced(Append(s, now), gap)
<1> DEFINE q == Append(s, now)
<1>1. Len(s) \in Nat /\ Len(q) = Len(s) + 1 /\ q[Len(s) + 1] = now /\ \A i \in 1 .. Len(s) : q[i] = s[i]
  BY DEF Past
<1> HIDE DEF q
<1>2. SUFFICES ASSUME NEW i \in 1 .. Len(q), i + gap <= Len(q) PROVE q[i] + WindowMs <= q[i + gap]
  BY DEF Spaced, q
<1>3. i \in 1 .. Len(s) /\ q[i] = s[i]
  BY <1>1, <1>2
<1>4. CASE i + gap = Len(s) + 1
  BY <1>1, <1>3, <1>4 DEF OldEnough
<1>5. CASE i + gap # Len(s) + 1
  <2>1. i + gap \in 1 .. Len(s) /\ i + gap <= Len(s)
    BY <1>1, <1>2, <1>5
  <2> QED BY <1>1, <1>3, <2>1 DEF Spaced
<1> QED BY <1>4, <1>5

(* What is known of the requests when a window starts afresh.              *)
LEMMA WindowsLater ==
  ASSUME NEW s \in Seq(Nat), NEW count \in 0 .. MaxRequests, NEW a \in Int, NEW b \in Int,
         WindowsFollow(s, count, a)
  PROVE  /\ a <= b => WindowsFollow(s, count, b)
         /\ a + WindowMs <= b /\ (\A i \in 1 .. Len(s) : s[i] <= b) => WindowsFollow(s, 0, b)
<1>0. WindowMs \in Nat /\ MaxRequests \in Nat /\ Len(s) \in Nat /\ \A i \in 1 .. Len(s) : s[i] \in Nat
  BY LimitsAreNumbers
<1>1. ASSUME a <= b PROVE WindowsFollow(s, count, b)
  <2> SUFFICES ASSUME NEW j \in 1 .. Len(s)
               PROVE  /\ j + count + MaxRequests <= Len(s) => s[j] + WindowMs <= b
                      /\ j + count <= Len(s) => s[j] <= b
    BY DEF WindowsFollow
  <2>1. /\ j + count + MaxRequests <= Len(s) => s[j] + WindowMs <= a
        /\ j + count <= Len(s) => s[j] <= a
    BY DEF WindowsFollow
  <2> QED BY <1>0, <1>1, <2>1
<1>2. ASSUME a + WindowMs <= b, \A i \in 1 .. Len(s) : s[i] <= b PROVE WindowsFollow(s, 0, b)
  <2> SUFFICES ASSUME NEW j \in 1 .. Len(s)
               PROVE  j + 0 + MaxRequests <= Len(s) => s[j] + WindowMs <= b
    BY <1>2 DEF WindowsFollow
  <2>1. j + count <= Len(s) => s[j] <= a
    BY DEF WindowsFollow
  <2> QED BY <1>0, <1>2, <2>1
<1> QED BY <1>1, <1>2

LEMMA WindowsGrow ==
  ASSUME now \in Nat, NEW s, Past(s), NEW count \in 0 .. MaxRequests - 1, NEW a \in Int, a <= now,
         WindowsFollow(s, count, a)
  PROVE  WindowsFollow(Append(s, now), count + 1, a) /\ OldEnough(s, 2 * MaxRequests)
<1> DEFINE q == Append(s, now)
<1>0. WindowMs \in Nat /\ MaxRequests \in Nat \ {0}
  BY LimitsAreNumbers
<1>1. /\ Len(s) \in Nat /\ Len(q) = Len(s) + 1
      /\ \A i \in 1 .. Len(s) : q[i] = s[i] /\ s[i] \in Nat
  BY DEF Past
<1> HIDE DEF q
<1>2. WindowsFollow(q, count + 1, a)
  <2> SUFFICES ASSUME NEW j \in 1 .. Len(q)
               PROVE  /\ j + (count + 1) + MaxRequests <= Len(q) => q[j] + WindowMs <= a
                      /\ j + (count + 1) <= Len(q) => q[j] <= a
    BY DEF WindowsFollow
  <2>1. CASE j \in 1 .. Len(s)
    <3>1. /\ j + count + MaxRequests <= Len(s) => s[j] + WindowMs <= a
          /\ j + count <= Len(s) => s[j] <= a
      BY <2>1 DEF WindowsFollow
    <3> QED BY <1>0, <1>1, <2>1, <3>1
  <2>2. CASE j \notin 1 .. Len(s)
    BY <1>0, <1>1, <2>2
  <2> QED BY <2>1, <2>2
<1>3. OldEnough(s, 2 * MaxRequests)
  <2> SUFFICES ASSUME NEW j \in 1 .. Len(s), j + 2 * MaxRequests = Len(s) + 1 PROVE s[j] + WindowMs <= now
    BY DEF OldEnough
  <2>1. j + count + MaxRequests <= Len(s)
    BY <1>0, <1>1
  <2>2. s[j] + WindowMs <= a
    BY <2>1 DEF WindowsFollow
  <2> QED BY <1>0, <1>1, <2>2
<1> QED BY <1>2, <1>3 DEF q
LEMMA SumsKeepOrder ==
  ASSUME NEW x \in Int, NEW y \in Int, NEW z \in Int, NEW f \in Int, NEW g \in Int, NEW h \in Int,
         x + y <= f + g, z <= y + h
  PROVE  x + z <= f + (h + g)
OBVIOUS

LEMMA TokensLater ==
  ASSUME NEW s \in Seq(Nat), NEW count \in Nat, NEW tokens \in Nat, NEW a \in Int, NEW b \in Int, a <= b,
         TokensLast(s, count, a), WindowMs * tokens <= WindowMs * count + (b - a) * MaxRequests
  PROVE  TokensLast(s, tokens, b)
<1>0. WindowMs \in Nat /\ MaxRequests \in Nat /\ Len(s) \in Nat /\ \A i \in 1 .. Len(s) : s[i] \in Nat
  BY LimitsAreNumbers
<1> SUFFICES ASSUME NEW j \in 1 .. Len(s)
             PROVE  WindowMs * ((Len(s) - j) + tokens) <= WindowMs * (MaxRequests - 1) + (b - s[j]) * MaxRequests
  BY DEF TokensLast
<1> DEFINE k == Len(s) - j
           full == WindowMs * (MaxRequests - 1)
<1>1. k \in Nat /\ s[j] \in Nat /\ full \in Int
  BY <1>0
<1>2. WindowMs * (k + count) <= full + (a - s[j]) * MaxRequests
  BY DEF TokensLast
<1> HIDE DEF k, full
<1>3. WindowMs * (k + count) = WindowMs * k + WindowMs * count
  BY <1>0, <1>1, Products
<1>4. WindowMs * (k + tokens) = WindowMs * k + WindowMs * tokens
  BY <1>0, <1>1, Products
<1>5. (b - s[j]) * MaxRequests = (b - a) * MaxRequests + (a - s[j]) * MaxRequests
  <2>1. b - s[j] = (b - a) + (a - s[j]) /\ b - a \in Int /\ a - s[j] \in Int
    BY <1>1, SMTT(20)
  <2> QED BY <1>0, <2>1, Products, SMTT(20)
<1> DEFINE wk == WindowMs * k
           wc == WindowMs * count
           wt == WindowMs * tokens
           ba == (b - a) * MaxRequests
           as == (a - s[j]) * MaxRequests
<1>6. wk \in Int /\ wc \in Int /\ wt \in Int /\ ba \in Int /\ as \in Int
  BY <1>0, <1>1
<1>7. wk + wc <= full + as /\ wt <= wc + ba
  BY <1>2, <1>3
<1>8. WindowMs * (k + tokens) = wk + wt /\ (b - s[j]) * MaxRequests = ba + as
  BY <1>4, <1>5
<1> HIDE DEF wk, wc, wt, ba, as
<1>9. wk + wt <= full + (ba + as)
  <2>1. full \in Int
    BY <1>1
  <2> QED BY ONLY <1>6, <1>7, <2>1, SumsKeepOrder
<1>10. WindowMs * (k + tokens) <= full + (b - s[j]) * MaxRequests
  BY ONLY <1>8, <1>9
<1> QED BY <1>10 DEF k, full

LEMMA TokensGrow ==
  ASSUME now \in Nat, NEW s, Past(s), NEW tokens \in 1 .. MaxRequests, TokensLast(s, tokens, now)
  PROVE  TokensLast(Append(s, now), tokens - 1, now) /\ OldEnough(s, 2 * MaxRequests)
<1> DEFINE q == Append(s, now)
<1>0. WindowMs \in Nat \ {0} /\ MaxRequests \in Nat \ {0}
  BY LimitsAreNumbers
<1>1. /\ Len(s) \in Nat /\ Len(q) = Len(s) + 1 /\ q[Len(s) + 1] = now
      /\ \A i \in 1 .. Len(s) : q[i] = s[i] /\ s[i] \in Nat
  BY DEF Past
<1> HIDE DEF q
<1>2. TokensLast(q, tokens - 1, now)
  <2> SUFFICES ASSUME NEW j \in 1 .. Len(q)
               PROVE  WindowMs * ((Len(q) - j) + (tokens - 1))
                        <= WindowMs * (MaxRequests - 1) + (now - q[j]) * MaxRequests
    BY DEF TokensLast
  <2>1. CASE j \in 1 .. Len(s)
    <3>1. (Len(q) - j) + (tokens - 1) = (Len(s) - j) + tokens /\ q[j] = s[j]
      BY <1>0, <1>1, <2>1
    <3>2. WindowMs * ((Len(s) - j) + tokens) <= WindowMs * (MaxRequests - 1) + (now - s[j]) * MaxRequests
      BY <2>1 DEF TokensLast
    <3> QED BY ONLY <3>1, <3>2
  <2>2. CASE j \notin 1 .. Len(s)
    <3>1. j = Len(s) + 1 /\ (Len(q) - j) + (tokens - 1) = tokens - 1 /\ now - q[j] = 0
      BY <1>0, <1>1, <2>2
    <3>2. tokens - 1 \in Int /\ MaxRequests - 1 \in Int /\ tokens - 1 <= MaxRequests - 1
      BY <1>0
    <3>3. WindowMs * (tokens - 1) <= WindowMs * (MaxRequests - 1)
      BY <1>0, <3>2, Products
    <3>4. 0 * MaxRequests = 0 /\ WindowMs * (MaxRequests - 1) \in Int
      BY <1>0
    <3>5. WindowMs * (tokens - 1) <= WindowMs * (MaxRequests - 1) + 0 * MaxRequests
      BY <3>3, <3>4
    <3> QED BY ONLY <3>1, <3>5
  <2> QED BY <2>1, <2>2
<1>3. OldEnough(s, 2 * MaxRequests)
  <2> SUFFICES ASSUME NEW j \in 1 .. Len(s), j + 2 * MaxRequests = Len(s) + 1 PROVE s[j] + WindowMs <= now
    BY DEF OldEnough
  <2> SUFFICES ASSUME s[j] + WindowMs > now PROVE FALSE
    BY <1>0, <1>1
  <2> DEFINE age == now - s[j]
             k == (Len(s) - j) + tokens
  <2>1. age \in Int /\ age <= WindowMs /\ k \in Nat /\ 2 * MaxRequests <= k
    BY <1>0, <1>1
  <2>2. WindowMs * k <= WindowMs * (MaxRequests - 1) + age * MaxRequests
    BY DEF TokensLast
  <2> HIDE DEF age, k
  <2>3. MaxRequests * age <= MaxRequests * WindowMs
    BY <1>0, <2>1, Products
  <2>4. age * MaxRequests = MaxRequests * age /\ MaxRequests * WindowMs = WindowMs * MaxRequests
    BY <1>0, <2>1
  <2>5. WindowMs * (2 * MaxRequests) <= WindowMs * k
    <3>1. 2 * MaxRequests \in Int
      BY <1>0
    <3> QED BY <1>0, <2>1, <3>1, Products
  <2>6. WindowMs * (2 * MaxRequests) = 2 * (WindowMs * MaxRequests)
    BY <1>0
  <2>7. WindowMs * (MaxRequests - 1) = WindowMs * MaxRequests - WindowMs
    BY <1>0
  <2> DEFINE wm == WindowMs * MaxRequests
             wk == WindowMs * k
             am == age * MaxRequests
  <2>8. wm \in Int /\ wk \in Int /\ am \in Int
    BY <1>0, <2>1
  <2>9. 2 * wm <= wk /\ wk <= (wm - WindowMs) + am /\ am <= wm
    BY <2>2, <2>3, <2>4, <2>5, <2>6, <2>7
  <2> HIDE DEF wm, wk, am
  <2> QED BY <1>0, <2>8, <2>9
<1> QED BY <1>2, <1>3 DEF q

LEMMA TailOfTail ==
  ASSUME now \in Nat, NEW s, Past(s), NEW b, Remembers(b, s)
  PROVE  Remembers(Recent(b), s)
<1>0. WindowMs \in Nat
  BY LimitsAreNumbers
<1>1. PICK m \in 0 .. Len(s) : IsTail(b, s, m) /\ Expired(s, m)
  BY DEF Remembers
<1>2. /\ Len(s) \in Nat /\ b \in Seq(Nat) /\ Len(b) = Len(s) - m /\ \A k \in 1 .. Len(b) : b[k] = s[m + k]
      /\ \A i \in 1 .. m : s[i] + WindowMs <= now
  BY <1>1 DEF IsTail, Past, Expired
<1>3. Ordered(b)
  <2> SUFFICES ASSUME NEW i \in 1 .. Len(b), NEW j \in 1 .. Len(b), i <= j PROVE b[i] <= b[j]
    BY DEF Ordered
  <2>1. m + i \in 1 .. Len(s) /\ m + j \in 1 .. Len(s) /\ m + i <= m + j
    BY <1>2
  <2>2. s[m + i] <= s[m + j]
    BY <2>1 DEF Past, Ordered
  <2> QED BY <1>2, <2>2
<1>4. PICK p \in 0 .. Len(b) : EndsAt(b, Recent(b), Len(b), p)
  BY <1>2, <1>3, RecentIsTail
<1> DEFINE r == Recent(b)
<1>5. /\ r \in Seq(Nat) /\ Len(r) = Len(b) - p /\ \A k \in 1 .. Len(r) : r[k] = b[p + k]
      /\ \A i \in 1 .. p : b[i] + WindowMs <= now
  BY <1>4 DEF EndsAt, Expired
<1> HIDE DEF r
<1>6. m + p \in 0 .. Len(s) /\ Len(r) = Len(s) - (m + p)
  BY <1>2, <1>5
<1>7. \A k \in 1 .. Len(r) : r[k] = s[(m + p) + k]
  <2> SUFFICES ASSUME NEW k \in 1 .. Len(r) PROVE r[k] = s[(m + p) + k]
    OBVIOUS
  <2>1. p + k \in 1 .. Len(b) /\ m + (p + k) = (m + p) + k
    BY <1>2, <1>5
  <2> QED BY <1>2, <1>5, <2>1
<1>8. Expired(s, m + p)
  <2> SUFFICES ASSUME NEW i \in 1 .. (m + p) PROVE s[i] + WindowMs <= now
    BY DEF Expired
  <2>1. CASE i <= m
    BY <1>2, <2>1
  <2>2. CASE i > m
    <3>1. i - m \in 1 .. p /\ i - m \in 1 .. Len(b) /\ m + (i - m) = i
      BY <1>2, <2>2
    <3>2. b[i - m] = s[i]
      BY <1>2, <3>1
    <3> QED BY <1>5, <3>1, <3>2
  <2> QED BY <2>1, <2>2
<1>9. IsTail(r, s, m + p)
  BY <1>5, <1>6, <1>7 DEF IsTail
<1> QED BY <1>6, <1>8, <1>9 DEF Remembers, r

LEMMA TailGrows ==
  ASSUME now \in Nat, NEW s, Past(s), NEW b, Remembers(b, s), Len(b) < MaxRequests
  PROVE  Remembers(Append(b, now), Append(s, now)) /\ OldEnough(s, MaxRequests)
<1>0. WindowMs \in Nat /\ MaxRequests \in Nat \ {0}
  BY LimitsAreNumbers
<1>1. PICK m \in 0 .. Len(s) : IsTail(b, s, m) /\ Expired(s, m)
  BY DEF Remembers
<1>2. /\ Len(s) \in Nat /\ b \in Seq(Nat) /\ Len(b) = Len(s) - m /\ \A k \in 1 .. Len(b) : b[k] = s[m + k]
      /\ \A i \in 1 .. m : s[i] + WindowMs <= now
  BY <1>1 DEF IsTail, Past, Expired
<1> DEFINE q == Append(s, now)
           c == Append(b, now)
<1>3. /\ Len(q) = Len(s) + 1 /\ q[Len(s) + 1] = now /\ \A i \in 1 .. Len(s) : q[i] = s[i]
  BY DEF Past
<1>4. c \in Seq(Nat) /\ Len(c) = Len(b) + 1 /\ c[Len(b) + 1] = now /\ \A i \in 1 .. Len(b) : c[i] = b[i]
  BY <1>2
<1> HIDE DEF q, c
<1>5. \A k \in 1 .. Len(c) : c[k] = q[m + k]
  <2> SUFFICES ASSUME NEW k \in 1 .. Len(c) PROVE c[k] = q[m + k]
    OBVIOUS
  <2>1. CASE k = Len(b) + 1
    <3>1. m + k = Len(s) + 1
      BY <1>2, <2>1
    <3> QED BY <1>3, <1>4, <2>1, <3>1
  <2>2. CASE k # Len(b) + 1
    <3>1. k \in 1 .. Len(b) /\ m + k \in 1 .. Len(s)
      BY <1>2, <1>4, <2>2
    <3> QED BY <1>2, <1>3, <1>4, <3>1
  <2> QED BY <2>1, <2>2
<1>6. m \in 0 .. Len(q) /\ Len(c) = Len(q) - m
  BY <1>2, <1>3, <1>4
<1>7. IsTail(c, q, m)
  BY <1>4, <1>5, <1>6 DEF IsTail
<1>8. Expired(q, m)
  <2> SUFFICES ASSUME NEW i \in 1 .. m PROVE q[i] + WindowMs <= now
    BY DEF Expired
  <2>1. i \in 1 .. Len(s)
    BY <1>2
  <2> QED BY <1>2, <1>3, <2>1
<1>9. OldEnough(s, MaxRequests)
  <2> SUFFICES ASSUME NEW j \in 1 .. Len(s), j + MaxRequests = Len(s) + 1 PROVE s[j] + WindowMs <= now
    BY DEF OldEnough
  <2>1. j \in 1 .. m
    BY <1>0, <1>2
  <2> QED BY <1>2, <2>1
<1> QED BY <1>6, <1>7, <1>8, <1>9 DEF Remembers, q, c
(* What a check leaves fits the requests admitted with it.                 *)
Checked(c, s) == Fits(c.bucket, IF c.ok THEN Append(s, now) ELSE s)

LEMMA Admits ==
  ASSUME now \in Nat, NEW b, NEW s, Fits(b, s), OldEnough(s, Gap), NEW c, BucketFits(c, Append(s, now))
  PROVE  Fits(c, Append(s, now))
BY PastGrows, SpacedGrows, LimitsAreNumbers DEF Fits


LEMMA FixedWindowFits ==
  ASSUME strategy = "fixed-window", now \in Nat, NEW b, NEW s, Fits(b, s)
  PROVE  Checked(CheckFixedWindow(b), s)
<1>0. WindowMs \in Nat /\ MaxRequests \in Nat \ {0} /\ Gap = 2 * MaxRequests
  BY LimitsAreNumbers
<1>1. /\ Past(s) /\ Spaced(s, Gap) /\ b \in Buckets /\ b.count \in 0 .. MaxRequests /\ Start(b) <= now
      /\ b.requests = <<>> /\ WindowsFollow(s, b.count, Start(b))
  BY DEF Fits, BucketFits
<1>2. s \in Seq(Nat) /\ (\A i \in 1 .. Len(s) : s[i] <= now) /\ b.resetTime \in Int /\ Start(b) \in Int
  BY <1>0, <1>1 DEF Past, Start, Buckets
<1> DEFINE w == IF now >= b.resetTime THEN [b EXCEPT !.count = 0, !.resetTime = now + WindowMs] ELSE b
<1>3. /\ w \in Buckets /\ w.count \in 0 .. MaxRequests /\ w.requests = <<>>
      /\ Start(w) \in Int /\ Start(w) <= now /\ WindowsFollow(s, w.count, Start(w))
  <2>1. CASE now >= b.resetTime
    <3> DEFINE u == [b EXCEPT !.count = 0]
               v == [u EXCEPT !.resetTime = now + WindowMs]
    <3>1. v \in Buckets /\ v.count = 0 /\ v.resetTime = now + WindowMs /\ v.requests = <<>>
      <4>1. u \in Buckets /\ u.count = 0 /\ u.requests = <<>>
        BY <1>1 DEF Buckets
      <4> HIDE DEF u
      <4>2. now + WindowMs \in Int
        BY <1>0
      <4> QED BY <4>1, <4>2 DEF Buckets
    <3>2. w = v
      BY <2>1
    <3> HIDE DEF v, w
    <3>3. Start(v) = now /\ Start(b) + WindowMs <= now
      BY <1>0, <1>2, <2>1, <3>1 DEF Start
    <3>4. now \in Int
      OBVIOUS
    <3>5. WindowsFollow(s, 0, now)
      BY <1>1, <1>2, <3>3, <3>4, WindowsLater
    <3> QED BY <1>0, <3>1, <3>2, <3>3, <3>5
  <2>2. CASE ~(now >= b.resetTime)
    <3>1. w = b
      BY <2>2
    <3> HIDE DEF w
    <3> QED BY <1>1, <1>2, <3>1
  <2> QED BY <2>1, <2>2
<1>4. CheckFixedWindow(b) = IF w.count >= MaxRequests THEN [ok |-> FALSE, bucket |-> w]
                            ELSE [ok |-> TRUE, bucket |-> [w EXCEPT !.count = @ + 1]]
  BY DEF CheckFixedWindow
<1> HIDE DEF w
<1>5. CASE w.count >= MaxRequests
  <2>1. Fits(w, s)
    BY <1>1, <1>3 DEF Fits, BucketFits
  <2> QED BY <1>4, <1>5, <2>1 DEF Checked
<1>6. CASE ~(w.count >= MaxRequests)
  <2> DEFINE v == [w EXCEPT !.count = w.count + 1]
  <2>1. v \in Buckets /\ v.count = w.count + 1 /\ v.resetTime = w.resetTime /\ v.requests = w.requests
    BY <1>3 DEF Buckets
  <2>2. w.count \in 0 .. MaxRequests - 1 /\ w.count + 1 \in 0 .. MaxRequests
    BY <1>0, <1>3, <1>6
  <2>3. CheckFixedWindow(b) = [ok |-> TRUE, bucket |-> v]
    BY <1>4, <1>6
  <2> HIDE DEF v
  <2>4. Start(v) = Start(w)
    BY <2>1 DEF Start
  <2>5. WindowsFollow(Append(s, now), w.count + 1, Start(w)) /\ OldEnough(s, 2 * MaxRequests)
    BY <1>1, <1>3, <2>2, WindowsGrow
  <2>6. BucketFits(v, Append(s, now))
    BY <1>3, <2>1, <2>2, <2>4, <2>5 DEF BucketFits
  <2>7. Fits(v, Append(s, now))
    BY <1>0, <2>5, <2>6, Admits
  <2> QED BY <2>3, <2>7 DEF Checked
<1> QED BY <1>5, <1>6

LEMMA TokenBucketFits ==
  ASSUME strategy = "token-bucket", now \in Nat, NEW b, NEW s, Fits(b, s)
  PROVE  Checked(CheckTokenBucket(b), s)
<1>0. WindowMs \in Nat \ {0} /\ MaxRequests \in Nat \ {0} /\ Gap = 2 * MaxRequests
  BY LimitsAreNumbers
<1>1. /\ Past(s) /\ Spaced(s, Gap) /\ b \in Buckets /\ b.count \in 0 .. MaxRequests /\ Start(b) <= now
      /\ b.requests = <<>> /\ TokensLast(s, b.count, Start(b))
  BY DEF Fits, BucketFits
<1>2. s \in Seq(Nat) /\ b.resetTime \in Int /\ Start(b) \in Int
  BY <1>0, <1>1 DEF Past, Start, Buckets
<1> DEFINE elapsed == now - (b.resetTime - WindowMs)
           refill == (elapsed * MaxRequests) \div WindowMs
           tokens == Min2(MaxRequests, b.count + refill)
           w == [b EXCEPT !.count = tokens, !.resetTime = now + WindowMs]
<1>3. CheckTokenBucket(b) = IF tokens < 1 THEN [ok |-> FALSE, bucket |-> w]
                            ELSE [ok |-> TRUE, bucket |-> [w EXCEPT !.count = tokens - 1]]
  BY DEF CheckTokenBucket
<1>4. elapsed \in Nat /\ elapsed = now - Start(b)
  BY <1>0, <1>1, <1>2 DEF Start
<1> HIDE DEF elapsed
<1>5. elapsed * MaxRequests \in Nat
  BY <1>0, <1>4
<1>6. refill \in Nat /\ WindowMs * refill <= elapsed * MaxRequests
  BY <1>0, <1>5, Division
<1> HIDE DEF refill
<1>7. tokens \in 0 .. MaxRequests /\ tokens <= b.count + refill /\ b.count \in Nat
  BY <1>0, <1>1, <1>6 DEF Min2
<1> HIDE DEF tokens
<1>8. w \in Buckets /\ w.count = tokens /\ w.resetTime = now + WindowMs /\ w.requests = <<>>
  <2> DEFINE u == [b EXCEPT !.count = tokens]
  <2>1. u \in Buckets /\ u.count = tokens /\ u.requests = <<>>
    BY <1>1, <1>7 DEF Buckets
  <2>2. w = [u EXCEPT !.resetTime = now + WindowMs]
    OBVIOUS
  <2> HIDE DEF u, w
  <2>3. now + WindowMs \in Int
    BY <1>0
  <2> QED BY <2>1, <2>2, <2>3 DEF Buckets
<1> HIDE DEF w
<1>9. Start(w) = now
  BY <1>0, <1>8 DEF Start
<1>10. WindowMs * tokens <= WindowMs * b.count + (now - Start(b)) * MaxRequests
  <2>1. tokens \in Int /\ b.count + refill \in Int
    BY <1>6, <1>7
  <2>2. WindowMs * tokens <= WindowMs * (b.count + refill)
    BY <1>0, <1>7, <2>1, Products
  <2>3. WindowMs * (b.count + refill) = WindowMs * b.count + WindowMs * refill
    BY <1>0, <1>6, <1>7, Products
  <2>4. WindowMs * tokens \in Int /\ WindowMs * b.count \in Int /\ WindowMs * refill \in Int
    BY <1>0, <1>6, <1>7
  <2>5. WindowMs * tokens <= WindowMs * b.count + elapsed * MaxRequests
    <3> DEFINE wt == WindowMs * tokens
               wc == WindowMs * b.count
               wr == WindowMs * refill
               em == elapsed * MaxRequests
    <3>1. wt \in Int /\ wc \in Int /\ wr \in Int /\ em \in Int /\ wt <= wc + wr /\ wr <= em
      BY <1>5, <1>6, <2>2, <2>3, <2>4
    <3> HIDE DEF wt, wc, wr, em
    <3>2. wt <= wc + em
      BY <3>1
    <3> QED BY <3>2 DEF wt, wc, em
  <2> QED BY <1>4, <2>5
<1>11. TokensLast(s, tokens, now)
  <2>1. tokens \in Nat /\ now \in Int
    BY <1>7
  <2> QED BY <1>1, <1>2, <1>7, <1>10, <2>1, TokensLater
<1>12. CASE tokens < 1
  <2>1. Fits(w, s)
    BY <1>1, <1>7, <1>8, <1>9, <1>11 DEF Fits, BucketFits
  <2> QED BY <1>3, <1>12, <2>1 DEF Checked
<1>13. CASE ~(tokens < 1)
  <2> DEFINE v == [w EXCEPT !.count = tokens - 1]
  <2>1. v \in Buckets /\ v.count = tokens - 1 /\ v.resetTime = w.resetTime /\ v.requests = w.requests
    BY <1>7, <1>8 DEF Buckets
  <2>2. tokens \in 1 .. MaxRequests /\ tokens - 1 \in 0 .. MaxRequests
    BY <1>0, <1>7, <1>13
  <2>3. CheckTokenBucket(b) = [ok |-> TRUE, bucket |-> v]
    BY <1>3, <1>13
  <2> HIDE DEF v
  <2>4. Start(v) = now
    BY <1>9, <2>1 DEF Start
  <2>5. TokensLast(Append(s, now), tokens - 1, now) /\ OldEnough(s, 2 * MaxRequests)
    BY <1>1, <1>11, <2>2, TokensGrow
  <2>6. BucketFits(v, Append(s, now))
    BY <1>8, <2>1, <2>2, <2>4, <2>5 DEF BucketFits
  <2>7. Fits(v, Append(s, now))
    BY <1>0, <2>5, <2>6, Admits
  <2> QED BY <2>3, <2>7 DEF Checked
<1> QED BY <1>12, <1>13

LEMMA RecentFits ==
  ASSUME strategy \in Strategies, now \in Nat, NEW b, NEW s, Fits(b, s),
         NEW w, w = [b EXCEPT !.requests = Recent(@)]
  PROVE  /\ Fits(w, s) /\ w \in Buckets /\ w.requests = Recent(b.requests)
         /\ w.count = b.count /\ w.resetTime = b.resetTime
<1>1. b \in Buckets /\ BucketFits(b, s) /\ Past(s)
  BY DEF Fits, BucketFits
<1>2. /\ Recent(b.requests) \in Seq(Nat)
      /\ IF strategy = "sliding-window" THEN Remembers(Recent(b.requests), s) ELSE Recent(b.requests) = <<>>
  <2>1. CASE strategy = "sliding-window"
    <3>1. Remembers(b.requests, s)
      BY <1>1, <2>1 DEF BucketFits
    <3>2. Remembers(Recent(b.requests), s)
      BY <1>1, <3>1, TailOfTail
    <3>3. Recent(b.requests) \in Seq(Nat)
      BY <3>2 DEF Remembers, IsTail
    <3> QED BY <2>1, <3>2, <3>3
  <2>2. CASE strategy # "sliding-window"
    <3>1. b.requests = <<>> /\ b.requests \in Seq(Nat) /\ Ordered(<<>>)
      <4>1. b.requests = <<>>
        BY <1>1, <2>2 DEF BucketFits
      <4>2. b.requests \in Seq(Nat)
        BY <1>1 DEF Buckets
      <4>3. Ordered(<<>>)
        BY DEF Ordered
      <4> QED BY <4>1, <4>2, <4>3
    <3>2. PICK m \in 0 .. Len(b.requests) : EndsAt(b.requests, Recent(b.requests), Len(b.requests), m)
      BY <3>1, RecentIsTail
    <3>3. Recent(b.requests) \in Seq(Nat) /\ Len(Recent(b.requests)) = 0
      BY <3>1, <3>2 DEF EndsAt
    <3> DEFINE r == Recent(b.requests)
    <3>4. r \in Seq(Nat) /\ Len(r) = 0
      BY <3>3
    <3> HIDE DEF r
    <3>5. r = <<>>
      BY <3>4
    <3> QED BY <2>2, <3>4, <3>5 DEF r
  <2> QED BY <2>1, <2>2
<1> DEFINE r == Recent(b.requests)
<1>3. w = [b EXCEPT !.requests = r]
  OBVIOUS
<1>4. r \in Seq(Nat) /\ IF strategy = "sliding-window" THEN Remembers(r, s) ELSE r = <<>>
  BY <1>2
<1> HIDE DEF r
<1>5. w \in Buckets /\ w.count = b.count /\ w.resetTime = b.resetTime /\ w.requests = r
  BY <1>1, <1>3, <1>4 DEF Buckets
<1>6. Start(w) = Start(b)
  BY <1>5 DEF Start
<1>7. BucketFits(w, s)
  BY <1>1, <1>4, <1>5, <1>6 DEF BucketFits
<1> QED BY <1>5, <1>7 DEF Fits, r

LEMMA SlidingWindowFits ==
  ASSUME strategy = "sliding-window", now \in Nat, NEW b, NEW s, Fits(b, s)
  PROVE  Checked(CheckSlidingWindow(b), s)
<1>0. MaxRequests \in Nat \ {0} /\ Gap = MaxRequests /\ strategy \in Strategies
  BY LimitsAreNumbers DEF Strategies
<1> DEFINE w == [b EXCEPT !.requests = Recent(@)]
<1>1. CheckSlidingWindow(b) = IF Len(w.requests) >= MaxRequests THEN [ok |-> FALSE, bucket |-> w]
                              ELSE [ok |-> TRUE, bucket |-> [w EXCEPT !.requests = Append(@, now)]]
  BY DEF CheckSlidingWindow
<1>2. Fits(w, s)
  BY <1>0, RecentFits
<1> HIDE DEF w
<1>3. Past(s) /\ w \in Buckets /\ w.count \in 0 .. MaxRequests /\ Start(w) <= now /\ Remembers(w.requests, s)
  BY <1>2 DEF Fits, BucketFits
<1>4. CASE Len(w.requests) >= MaxRequests
  BY <1>1, <1>2, <1>4 DEF Checked
<1>5. CASE ~(Len(w.requests) >= MaxRequests)
  <2> DEFINE r == Append(w.requests, now)
             v == [w EXCEPT !.requests = r]
  <2>1. CheckSlidingWindow(b) = [ok |-> TRUE, bucket |-> v]
    BY <1>1, <1>5
  <2>2. w.requests \in Seq(Nat) /\ Len(w.requests) < MaxRequests
    BY <1>0, <1>3, <1>5 DEF Buckets
  <2>3. Remembers(r, Append(s, now)) /\ OldEnough(s, MaxRequests)
    BY <1>3, <2>2, TailGrows
  <2>4. r \in Seq(Nat)
    BY <2>2
  <2> HIDE DEF r
  <2>5. v \in Buckets /\ v.count = w.count /\ v.resetTime = w.resetTime /\ v.requests = r
    BY <1>3, <2>4 DEF Buckets
  <2> HIDE DEF v
  <2>6. Start(v) = Start(w)
    BY <2>5 DEF Start
  <2>7. BucketFits(v, Append(s, now))
    BY <1>3, <2>3, <2>5, <2>6 DEF BucketFits
  <2>8. Fits(v, Append(s, now))
    BY <1>0, <1>2, <2>3, <2>7, Admits
  <2> QED BY <2>1, <2>8 DEF Checked
<1> QED BY <1>4, <1>5

LEMMA CheckFits ==
  ASSUME strategy \in Strategies, now \in Nat, NEW b, NEW s, Fits(b, s)
  PROVE  Checked(Check(b), s)
<1>1. CASE strategy = "fixed-window"
  BY <1>1, FixedWindowFits DEF Check
<1>2. CASE strategy = "token-bucket"
  BY <1>2, TokenBucketFits DEF Check
<1>3. CASE strategy = "sliding-window"
  BY <1>3, SlidingWindowFits DEF Check
<1> QED BY <1>1, <1>2, <1>3 DEF Strategies
(* What fits now fits later, and so does a new bucket in place of an old.  *)
LEMMA FitsLater ==
  ASSUME now \in Nat, now' \in Nat, now <= now', strategy' = strategy, NEW b, NEW s, Fits(b, s)
  PROVE  Fits(b, s)'
<1>0. WindowMs \in Nat /\ Gap' = Gap
  BY LimitsAreNumbers DEF Gap
<1>1. Past(s) /\ Spaced(s, Gap) /\ BucketFits(b, s) /\ b \in Buckets /\ b.resetTime \in Int
  BY DEF Fits, BucketFits, Buckets
<1>2. Past(s)'
  BY <1>1 DEF Past
<1>3. ASSUME NEW m, Expired(s, m), m \in 0 .. Len(s) PROVE Expired(s, m)'
  <2>1. \A i \in 1 .. m : i \in 1 .. Len(s) /\ s[i] \in Nat
    BY <1>1, <1>3 DEF Past
  <2> QED BY <1>0, <1>3, <2>1 DEF Expired
<1>4. ASSUME Remembers(b.requests, s) PROVE Remembers(b.requests, s)'
  <2>1. PICK m \in 0 .. Len(s) : IsTail(b.requests, s, m) /\ Expired(s, m)
    BY <1>4 DEF Remembers
  <2>2. Expired(s, m)'
    BY <1>3, <2>1
  <2>3. IsTail(b.requests, s, m)'
    BY <2>1 DEF IsTail
  <2> QED BY <2>2, <2>3 DEF Remembers
<1>5. Start(b) \in Int /\ Start(b)' = Start(b)
  BY <1>0, <1>1 DEF Start
<1>6. BucketFits(b, s)'
  BY <1>1, <1>4, <1>5 DEF BucketFits, WindowsFollow, TokensLast
<1> QED BY <1>0, <1>1, <1>2, <1>6 DEF Fits, Spaced

LEMMA NewBucketFits ==
  ASSUME now \in Nat, now' \in Nat, now <= now', strategy' = strategy, NEW b, NEW s, Fits(b, s),
         b.requests = <<>>, now' >= b.resetTime \/ b.count = 0
  PROVE  Fits(NewBucket, s)'
<1>0. WindowMs \in Nat /\ MaxRequests \in Nat
  BY LimitsAreNumbers
<1>1. Fits(b, s)'
  BY FitsLater
<1>2. /\ Past(s)' /\ s \in Seq(Nat) /\ \A i \in 1 .. Len(s) : s[i] <= now'
      /\ b \in Buckets /\ b.count \in 0 .. MaxRequests /\ BucketFits(b, s)' /\ Spaced(s, Gap)'
  BY <1>1 DEF Fits, BucketFits, Past
<1>3. b.resetTime \in Int /\ Start(b) \in Int /\ Start(b) <= now' /\ now' \in Int
      /\ (Start(b) + WindowMs <= now' \/ b.count = 0)
  BY <1>0, <1>2 DEF BucketFits, Buckets, Start
<1>4. PICK v : v = NewBucket'
  OBVIOUS
<1>5. v \in Buckets /\ v.count = 0 /\ v.resetTime = now' + WindowMs /\ v.requests = <<>>
  BY <1>0, <1>4 DEF NewBucket, Buckets
<1>6. Start(v) = now' /\ 0 \in 0 .. MaxRequests
  <2>1. PICK n \in Nat : n = now'
    OBVIOUS
  <2>2. (n + WindowMs) - WindowMs = n /\ 0 \in 0 .. MaxRequests
    BY <1>0
  <2>3. v.resetTime = n + WindowMs
    BY <1>5, <2>1
  <2> QED BY <2>1, <2>2, <2>3 DEF Start
<1>7. ASSUME strategy = "fixed-window" PROVE WindowsFollow(s, 0, now')
  <2>1. WindowsFollow(s, b.count, Start(b))
    BY <1>2, <1>7 DEF BucketFits
  <2> QED BY <1>2, <1>3, <2>1, WindowsLater
<1>8. ASSUME strategy = "token-bucket" PROVE TokensLast(s, 0, now')
  <2>1. TokensLast(s, b.count, Start(b))
    BY <1>2, <1>8 DEF BucketFits
  <2>2. WindowMs * 0 <= WindowMs * b.count + (now' - Start(b)) * MaxRequests
    <3>1. WindowMs * 0 = 0 /\ WindowMs * b.count \in Nat
      BY <1>0, <1>2
    <3>2. now' - Start(b) \in Nat
      BY <1>3
    <3>3. (now' - Start(b)) * MaxRequests \in Nat
      BY <1>0, <3>2
    <3> QED BY <3>1, <3>3
  <2>3. b.count \in Nat
    BY <1>0, <1>2
  <2> QED BY <1>2, <1>3, <2>1, <2>2, <2>3, TokensLater
<1>9. IF strategy' = "sliding-window" THEN Remembers(v.requests, s)' ELSE v.requests = <<>>
  <2>1. ASSUME strategy' = "sliding-window" PROVE Remembers(v.requests, s)'
    <3>1. Remembers(b.requests, s)'
      BY <1>2, <2>1 DEF BucketFits
    <3>2. PICK m \in 0 .. Len(s) : IsTail(b.requests, s, m) /\ Expired(s, m)'
      BY <3>1 DEF Remembers
    <3>3. IsTail(v.requests, s, m)
      BY <1>5, <3>2
    <3> QED BY <3>2, <3>3 DEF Remembers
  <2> QED BY <1>5, <2>1
<1>10. BucketFits(v, s)'
  BY <1>2, <1>5, <1>6, <1>7, <1>8, <1>9 DEF BucketFits
<1> QED BY <1>2, <1>4, <1>10 DEF Fits

LEMMA NothingFits ==
  ASSUME now \in Nat
  PROVE  Fits(NewBucket, <<>>)
<1>0. WindowMs \in Nat /\ MaxRequests \in Nat
  BY LimitsAreNumbers
<1> DEFINE v == NewBucket
<1>1. v \in Buckets /\ v.count = 0 /\ v.resetTime = now + WindowMs /\ v.requests = <<>>
  BY <1>0 DEF NewBucket, Buckets
<1> HIDE DEF v
<1>2. Start(v) = now /\ 0 \in 0 .. MaxRequests
  BY <1>0, <1>1 DEF Start
<1>3. \A i \in 1 .. Len(<<>>) : FALSE
  OBVIOUS
<1>4. Past(<<>>) /\ Spaced(<<>>, Gap)
  BY <1>3 DEF Past, Ordered, Spaced
<1>5. Remembers(<<>>, <<>>)
  <2>1. IsTail(<<>>, <<>>, 0) /\ Expired(<<>>, 0)
    BY DEF IsTail, Expired
  <2> QED BY <2>1 DEF Remembers
<1>6. WindowsFollow(<<>>, 0, now) /\ TokensLast(<<>>, 0, now)
  BY <1>3 DEF WindowsFollow, TokensLast
<1>7. BucketFits(v, <<>>)
  BY <1>1, <1>2, <1>5, <1>6 DEF BucketFits
<1> QED BY <1>4, <1>7 DEF Fits, v

LEMMA InitLimiter == LimiterInit => LimiterInv
<1> SUFFICES ASSUME LimiterInit PROVE LimiterInv
  OBVIOUS
<1>1. now = 0 /\ bucket = NoBucket /\ admitted = <<>> /\ strategy \in Strategies /\ MaxTime \in Nat
  BY LimitsAreNumbers DEF LimiterInit
<1>2. Fits(NewBucket, <<>>)
  BY <1>1, NothingFits
<1>3. TheBucket = NewBucket
  BY <1>1 DEF TheBucket
<1> QED BY <1>1, <1>2, <1>3 DEF LimiterInv

LEMMA LimiterKeeps == LimiterInv /\ [LimiterNext]_limiterVars => LimiterInv'
<1> SUFFICES ASSUME LimiterInv, [LimiterNext]_limiterVars PROVE LimiterInv'
  OBVIOUS
<1>0. WindowMs \in Nat /\ MaxRequests \in Nat /\ MaxTime \in Nat
  BY LimitsAreNumbers
<1>1. strategy \in Strategies /\ now \in Nat /\ now <= MaxTime /\ Fits(TheBucket, admitted)
  BY DEF LimiterInv
<1>2. NoBucket.count = -1
  BY DEF NoBucket
<1>3. ASSUME NEW b, NEW s, Fits(b, s) PROVE b # NoBucket
  <2>1. b.count \in 0 .. MaxRequests
    BY <1>3 DEF Fits, BucketFits
  <2> QED BY <1>2, <2>1
<1>4. ASSUME NEW b, NEW s, Fits(b, s), bucket' = b, admitted' = s, now' = now, strategy' = strategy
      PROVE  LimiterInv'
  <2>1. TheBucket' = b
    BY <1>3, <1>4 DEF TheBucket, NoBucket
  <2>2. Fits(b, s)'
    BY <1>1, <1>4, FitsLater
  <2> QED BY <1>1, <1>4, <2>1, <2>2 DEF LimiterInv, Fits
<1>5. CASE CheckLimit
  <2> DEFINE c == Check(TheBucket)
  <2>1. /\ bucket' = c.bucket /\ admitted' = IF c.ok THEN Append(admitted, now) ELSE admitted
        /\ now' = now /\ strategy' = strategy
    BY <1>5 DEF CheckLimit, TheBucket
  <2>2. PICK b, s : b = TheBucket /\ s = admitted
    OBVIOUS
  <2>3. Checked(Check(b), s)
    BY <1>1, <2>2, CheckFits
  <2>4. Checked(c, admitted)
    BY <2>2, <2>3
  <2> HIDE DEF c
  <2> QED BY <1>4, <2>1, <2>4 DEF Checked
<1>6. CASE CleanBuckets
  <2> DEFINE w == [bucket EXCEPT !.requests = Recent(@)]
  <2>1. /\ bucket # NoBucket /\ bucket' = IF w.requests = <<>> /\ now > w.resetTime THEN NoBucket ELSE w
        /\ admitted' = admitted /\ now' = now /\ strategy' = strategy /\ TheBucket = bucket
    BY <1>6 DEF CleanBuckets, TheBucket
  <2>2. Fits(w, admitted)
    BY <1>1, <2>1, RecentFits
  <2>3. w.resetTime \in Int
    BY <2>2 DEF Fits, BucketFits, Buckets
  <2> HIDE DEF w
  <2>4. CASE w.requests = <<>> /\ now > w.resetTime
    <3>1. PICK b, s : b = w /\ s = admitted
      OBVIOUS
    <3>2. now' >= b.resetTime /\ b.requests = <<>> /\ now <= now'
      BY <1>1, <2>1, <2>3, <2>4, <3>1
    <3>3. Fits(NewBucket, s)'
      BY <1>1, <2>1, <2>2, <3>1, <3>2, NewBucketFits
    <3>4. TheBucket' = NewBucket'
      BY <2>1, <2>4 DEF TheBucket, NoBucket
    <3> QED BY <1>1, <2>1, <3>1, <3>3, <3>4 DEF LimiterInv
  <2>5. CASE ~(w.requests = <<>> /\ now > w.resetTime)
    BY <1>4, <2>1, <2>2, <2>5
  <2> QED BY <2>4, <2>5
<1>7. CASE Reset
  <2>1. bucket' = NoBucket /\ admitted' = <<>> /\ now' = now /\ strategy' = strategy
    BY <1>7 DEF Reset
  <2>2. PICK b, s : b = NewBucket /\ s = <<>>
    OBVIOUS
  <2>3. Fits(b, s)
    BY <1>1, <2>2, NothingFits
  <2>4. Fits(b, s)'
    BY <1>1, <2>1, <2>3, FitsLater
  <2>5. TheBucket' = b
    BY <2>1, <2>2 DEF TheBucket, NewBucket, NoBucket
  <2> QED BY <1>1, <2>1, <2>2, <2>4, <2>5 DEF LimiterInv
<1>8. CASE Tick
  <2>1. now < MaxTime /\ now' = now + 1 /\ strategy' = strategy /\ bucket' = bucket /\ admitted' = admitted
    BY <1>8 DEF Tick
  <2>2. now' \in Nat /\ now <= now' /\ now' <= MaxTime
    BY <1>0, <1>1, <2>1
  <2>3. PICK b, s : b = TheBucket /\ s = admitted
    OBVIOUS
  <2>4. Fits(TheBucket, s)'
    <3>1. CASE bucket = NoBucket
      <4>1. b = NewBucket /\ TheBucket' = NewBucket'
        BY <2>1, <2>3, <3>1 DEF TheBucket, NoBucket
      <4>2. b.requests = <<>> /\ b.count = 0
        BY <4>1 DEF NewBucket
      <4>3. Fits(NewBucket, s)'
        BY <1>1, <2>1, <2>2, <2>3, <4>2, NewBucketFits
      <4> QED BY <4>1, <4>3
    <3>2. CASE bucket # NoBucket
      <4>1. TheBucket' = b
        BY <2>1, <2>3, <3>2 DEF TheBucket, NoBucket
      <4>2. Fits(b, s)'
        BY <1>1, <2>1, <2>2, <2>3, FitsLater
      <4> QED BY <4>1, <4>2
    <3> QED BY <3>1, <3>2
  <2> QED BY <1>1, <2>1, <2>2, <2>3, <2>4 DEF LimiterInv
<1>9. CASE UNCHANGED limiterVars
  <2>1. bucket' = bucket /\ admitted' = admitted /\ now' = now /\ strategy' = strategy
    BY <1>9 DEF limiterVars
  <2>2. PICK b, s : b = TheBucket /\ s = admitted
    OBVIOUS
  <2>3. Fits(b, s)'
    BY <1>1, <2>1, <2>2, FitsLater
  <2>4. TheBucket' = b
    BY <2>1, <2>2 DEF TheBucket, NewBucket, NoBucket
  <2> QED BY <1>1, <2>1, <2>2, <2>3, <2>4 DEF LimiterInv
<1> QED BY <1>5, <1>6, <1>7, <1>8, <1>9 DEF LimiterNext
(* Requests less than a window apart are less than one gap of places apart.*)
LEMMA LimiterLimits == LimiterInv => AdmittedWithinLimit
<1> SUFFICES ASSUME LimiterInv, NEW t \in Times
             PROVE  Cardinality({i \in DOMAIN admitted : t <= admitted[i] /\ admitted[i] < t + WindowMs})
                      <= IF strategy = "sliding-window" THEN MaxRequests ELSE 2 * MaxRequests
  BY DEF AdmittedWithinLimit
<1>0. /\ WindowMs \in Nat /\ Gap \in Nat \ {0} /\ t \in Int
      /\ Gap = IF strategy = "sliding-window" THEN MaxRequests ELSE 2 * MaxRequests
  BY LimitsAreNumbers DEF Times
<1> DEFINE D == {i \in DOMAIN admitted : t <= admitted[i] /\ admitted[i] < t + WindowMs}
<1>1. /\ Len(admitted) \in Nat /\ DOMAIN admitted = 1 .. Len(admitted) /\ Spaced(admitted, Gap)
      /\ Ordered(admitted) /\ \A i \in 1 .. Len(admitted) : admitted[i] \in Nat
  BY DEF LimiterInv, Fits, Past
<1>2. ASSUME NEW i \in D, NEW j \in D PROVE j < i + Gap
  <2> SUFFICES ASSUME i + Gap <= j PROVE FALSE
    BY <1>0, <1>1
  <2>1. i \in 1 .. Len(admitted) /\ j \in 1 .. Len(admitted) /\ i + Gap \in 1 .. Len(admitted)
    BY <1>0, <1>1
  <2>2. admitted[i] + WindowMs <= admitted[i + Gap] /\ admitted[i + Gap] <= admitted[j]
    BY <1>1, <2>1 DEF Spaced, Ordered
  <2> QED BY <1>0, <1>1, <2>1, <2>2
<1>3. D \subseteq 1 .. Len(admitted)
  BY <1>1
<1> HIDE DEF D
<1>4. CASE D = {}
  <2>1. Cardinality(D) = 0
    BY <1>4, FS_EmptySet
  <2> QED BY <1>0, <2>1 DEF D
<1>5. CASE D # {}
  <2>1. PICK lo \in D : \A i \in D : lo <= i
    <3>1. D \subseteq Nat
      BY <1>1, <1>3
    <3>2. \E x \in D : \A y \in D : ~(<<y, x>> \in OpToRel(<, Nat))
      BY <1>5, <3>1, NatLessThanWellFounded, WFMin
    <3>3. PICK x \in D : \A y \in D : ~(y < x)
      BY <3>1, <3>2 DEF OpToRel
    <3>4. ASSUME NEW i \in D PROVE x <= i
      <4>1. i \in Nat /\ x \in Nat /\ ~(i < x)
        BY <3>1, <3>3
      <4> QED BY <4>1
    <3> QED BY <3>4
  <2> DEFINE R == lo .. (lo + Gap - 1)
  <2>2. lo \in Int /\ lo + Gap - 1 \in Int /\ lo <= lo + Gap - 1
    BY <1>0, <1>1, <1>3, <2>1
  <2>3. D \subseteq R
    <3> SUFFICES ASSUME NEW i \in D PROVE i \in R
      OBVIOUS
    <3>1. i \in Int /\ lo <= i /\ i < lo + Gap
      BY <1>1, <1>2, <1>3, <2>1
    <3> QED BY <1>0, <2>2, <3>1
  <2>4. IsFiniteSet(R)
    BY <2>2, FS_Interval
  <2>5. Cardinality(R) = Gap
    <3>1. Cardinality(R) = (lo + Gap - 1) - lo + 1
      BY <2>2, FS_Interval
    <3> QED BY <1>0, <2>2, <3>1
  <2> HIDE DEF R
  <2>6. Cardinality(D) <= Cardinality(R)
    BY <2>3, <2>4, FS_Subset
  <2> QED BY <1>0, <2>5, <2>6 DEF D
<1> QED BY <1>4, <1>5

-----------------------------------------------------------------------------
(* Event versions.  One round of the upcasters.                            *)
Round(V) == V \union {upcaster[v] : v \in Registered \intersect V}

Rounds(from, f, n) == f = [k \in 0 .. n |-> IF k = 0 THEN {from} ELSE Round(f[k - 1])]

RoundsEnd(V) == \A v \in V \intersect Registered : upcaster[v] \in V

LEMMA RoundsExist == ASSUME NEW from, NEW n \in Nat PROVE \E f : Rounds(from, f, n)
<1> DEFINE T == {k \in Nat : \E f : Rounds(from, f, k)}
<1>1. 0 \in T
  <2> DEFINE f == [k \in 0 .. 0 |-> {from}]
  <2>1. Rounds(from, f, 0)
    BY DEF Rounds
  <2> QED BY <2>1
<1>2. ASSUME NEW k \in Nat, k \in T PROVE k + 1 \in T
  <2>1. PICK f : Rounds(from, f, k)
    BY <1>2
  <2> DEFINE g == [m \in 0 .. (k + 1) |-> IF m = k + 1 THEN Round(f[k]) ELSE f[m]]
  <2>2. ASSUME NEW m \in 0 .. (k + 1)
        PROVE  g[m] = IF m = 0 THEN {from} ELSE Round(g[m - 1])
    <3>1. CASE m = k + 1
      <4>1. m - 1 = k /\ k \in 0 .. (k + 1) /\ k # k + 1 /\ m # 0
        BY <3>1
      <4>2. g[k] = f[k]
        BY <4>1
      <4> QED BY <3>1, <4>1, <4>2
    <3>2. CASE m # k + 1
      <4>1. m \in 0 .. k /\ (m # 0 => m - 1 \in 0 .. k /\ m - 1 \in 0 .. (k + 1) /\ m - 1 # k + 1)
        BY <3>2
      <4>2. f[m] = IF m = 0 THEN {from} ELSE Round(f[m - 1])
        BY <2>1, <4>1 DEF Rounds
      <4>3. g[m] = f[m] /\ (m # 0 => g[m - 1] = f[m - 1])
        BY <3>2, <4>1
      <4> QED BY <4>2, <4>3
    <3> QED BY <3>1, <3>2
  <2>3. Rounds(from, g, k + 1)
    BY <2>2 DEF Rounds
  <2> QED BY <2>3
<1> HIDE DEF T
<1>3. \A k \in Nat : k \in T => k + 1 \in T
  BY ONLY <1>2
<1>4. \A k \in Nat : k \in T
  BY ONLY <1>1, <1>3, NatSetInduction
<1> QED BY <1>4 DEF T

(* A round leads to versions, and on unless it is the last one.            *)
LEMMA RoundLeads ==
  ASSUME EventVersionTypeOK, NEW V \in SUBSET EventVersions
  PROVE  /\ Round(V) \in SUBSET EventVersions /\ V \subseteq Round(V)
         /\ RoundsEnd(V) => Round(V) = V
         /\ ~RoundsEnd(V) => Cardinality(Round(V)) >= Cardinality(V) + 1
<1>1. Round(V) \in SUBSET EventVersions /\ V \subseteq Round(V)
  BY DEF Round, Registered, EventVersionTypeOK
<1>2. RoundsEnd(V) => Round(V) = V
  BY DEF Round, RoundsEnd
<1>3. ASSUME ~RoundsEnd(V) PROVE Cardinality(Round(V)) >= Cardinality(V) + 1
  <2>1. PICK w \in Round(V) : w \notin V
    BY <1>3 DEF RoundsEnd, Round
  <2>2. IsFiniteSet(EventVersions)
    BY EventVersionsAssumption
  <2>3. IsFiniteSet(Round(V)) /\ IsFiniteSet(V)
    BY <1>1, <2>2, FS_Subset
  <2> DEFINE W == V \union {w}
  <2>4. Cardinality(W) = Cardinality(V) + 1
    BY <2>1, <2>3, FS_AddElement
  <2>5. W \subseteq Round(V)
    BY <1>1, <2>1
  <2>6. Cardinality(W) <= Cardinality(Round(V))
    BY <2>3, <2>5, FS_Subset
  <2>7. Cardinality(Round(V)) \in Nat /\ Cardinality(V) \in Nat
    BY <2>3, FS_CardinalityType
  <2> HIDE DEF W
  <2> QED BY <2>4, <2>6, <2>7
<1> QED BY <1>1, <1>2, <1>3

(* Where the upcasters lead from a version.                                *)
LEMMA VisitedIsWhereTheyLead ==
  ASSUME EventVersionTypeOK, NEW from \in EventVersions, NEW target \in EventVersions
  PROVE  target \in Visited(from) <=> LeadsTo(from, target)
<1> DEFINE N == Cardinality(EventVersions)
           f == CHOOSE f : Rounds(from, f, N)
<1>0. IsFiniteSet(EventVersions) /\ N \in Nat
  BY EventVersionsAssumption, FS_CardinalityType
<1>1. Rounds(from, f, N)
  BY <1>0, RoundsExist
<1>2. Visited(from) = f[N]
  BY DEF Visited, Rounds, Round
<1> HIDE DEF f, N
<1>3. f[0] = {from} /\ \A k \in Nat : k + 1 <= N => f[k + 1] = Round(f[k])
  <2>1. 0 \in 0 .. N
    BY <1>0
  <2>2. ASSUME NEW k \in Nat, k + 1 <= N PROVE f[k + 1] = Round(f[k])
    <3>1. k + 1 \in 0 .. N /\ k + 1 # 0 /\ (k + 1) - 1 = k
      BY <1>0, <2>2
    <3> QED BY <1>1, <3>1 DEF Rounds
  <2> QED BY <1>1, <2>1, <2>2 DEF Rounds
<1> DEFINE T == {n \in Nat : n <= N => /\ f[n] \in SUBSET EventVersions /\ from \in f[n]
                                       /\ RoundsEnd(f[n]) \/ Cardinality(f[n]) >= n + 1}
           U(C) == {n \in Nat : n <= N => f[n] \subseteq C}
<1>4. 0 \in T
  <2>1. Cardinality({from}) = 1
    BY FS_Singleton
  <2> QED BY <1>3, <2>1
<1>5. ASSUME NEW n \in Nat, n \in T PROVE n + 1 \in T
  <2> SUFFICES ASSUME n + 1 <= N
               PROVE  /\ f[n + 1] \in SUBSET EventVersions /\ from \in f[n + 1]
                      /\ RoundsEnd(f[n + 1]) \/ Cardinality(f[n + 1]) >= (n + 1) + 1
    OBVIOUS
  <2>1. /\ f[n] \in SUBSET EventVersions /\ from \in f[n] /\ f[n + 1] = Round(f[n])
        /\ RoundsEnd(f[n]) \/ Cardinality(f[n]) >= n + 1
    BY <1>0, <1>3, <1>5
  <2>2. f[n + 1] \in SUBSET EventVersions /\ from \in f[n + 1]
    BY <2>1, RoundLeads
  <2>3. CASE RoundsEnd(f[n])
    BY <2>1, <2>2, <2>3, RoundLeads
  <2>4. CASE ~RoundsEnd(f[n])
    <3>1. Cardinality(f[n + 1]) >= Cardinality(f[n]) + 1 /\ Cardinality(f[n]) >= n + 1
      BY <2>1, <2>4, RoundLeads
    <3>2. Cardinality(f[n + 1]) \in Nat /\ Cardinality(f[n]) \in Nat
      <4>1. IsFiniteSet(f[n + 1]) /\ IsFiniteSet(f[n])
        BY <1>0, <2>1, <2>2, FS_Subset
      <4> QED BY <4>1, FS_CardinalityType
    <3> QED BY <2>2, <3>1, <3>2
  <2> QED BY <2>3, <2>4
<1> HIDE DEF T
<1>6. \A n \in Nat : n \in T => n + 1 \in T
  BY ONLY <1>5
<1>7. \A n \in Nat : n \in T
  BY ONLY <1>4, <1>6, NatSetInduction
<1>8. f[N] \in SUBSET EventVersions /\ from \in f[N] /\ (RoundsEnd(f[N]) \/ Cardinality(f[N]) >= N + 1)
  BY <1>0, <1>7 DEF T
<1>9. RoundsEnd(f[N])
  <2>1. Cardinality(f[N]) <= N /\ Cardinality(f[N]) \in Nat
    <3>1. IsFiniteSet(f[N]) /\ Cardinality(f[N]) <= Cardinality(EventVersions)
      BY <1>0, <1>8, FS_Subset
    <3> QED BY <3>1, FS_CardinalityType DEF N
  <2> QED BY <1>0, <1>8, <2>1
<1>10. ASSUME NEW C \in SUBSET EventVersions, from \in C, \A v \in C \intersect Registered : upcaster[v] \in C
       PROVE  f[N] \subseteq C
  <2>1. 0 \in U(C)
    BY <1>3, <1>10
  <2>2. ASSUME NEW n \in Nat, n \in U(C) PROVE n + 1 \in U(C)
    <3> SUFFICES ASSUME n + 1 <= N PROVE f[n + 1] \subseteq C
      OBVIOUS
    <3>1. f[n] \subseteq C /\ f[n + 1] = Round(f[n])
      BY <1>0, <1>3, <2>2
    <3> QED BY <1>10, <3>1 DEF Round
  <2> HIDE DEF U
  <2>3. \A n \in Nat : n \in U(C) => n + 1 \in U(C)
    BY ONLY <2>2
  <2>4. \A n \in Nat : n \in U(C)
    BY ONLY <2>1, <2>3, NatSetInduction
  <2> QED BY <1>0, <2>4 DEF U
<1>11. ASSUME target \in f[N] PROVE LeadsTo(from, target)
  BY <1>10, <1>11 DEF LeadsTo
<1>12. ASSUME LeadsTo(from, target) PROVE target \in f[N]
  BY <1>8, <1>9, <1>12 DEF LeadsTo, RoundsEnd
<1> QED BY <1>2, <1>11, <1>12

(* So it is in the next state.                                             *)
PathsLead ==
  \A from, target \in EventVersions : target \in Visited(from) <=> LeadsTo(from, target)

LEMMA VisitedLeads == EventVersionTypeOK => PathsLead
BY VisitedIsWhereTheyLead DEF PathsLead

LEMMA VisitedLater == EventVersionTypeOK' => PathsLead'
BY VisitedLeads, PTL

(* Versions are ordered, and SameMinor is an equivalence.                  *)
SchemaVersion == Nat \X Nat \X Nat

LEMMA VersionsAreOrdered ==
  ASSUME NEW u \in SchemaVersion, NEW v \in SchemaVersion, NEW w \in SchemaVersion
  PROVE  /\ Below(v, v) /\ (Below(v, w) \/ Below(w, v))
         /\ Below(v, w) /\ Below(w, v) => v = w
         /\ Below(u, v) /\ Below(v, w) => Below(u, w)
         /\ SameMinor(v, w) <=> ~PastMinor(v, w) /\ ~PastMinor(w, v)
         /\ ~Below(v, w) => ~PastMinor(w, v)
<1>1. v = <<v[1], v[2], v[3]>> /\ w = <<w[1], w[2], w[3]>>
  BY DEF SchemaVersion
<1>2. /\ u[1] \in Nat /\ u[2] \in Nat /\ u[3] \in Nat
      /\ v[1] \in Nat /\ v[2] \in Nat /\ v[3] \in Nat
      /\ w[1] \in Nat /\ w[2] \in Nat /\ w[3] \in Nat
  BY DEF SchemaVersion
<1>3. Below(v, v) /\ (Below(v, w) \/ Below(w, v))
  BY <1>2 DEF Below, PastMinor, SameMinor
<1>4. Below(v, w) /\ Below(w, v) => v[1] = w[1] /\ v[2] = w[2] /\ v[3] = w[3]
  BY <1>2 DEF Below, PastMinor, SameMinor
<1>5. Below(u, v) /\ Below(v, w) => Below(u, w)
  BY <1>2 DEF Below, PastMinor, SameMinor
<1>6. SameMinor(v, w) <=> ~PastMinor(v, w) /\ ~PastMinor(w, v)
  BY <1>2 DEF PastMinor, SameMinor
<1>7. ~Below(v, w) => ~PastMinor(w, v)
  BY <1>2 DEF Below
<1> QED BY <1>1, <1>3, <1>4, <1>5, <1>6, <1>7

LEMMA SchemasHaveVersions ==
  ASSUME EventVersionTypeOK
  PROVE  /\ \A s \in schemas : s.version \in SchemaVersion /\ s.min \in SchemaVersion /\ s.max \in SchemaVersion
         /\ \A s, t \in Schemas : s.version = t.version => s = t
         /\ Mentioned \subseteq SchemaVersion
BY EventVersionsAssumption DEF EventVersionTypeOK, SchemaVersion, Mentioned

(* What a migration passes.                                                *)
LEMMA MigrationsArrive ==
  ASSUME EventVersionTypeOK, NEW s \in schemas, NEW t \in schemas, s.version[1] # t.version[1]
  PROVE  LET from == s.version
             to == t.version
             Patches == {w \in {r.version : r \in schemas} : SameMinor(w, to)}
         IN /\ to \in OnTheWay(from, to) /\ \A v \in EndOfPath(from, to) : SameMinor(v, to)
            /\ to \in EndOfPath(from, to) <=>
                 \A w \in Patches : IF from[1] < to[1] THEN Below(w, to) ELSE Below(to, w)
            /\ {v \in OnTheWay(from, to) : ~SameMinor(v, to)}
                 = {v \in OnTheWay(to, from) : ~SameMinor(v, from)}
<1> DEFINE from == s.version
           to == t.version
           Patches == {w \in {r.version : r \in schemas} : SameMinor(w, to)}
<1> DEFINE OfSchemas == {r.version : r \in schemas}
<1>1. from \in OfSchemas /\ to \in OfSchemas /\ OfSchemas \subseteq SchemaVersion
  BY SchemasHaveVersions
<1>2. \A v \in OfSchemas : /\ v[1] \in Nat /\ v[2] \in Nat /\ v[3] \in Nat
  BY <1>1 DEF SchemaVersion
<1>3. /\ \A v \in OnTheWay(from, to) : v \in OfSchemas
      /\ \A v \in OfSchemas : v \in OnTheWay(from, to) <=>
           \/ from[1] < to[1] /\ PastMinor(v, from) /\ ~PastMinor(v, to)
           \/ from[1] > to[1] /\ PastMinor(from, v) /\ ~PastMinor(to, v)
      /\ \A v \in OnTheWay(to, from) : v \in OfSchemas
      /\ \A v \in OfSchemas : v \in OnTheWay(to, from) <=>
           \/ to[1] < from[1] /\ PastMinor(v, to) /\ ~PastMinor(v, from)
           \/ to[1] > from[1] /\ PastMinor(to, v) /\ ~PastMinor(from, v)
  BY DEF OnTheWay
<1>4. Patches = {w \in OfSchemas : SameMinor(w, to)}
  BY DEF Patches
<1>5. \A v : v \in EndOfPath(from, to) <=>
        /\ v \in OnTheWay(from, to)
        /\ \A w \in OnTheWay(from, to) : IF from[1] < to[1] THEN Below(w, v) ELSE Below(v, w)
  BY DEF EndOfPath
<1>0. from[1] # to[1]
  OBVIOUS
<1> HIDE DEF OfSchemas, Patches, from, to
<1>6. to \in OnTheWay(from, to)
  BY <1>0, <1>1, <1>2, <1>3 DEF PastMinor
<1>7. ASSUME NEW v \in EndOfPath(from, to) PROVE SameMinor(v, to)
  <2>1. v \in OfSchemas /\ v \in OnTheWay(from, to)
        /\ (IF from[1] < to[1] THEN Below(to, v) ELSE Below(v, to))
    BY <1>3, <1>5, <1>6
  <2> QED BY <1>1, <1>2, <1>3, <2>1 DEF Below, PastMinor, SameMinor
<1>8. \A w \in Patches : w \in OnTheWay(from, to)
  BY <1>0, <1>1, <1>2, <1>3, <1>4 DEF PastMinor, SameMinor
<1>9. ASSUME NEW w \in OnTheWay(from, to), w \notin Patches
      PROVE  IF from[1] < to[1] THEN Below(w, to) ELSE Below(to, w)
  <2>1. w \in OfSchemas /\ ~SameMinor(w, to)
    BY <1>3, <1>4, <1>9
  <2> QED BY <1>1, <1>2, <1>3, <2>1 DEF Below, PastMinor, SameMinor
<1>10. to \in EndOfPath(from, to) <=>
         \A w \in Patches : IF from[1] < to[1] THEN Below(w, to) ELSE Below(to, w)
  BY <1>5, <1>6, <1>8, <1>9
<1>11. ASSUME NEW v \in OfSchemas
       PROVE  (v \in OnTheWay(from, to) /\ ~SameMinor(v, to))
                <=> (v \in OnTheWay(to, from) /\ ~SameMinor(v, from))
  BY <1>1, <1>2, <1>3 DEF PastMinor, SameMinor
<1>12. {v \in OnTheWay(from, to) : ~SameMinor(v, to)} = {v \in OnTheWay(to, from) : ~SameMinor(v, from)}
  BY <1>3, <1>11
<1> QED BY <1>6, <1>7, <1>10, <1>12 DEF from, to, Patches

LEMMA EventVersionsLead == EventVersionTypeOK => VersionsLeadOn
<1> SUFFICES ASSUME EventVersionTypeOK PROVE VersionsLeadOn
  OBVIOUS
<1>1. ASSUME NEW v \in EventVersions, NEW w \in EventVersions
      PROVE  v < w => (Upcast(v, w) = w <=> LeadsTo(v, w))
  <2>1. v \in Nat \ {0} /\ w \in Nat \ {0}
    BY EventVersionsAssumption
  <2>2. w \in Visited(v) <=> LeadsTo(v, w)
    BY VisitedIsWhereTheyLead
  <2> QED BY <2>1, <2>2 DEF Upcast, None
<1> QED BY <1>1, MigrationsArrive, Zenon DEF VersionsLeadOn

(* The versions that can be led from one are closed: an upcaster that  *)
(* starts elsewhere does not matter.                                       *)
LEMMA ReachedIsClosed ==
  ASSUME EventVersionTypeOK, NEW v \in EventVersions
  PROVE  LET led == {x \in EventVersions : LeadsTo(v, x)}
         IN v \in led /\ \A x \in led \intersect Registered : upcaster[x] \in led
<1> DEFINE led == {x \in EventVersions : LeadsTo(v, x)}
<1>1. v \in led
  BY DEF LeadsTo
<1>2. ASSUME NEW x \in led, x \in Registered PROVE upcaster[x] \in led
  <2>1. upcaster[x] \in EventVersions /\ LeadsTo(v, x)
    BY <1>2 DEF EventVersionTypeOK, Registered
  <2>2. LeadsTo(v, upcaster[x])
    BY <1>2, <2>1 DEF LeadsTo
  <2> QED BY <2>1, <2>2
<1> QED BY <1>1, <1>2

LEMMA PathsStay ==
  ASSUME EventVersionTypeOK, EventVersionTypeOK', NEW u \in EventVersions,
         \A x \in EventVersions : x # u => upcaster'[x] = upcaster[x],
         NEW v \in EventVersions, NEW w \in EventVersions, ~LeadsTo(v, u)
  PROVE  LeadsTo(v, w)' <=> LeadsTo(v, w)
<1> DEFINE led == {x \in EventVersions : LeadsTo(v, x)}
<1>1. v \in led /\ u \notin led /\ \A x \in led \intersect Registered : upcaster[x] \in led
  BY ReachedIsClosed
<1>2. \A x \in led : /\ upcaster'[x] = upcaster[x] /\ (x \in Registered' <=> x \in Registered)
  BY <1>1 DEF Registered
<1>3. led \in SUBSET EventVersions
  OBVIOUS
<1>4. w \in led <=> LeadsTo(v, w)
  OBVIOUS
<1> HIDE DEF led
<1>5. ASSUME LeadsTo(v, w)' PROVE LeadsTo(v, w)
  <2>1. \A x \in led \intersect Registered' : upcaster'[x] \in led
    BY <1>1, <1>2
  <2>2. w \in led
    BY <1>1, <1>3, <1>5, <2>1 DEF LeadsTo
  <2> QED BY <1>4, <2>2
<1>6. ASSUME LeadsTo(v, w) PROVE LeadsTo(v, w)'
  <2> SUFFICES ASSUME NEW closed \in SUBSET EventVersions, v \in closed,
                      \A x \in closed \intersect Registered' : upcaster'[x] \in closed
               PROVE  w \in closed
    BY DEF LeadsTo
  <2> DEFINE inner == closed \intersect led
  <2>1. inner \in SUBSET EventVersions /\ v \in inner
    BY <1>1
  <2>2. \A x \in inner \intersect Registered : upcaster[x] \in inner
    BY <1>1, <1>2
  <2> HIDE DEF inner
  <2>3. w \in inner
    BY <1>6, <2>1, <2>2 DEF LeadsTo
  <2> QED BY <2>3 DEF inner
<1> QED BY <1>5, <1>6

(* The newest of the schemas that cover a version.                         *)
LEMMA NewestIsKept ==
  ASSUME EventVersionTypeOK, NEW s \in Schemas, s \notin schemas, schemas' = schemas \union {s},
         NEW v \in SchemaVersion, FindCompatibleSchema(v) # {}
  PROVE  /\ FindCompatibleSchema(v)' \in {FindCompatibleSchema(v), {s}}
         /\ v = s.version => \A t \in FindCompatibleSchema(v) : AreCompatible(v, t.version)'
<1> DEFINE chosen == FindCompatibleSchema(v)
           candidates == IF SchemasOf(v) # {} THEN SchemasOf(v) ELSE {r \in schemas : InRange(v, r)}
<1>1. /\ chosen = {r \in candidates : \A t \in candidates : Below(t.version, r.version)}
      /\ candidates \subseteq schemas
  BY DEF FindCompatibleSchema, SchemasOf
<1>3. /\ schemas' \subseteq Schemas /\ schemas \subseteq Schemas
      /\ \A r \in Schemas : r.version \in SchemaVersion
      /\ \A r, t \in Schemas : r.version = t.version => r = t
  BY EventVersionsAssumption DEF EventVersionTypeOK, SchemaVersion
<1>4. \A r : InRange(v, r)' <=> InRange(v, r)
  BY DEF InRange, Below, PastMinor, SameMinor
<1>5. PICK m \in chosen : TRUE
  OBVIOUS
<1>6. m \in candidates /\ m \in schemas /\ \A t \in candidates : Below(t.version, m.version)
  BY <1>1, <1>5
<1>7. \A r \in chosen : r = m
  <2> SUFFICES ASSUME NEW r \in chosen PROVE r.version = m.version
    BY <1>1, <1>3, <1>6
  <2>1. Below(r.version, m.version) /\ Below(m.version, r.version)
    BY <1>1, <1>6
  <2> QED BY <1>1, <1>3, <1>6, <2>1, VersionsAreOrdered
<1>8. chosen = {m}
  BY <1>5, <1>7
<1> DEFINE afterwards == IF SchemasOf(v)' # {} THEN SchemasOf(v)' ELSE {r \in schemas' : InRange(v, r)}
<1>9. FindCompatibleSchema(v)' = {r \in afterwards : \A t \in afterwards : Below(t.version, r.version)}
  BY <1>4 DEF FindCompatibleSchema
<1>10. SchemasOf(v)' = SchemasOf(v) \union (IF s.version = v THEN {s} ELSE {})
  BY DEF SchemasOf
<1>11. s # m /\ s.version # m.version
  BY <1>3, <1>6
<1>12. CASE s.version = v
  <2>1. SchemasOf(v) = {}
    BY <1>3, <1>12 DEF SchemasOf
  <2>2. afterwards = {s}
    BY <1>10, <1>12, <2>1
  <2>3. FindCompatibleSchema(v)' = {s}
    <3> HIDE DEF afterwards
    <3> QED BY <1>3, <1>9, <2>2, VersionsAreOrdered
  <2>4. InRange(v, m)
    BY <1>6, <2>1
  <2>5. SchemasOf(v)' # {} /\ m \in SchemasOf(m.version)'
    BY <1>6, <1>10, <1>12 DEF SchemasOf
  <2>6. AreCompatible(v, m.version)'
    BY <1>4, <2>4, <2>5 DEF AreCompatible
  <2> QED BY <1>8, <2>3, <2>6
<1>13. CASE s.version # v
  <2>1. afterwards = candidates \/ afterwards = candidates \union {s}
    BY <1>10, <1>13
  <2> HIDE DEF afterwards, candidates, chosen
  <2>2. CASE afterwards = candidates
    BY <1>1, <1>9, <1>13, <2>2 DEF chosen
  <2>3. CASE afterwards = candidates \union {s} /\ Below(s.version, m.version)
    <3>1. m \in FindCompatibleSchema(v)'
      BY <1>6, <1>9, <2>3
    <3>2. \A r \in FindCompatibleSchema(v)' : r = m
      <4> SUFFICES ASSUME NEW r \in FindCompatibleSchema(v)' PROVE r.version = m.version
        BY <1>1, <1>3, <1>6, <1>9, <2>3
      <4>1. Below(r.version, m.version) /\ Below(m.version, r.version) /\ r \in Schemas
        BY <1>1, <1>3, <1>6, <1>9, <2>3
      <4> QED BY <1>3, <1>6, <4>1, VersionsAreOrdered
    <3> QED BY <1>8, <1>13, <3>1, <3>2 DEF chosen
  <2>4. CASE afterwards = candidates \union {s} /\ ~Below(s.version, m.version)
    <3>1. /\ m.version \in SchemaVersion /\ s.version \in SchemaVersion
          /\ \A t \in candidates : t.version \in SchemaVersion
      BY <1>1, <1>3, <1>6
    <3>2. Below(m.version, s.version) /\ Below(s.version, s.version)
      BY <2>4, <3>1, VersionsAreOrdered
    <3>3. \A t \in candidates : Below(t.version, s.version)
      BY <1>6, <3>1, <3>2, VersionsAreOrdered
    <3>4. s \in FindCompatibleSchema(v)'
      BY <1>9, <2>4, <3>2, <3>3
    <3>5. \A r \in candidates : ~Below(s.version, r.version)
      BY <1>6, <2>4, <3>1, VersionsAreOrdered
    <3>6. \A r \in FindCompatibleSchema(v)' : r = s
      BY <1>9, <2>4, <3>5
    <3> QED BY <1>13, <3>4, <3>6
  <2> QED BY <2>1, <2>2, <2>3, <2>4
<1> QED BY <1>12, <1>13

LEMMA RegisteringStays ==
  ASSUME EventVersionTypeOK, EventVersionTypeOK', [EventVersionNext]_eventVersionVars
  PROVE  /\ \A u \in EventVersions : upcaster'[u] # upcaster[u] =>
              \A v, w \in EventVersions : ~HasUpcastPath(v, u) => (HasUpcastPath(v, w)' <=> HasUpcastPath(v, w))
         /\ \A v \in Mentioned : FindCompatibleSchema(v) # {} =>
              FindCompatibleSchema(v)' \in {FindCompatibleSchema(v)} \union {{s} : s \in schemas' \ schemas}
         /\ \A s \in schemas' \ schemas : \A t \in FindCompatibleSchema(s.version) :
              AreCompatible(s.version, t.version)'
<1>1. CASE UNCHANGED eventVersionVars
  <2>1. upcaster' = upcaster /\ schemas' = schemas
    BY <1>1 DEF eventVersionVars
  <2>2. \A v \in Mentioned : FindCompatibleSchema(v)' = FindCompatibleSchema(v)
    BY <2>1 DEF FindCompatibleSchema, SchemasOf, InRange, Below, PastMinor, SameMinor
  <2> QED BY <2>1, <2>2
<1>2. ASSUME NEW u \in EventVersions, NEW x \in EventVersions, RegisterUpcaster(u, x)
      PROVE  /\ \A y \in EventVersions : y # u => upcaster'[y] = upcaster[y]
             /\ schemas' = schemas
  BY <1>2 DEF RegisterUpcaster, EventVersionTypeOK
<1>3. ASSUME NEW u \in EventVersions, NEW x \in EventVersions, RegisterUpcaster(u, x),
             NEW y \in EventVersions, upcaster'[y] # upcaster[y],
             NEW v \in EventVersions, NEW w \in EventVersions, ~HasUpcastPath(v, y)
      PROVE  HasUpcastPath(v, w)' <=> HasUpcastPath(v, w)
  <2>1. y = u
    BY <1>2, <1>3
  <2>2. ~LeadsTo(v, u)
    BY <1>3, <2>1, VisitedIsWhereTheyLead DEF HasUpcastPath
  <2>3. LeadsTo(v, w)' <=> LeadsTo(v, w)
    BY <1>2, <1>3, <2>2, PathsStay
  <2>4. w \in Visited(v) <=> LeadsTo(v, w)
    BY VisitedIsWhereTheyLead
  <2>5. (w \in Visited(v))' <=> LeadsTo(v, w)'
    BY VisitedLater DEF PathsLead
  <2> QED BY <2>3, <2>4, <2>5 DEF HasUpcastPath
<1>4. ASSUME NEW u \in EventVersions, NEW x \in EventVersions, RegisterUpcaster(u, x)
      PROVE  \A v \in Mentioned : FindCompatibleSchema(v)' = FindCompatibleSchema(v)
  <2>1. schemas' = schemas
    BY <1>2, <1>4
  <2> QED BY <2>1 DEF FindCompatibleSchema, SchemasOf, InRange, Below, PastMinor, SameMinor
<1>5. ASSUME NEW u \in EventVersions, NEW x \in EventVersions, RegisterUpcaster(u, x)
      PROVE  schemas' \ schemas = {}
  BY <1>2, <1>5
<1>6. CASE \E u, x \in EventVersions : RegisterUpcaster(u, x)
  BY <1>3, <1>4, <1>5, <1>6
<1>7. ASSUME NEW s \in Schemas, RegisterSchema(s)
      PROVE  /\ upcaster' = upcaster /\ schemas' \ schemas = {s}
             /\ \A v \in Mentioned : FindCompatibleSchema(v) # {} =>
                  FindCompatibleSchema(v)' \in {FindCompatibleSchema(v), {s}}
             /\ \A t \in FindCompatibleSchema(s.version) : AreCompatible(s.version, t.version)'
  <2>1. upcaster' = upcaster /\ s \notin schemas /\ schemas' = schemas \union {s}
    BY <1>7 DEF RegisterSchema
  <2>2. Mentioned \subseteq SchemaVersion /\ s.version \in SchemaVersion
    BY EventVersionsAssumption DEF Mentioned, SchemaVersion
  <2> QED BY <2>1, <2>2, NewestIsKept
<1>8. CASE \E s \in Schemas : RegisterSchema(s)
  BY <1>7, <1>8
<1> QED BY <1>1, <1>6, <1>8 DEF EventVersionNext

LEMMA EventVersionsKeep == EventVersionTypeOK /\ [EventVersionNext]_eventVersionVars => EventVersionTypeOK'
BY DEF EventVersionTypeOK, EventVersionNext, RegisterUpcaster, RegisterSchema, eventVersionVars

LEMMA InitEventVersions == EventVersionInit => EventVersionTypeOK
BY DEF EventVersionInit, EventVersionTypeOK

-----------------------------------------------------------------------------
(* Versions of the API.                                                    *)
Triples == Nat \X Nat \X Nat

ApiInv == ApiTypeOK /\ IsFiniteSet(Stable)

LEMMA NewerIsATotalOrder ==
  /\ \A v, w \in Triples : v # w => Newer(v, w) \/ Newer(w, v)
  /\ \A u, v, w \in Triples : Newer(u, v) /\ Newer(v, w) => Newer(u, w)
<1>1. ASSUME NEW v \in Triples, NEW w \in Triples, v # w PROVE Newer(v, w) \/ Newer(w, v)
  <2>1. PICK a, b, c \in Nat : v = <<a, b, c>>
    BY DEF Triples
  <2>2. PICK d, e, f \in Nat : w = <<d, e, f>>
    BY DEF Triples
  <2>3. a # d \/ b # e \/ c # f
    BY <1>1, <2>1, <2>2
  <2>4. v[1] = a /\ v[2] = b /\ v[3] = c /\ w[1] = d /\ w[2] = e /\ w[3] = f
    BY <2>1, <2>2
  <2> QED BY <2>3, <2>4 DEF Newer
<1>2. ASSUME NEW u \in Triples, NEW v \in Triples, NEW w \in Triples, Newer(u, v), Newer(v, w) PROVE Newer(u, w)
  <2>1. \A x \in {u, v, w} : x[1] \in Nat /\ x[2] \in Nat /\ x[3] \in Nat
    BY DEF Triples
  <2> QED BY <1>2, <2>1 DEF Newer
<1> QED BY <1>1, <1>2

(* A finite set of versions has a newest one.                              *)
HasNewest(S) == \E v \in S : \A w \in S \ {v} : Newer(v, w)

LEMMA NewestExists == ASSUME NEW S \in SUBSET Triples, IsFiniteSet(S), S # {} PROVE HasNewest(S)
<1> DEFINE T == {n \in Nat : \A V \in SUBSET Triples :
                               IsFiniteSet(V) /\ V # {} /\ Cardinality(V) = n => HasNewest(V)}
<1>1. 0 \in T
  BY FS_EmptySet
<1>2. ASSUME NEW n \in Nat, n \in T PROVE n + 1 \in T
  <2> SUFFICES ASSUME NEW V \in SUBSET Triples, IsFiniteSet(V), V # {}, Cardinality(V) = n + 1
               PROVE  HasNewest(V)
    OBVIOUS
  <2>1. PICK x \in V : TRUE
    OBVIOUS
  <2> DEFINE R == V \ {x}
  <2>2. IsFiniteSet(R) /\ Cardinality(R) = n /\ R \in SUBSET Triples
    <3>1. IsFiniteSet(R) /\ Cardinality(R) = Cardinality(V) - 1
      BY FS_RemoveElement
    <3> QED BY <3>1
  <2>3. CASE R = {}
    BY <2>1, <2>3 DEF HasNewest
  <2>4. CASE R # {}
    <3>1. PICK y \in R : \A w \in R \ {y} : Newer(y, w)
      BY <1>2, <2>2, <2>4 DEF HasNewest
    <3>2. x \in Triples /\ y \in Triples /\ x # y
      BY <2>2
    <3>3. CASE Newer(y, x)
      BY <3>1, <3>3 DEF HasNewest
    <3>4. CASE Newer(x, y)
      <4>1. \A w \in R : Newer(x, w)
        BY <2>2, <3>1, <3>2, <3>4, NewerIsATotalOrder
      <4> QED BY <2>1, <4>1 DEF HasNewest
    <3> QED BY <3>2, <3>3, <3>4, NewerIsATotalOrder
  <2> QED BY <2>3, <2>4
<1> HIDE DEF T
<1>3. \A n \in Nat : n \in T => n + 1 \in T
  BY ONLY <1>2
<1>4. \A n \in Nat : n \in T
  BY ONLY <1>1, <1>3, NatSetInduction
<1>5. Cardinality(S) \in Nat
  BY FS_CardinalityType
<1> QED BY <1>4, <1>5 DEF T

LEMMA NewestIsOne ==
  ASSUME NEW S \in SUBSET Triples, IsFiniteSet(S) PROVE IF S = {} THEN Newest(S) = NoVersion ELSE Newest(S) \in S
<1>1. CASE S = {}
  BY <1>1 DEF Newest
<1>2. CASE S # {}
  BY <1>2, NewestExists DEF Newest, HasNewest
<1> QED BY <1>1, <1>2

LEMMA VersionsAreTriples ==
  /\ Releases \subseteq Triples /\ NoVersion \notin Triples /\ Malformed \notin Triples
  /\ Asked \subseteq Triples
<1>1. Releases \subseteq Triples /\ Asked \subseteq Triples
  BY ReleasesAssumption DEF Triples
<1>2. ASSUME NEW v \in Triples PROVE v # NoVersion /\ v # Malformed
  <2>1. PICK a, b, c \in Nat : v = <<a, b, c>>
    BY DEF Triples
  <2>2. Len(v) = 3 /\ Len(NoVersion) = 0 /\ Len(Malformed) = 1
    BY <2>1 DEF NoVersion, Malformed
  <2> QED BY <2>2
<1> QED BY <1>1, <1>2

(* What a version is resolved to.                                          *)
LEMMA ResolvedIsAlive ==
  ASSUME ApiInv, NEW v \in Triples, Resolve(v).compatible
  PROVE  LET to == Resolve(v).version
         IN /\ to \in Releases /\ status[to] \in {"BETA", "STABLE", "DEPRECATED"} /\ to[1] = v[1]
            /\ (status[to] = "DEPRECATED" \/ to # v) => Resolve(v).warned
<1> DEFINE near == {w \in Stable : w[1] = v[1]}
<1>0. Stable \in SUBSET Releases /\ IsFiniteSet(Stable) /\ Stable \in SUBSET Triples
      /\ status \in [Releases -> {"none", "BETA", "STABLE", "DEPRECATED", "SUNSET"}]
  BY VersionsAreTriples DEF ApiInv, Stable, ApiTypeOK, Statuses
<1>1. FindCompatible(v) = NoVersion \/ FindCompatible(v) \in near
  <2>1. near \in SUBSET Triples /\ near \subseteq Stable
    BY <1>0
  <2>2. IsFiniteSet(near)
    BY <1>0, <2>1, FS_Subset
  <2> HIDE DEF near
  <2>3. Newest(near) = NoVersion \/ Newest(near) \in near
    BY <2>1, <2>2, NewestIsOne
  <2> QED BY <2>3 DEF FindCompatible, near
<1>2. CASE StatusOf(v) = "none"
  <2>1. FindCompatible(v) \in near /\ Resolve(v) = Compatible(FindCompatible(v), TRUE)
    <3>1. FindCompatible(v) # NoVersion
      BY <1>2 DEF Resolve, Incompatible
    <3> QED BY <1>1, <1>2, <3>1 DEF Resolve
  <2>2. Resolve(v).version = FindCompatible(v) /\ Resolve(v).warned = TRUE
    BY <2>1 DEF Compatible
  <2> QED BY <1>0, <2>1, <2>2 DEF Stable
<1>3. CASE StatusOf(v) # "none"
  <2>1. v \in Releases /\ StatusOf(v) = status[v]
    BY <1>3 DEF StatusOf
  <2>2. status[v] # "SUNSET"
    BY <1>3, <2>1 DEF Resolve, Incompatible
  <2>3. Resolve(v) = Compatible(v, StatusOf(v) = "DEPRECATED")
    BY <1>3, <2>1, <2>2 DEF Resolve
  <2>4. Resolve(v).version = v /\ Resolve(v).warned = (status[v] = "DEPRECATED")
    BY <2>1, <2>3 DEF Compatible
  <2> QED BY <1>0, <1>3, <2>1, <2>2, <2>4
<1> QED BY <1>2, <1>3

LEMMA ServedIsAlive == ApiInv => ServedVersionIsAlive
<1> SUFFICES ASSUME ApiInv, NEW asked \in Asked \union {NoVersion, Malformed}
             PROVE  LET reply == Intercept(asked)
                    IN IF reply.answer = "served"
                       THEN /\ StatusOf(reply.version) \in Statuses \ {"SUNSET"}
                            /\ StatusOf(reply.version) = "DEPRECATED" => reply.warned
                            /\ asked # NoVersion => /\ reply.version[1] = asked[1]
                                                    /\ reply.version = asked \/ reply.warned
                       ELSE /\ StatusOf(asked) \in {"none", "SUNSET"}
                            /\ asked = NoVersion => defaultVersion \notin Stable
  BY DEF ServedVersionIsAlive
<1>0. /\ Stable \in SUBSET Releases /\ IsFiniteSet(Stable) /\ Stable \in SUBSET Triples
      /\ status \in [Releases -> {"none", "BETA", "STABLE", "DEPRECATED", "SUNSET"}]
      /\ defaultVersion \in Releases \union {NoVersion}
  BY VersionsAreTriples DEF ApiInv, Stable, ApiTypeOK, Statuses
<1>1. StatusOf(NoVersion) = "none" /\ StatusOf(Malformed) = "none" /\ Malformed # NoVersion
      /\ NoVersion \notin Releases
  <2>1. NoVersion \notin Releases /\ Malformed \notin Releases
    BY VersionsAreTriples
  <2>2. Len(NoVersion) = 0 /\ Len(Malformed) = 1
    BY DEF NoVersion, Malformed
  <2> QED BY <2>1, <2>2 DEF StatusOf
<1>2. PICK v, reply : v = (IF asked = NoVersion THEN Implied ELSE asked) /\ reply = Intercept(asked)
  OBVIOUS
<1>3. Implied = NoVersion \/ Implied \in Triples
  <2>1. Newest(Stable) = NoVersion \/ Newest(Stable) \in Stable
    BY <1>0, NewestIsOne
  <2> QED BY <1>0, <2>1, VersionsAreTriples DEF Implied
<1>4. CASE asked = Malformed
  <2>1. reply = [answer |-> "400"]
    BY <1>2, <1>4 DEF Intercept
  <2> QED BY <1>1, <1>2, <1>4, <2>1
<1>5. CASE asked # Malformed /\ v = NoVersion
  <2>1. reply = [answer |-> "500"]
    BY <1>2, <1>5 DEF Intercept
  <2>2. asked = NoVersion /\ defaultVersion = NoVersion
    BY <1>2, <1>5, <1>0 DEF Implied
  <2> QED BY <1>0, <1>1, <1>2, <2>1, <2>2
<1>6. CASE asked # Malformed /\ v # NoVersion /\ ~Resolve(v).compatible
  <2>1. reply = [answer |-> "410"]
    BY <1>2, <1>6 DEF Intercept
  <2>2. StatusOf(v) \in {"none", "SUNSET"}
    BY <1>6 DEF Resolve, Compatible
  <2>3. ASSUME asked = NoVersion, defaultVersion \in Stable PROVE FALSE
    <3>1. v = defaultVersion /\ StatusOf(v) = "STABLE"
      BY <1>1, <1>2, <2>3 DEF Implied, Stable, StatusOf
    <3> QED BY <2>2, <3>1
  <2> QED BY <1>1, <1>2, <2>1, <2>2, <2>3
<1>7. CASE asked # Malformed /\ v # NoVersion /\ Resolve(v).compatible
  <2>1. PICK to, warned : to = Resolve(v).version /\ warned = Resolve(v).warned
    OBVIOUS
  <2>2. reply = [answer |-> "served", version |-> to, warned |-> warned]
    BY <1>2, <1>7, <2>1 DEF Intercept
  <2>3. v \in Triples
    BY <1>2, <1>3, <1>7, VersionsAreTriples
  <2>4. /\ to \in Releases /\ status[to] \in {"BETA", "STABLE", "DEPRECATED"} /\ to[1] = v[1]
        /\ (status[to] = "DEPRECATED" \/ to # v) => warned
    BY <1>7, <2>1, <2>3, ResolvedIsAlive
  <2>5. StatusOf(to) = status[to]
    BY <2>4 DEF StatusOf
  <2> QED BY <1>2, <2>2, <2>4, <2>5 DEF Statuses
<1> QED BY <1>4, <1>5, <1>6, <1>7

LEMMA InitApi == ApiInit => ApiInv
<1> SUFFICES ASSUME ApiInit PROVE ApiInv
  OBVIOUS
<1>1. Stable = {}
  BY DEF ApiInit, Stable
<1> QED BY <1>1, FS_EmptySet DEF ApiInit, ApiInv, ApiTypeOK

LEMMA ApiKeeps == ApiInv /\ [ApiNext]_apiVars => ApiInv'
<1> SUFFICES ASSUME ApiInv, [ApiNext]_apiVars PROVE ApiInv'
  OBVIOUS
<1>1. ApiTypeOK /\ IsFiniteSet(Stable)
  BY DEF ApiInv
<1>2. ApiTypeOK'
  BY <1>1 DEF ApiTypeOK, ApiNext, RegisterVersion, SetDefaultVersion, Deprecate, Sunset, Statuses, apiVars
<1>3. \E v : Stable' \subseteq Stable \union {v}
  <2>1. CASE UNCHANGED status
    BY <2>1 DEF Stable
  <2>2. ASSUME NEW v \in Releases, NEW s \in Statuses, status' = [status EXCEPT ![v] = s]
        PROVE  Stable' \subseteq Stable \union {v}
    BY <1>1, <2>2 DEF Stable, ApiTypeOK
  <2> QED BY <2>1, <2>2 DEF ApiNext, RegisterVersion, SetDefaultVersion, Deprecate, Sunset, Statuses, apiVars
<1>4. IsFiniteSet(Stable')
  <2>1. PICK v : Stable' \subseteq Stable \union {v}
    BY <1>3
  <2>2. IsFiniteSet(Stable \union {v})
    BY <1>1, FS_AddElement
  <2> QED BY <2>1, <2>2, FS_Subset
<1> QED BY <1>2, <1>4 DEF ApiInv

-----------------------------------------------------------------------------
(* Retry.  A power of the multiplier is a number.                          *)
Powers(f, n) == f = [k \in 0 .. n |-> IF k = 0 THEN 1 ELSE Multiplier * f[k - 1]]

LEMMA PowersExist == ASSUME NEW n \in Nat PROVE \E f : Powers(f, n) /\ f[n] \in Nat
<1> DEFINE T == {k \in Nat : \E f : Powers(f, k) /\ f[k] \in Nat}
<1>1. 0 \in T
  <2> DEFINE f == [k \in 0 .. 0 |-> 1]
  <2>1. Powers(f, 0) /\ f[0] \in Nat
    BY DEF Powers
  <2> QED BY <2>1
<1>2. ASSUME NEW k \in Nat, k \in T PROVE k + 1 \in T
  <2>1. PICK f : Powers(f, k) /\ f[k] \in Nat
    BY <1>2
  <2> DEFINE g == [m \in 0 .. (k + 1) |-> IF m = k + 1 THEN Multiplier * f[k] ELSE f[m]]
  <2>2. ASSUME NEW m \in 0 .. (k + 1)
        PROVE  g[m] = IF m = 0 THEN 1 ELSE Multiplier * g[m - 1]
    <3>1. CASE m = k + 1
      <4>1. m - 1 = k /\ k \in 0 .. (k + 1) /\ k # k + 1 /\ m # 0
        BY <3>1
      <4>2. g[k] = f[k]
        BY <4>1
      <4> QED BY <3>1, <4>1, <4>2
    <3>2. CASE m # k + 1
      <4>1. m \in 0 .. k /\ (m # 0 => m - 1 \in 0 .. k /\ m - 1 \in 0 .. (k + 1) /\ m - 1 # k + 1)
        BY <3>2
      <4>2. f[m] = IF m = 0 THEN 1 ELSE Multiplier * f[m - 1]
        BY <2>1, <4>1 DEF Powers
      <4>3. g[m] = f[m] /\ (m # 0 => g[m - 1] = f[m - 1])
        BY <3>2, <4>1
      <4> QED BY <4>2, <4>3
    <3> QED BY <3>1, <3>2
  <2>3. Powers(g, k + 1)
    BY <2>2 DEF Powers
  <2>4. g[k + 1] \in Nat
    <3>1. g[k + 1] = Multiplier * f[k]
      OBVIOUS
    <3>2. Multiplier \in Nat
      BY RetryAssumption
    <3> HIDE DEF g
    <3> QED BY <2>1, <3>1, <3>2
  <2> QED BY <2>3, <2>4
<1> HIDE DEF T
<1>3. \A k \in Nat : k \in T => k + 1 \in T
  BY ONLY <1>2
<1>4. \A k \in Nat : k \in T
  BY ONLY <1>1, <1>3, NatSetInduction
<1> QED BY <1>4 DEF T

LEMMA PowersAgree ==
  ASSUME NEW n \in Nat, NEW f, Powers(f, n), NEW g, Powers(g, n)
  PROVE  f[n] = g[n]
<1> DEFINE T == {k \in Nat : k <= n => f[k] = g[k]}
<1>1. 0 \in T
  BY DEF Powers
<1>2. ASSUME NEW k \in Nat, k \in T PROVE k + 1 \in T
  <2> SUFFICES ASSUME k + 1 <= n PROVE f[k + 1] = g[k + 1]
    OBVIOUS
  <2>1. k + 1 \in 0 .. n /\ k + 1 # 0 /\ (k + 1) - 1 = k /\ f[k] = g[k]
    BY <1>2
  <2>2. f[k + 1] = Multiplier * f[k] /\ g[k + 1] = Multiplier * g[k]
    BY <2>1 DEF Powers
  <2> QED BY <2>1, <2>2
<1> HIDE DEF T
<1>3. \A k \in Nat : k \in T => k + 1 \in T
  BY ONLY <1>2
<1>4. \A k \in Nat : k \in T
  BY ONLY <1>1, <1>3, NatSetInduction
<1> QED BY <1>4 DEF T

LEMMA DelayIsBounded ==
  ASSUME NEW n \in Nat \ {0}, exponential \in BOOLEAN
  PROVE  /\ Delay(n) \in Nat
         /\ Delay(n) <= IF exponential THEN MaxDelay ELSE InitialDelay
<1>1. n - 1 \in Nat
  OBVIOUS
<1> DEFINE m == n - 1
           f == CHOOSE f : Powers(f, m)
<1> HIDE DEF m
<1>2. PICK g : Powers(g, m) /\ g[m] \in Nat
  BY <1>1, PowersExist DEF m
<1>3. Powers(f, m)
  BY <1>2
<1>4. Power(m) = f[m]
  BY DEF Power, Powers
<1> HIDE DEF f
<1>5. Power(m) \in Nat
  BY <1>1, <1>2, <1>3, <1>4, PowersAgree DEF m
<1>6. InitialDelay \in Nat /\ MaxDelay \in Nat
  BY RetryAssumption
<1>7. InitialDelay * Power(m) \in Nat
  BY <1>5, <1>6
<1>8. Delay(n) = IF exponential THEN MinOf(InitialDelay * Power(m), MaxDelay) ELSE InitialDelay
  BY DEF Delay, m
<1> QED BY <1>6, <1>7, <1>8 DEF MinOf

(* The longest delay; what was waited until now came in so many of them.   *)
LongestDelay == IF exponential THEN MaxDelay ELSE InitialDelay

RetryInv ==
  /\ attempt \in 0 .. MaxAttempts /\ slept \in Nat /\ exponential \in BOOLEAN
  /\ doing \in {"trying", "sleeping", "returned", "threw"}
  /\ slept <= attempt * LongestDelay
  /\ doing = "trying" => attempt < MaxAttempts
  /\ doing = "sleeping" =>
       attempt # 0 /\ attempt < MaxAttempts /\ slept <= (attempt - 1) * LongestDelay

LEMMA InitRetry == RetryInit => RetryInv
<1> SUFFICES ASSUME RetryInit PROVE RetryInv
  OBVIOUS
<1>1. MaxAttempts \in Nat /\ LongestDelay \in Nat
  BY RetryAssumption DEF RetryInit, LongestDelay
<1>2. attempt = 0 /\ slept = 0 /\ exponential \in BOOLEAN
      /\ doing = IF MaxAttempts = 0 THEN "threw" ELSE "trying"
  BY DEF RetryInit
<1> HIDE DEF LongestDelay
<1>3. 0 * LongestDelay = 0
  BY <1>1
<1> QED BY <1>1, <1>2, <1>3 DEF RetryInv

LEMMA RetryKeeps == RetryInv /\ [RetryNext]_retryVars => RetryInv'
<1> SUFFICES ASSUME RetryInv, [RetryNext]_retryVars PROVE RetryInv'
  OBVIOUS
<1>1. /\ attempt \in 0 .. MaxAttempts /\ slept \in Nat /\ exponential \in BOOLEAN
      /\ doing \in {"trying", "sleeping", "returned", "threw"}
      /\ slept <= attempt * LongestDelay
      /\ doing = "trying" => attempt < MaxAttempts
      /\ doing = "sleeping" =>
           attempt # 0 /\ attempt < MaxAttempts /\ slept <= (attempt - 1) * LongestDelay
  BY DEF RetryInv
<1>2. MaxAttempts \in Nat /\ LongestDelay \in Nat
  BY <1>1, RetryAssumption DEF LongestDelay
<1>3. LongestDelay' = LongestDelay /\ exponential' = exponential
  BY DEF RetryNext, AttemptSucceeds, AttemptFails, Sleep, retryVars, LongestDelay
<1>4. CASE AttemptSucceeds
  <2>1. doing' = "returned" /\ attempt' = attempt /\ slept' = slept
    BY <1>4 DEF AttemptSucceeds
  <2> HIDE DEF LongestDelay
  <2> QED BY <1>1, <1>3, <2>1 DEF RetryInv
<1>5. CASE AttemptFails
  <2>1. /\ doing = "trying" /\ attempt' = attempt + 1 /\ slept' = slept
        /\ doing' # "threw" => doing' = "sleeping" /\ attempt' < MaxAttempts
    BY <1>5 DEF AttemptFails
  <2>2. (attempt + 1) * LongestDelay = attempt * LongestDelay + LongestDelay
        /\ attempt * LongestDelay \in Nat
    BY <1>1, <1>2
  <2>3. (attempt + 1) - 1 = attempt /\ attempt + 1 \in 0 .. MaxAttempts /\ attempt + 1 # 0
    BY <1>1, <1>2, <2>1
  <2>4. slept <= attempt' * LongestDelay /\ slept <= (attempt' - 1) * LongestDelay
    <3>1. slept <= (attempt + 1) * LongestDelay
      BY <1>1, <1>2, <2>2
    <3> HIDE DEF LongestDelay
    <3> QED BY <1>1, <2>1, <2>3, <3>1
  <2> HIDE DEF LongestDelay
  <2> QED BY <1>1, <1>3, <2>1, <2>3, <2>4 DEF RetryInv
<1>6. CASE Sleep
  <2>1. doing = "sleeping" /\ doing' = "trying" /\ attempt' = attempt /\ slept' = slept + Delay(attempt)
    BY <1>6 DEF Sleep
  <2>2. attempt \in Nat \ {0}
    BY <1>1, <1>2, <2>1
  <2>3. Delay(attempt) \in Nat /\ Delay(attempt) <= LongestDelay
    BY <1>1, <2>2, DelayIsBounded DEF LongestDelay
  <2> DEFINE d == Delay(attempt)
             m == attempt - 1
  <2>4. m \in Nat /\ attempt = m + 1
    BY <2>2
  <2> HIDE DEF LongestDelay, d, m
  <2>5. (m + 1) * LongestDelay = m * LongestDelay + LongestDelay /\ m * LongestDelay \in Nat
    BY <1>2, <2>4
  <2>6. slept <= m * LongestDelay
    BY <1>1, <2>1 DEF m
  <2>7. slept + d \in Nat /\ slept + d <= attempt * LongestDelay
    BY <1>1, <1>2, <2>3, <2>4, <2>5, <2>6 DEF d
  <2>8. slept' = slept + d
    BY <2>1 DEF d
  <2> QED BY <1>1, <1>3, <2>1, <2>7, <2>8 DEF RetryInv
<1>7. CASE UNCHANGED retryVars
  <2>1. attempt' = attempt /\ slept' = slept /\ doing' = doing
    BY <1>7 DEF retryVars
  <2> HIDE DEF LongestDelay
  <2> QED BY <1>1, <1>3, <2>1 DEF RetryInv
<1> QED BY <1>4, <1>5, <1>6, <1>7 DEF RetryNext

LEMMA RetryTypes == RetryInv => RetryTypeOK
BY DEF RetryInv, RetryTypeOK, LongestDelay

-----------------------------------------------------------------------------
(* Gateway.  Among the prefixes of a path there is a longest.              *)
LEMMA FindRouteIsAService ==
  ASSUME NEW path \in Paths
  PROVE  FindRoute(path) \in Services \union {NoService}
<1> DEFINE M == MatchingRoutes(path)
           left == {Len(path) - Len(r.prefix) : r \in M}
<1>1. ASSUME NEW r \in M
      PROVE  /\ r \in Routes /\ Len(r.prefix) \in Nat /\ Len(path) - Len(r.prefix) \in Nat
  <2>1. r \in Routes /\ IsPrefix(r.prefix, path)
    BY DEF MatchingRoutes
  <2>2. Len(r.prefix) \in Nat /\ Len(path) \in Nat
    BY <2>1, GatewayAssumption
  <2>3. Len(r.prefix) <= Len(path)
    BY <2>1 DEF IsPrefix
  <2> QED BY <2>1, <2>2, <2>3
<1>2. CASE M = {}
  BY <1>2 DEF FindRoute
<1>3. CASE M # {}
  <2> DEFINE Longest(r) == \A q \in M : Len(q.prefix) <= Len(r.prefix)
  <2>1. left \subseteq Nat /\ left # {}
    BY <1>1, <1>3
  <2>2. PICK m \in left : \A n \in left : m <= n
    BY <2>1, LeastNumber
  <2>3. PICK r \in M : m = Len(path) - Len(r.prefix)
    BY <2>2
  <2>4. Longest(r)
    <3> SUFFICES ASSUME NEW q \in M PROVE Len(q.prefix) <= Len(r.prefix)
      OBVIOUS
    <3>1. Len(path) - Len(r.prefix) <= Len(path) - Len(q.prefix)
      BY <2>2, <2>3
    <3>2. Len(path) \in Nat
      BY GatewayAssumption
    <3> QED BY <1>1, <3>1, <3>2
  <2> DEFINE longest == CHOOSE c \in M : Longest(c)
  <2>5. longest \in M
    BY <2>4
  <2>6. FindRoute(path) = longest.name
    BY <1>3 DEF FindRoute
  <2> HIDE DEF longest
  <2>7. longest.name \in Services
    BY <1>1, <2>5, GatewayAssumption
  <2> QED BY <2>6, <2>7
<1> QED BY <1>2, <1>3

CallTypes ==
  /\ call \in [Calls -> Services \union {NoService}]
  /\ doomed \subseteq Calls /\ healthy \subseteq Services /\ manual \in 0 .. MaxManual

ClientTypes ==
  /\ request \in [Calls -> Requests] /\ members \subseteq Calls /\ failFast \in BOOLEAN

LEMMA InitGateway == GatewayInit => CallTypes /\ ClientTypes
<1>1. 0 \in 0 .. MaxManual /\ "idle" \in Requests
  BY BreakerAssumption DEF Requests
<1> QED BY <1>1 DEF GatewayInit, BreakerInit, CallTypes, ClientTypes

LEMMA CallsKeepTypes ==
  ASSUME CallTypes,
         \/ \E c \in Calls, s \in Services : Execute(c, s)
         \/ \E c \in Calls : Succeed(c) \/ Fail(c) \/ FailFiltered(c)
         \/ \E s \in Services : ResetTimeout(s) \/ Manual(s) \/ Recover(s)
         \/ UNCHANGED <<call, doomed, healthy, manual>>
  PROVE  CallTypes'
<1>0. MaxManual \in Nat
  BY BreakerAssumption
<1>1. ASSUME NEW c \in Calls, NEW s \in Services, Execute(c, s) PROVE CallTypes'
  BY <1>1 DEF Execute, CallTypes
<1>2. ASSUME NEW c \in Calls, Succeed(c) \/ Fail(c) \/ FailFiltered(c) PROVE CallTypes'
  BY <1>2 DEF Succeed, Fail, FailFiltered, CallTypes
<1>3. ASSUME NEW s \in Services, ResetTimeout(s) \/ Manual(s) \/ Recover(s) PROVE CallTypes'
  BY <1>0, <1>3 DEF ResetTimeout, Manual, Recover, CallTypes
<1>4. CASE UNCHANGED <<call, doomed, healthy, manual>>
  BY <1>4 DEF CallTypes
<1> QED BY <1>1, <1>2, <1>3, <1>4

LEMMA SendAllKeepsTypes ==
  ASSUME CallTypes, ClientTypes, NEW D \in SUBSET Calls, NEW to,
         DOMAIN to = D, \A c \in D : to[c] \in Services \union {NoService}, SendAll(to)
  PROVE  CallTypes' /\ request' \in [Calls -> Requests]
<1> DEFINE sent == {c \in DOMAIN to : FirstReply(to[c]) = "waiting"}
<1>1. sent \subseteq Calls
  OBVIOUS
<1>2. ASSUME NEW c \in DOMAIN to PROVE FirstReply(to[c]) \in Requests
  BY DEF FirstReply, Requests, Replies, Failures
<1>3. request' \in [Calls -> Requests]
  BY <1>2 DEF SendAll, ClientTypes
<1>4. call' \in [Calls -> Services \union {NoService}]
  BY <1>1 DEF SendAll, CallTypes
<1>5. doomed' \subseteq Calls /\ healthy' = healthy /\ manual' = manual
  BY <1>1 DEF SendAll, CallTypes
<1> QED BY <1>3, <1>4, <1>5 DEF CallTypes

LEMMA GatewayTypesKeep ==
  ASSUME CallTypes, ClientTypes,
         \/ [BreakerNext]_breakerVars /\ UNCHANGED <<request, gathering>>
         \/ [GatewayNext]_gatewayVars
  PROVE  CallTypes' /\ ClientTypes'
<1>1. CASE [BreakerNext]_breakerVars /\ UNCHANGED <<request, gathering>>
  <2>1. CallTypes'
    BY <1>1, CallsKeepTypes DEF BreakerNext, Return, breakerVars
  <2>2. ClientTypes'
    BY <1>1 DEF ClientTypes, gathering
  <2> QED BY <2>1, <2>2
<1>2. ASSUME NEW c \in Calls, NEW path \in Paths, ProxyRequest(c, path) PROVE CallTypes' /\ ClientTypes'
  <2> DEFINE to == [d \in {c} |-> FindRoute(path)]
  <2>1. DOMAIN to = {c} /\ \A d \in {c} : to[d] \in Services \union {NoService}
    BY FindRouteIsAService
  <2>2. SendAll(to) /\ UNCHANGED gathering
    BY <1>2 DEF ProxyRequest
  <2> HIDE DEF to
  <2>3. CallTypes' /\ request' \in [Calls -> Requests]
    BY <2>1, <2>2, SendAllKeepsTypes
  <2> QED BY <2>2, <2>3 DEF ClientTypes, gathering
<1>3. ASSUME NEW path \in [Calls -> Paths], Aggregate(path) PROVE CallTypes' /\ ClientTypes'
  <2> DEFINE to == [c \in Calls |-> FindRoute(path[c])]
  <2>1. DOMAIN to = Calls /\ \A d \in Calls : to[d] \in Services \union {NoService}
    BY FindRouteIsAService
  <2>2. SendAll(to) /\ members' = Calls /\ failFast' \in BOOLEAN
    BY <1>3 DEF Aggregate
  <2> HIDE DEF to
  <2>3. CallTypes' /\ request' \in [Calls -> Requests]
    BY <2>1, <2>2, SendAllKeepsTypes
  <2> QED BY <2>2, <2>3 DEF ClientTypes
<1>4. ASSUME NEW c \in Calls, Respond(c) \/ FetchFails(c) \/ Abort(c) PROVE CallTypes' /\ ClientTypes'
  <2>1. CallTypes'
    BY <1>4, CallsKeepTypes DEF Respond, FetchFails, Abort
  <2>2. ClientTypes'
    BY <1>4 DEF Respond, FetchFails, Abort, ClientTypes, gathering, Requests, Replies, Failures
  <2> QED BY <2>1, <2>2
<1>5. CASE Combine \/ FailFast \/ GatherTimeout
  <2>1. UNCHANGED <<call, doomed, healthy, manual>> /\ UNCHANGED request
        /\ members' = {} /\ failFast' = FALSE
    BY <1>5 DEF Combine, FailFast, GatherTimeout, EndGather, breakerVars
  <2>2. CallTypes'
    BY <2>1, CallsKeepTypes
  <2> QED BY <2>1, <2>2 DEF ClientTypes
<1>6. ASSUME NEW s \in Services, TimeoutOver(s) PROVE CallTypes' /\ ClientTypes'
  <2>1. CallTypes'
    BY <1>6, CallsKeepTypes DEF TimeoutOver
  <2> QED BY <1>6, <2>1 DEF TimeoutOver, ClientTypes, gathering
<1>7. CASE UNCHANGED gatewayVars
  <2>1. CallTypes'
    BY <1>7, CallsKeepTypes DEF gatewayVars
  <2> QED BY <1>7, <2>1 DEF gatewayVars, ClientTypes
<1> QED BY <1>1, <1>2, <1>3, <1>4, <1>5, <1>6, <1>7 DEF GatewayNext

LEMMA GatewayTypes == BreakerInv /\ CallTypes /\ ClientTypes => GatewayTypeOK
BY DEF BreakerInv, CallTypes, ClientTypes, GatewayTypeOK, BreakerTypeOK

-----------------------------------------------------------------------------
(* Types of the other parts.  The stream keeps to its bound, and a handler *)
(* holds an aggregate only from loading to its snapshot.                   *)
HandsTidy ==
  /\ Len(stream) <= MaxLog
  /\ phase \in [Handlers -> {"idle", "reading", "loaded", "saved"}]
  /\ \A h \in Handlers :
       /\ loaded[h] = [version |-> loaded[h].version, state |-> loaded[h].state]
       /\ phase[h] \notin {"loaded", "saved"} => loaded[h] = Nothing

LEMMA InitHands == SnapshotInit => HandsTidy
<1> SUFFICES ASSUME SnapshotInit PROVE HandsTidy
  OBVIOUS
<1>1. Len(stream) = 0 /\ MaxLog \in Nat
  BY SnapshotAssumption DEF SnapshotInit
<1>2. Nothing = [version |-> Nothing.version, state |-> Nothing.state]
  BY DEF Nothing
<1> QED BY <1>1, <1>2 DEF SnapshotInit, HandsTidy

LEMMA HandsKeep == SnapshotInv /\ HandsTidy /\ [SnapshotNext]_snapshotVars => HandsTidy'
<1> SUFFICES ASSUME SnapshotInv, HandsTidy, [SnapshotNext]_snapshotVars PROVE HandsTidy'
  OBVIOUS
<1>0. /\ Len(stream) \in Nat /\ MaxLog \in Nat /\ Len(stream) <= MaxLog
      /\ phase \in [Handlers -> {"idle", "reading", "loaded", "saved"}]
      /\ \A h \in Handlers :
           /\ loaded[h] = [version |-> loaded[h].version, state |-> loaded[h].state]
           /\ phase[h] \notin {"loaded", "saved"} => loaded[h] = Nothing
      /\ Nothing = [version |-> Nothing.version, state |-> Nothing.state]
      /\ DOMAIN loaded = Handlers
  BY StreamLength, SnapshotAssumption DEF HandsTidy, SnapshotInv, Nothing
<1>1. ASSUME NEW h \in Handlers, ReadSnapshot(h) PROVE HandsTidy'
  BY <1>0, <1>1 DEF ReadSnapshot, HandsTidy
<1>2. ASSUME NEW h \in Handlers, ReadEvents(h) PROVE HandsTidy'
  <2> DEFINE new == FromSnapshot(found[h], EventsAfter(found[h]))
  <2>1. new = [version |-> new.version, state |-> new.state]
    BY DEF FromSnapshot
  <2> HIDE DEF new
  <2>2. /\ stream' = stream /\ phase' = [phase EXCEPT ![h] = "loaded"]
        /\ loaded' = [loaded EXCEPT ![h] = new]
    BY <1>2 DEF ReadEvents, new
  <2> QED BY <1>0, <2>1, <2>2 DEF HandsTidy
<1>3. ASSUME NEW h \in Handlers, CreateSnapshot(h) PROVE HandsTidy'
  BY <1>0, <1>3 DEF CreateSnapshot, HandsTidy
<1>4. ASSUME NEW h \in Handlers, Stop(h) PROVE HandsTidy'
  BY <1>0, <1>4 DEF Stop, HandsTidy
<1>5. ASSUME NEW h \in Handlers, NEW n \in 1 .. MaxBatch, Save(h, n) PROVE HandsTidy'
  <2> DEFINE v == loaded[h].version
             events == [i \in 1 .. n |-> v + i]
  <2>0. n \in Nat /\ Len(stream) + n <= MaxLog
    BY <1>5, SnapshotAssumption DEF Save
  <2>1. CASE /\ v = Len(stream) /\ stream' = stream \o events
             /\ loaded' = [loaded EXCEPT ![h] = [version |-> @.version + n, state |-> @.state \o events]]
             /\ phase' = [phase EXCEPT ![h] = "saved"]
    <3>1. Len(stream)' = Len(stream) + n
      <4>1. stream \in Seq(Nat)
        BY StreamLength, CountIsSequence
      <4>0. v \in Nat
        BY <1>0, <2>1
      <4>2. events \in Seq(Nat) /\ Len(events) = n
        BY <2>0, <4>0
      <4> HIDE DEF events
      <4>3. Len(stream \o events) = Len(stream) + Len(events)
        BY <4>1, <4>2, ConcatProperties
      <4> QED BY <2>1, <4>2, <4>3
    <3>2. phase' \in [Handlers -> {"idle", "reading", "loaded", "saved"}]
      BY <1>0, <2>1
    <3>3. \A g \in Handlers : g # h => phase'[g] = phase[g] /\ loaded'[g] = loaded[g]
      BY <1>0, <2>1
    <3>4. phase'[h] = "saved" /\ loaded'[h] = [version |-> v + n, state |-> loaded[h].state \o events]
      BY <1>0, <2>1
    <3>5. loaded'[h] = [version |-> loaded'[h].version, state |-> loaded'[h].state]
      BY <3>4
    <3> HIDE DEF events, v
    <3> QED BY <1>0, <2>0, <3>1, <3>2, <3>3, <3>4, <3>5 DEF HandsTidy
  <2>2. CASE /\ v < Len(stream) /\ UNCHANGED stream
             /\ phase' = [phase EXCEPT ![h] = "idle"]
             /\ loaded' = [loaded EXCEPT ![h] = Nothing]
    BY <1>0, <2>2 DEF HandsTidy
  <2> QED BY <1>5, <2>1, <2>2 DEF Save
<1>6. CASE RowExpires \/ CleanupExpired \/ DeleteSnapshots
  BY <1>0, <1>6 DEF RowExpires, CleanupExpired, DeleteSnapshots, HandsTidy
<1>7. CASE UNCHANGED snapshotVars
  BY <1>0, <1>7 DEF snapshotVars, HandsTidy
<1> QED BY <1>1, <1>2, <1>3, <1>4, <1>5, <1>6, <1>7 DEF SnapshotNext

LEMMA SnapshotTypes == SnapshotInv /\ HandsTidy => SnapshotTypeOK
<1> SUFFICES ASSUME SnapshotInv, HandsTidy PROVE SnapshotTypeOK
  OBVIOUS
<1>1. /\ Len(stream) \in Nat /\ stream = Count(Len(stream)) /\ MaxLog \in Nat /\ Len(stream) <= MaxLog
  BY StreamLength, SnapshotAssumption DEF HandsTidy
<1>2. ASSUME NEW n \in 0 .. Len(stream) PROVE n \in 0 .. MaxLog /\ Count(n) \in Seq(1 .. MaxLog)
  <2>1. n \in Nat /\ n <= MaxLog
    BY <1>1
  <2>2. Count(n) \in Seq(Nat) /\ Len(Count(n)) = n /\ \A i \in 1 .. n : Count(n)[i] = i
    BY <2>1, CountIsSequence
  <2>3. \A i \in 1 .. n : i \in 1 .. MaxLog
    BY <1>1, <2>1
  <2>4. Count(n) \in Seq(1 .. MaxLog)
    BY <2>1, <2>3 DEF Count
  <2> QED BY <1>1, <2>1, <2>4
<1>3. stream \in Seq(1 .. MaxLog)
  BY <1>1, <1>2
<1>4. row \in [version : 0 .. MaxLog, state : Seq(1 .. MaxLog), expired : BOOLEAN]
  <2>1. row \in SnapshotRow /\ row.version \in 0 .. Len(stream) /\ row.state = Count(row.version)
    BY DEF SnapshotInv, Restored
  <2>2. row.version \in 0 .. MaxLog /\ row.state \in Seq(1 .. MaxLog)
    BY <1>2, <2>1
  <2> QED BY <2>1, <2>2 DEF SnapshotRow
<1>5. ASSUME NEW h \in Handlers PROVE loaded[h] \in Aggregates /\ since[h] \in 0 .. MaxLog
  <2>1. since[h] \in 0 .. MaxLog
    BY <1>1 DEF SnapshotInv
  <2>2. CASE phase[h] \in {"loaded", "saved"}
    <3>1. loaded[h].version \in 0 .. Len(stream) /\ loaded[h].state = Count(loaded[h].version)
      BY <2>2 DEF SnapshotInv, Restored
    <3>2. loaded[h] = [version |-> loaded[h].version, state |-> loaded[h].state]
      BY DEF HandsTidy
    <3>3. loaded[h].version \in 0 .. MaxLog /\ loaded[h].state \in Seq(1 .. MaxLog)
      BY <1>2, <3>1
    <3> QED BY <2>1, <3>2, <3>3 DEF Aggregates
  <2>3. CASE phase[h] \notin {"loaded", "saved"}
    <3>1. loaded[h] = Nothing
      BY <2>3 DEF HandsTidy
    <3> QED BY <1>1, <2>1, <3>1 DEF Nothing, Aggregates
  <2> QED BY <2>2, <2>3
<1> QED BY <1>3, <1>4, <1>5 DEF SnapshotTypeOK, HandsTidy

LEMMA MessagingTypes == MessagingInv => MessagingTypeOK
BY DEF MessagingInv, QueueTypes, LinkTypes, OtherTypes, MessagingTypeOK, Broker, Copies,
       Deliveries, Handling

LEMMA CacheTypes == CacheInv => CacheTypeOK
<1> SUFFICES ASSUME CacheInv, NEW u \in CacheUsers
             PROVE  /\ user[u].step \in {"idle", "loading", "storing", "writing"}
                    /\ user[u].val \in Values
                    /\ \A i \in DOMAIN user[u].plan : user[u].plan[i].keys \subseteq Keys
  BY DEF CacheInv, CacheTypeOK
<1>1. user[u] \in CacheMethods
  BY DEF CacheInv
<1>2. user[u].plan \in Seq(CacheCalls)
  BY <1>1 DEF CacheMethods
<1>3. \A i \in DOMAIN user[u].plan : user[u].plan[i] \in CacheCalls
  BY <1>2
<1> QED BY <1>1, <1>3 DEF CacheMethods, CacheCalls

LEMMA LimiterTypes == LimiterInv => LimiterTypeOK
<1> SUFFICES ASSUME LimiterInv PROVE LimiterTypeOK
  OBVIOUS
<1>1. /\ strategy \in Strategies /\ now \in Nat /\ now <= MaxTime /\ MaxTime \in Nat
      /\ MaxRequests \in Nat /\ Past(admitted) /\ BucketFits(TheBucket, admitted)
  BY LimitsAreNumbers DEF LimiterInv, Fits
<1>2. admitted \in Seq(Nat) /\ \A i \in 1 .. Len(admitted) : admitted[i] \in Times
  BY <1>1 DEF Past, Times
<1>3. admitted \in Seq(Times)
  BY <1>2
<1>4. CASE bucket = NoBucket
  <2>1. bucket.count = -1 /\ bucket.requests = <<>>
    BY <1>4 DEF NoBucket
  <2>2. -1 \in -1 .. MaxRequests /\ <<>> \in Seq(Times)
    BY <1>1
  <2> QED BY <1>1, <1>3, <2>1, <2>2 DEF LimiterTypeOK, Times
<1>5. CASE bucket # NoBucket
  <2>1. BucketFits(bucket, admitted)
    BY <1>1, <1>5 DEF TheBucket
  <2>2. bucket.count \in -1 .. MaxRequests
    BY <1>1, <2>1 DEF BucketFits
  <2>3. bucket.requests \in Seq(Times)
    <3>1. CASE strategy = "sliding-window"
      <4>1. PICK m \in 0 .. Len(admitted) : IsTail(bucket.requests, admitted, m)
        BY <2>1, <3>1 DEF BucketFits, Remembers
      <4> DEFINE b == bucket.requests
      <4>2. b \in Seq(Nat) /\ Len(b) = Len(admitted) - m /\ \A k \in 1 .. Len(b) : b[k] = admitted[m + k]
        BY <4>1 DEF IsTail
      <4> HIDE DEF b
      <4>3. \A k \in 1 .. Len(b) : m + k \in 1 .. Len(admitted)
        BY <1>2, <4>2
      <4>4. \A k \in 1 .. Len(b) : b[k] \in Times
        BY <1>2, <4>2, <4>3
      <4>5. b \in Seq(Times)
        BY <4>2, <4>4
      <4> QED BY <4>5 DEF b
    <3>2. CASE strategy # "sliding-window"
      <4>1. bucket.requests = <<>> /\ <<>> \in Seq(Times)
        BY <2>1, <3>2 DEF BucketFits
      <4> QED BY <4>1
    <3> QED BY <3>1, <3>2
  <2> QED BY <1>1, <1>3, <2>2, <2>3 DEF LimiterTypeOK, Times
<1> QED BY <1>4, <1>5

-----------------------------------------------------------------------------
(* The library as it is checked: a step of it is a step of one part.       *)
LEMMA PartsStep ==
  ASSUME [Next]_vars
  PROVE  /\ UNCHANGED part
         /\ \/ [BreakerNext]_breakerVars /\ UNCHANGED <<request, gathering>>
            \/ [GatewayNext]_gatewayVars
         /\ [BulkheadNext]_bulkheadVars
         /\ [SnapshotNext]_snapshotVars
         /\ [CacheNext]_cacheVars
         /\ [MessagingNext]_messagingVars
         /\ [LimiterNext]_limiterVars
         /\ [RetryNext]_retryVars
         /\ [EventVersionNext]_eventVersionVars
         /\ [ApiNext]_apiVars
<1>0. UNCHANGED part /\ (UNCHANGED gatewayVars => UNCHANGED <<request, gathering>>)
  BY DEF Next, vars, gatewayVars, gathering
<1>1. CASE Gateways
  BY <1>0, <1>1 DEF Gateways, resilience, persistence, versioning
<1>2. CASE Resilience
  BY <1>0, <1>2 DEF Resilience, persistence, versioning
<1>3. CASE Persistence
  BY <1>0, <1>3 DEF Persistence, resilience, versioning
<1>4. CASE Versioning
  BY <1>0, <1>4 DEF Versioning, resilience, persistence
<1>5. CASE Queues
  BY <1>0, <1>5 DEF Queues, resilience, persistence, versioning
<1>6. CASE UNCHANGED vars
  BY <1>0, <1>6 DEF vars, resilience, persistence, versioning
<1> QED BY <1>1, <1>2, <1>3, <1>4, <1>5, <1>6 DEF Next

LEMMA PartsInit ==
  Init => /\ BreakerInv /\ BulkheadInv /\ SnapshotInv /\ CacheInv /\ MessagingInv /\ LimiterInv
          /\ RetryInv /\ EventVersionTypeOK /\ ApiInv /\ HandsTidy /\ CallTypes /\ ClientTypes
BY InitBreaker, InitBulkhead, InitSnapshots, InitCache, InitMessaging, InitLimiter, InitRetry,
   InitEventVersions, InitApi, InitHands, InitGateway
   DEF Init, GatewayInit

(* Every part keeps to the types of its state and to the bounds they name: *)
(* attempts and the time slept between them, tries of a message, positions *)
(* in the stream, answers to a client.                                     *)
THEOREM TypeCorrect == Spec => []CoreTypeOK
<1> DEFINE Counted == BreakerInv /\ CallTypes /\ ClientTypes /\ BulkheadInv /\ LimiterInv /\ RetryInv
           Stored == SnapshotInv /\ HandsTidy /\ CacheInv
           Versioned == EventVersionTypeOK /\ ApiInv
           All == part \in Parts /\ Counted /\ Stored /\ Versioned /\ MessagingInv
<1>1. Init => All
  BY PartsInit DEF Init
<1>2. All /\ [Next]_vars => All'
  <2> SUFFICES ASSUME All, [Next]_vars PROVE All'
    OBVIOUS
  <2>1. Counted'
    <3>1. BreakerInv'
      BY PartsStep, GatewayStep
    <3>2. CallTypes' /\ ClientTypes'
      BY PartsStep, GatewayTypesKeep
    <3> QED BY <3>1, <3>2, PartsStep, BulkheadKeeps, LimiterKeeps, RetryKeeps
  <2>2. Stored'
    BY PartsStep, SnapshotStep, HandsKeep, CacheKeeps
  <2>3. Versioned'
    BY PartsStep, EventVersionsKeep, ApiKeeps
  <2>4. MessagingInv' /\ part' \in Parts
    BY PartsStep, MessagingKeeps
  <2> QED BY <2>1, <2>2, <2>3, <2>4
<1>3. All => CoreTypeOK
  <2>1. All => GatewayTypeOK /\ BulkheadTypeOK /\ LimiterTypeOK /\ RetryTypeOK
    BY GatewayTypes, LimiterTypes, RetryTypes DEF BulkheadInv
  <2>2. All => SnapshotTypeOK /\ CacheTypeOK /\ ApiTypeOK /\ MessagingTypeOK
    BY SnapshotTypes, CacheTypes, MessagingTypes DEF ApiInv
  <2> QED BY <2>1, <2>2 DEF CoreTypeOK
<1> QED
  <2> HIDE DEF All
  <2> QED BY <1>1, <1>2, <1>3, PTL DEF Spec

(* However calls return, time out or are rejected, in whatever order and   *)
(* number, the counters of breaker and bulkhead tell the truth.            *)
THEOREM CountersAreCorrect == Spec => []CountersAreRight
<1>1. BreakerInv /\ BulkheadInv /\ [Next]_vars => BreakerInv' /\ BulkheadInv'
  BY PartsStep, GatewayStep, BulkheadKeeps
<1>2. BreakerInv /\ BulkheadInv => CountersAreRight
  BY BreakerAgrees, BulkheadCounts DEF CountersAreRight
<1> QED BY <1>1, <1>2, PartsInit, PTL DEF Spec

(* However many methods read, write, evict and warm at once, an entry is   *)
(* out of date only while its eviction is on its way, after it failed, or  *)
(* when its value was read before the write; an entry of a company or a    *)
(* query named otherwise than the aggregates' type is not claimed to be.   *)
THEOREM EvictionFollows == Spec => []OutdatedEntryIsOwedOrRaced
<1>1. CacheInv /\ [Next]_vars => CacheInv'
  BY PartsStep, CacheKeeps
<1> QED BY <1>1, PartsInit, DueIsOwed, PTL DEF Spec

(* What is loaded from a snapshot and the events after it is what the      *)
(* whole stream gives, however handlers save, read and append meanwhile.   *)
THEOREM RestoringIsReplaying == Spec => []RestoredIsReplayed
<1>1. SnapshotInv /\ [Next]_vars => SnapshotInv'
  BY PartsStep, SnapshotStep
<1> QED BY <1>1, PartsInit, RestoredIsCounted, PTL DEF Spec

(* However checks, clean-ups, resets and windows interleave, every strategy*)
(* of the rate limiter keeps to its limit in every interval of one window. *)
THEOREM RequestsAreLimited == Spec => []AdmittedWithinLimit
<1>1. LimiterInv /\ [Next]_vars => LimiterInv'
  BY PartsStep, LimiterKeeps
<1> QED BY <1>1, PartsInit, LimiterLimits, PTL DEF Spec

(* However upcasters, schemas and versions of the API are registered,      *)
(* deprecated and withdrawn: the version a request is served with is alive,*)
(* an event is upcast exactly when the upcasters lead to the version, and  *)
(* a migration reaches the minor of its target, ending at the target only  *)
(* if no other patch lies beyond.  What is registered later only matters   *)
(* to versions that lead to it or that it covers.                          *)
THEOREM VersionsAreFollowed == Spec => VersionsHold
<1> DEFINE Led == ServedVersionIsAlive /\ VersionsLeadOn
           Local ==
             /\ \A u \in EventVersions : upcaster'[u] # upcaster[u] =>
                  \A v, w \in EventVersions : ~HasUpcastPath(v, u) => (HasUpcastPath(v, w)' <=> HasUpcastPath(v, w))
             /\ \A v \in Mentioned : FindCompatibleSchema(v) # {} =>
                  FindCompatibleSchema(v)' \in {FindCompatibleSchema(v)} \union {{s} : s \in schemas' \ schemas}
             /\ \A s \in schemas' \ schemas : \A t \in FindCompatibleSchema(s.version) :
                  AreCompatible(s.version, t.version)'
<1>1. EventVersionTypeOK /\ ApiInv /\ [Next]_vars =>
        EventVersionTypeOK' /\ ApiInv' /\ [EventVersionNext]_eventVersionVars
  BY PartsStep, EventVersionsKeep, ApiKeeps
<1>2. EventVersionTypeOK /\ ApiInv => Led
  BY EventVersionsLead, ServedIsAlive
<1>3. EventVersionTypeOK /\ EventVersionTypeOK' /\ [EventVersionNext]_eventVersionVars => [Local]_eventVersionVars
  BY RegisteringStays
<1>4. VersionsHold <=> []Led /\ [][Local]_eventVersionVars
  BY DEF VersionsHold, RegisteringIsLocal
<1> HIDE DEF Led, Local
<1> QED BY <1>1, <1>2, <1>3, <1>4, PartsInit, PTL DEF Spec

(* Retries, reconnections, restarts and redeliveries lose no message as    *)
(* long as every delivery is answered on the channel it came from.         *)
THEOREM MessagesSurvive == Spec => []NoMessageIsLost
<1>1. MessagingInv /\ [Next]_vars => MessagingInv'
  BY PartsStep, MessagingKeeps
<1>2. MessagingInv => NoMessageIsLost
  BY DEF MessagingInv
<1> QED BY <1>1, <1>2, PartsInit, PTL DEF Spec
=============================================================================
