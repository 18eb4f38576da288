--------------------------- MODULE AggregateStore ---------------------------
(***************************************************************************)
(* Event-sourced command handling (libs/core): AggregateStore.load/save,   *)
(* PrismaEventStore.append and OutboxService.saveEvents, executed by any   *)
(* number of concurrent command handlers, in one process or in several     *)
(* replicas of a service.                                                  *)
(*                                                                         *)
(* A handler awaits the database four times, and every other handler may   *)
(* run in between:                                                         *)
(*   Load          SELECT the aggregate's events; rebuild it; run the      *)
(*                 domain method, which raises a batch of events           *)
(*   CheckVersion  inside the transaction: SELECT the latest version       *)
(*   Insert        INSERT the batch and COMMIT; the unique index on        *)
(*                 (aggregate_id, version) decides                         *)
(*   SaveToOutbox  one INSERT into outbox_messages per event, outside the  *)
(*                 transaction above                                       *)
(*                                                                         *)
(* The domain is a parameter: Raises(history, command) is the set of       *)
(* batches the aggregate's method may raise once it is rebuilt from        *)
(* history, empty when the method throws or the aggregate does not exist.  *)
(***************************************************************************)
EXTENDS Integers, Sequences

CONSTANTS Aggregates,     \* the aggregate identifiers
          Handlers,       \* concurrent executions of a command handler
          Commands,       \* the commands
          Events,         \* the domain events (type and payload)
          Raises(_, _),   \* the domain: see above
          NoTask,         \* what an idle handler works on
          MaxVersion      \* bound: the longest stream explored

ASSUME MaxVersionAssumption == MaxVersion \in Nat

VARIABLES
  events,   \* table events: events[a] maps a version to the event stored there
  outbox,   \* table outbox_messages, in created_at order
  pc,       \* pc[h]: how far handler h has come
  task,     \* task[h]: the aggregate instance h has in memory
  queued    \* queued[h]: how many events of its batch h has put in the outbox

vars == <<events, outbox, pc, task, queued>>

-----------------------------------------------------------------------------
(* The aggregate in memory: its id, the command executed on it, the        *)
(* version it was loaded at and its uncommitted events.                    *)
Task == [agg : Aggregates, cmd : Commands, base : Nat, batch : Seq(Events)]

PC == {"idle", "loaded", "checked", "stored", "done", "failed"}

(* A row of the outbox: the event it carries, by aggregate and version.    *)
OutboxRow == [agg : Aggregates, version : Nat]

(* Definitions named Faulty... are slips this code could have had.  They   *)
(* are not part of the specification: each of them, put in the place of    *)
(* the definition after it, makes a property below fail.                   *)

(* Versions the uncommitted events of handler h were given by createEvent  *)
(* and addEvent: they continue the version the aggregate was loaded at.    *)
NewVersions(h) == (task[h].base + 1) .. (task[h].base + Len(task[h].batch))

(* expectedVersion = aggregate.version - uncommittedEvents.length          *)
ExpectedVersion(h) == task[h].base

Init ==
  /\ events = [a \in Aggregates |-> <<>>]
  /\ outbox = <<>>
  /\ pc = [h \in Handlers |-> "idle"]
  /\ task = [h \in Handlers |-> NoTask]
  /\ queued = [h \in Handlers |-> 0]

-----------------------------------------------------------------------------
(* getEvents loses the newest event, the version is right nevertheless.    *)
FaultyLoad(h, a, c) ==
  /\ pc[h] = "idle"
  /\ \E batch \in Raises(SubSeq(events[a], 1, Len(events[a]) - 1), c) :
       /\ Len(events[a]) + Len(batch) <= MaxVersion
       /\ task' = [task EXCEPT ![h] = [agg |-> a, cmd |-> c,
                                       base |-> Len(events[a]), batch |-> batch]]
  /\ pc' = [pc EXCEPT ![h] = "loaded"]
  /\ queued' = [queued EXCEPT ![h] = 0]
  /\ UNCHANGED <<events, outbox>>

(* The version an aggregate is loaded at is one too low.                   *)
FaultyLoadLow(h, a, c) ==
  /\ pc[h] = "idle"
  /\ \E batch \in Raises(events[a], c) :
       /\ Len(events[a]) + Len(batch) <= MaxVersion
       /\ task' = [task EXCEPT ![h] = [agg |-> a, cmd |-> c,
                                       base |-> Len(events[a]) - 1, batch |-> batch]]
  /\ pc' = [pc EXCEPT ![h] = "loaded"]
  /\ queued' = [queued EXCEPT ![h] = 0]
  /\ UNCHANGED <<events, outbox>>

(* A command arrives, the aggregate is loaded and its method runs.  When   *)
(* the method throws or the aggregate is missing there is no batch and the *)
(* handler answers Failure without touching anything; an empty batch is    *)
(* not saved.                                                              *)
Load(h, a, c) ==
  /\ pc[h] = "idle"
  /\ \E batch \in Raises(events[a], c) :
       /\ batch \in Seq(Events) \ {<<>>}
       /\ Len(events[a]) + Len(batch) <= MaxVersion
       /\ task' = [task EXCEPT ![h] = [agg |-> a, cmd |-> c,
                                       base |-> Len(events[a]), batch |-> batch]]
  /\ pc' = [pc EXCEPT ![h] = "loaded"]
  /\ queued' = [queued EXCEPT ![h] = 0]
  /\ UNCHANGED <<events, outbox>>

(* The first statement of the append transaction: a ConcurrencyException   *)
(* unless the latest stored version is the one the aggregate was loaded at.*)
CheckVersion(h) ==
  /\ pc[h] = "loaded"
  /\ pc' = [pc EXCEPT ![h] =
              IF Len(events[task[h].agg]) = ExpectedVersion(h)
              THEN "checked" ELSE "failed"]
  /\ UNCHANGED <<events, outbox, task, queued>>

(* The rest of the transaction.  Under READ COMMITTED another handler may  *)
(* have committed since the check; then an INSERT hits the unique index    *)
(* and the whole transaction rolls back.                                   *)
Insert(h) ==
  LET a == task[h].agg
      free == NewVersions(h) \intersect DOMAIN events[a] = {}
  IN /\ pc[h] = "checked"
     /\ IF free
        THEN /\ events' = [events EXCEPT ![a] =
                  [v \in DOMAIN @ \union NewVersions(h) |->
                     IF v \in NewVersions(h)
                     THEN task[h].batch[v - task[h].base] ELSE @[v]]]
             /\ pc' = [pc EXCEPT ![h] = "stored"]
        ELSE /\ pc' = [pc EXCEPT ![h] = "failed"]
             /\ UNCHANGED events
     /\ UNCHANGED <<outbox, task, queued>>

(* Success is answered after the first row.                                *)
FaultySaveToOutbox(h) ==
  /\ pc[h] = "stored"
  /\ outbox' = Append(outbox, [agg |-> task[h].agg, version |-> task[h].base + 1])
  /\ queued' = [queued EXCEPT ![h] = 1]
  /\ pc' = [pc EXCEPT ![h] = "done"]
  /\ UNCHANGED <<events, task>>

(* saveEvents awaits one INSERT per event; after the last one the events   *)
(* are marked as committed and the handler answers Success.                *)
SaveToOutbox(h) ==
  LET i == queued[h] + 1
  IN /\ pc[h] = "stored"
     /\ outbox' = Append(outbox, [agg |-> task[h].agg, version |-> task[h].base + i])
     /\ queued' = [queued EXCEPT ![h] = i]
     /\ pc' = [pc EXCEPT ![h] = IF i = Len(task[h].batch) THEN "done" ELSE @]
     /\ UNCHANGED <<events, task>>

(* An error of append is logged and save goes on.                          *)
FaultyDatabaseError(h) ==
  /\ pc[h] \in {"loaded", "checked"}
  /\ pc' = [pc EXCEPT ![h] = "stored"]
  /\ UNCHANGED <<events, outbox, task, queued>>

(* The database refuses a statement: append and save rethrow, the handler  *)
(* answers Failure.  A refused INSERT rolls the transaction back; a        *)
(* refused outbox INSERT leaves the stored events where they are.          *)
DatabaseError(h) ==
  /\ pc[h] \in {"loaded", "checked", "stored"}
  /\ pc' = [pc EXCEPT ![h] = "failed"]
  /\ UNCHANGED <<events, outbox, task, queued>>

(* The answer is delivered and the aggregate instance is dropped.          *)
Answer(h) ==
  /\ pc[h] \in {"done", "failed"}
  /\ pc' = [pc EXCEPT ![h] = "idle"]
  /\ task' = [task EXCEPT ![h] = NoTask]
  /\ queued' = [queued EXCEPT ![h] = 0]
  /\ UNCHANGED <<events, outbox>>

(* The process running h dies: what was only in memory is gone, an open    *)
(* transaction is rolled back by the database.                             *)
Crash(h) ==
  /\ pc[h] # "idle"
  /\ pc' = [pc EXCEPT ![h] = "idle"]
  /\ task' = [task EXCEPT ![h] = NoTask]
  /\ queued' = [queued EXCEPT ![h] = 0]
  /\ UNCHANGED <<events, outbox>>

Next ==
  \E h \in Handlers :
    \/ \E a \in Aggregates, c \in Commands : Load(h, a, c)
    \/ CheckVersion(h)
    \/ Insert(h)
    \/ SaveToOutbox(h)
    \/ DatabaseError(h)
    \/ Answer(h)
    \/ Crash(h)

Spec == Init /\ [][Next]_vars

-----------------------------------------------------------------------------
(* Type correctness: in particular every stream is a sequence, so versions *)
(* 1, 2, 3, ... are all there, which load (ORDER BY version) relies on.    *)
TypeOK ==
  /\ events \in [Aggregates -> Seq(Events)]
  /\ outbox \in Seq(OutboxRow)
  /\ pc \in [Handlers -> PC]
  /\ task \in [Handlers -> Task \union {NoTask}]
  /\ queued \in [Handlers -> Nat]

(* The row of the outbox for version v of aggregate a is there.            *)
InOutbox(a, v) == \E i \in DOMAIN outbox : outbox[i] = [agg |-> a, version |-> v]

(* A handler never saves a decision taken on a history that was not the    *)
(* aggregate's: what it is about to store was raised on the first "base"   *)
(* events of the stream, whatever other handlers committed since the load. *)
DecidedOnAPrefix ==
  \A h \in Handlers : pc[h] \in {"loaded", "checked"} =>
    LET s == events[task[h].agg]
    IN /\ task[h].base <= Len(s)
       /\ task[h].batch \in Raises(SubSeq(s, 1, task[h].base), task[h].cmd)

(* The outbox never runs ahead of the store: a message announces an event  *)
(* that is committed, even when append fails or the process dies.          *)
OutboxMirrorsStore ==
  \A i \in DOMAIN outbox : outbox[i].version \in DOMAIN events[outbox[i].agg]

(* No event is put in the outbox twice, although every handler that fails  *)
(* may be followed by another one for the same aggregate and version.      *)
OutboxHasNoDuplicate ==
  \A i, j \in DOMAIN outbox : outbox[i] = outbox[j] => i = j

(* When a command is answered with Success, its events are stored under    *)
(* consecutive versions and each of them waits in the outbox.              *)
SuccessIsDurable ==
  \A h \in Handlers : pc[h] = "done" =>
    \A v \in NewVersions(h) :
      /\ v \in DOMAIN events[task[h].agg]
      /\ events[task[h].agg][v] = task[h].batch[v - task[h].base]
      /\ InOutbox(task[h].agg, v)

(* The stored history is never rewritten: it only grows, at its end.       *)
AppendOnly(s, t) == Len(s) <= Len(t) /\ SubSeq(t, 1, Len(s)) = s
StreamsAppendOnly == [][\A a \in Aggregates : AppendOnly(events[a], events'[a])]_events

(* Commands on one aggregate take effect one at a time, each on the whole  *)
(* history: the optimistic concurrency control of append implements the    *)
(* serial execution of EventLog.                                           *)
EL == INSTANCE EventLog WITH log <- events
Serial == EL!Spec

(* Outbox pattern as documented (outbox-message.interface.ts:17): events   *)
(* are saved to the outbox in the same transaction as the domain changes.  *)
(* Weaker than that: a stored event is in the outbox or a live handler is  *)
(* still about to put it there.                                            *)
StoredIsQueued ==
  \A a \in Aggregates : \A v \in DOMAIN events[a] :
    \/ InOutbox(a, v)
    \/ \E h \in Handlers : /\ pc[h] = "stored"
                           /\ task[h].agg = a
                           /\ v \in NewVersions(h)
=============================================================================
