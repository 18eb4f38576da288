------------------------------- MODULE Outbox -------------------------------
(***************************************************************************)
(* The transactional outbox of libs/core: the table outbox_messages        *)
(* (PrismaOutboxRepository) and the OutboxWorker that polls it and hands   *)
(* each message to the broker.  Every service replica runs one worker.     *)
(*                                                                         *)
(* A worker is event-loop code: each await of the database is a step of    *)
(* its own, and stop(), the polling timer, the cleanup timer, the          *)
(* concurrent processMessage calls of a chunk, a crash and the other       *)
(* replicas run in between.                                                *)
(*                                                                         *)
(* The RabbitMQPublisher of a replica has one connection with one channel, *)
(* not a confirm channel: publish writes the message to the connection and *)
(* nobody learns whether the broker received it.                           *)
(***************************************************************************)
EXTENDS Naturals, FiniteSets, Functions

CONSTANTS Workers,      \* the replicas' outbox workers
          MessageCount, \* bound: messages ever saved
          BatchSize,    \* batchSize
          Concurrency,  \* concurrency: messages published at the same time
          MaxRetries,   \* max_retries of a message
          MaxTasks,     \* bound: processMessage calls in flight
          Worlds,       \* what the environment may do: subsets of Troubles
          NoTask        \* a processMessage slot that is free

(* "crash": a process dies; "stop": stop() is called; "publish": a write   *)
(* buffer is full; "break": the connection of a publisher breaks; the      *)
(* others: the database refuses that statement.                            *)
Troubles == {"crash", "stop", "publish", "break", "select", "mark", "confirm", "fail"}

ASSUME OutboxAssumption ==
  /\ {MessageCount, BatchSize, Concurrency, MaxRetries, MaxTasks} \subseteq Nat \ {0}
  /\ Worlds \subseteq SUBSET Troubles

VARIABLES
  row,     \* row[m]: the row of message m; messages are numbered by created_at
  handed,  \* handed[m]: how many times a publisher's channel took message m
  phase,   \* phase[w]: where the polling loop of worker w is
  pass,    \* pass[w]: the status the current pass of poll() looks for
  batch,   \* batch[w]: the messages of that pass not yet started, a set:
           \* they are started in the order of their numbers
  closing, \* closing[w]: isShuttingDown
  task,    \* the processMessage calls in flight
  link,    \* link[w]: the connection of w's publisher
  received, \* the messages the broker received
  unsent,  \* the others that a channel took: it could not send them any more
  happens  \* the troubles of this behaviour, chosen once from Worlds

wire == <<link, received, unsent>>
vars == <<row, handed, phase, pass, batch, closing, task, wire, happens>>
table == <<row, handed>>
loop == <<phase, pass, batch, closing>>

-----------------------------------------------------------------------------
Messages == 1 .. MessageCount
Slots == 1 .. MaxTasks

(* "UNSAVED" and "DELETED" stand for a row that is not in the table.       *)
Status == {"UNSAVED", "PENDING", "PROCESSING", "PUBLISHED", "FAILED", "DELETED"}

(* The retry condition on processed_at: NULL, not yet 2^retry_count        *)
(* minutes ago, or longer ago.                                             *)
ProcessedAt == {"null", "recent", "elapsed"}

Row == [status : Status, retries : Nat, processed : ProcessedAt]

(* down: no process; select: awaiting the SELECT of a pass; chunks:        *)
(* working through the batch; timer: pollingTimer armed; hung: isRunning   *)
(* without a poll in progress or a timer; stopped: isRunning is false.     *)
Phase == {"down", "select", "chunks", "timer", "hung", "stopped"}

(* A call of processMessage, at the statement it awaits.  It is awaited by *)
(* the Promise.all of the current chunk unless that was rejected.          *)
Step == {"mark", "publish", "confirm", "fail"}
Task == [worker : Workers, msg : Messages, step : Step, awaited : BOOLEAN]

ASSUME NoTaskAssumption == NoTask \notin Task

(* The connection of a publisher.  What the channel takes while it is up   *)
(* reaches the broker, sooner or later: nothing below depends on when.     *)
(* From the moment it is broken nothing does: the network failed and the   *)
(* process has not noticed, or the connection or the process ends before   *)
(* the write buffer is sent.  closed: the process has noticed, or has none.*)
Link == {"up", "broken", "closed"}

InFlight(w) == {s \in Slots : task[s] # NoTask /\ task[s].worker = w}
Awaited(w) == {s \in InFlight(w) : task[s].awaited}
InTable(m) == row[m].status \notin {"UNSAVED", "DELETED"}

Init ==
  /\ row = [m \in Messages |-> [status |-> "UNSAVED", retries |-> 0, processed |-> "null"]]
  /\ handed = [m \in Messages |-> 0]
  /\ phase = [w \in Workers |-> "down"]
  /\ pass = [w \in Workers |-> "PENDING"]
  /\ batch = [w \in Workers |-> {}]
  /\ closing = [w \in Workers |-> FALSE]
  /\ task = [s \in Slots |-> NoTask]
  /\ link = [w \in Workers |-> "closed"] /\ received = {} /\ unsent = {}
  /\ happens \in Worlds

-----------------------------------------------------------------------------
(* OutboxService.saveEvent.                                                *)
Save(m) ==
  /\ row[m].status = "UNSAVED"
  /\ \A k \in 1 .. (m - 1) : row[k].status # "UNSAVED"
  /\ row' = [row EXCEPT ![m].status = "PENDING"]
  /\ UNCHANGED <<happens, wire, handed, loop, task>>

(* Time passes: processed_at < NOW() - 2^retry_count minutes becomes true. *)
BackoffElapses(m) ==
  /\ row[m].status = "FAILED" /\ row[m].processed = "recent"
  /\ row' = [row EXCEPT ![m].processed = "elapsed"]
  /\ UNCHANGED <<happens, wire, handed, loop, task>>

(* A process starts, or restarts: the publisher connects, onModuleInit,    *)
(* start, first poll.                                                      *)
Start(w) ==
  /\ phase[w] = "down"
  /\ phase' = [phase EXCEPT ![w] = "select"]
  /\ pass' = [pass EXCEPT ![w] = "PENDING"]
  /\ link' = [link EXCEPT ![w] = "up"]
  /\ UNCHANGED <<happens, received, unsent, table, batch, closing, task>>

-----------------------------------------------------------------------------
(* Definitions named Faulty... are slips this code could have had, not     *)
(* part of the specification: each of them, put in the place of the        *)
(* definition after it, makes a property below fail.                       *)

(* The n newest messages of S.                                             *)
FaultyFirst(S, n) == {m \in S : Cardinality({k \in S : k > m}) < n}

(* ORDER BY created_at ASC LIMIT n, and the first n of an array.           *)
First(S, n) == {m \in S : Cardinality({k \in S : k < m}) < n}

(* findPendingMessages and findRetryableMessages: the rows a pass looks    *)
(* for, the oldest first, at most LIMIT of them.  FOR UPDATE SKIP LOCKED   *)
(* holds its locks only for this statement.                                *)
Eligible(status) ==
  {m \in Messages :
     /\ row[m].status = status
     /\ status = "FAILED" => row[m].retries < MaxRetries /\ row[m].processed = "elapsed"}

Limit(status) == IF status = "PENDING" THEN BatchSize ELSE BatchSize \div 2

Found(status) == First(Eligible(status), Limit(status))

(* processPendingMessages and processRetryableMessages up to their SELECT. *)
Select(w) ==
  /\ phase[w] = "select"
  /\ batch' = [batch EXCEPT ![w] = Found(pass[w])]
  /\ phase' = [phase EXCEPT ![w] = "chunks"]
  /\ UNCHANGED <<happens, wire, table, pass, closing, task>>

(* The SELECT fails: poll catches the error and schedules the next poll.   *)
SelectFails(w) ==
  /\ "select" \in happens
  /\ phase[w] = "select"
  /\ phase' = [phase EXCEPT ![w] = "timer"]
  /\ UNCHANGED <<happens, wire, table, pass, batch, closing, task>>

(* chunkArray: the messages of the next chunk.                             *)
Chunk(w) == First(batch[w], Concurrency)

(* processMessages: the next chunk starts, every message of it at once and *)
(* in a free slot, when all of the previous chunk is done.                 *)
StartChunk(w) ==
  LET places == Injection(Chunk(w), {s \in Slots : task[s] = NoTask})
      place == CHOOSE f \in places : TRUE
  IN /\ phase[w] = "chunks" /\ Awaited(w) = {}
     /\ ~closing[w] /\ batch[w] # {}
     /\ places # {}
     /\ task' = [s \in Slots |->
          IF \E m \in Chunk(w) : place[m] = s
          THEN [worker |-> w, msg |-> CHOOSE m \in Chunk(w) : place[m] = s,
                step |-> "mark", awaited |-> TRUE]
          ELSE task[s]]
     /\ batch' = [batch EXCEPT ![w] = @ \ Chunk(w)]
     /\ UNCHANGED <<happens, wire, table, phase, pass, closing>>

(* The pass does not await its chunks.                                     *)
FaultyEndPass(w) ==
  /\ phase[w] = "chunks"
  /\ closing[w] \/ batch[w] = {}
  /\ batch' = [batch EXCEPT ![w] = {}]
  /\ phase' = [phase EXCEPT ![w] = "timer"]
  /\ UNCHANGED <<happens, wire, table, pass, closing, task>>

(* The pass is over, or cut short by shutdown: the pass over the failed    *)
(* messages follows the one over the pending ones, then the next poll is   *)
(* scheduled.                                                              *)
EndPass(w) ==
  /\ phase[w] = "chunks" /\ Awaited(w) = {}
  /\ closing[w] \/ batch[w] = {}
  /\ batch' = [batch EXCEPT ![w] = {}]
  /\ IF pass[w] = "PENDING"
     THEN /\ pass' = [pass EXCEPT ![w] = "FAILED"]
          /\ phase' = [phase EXCEPT ![w] = "select"]
     ELSE /\ phase' = [phase EXCEPT ![w] = "timer"]
          /\ UNCHANGED pass
  /\ UNCHANGED <<happens, wire, table, closing, task>>

(* The timer calls poll, which ends the loop once stop() was called.       *)
Poll(w) ==
  /\ phase[w] = "timer"
  /\ phase' = [phase EXCEPT ![w] = IF closing[w] THEN "stopped" ELSE "select"]
  /\ pass' = [pass EXCEPT ![w] = "PENDING"]
  /\ UNCHANGED <<happens, wire, table, batch, closing, task>>

-----------------------------------------------------------------------------
(* processMessage, one step per awaited statement.                         *)
Advance(s, step) == task' = [task EXCEPT ![s].step = step]
Finish(s) == task' = [task EXCEPT ![s] = NoTask]
At(s, step) == task[s] # NoTask /\ task[s].step = step

(* The row is marked as published before anything was.                     *)
FaultyMarkProcessing(s) ==
  /\ At(s, "mark") /\ InTable(task[s].msg)
  /\ row' = [row EXCEPT ![task[s].msg].status = "PUBLISHED",
                        ![task[s].msg].processed = "recent"]
  /\ Advance(s, "publish")
  /\ UNCHANGED <<happens, wire, handed, loop>>

(* markAsProcessing *)
MarkProcessing(s) ==
  /\ At(s, "mark") /\ InTable(task[s].msg)
  /\ row' = [row EXCEPT ![task[s].msg].status = "PROCESSING",
                        ![task[s].msg].processed = "recent"]
  /\ Advance(s, "publish")
  /\ UNCHANGED <<happens, wire, handed, loop>>

(* channel.publish takes the message, whatever becomes of it.              *)
Write(s) ==
  LET m == task[s].msg
      w == task[s].worker
  IN /\ At(s, "publish") /\ link[w] # "closed"
     /\ handed' = [handed EXCEPT ![m] = @ + 1]
     /\ received' = IF link[w] = "up" THEN received \union {m} ELSE received
     /\ unsent' = (unsent \union {m}) \ received'
     /\ UNCHANGED link

(* The channel took the message and its write buffer has room.             *)
Publish(s) ==
  /\ Write(s)
  /\ Advance(s, "confirm")
  /\ UNCHANGED <<happens, row, loop>>

(* publish throws: not connected, and nothing is sent; or the write buffer *)
(* is full ("buffer full"), and amqplib sends the message nevertheless.    *)
PublishThrows(s) ==
  /\ \/ At(s, "publish") /\ link[task[s].worker] = "closed" /\ UNCHANGED <<handed, wire>>
     \/ "publish" \in happens /\ Write(s)
  /\ Advance(s, "fail")
  /\ UNCHANGED <<happens, row, loop>>

(* markAsPublished *)
MarkPublished(s) ==
  /\ At(s, "confirm") /\ InTable(task[s].msg)
  /\ row' = [row EXCEPT ![task[s].msg].status = "PUBLISHED"]
  /\ Finish(s)
  /\ UNCHANGED <<happens, wire, handed, loop>>

(* markAsProcessing or markAsPublished throws: the catch block follows.    *)
UpdateFails(s) ==
  /\ \E step \in {"mark", "confirm"} :
       At(s, step) /\ (step \in happens \/ ~InTable(task[s].msg))
  /\ Advance(s, "fail")
  /\ UNCHANGED <<happens, wire, table, loop>>

(* The failure is not counted, or counted down; processed_at is cleared.   *)
FaultyMarkFailed(s) ==
  /\ At(s, "fail") /\ InTable(task[s].msg)
  /\ row' = [row EXCEPT ![task[s].msg].status = "FAILED",
                        ![task[s].msg].processed = "recent"]
  /\ Finish(s)
  /\ UNCHANGED <<happens, wire, handed, loop>>

FaultyMarkFailedClears(s) ==
  /\ At(s, "fail") /\ InTable(task[s].msg)
  /\ row' = [row EXCEPT ![task[s].msg].status = "FAILED",
                        ![task[s].msg].retries = @ + 1,
                        ![task[s].msg].processed = "null"]
  /\ Finish(s)
  /\ UNCHANGED <<happens, wire, handed, loop>>

(* markAsFailed *)
MarkFailed(s) ==
  /\ At(s, "fail") /\ InTable(task[s].msg)
  /\ row' = [row EXCEPT ![task[s].msg].status = "FAILED",
                        ![task[s].msg].retries = @ + 1,
                        ![task[s].msg].processed = IF @ = "null" THEN @ ELSE "recent"]
  /\ Finish(s)
  /\ UNCHANGED <<happens, wire, handed, loop>>

(* markAsFailed throws: processMessage rejects, and with it the Promise.all*)
(* of its chunk.  poll catches that and schedules the next poll; the other *)
(* calls of the chunk run on, awaited by nobody.                           *)
MarkFailedFails(s) ==
  LET w == task[s].worker
  IN /\ At(s, "fail") /\ ("fail" \in happens \/ ~InTable(task[s].msg))
     /\ IF task[s].awaited
        THEN /\ task' = [t \in Slots |->
                  IF t = s THEN NoTask
                  ELSE IF t \in Awaited(w) THEN [task[t] EXCEPT !.awaited = FALSE]
                  ELSE task[t]]
             /\ batch' = [batch EXCEPT ![w] = {}]
             /\ phase' = [phase EXCEPT ![w] = "timer"]
        ELSE Finish(s) /\ UNCHANGED <<batch, phase>>
     /\ UNCHANGED <<happens, wire, table, pass, closing>>

-----------------------------------------------------------------------------
(* stop() ends the loop without waiting for it.                            *)
FaultyStop(w) ==
  /\ "stop" \in happens
  /\ phase[w] \in {"select", "chunks", "timer"} /\ ~closing[w]
  /\ closing' = [closing EXCEPT ![w] = TRUE]
  /\ phase' = [phase EXCEPT ![w] = "stopped"]
  /\ UNCHANGED <<happens, wire, table, pass, batch, task>>

(* stop(): clears the timer and waits until isRunning is false.            *)
Stop(w) ==
  /\ "stop" \in happens
  /\ phase[w] \in {"select", "chunks", "timer"} /\ ~closing[w]
  /\ closing' = [closing EXCEPT ![w] = TRUE]
  /\ phase' = [phase EXCEPT ![w] = IF @ = "timer" THEN "hung" ELSE @]
  /\ UNCHANGED <<happens, wire, table, pass, batch, task>>

(* The connection breaks; its close event is noticed.  The publisher never *)
(* connects again.                                                         *)
LinkBreaks(w) ==
  /\ "break" \in happens /\ link[w] = "up"
  /\ link' = [link EXCEPT ![w] = "broken"]
  /\ UNCHANGED <<happens, received, unsent, table, loop, task>>

LinkCloses(w) ==
  /\ link[w] = "broken"
  /\ link' = [link EXCEPT ![w] = "closed"]
  /\ UNCHANGED <<happens, received, unsent, table, loop, task>>

(* The process dies, or exits after stop(); it may be started again.       *)
Crash(w) ==
  /\ "crash" \in happens
  /\ phase[w] # "down"
  /\ phase' = [phase EXCEPT ![w] = "down"]
  /\ pass' = [pass EXCEPT ![w] = "PENDING"]
  /\ batch' = [batch EXCEPT ![w] = {}]
  /\ closing' = [closing EXCEPT ![w] = FALSE]
  /\ task' = [s \in Slots |-> IF s \in InFlight(w) THEN NoTask ELSE task[s]]
  /\ link' = [link EXCEPT ![w] = "closed"]
  /\ UNCHANGED <<happens, received, unsent, table>>

(* cleanup: the timer of a running worker deletes published rows that are  *)
(* older than the retention period.                                        *)
Cleanup(w) ==
  /\ phase[w] \notin {"down", "stopped"} /\ ~closing[w]
  /\ \E old \in SUBSET {m \in Messages : row[m].status = "PUBLISHED"} :
       /\ old # {}
       /\ row' = [m \in Messages |->
                    IF m \in old THEN [row[m] EXCEPT !.status = "DELETED"] ELSE row[m]]
  /\ UNCHANGED <<happens, wire, handed, loop, task>>

-----------------------------------------------------------------------------
Loop(w) == Select(w) \/ StartChunk(w) \/ EndPass(w) \/ Poll(w)

Call(s) ==
  \/ MarkProcessing(s) \/ Publish(s) \/ PublishThrows(s) \/ MarkPublished(s)
  \/ UpdateFails(s) \/ MarkFailed(s) \/ MarkFailedFails(s)

Next ==
  \/ \E m \in Messages : Save(m) \/ BackoffElapses(m)
  \/ \E w \in Workers : \/ Start(w) \/ Loop(w) \/ SelectFails(w)
                        \/ Stop(w) \/ Crash(w) \/ Cleanup(w)
                        \/ LinkBreaks(w) \/ LinkCloses(w)
  \/ \E s \in Slots : Call(s)

Spec == Init /\ [][Next]_vars

(* Fairness: a started process runs its event loop and its timers, time    *)
(* passes, the database and the broker answer, and a process that is down  *)
(* is started.  New messages, faults, stop() and cleanup may never come.   *)
FairSpec ==
  /\ Spec
  /\ \A m \in Messages : WF_vars(BackoffElapses(m))
  /\ \A w \in Workers : WF_vars(Start(w)) /\ WF_vars(Loop(w))
  /\ \A s \in Slots : WF_vars(Call(s))

-----------------------------------------------------------------------------
TypeOK ==
  /\ row \in [Messages -> Row]
  /\ handed \in [Messages -> Nat]
  /\ phase \in [Workers -> Phase]
  /\ pass \in [Workers -> {"PENDING", "FAILED"}]
  /\ batch \in [Workers -> SUBSET Messages]
  /\ closing \in [Workers -> BOOLEAN]
  /\ task \in [Slots -> Task \union {NoTask}]
  /\ link \in [Workers -> Link]
  /\ received \subseteq Messages /\ unsent \subseteq Messages
  /\ happens \in Worlds

(* The broker received a message that is recorded as published, and one    *)
(* cleaned up since, unless a channel took it after its connection broke:  *)
(* then the row says published and no one has the event, because           *)
(* rabbitmq-publisher.ts:51 opens no confirm channel.  That is the one way *)
(* to lose one: replicas, failures, crashes, retries and the cleanup never *)
(* throw away an event that no channel took.                               *)
PublishedWasReceived ==
  \A m \in Messages :
    row[m].status \in {"PUBLISHED", "DELETED"} =>
      m \in received \/ ("break" \in happens /\ m \in unsent)

(* markAsFailed is never refused.  When it is, Promise.all abandons calls  *)
(* of a chunk that have not marked their messages yet, the next poll       *)
(* selects these again, and a single worker overtakes itself.              *)
FailuresAreRecorded == "fail" \notin happens

(* One worker hands a message over a second time only after it recorded    *)
(* that an attempt failed, and records no more than max_retries: however   *)
(* it fails or crashes, duplicates never exceed the retries counted.       *)
RedeliveryIsCounted ==
  FailuresAreRecorded =>
    \A m \in Messages : handed[m] <= row[m].retries + 1 /\ row[m].retries <= MaxRetries

(* Once a message is recorded as published it is not delivered again.      *)
PublishedOnce ==
  [][FailuresAreRecorded =>
       \A m \in Messages :
         row[m].status \in {"PUBLISHED", "DELETED"} => handed'[m] = handed[m]]_vars

(* stop() returns only when no message is being published any more         *)
(* ("Wait for current batch to finish", outbox.worker.ts:133).             *)
StopWaitsForBatch ==
  FailuresAreRecorded => \A w \in Workers : phase[w] = "stopped" => InFlight(w) = {}

(* Messages are tried in the order they were saved, up to the concurrency  *)
(* of a chunk: when one is handed over, fewer than Concurrency of the      *)
(* earlier ones have not been tried.                                       *)
HandedInOrder ==
  \A m \in Messages : handed[m] > 0 =>
    Cardinality({k \in 1 .. (m - 1) : row[k].status = "PENDING"}) < Concurrency

(* Every saved message is handed over or its retries are used up           *)
(* (outbox-message.interface.ts:14-20: reliable publishing, retries),      *)
(* where nothing but publishing fails, at any time and as often as it may, *)
(* to the point that the connection is gone for good.                      *)
Settled(m) ==
  \/ row[m].status \in {"PUBLISHED", "DELETED"}
  \/ row[m].status = "FAILED" /\ row[m].retries >= MaxRetries
EveryMessageSettles ==
  \A m \in Messages :
    happens \subseteq {"publish", "break"} /\ row[m].status = "PENDING" ~> Settled(m)

(* stop() comes to an end ("Stop the worker gracefully",                   *)
(* outbox.worker.ts:117).                                                  *)
StopReturns == \A w \in Workers : closing[w] ~> phase[w] = "stopped"
=============================================================================
