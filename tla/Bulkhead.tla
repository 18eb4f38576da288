------------------------------ MODULE Bulkhead ------------------------------
(***************************************************************************)
(* The Bulkhead of libs/core: at most MaxConcurrent calls run, others wait *)
(* in a queue of limited size and time.  The functions it runs may take for*)
(* ever; the cleanup timer runs until destroy.                             *)
(***************************************************************************)
EXTENDS Naturals, Sequences, FiniteSets

CONSTANTS Callers,       \* callers, each with one call at a time
          MaxConcurrent, \* maxConcurrent
          MaxQueueSize   \* maxQueueSize

ASSUME BulkheadAssumption == MaxConcurrent \in Nat \ {0} /\ MaxQueueSize \in Nat

VARIABLES
  at,          \* at[c]: where the call of c is
  activeCount,
  queue,       \* the queued calls
  aged,        \* those that are older than queueTimeout
  destroyed    \* destroy was called: no cleanup timer any more

bulkheadVars == <<at, activeCount, queue, aged, destroyed>>

Places == {"idle", "active", "stranded", "queued", "returned", "full", "timed out", "destroyed"}

(* The calls that take up a place.                                         *)
Occupied == {c \in Callers : at[c] \in {"active", "stranded"}}

MoveAll(calls, place) == [c \in Callers |-> IF c \in calls THEN place ELSE at[c]]

-----------------------------------------------------------------------------
BulkheadInit ==
  /\ at = [c \in Callers |-> "idle"]
  /\ activeCount = 0 /\ queue = <<>> /\ aged = {} /\ destroyed = FALSE

(* execute: run, queue or refuse.                                          *)
Enter(c) ==
  /\ at[c] \notin {"active", "stranded", "queued"}
  /\ \/ /\ activeCount < MaxConcurrent
        /\ at' = [at EXCEPT ![c] = "active"]
        /\ activeCount' = activeCount + 1
        /\ UNCHANGED queue
     \/ /\ activeCount >= MaxConcurrent /\ Len(queue) < MaxQueueSize
        /\ at' = [at EXCEPT ![c] = "queued"]
        /\ queue' = Append(queue, c)
        /\ UNCHANGED activeCount
     \/ /\ activeCount >= MaxConcurrent /\ Len(queue) >= MaxQueueSize
        /\ at' = [at EXCEPT ![c] = "full"]
        /\ UNCHANGED <<activeCount, queue>>
  /\ UNCHANGED <<aged, destroyed>>

(* A slip this code could have had: processQueue starts one call only and  *)
(* the head of the queue may have timed out.                               *)
FaultyTaken(free) == IF queue = <<>> THEN {} ELSE {1}

(* processQueue shifts requests until free calls were started: each one    *)
(* that has fewer than that many live ones before it.                      *)
Taken(free) ==
  {i \in DOMAIN queue : Cardinality({j \in 1 .. (i - 1) : queue[j] \notin aged}) < free}

(* The function settles: finally, then processQueue.  A queued function    *)
(* that throws when it is started, before there is a promise, keeps its    *)
(* place, as nothing counts down, and its caller is never told: the        *)
(* exception ends processQueue and goes to the call that left.             *)
Leave(c) ==
  LET taken == Taken(MaxConcurrent - (activeCount - 1))
      shifted == {queue[i] : i \in taken}
      started == shifted \ aged
  IN /\ at[c] = "active"
     /\ \E stage \in {"active", "stranded"} :
          at' = [d \in Callers |-> IF d = c THEN "returned"
                                   ELSE IF d \in started THEN stage
                                   ELSE IF d \in shifted THEN "timed out" ELSE at[d]]
     /\ activeCount' = (activeCount - 1) + Cardinality(started)
     /\ queue' = SubSeq(queue, Cardinality(taken) + 1, Len(queue))
     /\ aged' = aged \ shifted
     /\ UNCHANGED destroyed

(* queueTimeout passes for a queued call.                                  *)
Age(c) ==
  /\ at[c] = "queued" /\ c \notin aged
  /\ aged' = aged \union {c}
  /\ UNCHANGED <<at, activeCount, queue, destroyed>>

(* The n-th of a set of numbers.                                           *)
Nth(S, n) == CHOOSE i \in S : Cardinality({j \in S : j < i}) = n - 1

(* The queue without those that are too old, in its order.                 *)
Unaged ==
  LET live == {i \in DOMAIN queue : queue[i] \notin aged}
  IN [n \in 1 .. Cardinality(live) |-> queue[Nth(live, n)]]

(* The cleanup timer.                                                      *)
CleanQueue ==
  /\ ~destroyed /\ aged # {}
  /\ at' = MoveAll(aged, "timed out")
  /\ queue' = Unaged
  /\ aged' = {}
  /\ UNCHANGED <<activeCount, destroyed>>

(* A slip this code could have had: destroy empties the queue and nobody   *)
(* in it is told.                                                          *)
FaultyDestroy ==
  /\ ~destroyed
  /\ destroyed' = TRUE
  /\ queue' = <<>> /\ aged' = {}
  /\ UNCHANGED <<at, activeCount>>

(* destroy *)
Destroy ==
  /\ ~destroyed
  /\ destroyed' = TRUE
  /\ at' = MoveAll({c \in Callers : at[c] = "queued"}, "destroyed")
  /\ queue' = <<>> /\ aged' = {}
  /\ UNCHANGED activeCount

BulkheadNext ==
  \/ \E c \in Callers : Enter(c) \/ Leave(c) \/ Age(c)
  \/ CleanQueue \/ Destroy

BulkheadSpec == BulkheadInit /\ [][BulkheadNext]_bulkheadVars

(* Fairness: time passes and the timer fires.  A function may never settle.*)
BulkheadFairness ==
  /\ \A c \in Callers : WF_bulkheadVars(Age(c))
  /\ WF_bulkheadVars(CleanQueue)

-----------------------------------------------------------------------------
BulkheadTypeOK ==
  /\ at \in [Callers -> Places]
  /\ activeCount \in Nat
  /\ queue \in Seq(Callers)
  /\ aged \subseteq Callers
  /\ destroyed \in BOOLEAN

(* activeCount is the number of calls that run, and of those that threw    *)
(* when they were started, and never exceeds the limit, however calls      *)
(* return, time out or are destroyed; nobody waits while there is room,    *)
(* and the queue holds exactly those who wait.                             *)
NoIdleCapacity ==
  /\ activeCount = Cardinality(Occupied)
  /\ activeCount <= MaxConcurrent /\ Len(queue) <= MaxQueueSize
  /\ queue # <<>> => activeCount = MaxConcurrent
  /\ {queue[i] : i \in DOMAIN queue} = {c \in Callers : at[c] = "queued"}

(* Who is queued is run or told, even when no running call ever returns.   *)
(* (Not so after destroy: its timer is gone, yet execute queues calls.)    *)
QueuedCallsSettle ==
  \A c \in Callers : ~destroyed /\ at[c] = "queued" ~> at[c] # "queued"
=============================================================================
