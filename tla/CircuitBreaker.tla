--------------------------- MODULE CircuitBreaker ---------------------------
(***************************************************************************)
(* The CircuitBreaker of libs/core, one per service, with the calls that   *)
(* run through it.  A call is let in at execute and comes back to          *)
(* onSuccess or onFailure after an await: by then other calls may have     *)
(* opened, half-opened or closed the circuit.                              *)
(***************************************************************************)
EXTENDS Naturals

CONSTANTS Services,         \* what the breakers protect
          Calls,            \* calls that may be under way at the same time
          FailureThreshold, \* failureThreshold
          SuccessThreshold, \* successThreshold
          MaxManual         \* bound: calls of open, close and halfOpen

ASSUME BreakerAssumption ==
  /\ {FailureThreshold, SuccessThreshold} \subseteq Nat \ {0}
  /\ MaxManual \in Nat

VARIABLES
  breaker, \* breaker[s]: the breaker of service s
  call,    \* call[c]: the service that call c is waiting for, or NoService
  doomed,  \* the calls under way that will fail
  healthy, \* the services that answer every call made from now on
  manual   \* how often open, close or halfOpen was called

breakerVars == <<breaker, call, doomed, healthy, manual>>

NoService == "none"

(* OPEN: Date.now() has not reached nextAttempt; DUE: open, but it has.    *)
(* failures is failureCount while the circuit is closed: it is read only   *)
(* then, and a circuit becomes closed with the count set to zero.          *)
Breaker == [state : {"CLOSED", "OPEN", "DUE", "HALF_OPEN"},
            failures : 0 .. FailureThreshold, successes : 0 .. SuccessThreshold]

NewBreaker == [state |-> "CLOSED", failures |-> 0, successes |-> 0]

Running(s) == {c \in Calls : call[c] = s}

-----------------------------------------------------------------------------
(* The methods, each as the breaker it leaves behind.                      *)
Opened(b) == [state |-> "OPEN", failures |-> 0, successes |-> b.successes]
HalfOpened(b) == [state |-> "HALF_OPEN", failures |-> 0, successes |-> b.successes]
Closed(b) == [state |-> "CLOSED", failures |-> 0, successes |-> 0]

(* execute, up to the call of the function.                                *)
LetsIn(b) == b.state # "OPEN"
Entered(b) == IF b.state = "DUE" THEN HalfOpened(b) ELSE b

(* A slip this code could have had: a circuit that is half open stays so.  *)
FaultyOnSuccess(b) ==
  IF b.state = "HALF_OPEN"
  THEN [b EXCEPT !.successes = IF @ < SuccessThreshold THEN @ + 1 ELSE @]
  ELSE [b EXCEPT !.failures = 0]

OnSuccess(b) ==
  IF b.state # "HALF_OPEN" THEN [b EXCEPT !.failures = 0]
  ELSE IF b.successes + 1 >= SuccessThreshold THEN Closed(b)
  ELSE [b EXCEPT !.successes = @ + 1]

OnFailure(b) ==
  IF \/ b.state = "HALF_OPEN"
     \/ b.state = "CLOSED" /\ b.failures + 1 >= FailureThreshold
  THEN Opened(b)
  ELSE IF b.state = "CLOSED" THEN [b EXCEPT !.failures = @ + 1]
  ELSE b

-----------------------------------------------------------------------------
BreakerInit ==
  /\ breaker = [s \in Services |-> NewBreaker]
  /\ call = [c \in Calls |-> NoService]
  /\ doomed = {}
  /\ healthy = {}
  /\ manual = 0

(* A call that is let in: what it meets depends on the service.            *)
Execute(c, s) ==
  /\ call[c] = NoService /\ LetsIn(breaker[s])
  /\ breaker' = [breaker EXCEPT ![s] = Entered(@)]
  /\ call' = [call EXCEPT ![c] = s]
  /\ \/ UNCHANGED doomed
     \/ s \notin healthy /\ doomed' = doomed \union {c}
  /\ UNCHANGED <<healthy, manual>>

(* The function resolved; it threw; it threw what errorFilter leaves out.  *)
Succeed(c) ==
  /\ call[c] # NoService /\ c \notin doomed
  /\ breaker' = [breaker EXCEPT ![call[c]] = OnSuccess(@)]
  /\ call' = [call EXCEPT ![c] = NoService]
  /\ UNCHANGED <<doomed, healthy, manual>>

Fail(c) ==
  /\ c \in doomed
  /\ breaker' = [breaker EXCEPT ![call[c]] = OnFailure(@)]
  /\ call' = [call EXCEPT ![c] = NoService]
  /\ doomed' = doomed \ {c}
  /\ UNCHANGED <<healthy, manual>>

FailFiltered(c) ==
  /\ c \in doomed
  /\ call' = [call EXCEPT ![c] = NoService]
  /\ doomed' = doomed \ {c}
  /\ UNCHANGED <<breaker, healthy, manual>>

(* resetTimeout passes.                                                    *)
ResetTimeout(s) ==
  /\ breaker[s].state = "OPEN"
  /\ breaker' = [breaker EXCEPT ![s].state = "DUE"]
  /\ UNCHANGED <<call, doomed, healthy, manual>>

(* open, close and halfOpen, called by hand.                               *)
Manual(s) ==
  /\ manual < MaxManual
  /\ manual' = manual + 1
  /\ \E b \in {Opened(breaker[s]), Closed(breaker[s]), HalfOpened(breaker[s])} :
       breaker' = [breaker EXCEPT ![s] = b]
  /\ UNCHANGED <<call, doomed, healthy>>

Recover(s) ==
  /\ s \notin healthy
  /\ healthy' = healthy \union {s}
  /\ UNCHANGED <<breaker, call, doomed, manual>>

Return(c) == Succeed(c) \/ Fail(c) \/ FailFiltered(c)

BreakerNext ==
  \/ \E c \in Calls : Return(c) \/ \E s \in Services : Execute(c, s)
  \/ \E s \in Services : ResetTimeout(s) \/ Manual(s) \/ Recover(s)

BreakerSpec == BreakerInit /\ [][BreakerNext]_breakerVars

(* Fairness: calls settle, time passes, and callers keep coming to every   *)
(* service, which get in when they can.                                    *)
BreakerFairness ==
  /\ \A c \in Calls : WF_breakerVars(Return(c))
  /\ \A s \in Services : /\ SF_breakerVars(\E c \in Calls : Execute(c, s))
                          /\ WF_breakerVars(ResetTimeout(s))

-----------------------------------------------------------------------------
BreakerTypeOK ==
  /\ breaker \in [Services -> Breaker]
  /\ call \in [Calls -> Services \union {NoService}]
  /\ doomed \subseteq Calls
  /\ healthy \subseteq Services
  /\ manual \in 0 .. MaxManual

(* A circuit that is closed has not reached its threshold, and one that is *)
(* not has not yet had the successes that close it: no order of late       *)
(* answers leaves the breaker in a state its counters contradict.          *)
CountersMatchState ==
  \A s \in Services :
    /\ breaker[s].successes < SuccessThreshold
    /\ breaker[s].state = "CLOSED" => /\ breaker[s].failures < FailureThreshold
                                      /\ breaker[s].successes = 0

(* A service that answers again gets its traffic back, whatever calls were *)
(* under way and however often the circuit opened, as long as there are    *)
(* callers.                                                                *)
CircuitCloses == \A s \in Services : s \in healthy ~> [](breaker[s].state = "CLOSED")
=============================================================================
