------------------------------- MODULE Retry --------------------------------
(***************************************************************************)
(* retryWithBackoff of libs/core, and the Retry decorator, which is the    *)
(* same loop: one call and its attempts.                                   *)
(***************************************************************************)
EXTENDS Naturals

CONSTANTS MaxAttempts,  \* maxAttempts
          InitialDelay, \* initialDelay
          MaxDelay,     \* maxDelay
          Multiplier    \* backoffMultiplier

ASSUME RetryAssumption == {MaxAttempts, InitialDelay, MaxDelay, Multiplier} \subseteq Nat

VARIABLES
  attempt,     \* attempts that failed
  doing,       \* what the loop awaits, or how it ended
  slept,       \* milliseconds waited so far
  exponential  \* exponentialBackoff

retryVars == <<attempt, doing, slept, exponential>>

MinOf(a, b) == IF a <= b THEN a ELSE b

(* Math.pow(backoffMultiplier, n).                                         *)
Power(n) ==
  LET power[k \in 0 .. n] == IF k = 0 THEN 1 ELSE Multiplier * power[k - 1]
  IN power[n]

(* The delay after the n-th failure.                                       *)
Delay(n) ==
  IF exponential THEN MinOf(InitialDelay * Power(n - 1), MaxDelay) ELSE InitialDelay

-----------------------------------------------------------------------------
RetryInit ==
  /\ attempt = 0 /\ slept = 0 /\ exponential \in BOOLEAN
  /\ doing = IF MaxAttempts = 0 THEN "threw" ELSE "trying"

AttemptSucceeds ==
  /\ doing = "trying" /\ doing' = "returned"
  /\ UNCHANGED <<attempt, slept, exponential>>

(* It fails: retryFilter may refuse, or the attempts are used up.          *)
AttemptFails ==
  /\ doing = "trying"
  /\ attempt' = attempt + 1
  /\ \/ doing' = "threw"
     \/ doing' = "sleeping" /\ attempt' < MaxAttempts
  /\ UNCHANGED <<slept, exponential>>

Sleep ==
  /\ doing = "sleeping" /\ doing' = "trying"
  /\ slept' = slept + Delay(attempt)
  /\ UNCHANGED <<attempt, exponential>>

RetryNext == AttemptSucceeds \/ AttemptFails \/ Sleep

RetrySpec == RetryInit /\ [][RetryNext]_retryVars /\ WF_retryVars(RetryNext)

-----------------------------------------------------------------------------
(* A call makes at most maxAttempts attempts and waits, exponential backoff*)
(* or not, no longer than maxDelay (or initialDelay) between two of them.  *)
RetryTypeOK ==
  /\ attempt \in 0 .. MaxAttempts /\ slept \in Nat /\ exponential \in BOOLEAN
  /\ doing \in {"trying", "sleeping", "returned", "threw"}
  /\ slept <= attempt * (IF exponential THEN MaxDelay ELSE InitialDelay)
  /\ doing = "sleeping" => attempt < MaxAttempts
=============================================================================
