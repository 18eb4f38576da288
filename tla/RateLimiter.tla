---------------------------- MODULE RateLimiter -----------------------------
(***************************************************************************)
(* The RateLimiter of libs/core, for one key: the three strategies, the    *)
(* cleanup timer and reset.  checkLimit runs without an await, so a check  *)
(* is one step; what matters is when checks and cleanups fall.             *)
(***************************************************************************)
EXTENDS Integers, Sequences, FiniteSets

CONSTANTS WindowMs,    \* windowMs
          MaxRequests, \* maxRequests
          MaxTime      \* bound: the clock

ASSUME LimiterAssumption == {WindowMs, MaxRequests, MaxTime} \subseteq Nat \ {0}

VARIABLES
  strategy, \* config.strategy
  now,      \* Date.now()
  bucket,   \* the bucket of the key, or NoBucket
  admitted  \* the times at which a request was let through since the last reset

limiterVars == <<strategy, now, bucket, admitted>>

Strategies == {"fixed-window", "sliding-window", "token-bucket"}
Times == 0 .. MaxTime
NoBucket == [count |-> -1, resetTime |-> 0, requests |-> <<>>]
NewBucket == [count |-> 0, resetTime |-> now + WindowMs, requests |-> <<>>]

(* The requests after windowStart.                                         *)
Recent(requests) ==
  LET kept[n \in 0 .. Len(requests)] ==
        IF n = 0 THEN <<>>
        ELSE IF requests[n] > now - WindowMs THEN Append(kept[n - 1], requests[n])
        ELSE kept[n - 1]
  IN kept[Len(requests)]

Min2(a, b) == IF a <= b THEN a ELSE b

-----------------------------------------------------------------------------
(* The strategies: whether a check of bucket b passes and the bucket it    *)
(* leaves behind.                                                          *)
CheckFixedWindow(b) ==
  LET w == IF now >= b.resetTime THEN [b EXCEPT !.count = 0, !.resetTime = now + WindowMs] ELSE b
  IN IF w.count >= MaxRequests THEN [ok |-> FALSE, bucket |-> w]
     ELSE [ok |-> TRUE, bucket |-> [w EXCEPT !.count = @ + 1]]

CheckSlidingWindow(b) ==
  LET w == [b EXCEPT !.requests = Recent(@)]
  IN IF Len(w.requests) >= MaxRequests THEN [ok |-> FALSE, bucket |-> w]
     ELSE [ok |-> TRUE, bucket |-> [w EXCEPT !.requests = Append(@, now)]]

(* A slip this code could have had: a refill without the limit.            *)
FaultyCheckTokenBucket(b) ==
  LET tokens == b.count + ((now - (b.resetTime - WindowMs)) * MaxRequests) \div WindowMs
  IN [ok |-> tokens >= 1,
      bucket |-> [b EXCEPT !.count = IF tokens < 1 THEN tokens ELSE tokens - 1,
                           !.resetTime = now + WindowMs]]

CheckTokenBucket(b) ==
  LET elapsed == now - (b.resetTime - WindowMs)
      tokens == Min2(MaxRequests, b.count + (elapsed * MaxRequests) \div WindowMs)
      w == [b EXCEPT !.count = tokens, !.resetTime = now + WindowMs]
  IN IF tokens < 1 THEN [ok |-> FALSE, bucket |-> w]
     ELSE [ok |-> TRUE, bucket |-> [w EXCEPT !.count = tokens - 1]]

Check(b) ==
  CASE strategy = "fixed-window" -> CheckFixedWindow(b)
    [] strategy = "token-bucket" -> CheckTokenBucket(b)
    [] OTHER                     -> CheckSlidingWindow(b)

-----------------------------------------------------------------------------
LimiterInit ==
  /\ strategy \in Strategies
  /\ now = 0 /\ bucket = NoBucket /\ admitted = <<>>

(* execute and checkLimit.                                                 *)
CheckLimit ==
  LET checked == Check(IF bucket = NoBucket THEN NewBucket ELSE bucket)
  IN /\ bucket' = checked.bucket
     /\ admitted' = IF checked.ok THEN Append(admitted, now) ELSE admitted
     /\ UNCHANGED <<strategy, now>>

(* A slip this code could have had: cleanup looks at the requests only when*)
(* it decides to drop a bucket.                                            *)
FaultyCleanup ==
  LET b == [bucket EXCEPT !.requests = Recent(@)]
  IN /\ bucket # NoBucket
     /\ bucket' = IF b.requests = <<>> THEN NoBucket ELSE b
     /\ UNCHANGED <<strategy, now, admitted>>

(* The timer of startCleanup.                                              *)
CleanBuckets ==
  LET b == [bucket EXCEPT !.requests = Recent(@)]
  IN /\ bucket # NoBucket
     /\ bucket' = IF b.requests = <<>> /\ now > b.resetTime THEN NoBucket ELSE b
     /\ UNCHANGED <<strategy, now, admitted>>

(* reset and resetAll.                                                     *)
Reset ==
  /\ bucket # NoBucket
  /\ bucket' = NoBucket /\ admitted' = <<>>
  /\ UNCHANGED <<strategy, now>>

Tick == now < MaxTime /\ now' = now + 1 /\ UNCHANGED <<strategy, bucket, admitted>>

LimiterNext == CheckLimit \/ CleanBuckets \/ Reset \/ Tick

LimiterSpec == LimiterInit /\ [][LimiterNext]_limiterVars

-----------------------------------------------------------------------------
LimiterTypeOK ==
  /\ strategy \in Strategies
  /\ now \in Times
  /\ bucket.count \in -1 .. MaxRequests
  /\ bucket.requests \in Seq(Times)
  /\ admitted \in Seq(Times)

(* However checks, cleanups and the window boundaries interleave, no       *)
(* interval of one window admits more than maxRequests with the sliding    *)
(* window, nor more than twice that with the others (rate-limiter.ts:8-10).*)
AdmittedWithinLimit ==
  \A t \in Times :
    Cardinality({i \in DOMAIN admitted : t <= admitted[i] /\ admitted[i] < t + WindowMs})
      <= IF strategy = "sliding-window" THEN MaxRequests ELSE 2 * MaxRequests
=============================================================================
