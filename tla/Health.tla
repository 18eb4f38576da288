------------------------------- MODULE Health -------------------------------
(***************************************************************************)
(* Health checks: HealthController's probes, HealthService and the         *)
(* indicators, which operate on what they check while the probes wait, for *)
(* the timeout at most; a check that timed out goes on.                    *)
(*   "memory"      a look at the process, done at once; so is cpu          *)
(*   "postgresql"  one query; so are redis, mongodb, database and http     *)
(*   "disk"        one query, whose answer may be that space runs out      *)
(*   "rabbitmq"    the connection, then the queues                         *)
(*   "cache"       set, get and del of a test key                          *)
(***************************************************************************)
EXTENDS Naturals, FiniteSets

CONSTANTS Registrations,  \* what services register: indicators and dependencies
          Probes,         \* probes of the run
          TestKeys,       \* keys of the cache indicator
          MaxTurns        \* bound: times something falls ill or recovers

IndicatorNames == {"memory", "postgresql", "disk", "rabbitmq", "cache"}

ASSUME HealthAssumption ==
  /\ Registrations \subseteq [indicators : SUBSET IndicatorNames, dependencies : SUBSET IndicatorNames]
  /\ MaxTurns \in Nat

VARIABLES
  registered, \* what HealthModule.forRoot registered
  probe,      \* each probe: its checks, what it answered, and as history what
              \* was ill and well at some time since it began
  cached,     \* test keys that are in the cache
  ill,        \* what does not work now
  turns       \* times this may still change

healthVars == <<registered, probe, cached, ill, turns>>

Registered == registered.indicators \union registered.dependencies

(* What can be wrong with a thing: the disk answers and is full; a queue   *)
(* has no consumer or cannot be asked, though there is a connection.       *)
FaultsOf(n) ==
  CASE n = "rabbitmq" -> {"rabbitmq", "queues"}
    [] n = "disk"     -> {"disk", "space"}
    [] OTHER          -> {n}

Faults == UNION {FaultsOf(n) : n \in Registered}

NoProbe == [kind |-> "none"]

HealthInit ==
  /\ registered \in Registrations
  /\ probe = [r \in Probes |-> NoProbe] /\ cached = {} /\ turns = MaxTurns
  /\ ill \in {{}} \union {{n} : n \in Faults}

Running == {r \in Probes : probe[r] # NoProbe}

(* Something falls ill or recovers.                                        *)
Turn ==
  /\ turns > 0 /\ turns' = turns - 1
  /\ \E n \in Faults :
       ill' = IF n \in ill THEN ill \ {n} ELSE ill \union {n}
  /\ probe' = [r \in Probes |->
                 IF r \in Running
                 THEN [probe[r] EXCEPT !.ill = @ \union ill', !.well = @ \union (Faults \ ill')]
                 ELSE NoProbe]
  /\ UNCHANGED <<registered, cached>>

-----------------------------------------------------------------------------
(* isHealthy runs the indicators, check the dependencies as well.          *)
Checked(kind) == IF kind = "live" THEN registered.indicators ELSE Registered

Checking(r, n) == r \in Running /\ n \in Checked(probe[r].kind) /\ probe[r].doing[n] # "done"

(* A slip this code could have had: every check uses the same key.         *)
FaultyTestKey(key) == CHOOSE fixed \in TestKeys : TRUE

(* options.key, or the time, which overlapping checks may share.           *)
TestKey(key) == key

SharesKey(r, key) == Checking(r, "cache") /\ probe[r].key = key

(* liveness, readiness, health: the checks start together, and the memory  *)
(* indicator is done at once.                                              *)
Probe(r, kind, key) ==
  /\ probe[r] = NoProbe
  /\ LET others == {other \in Probes : "cache" \in Checked(kind) /\ SharesKey(other, key)}
         started == [kind |-> kind, key |-> key, said |-> 0,
                     doing |-> [n \in Registered |-> IF n = "memory" THEN "done" ELSE "begun"],
                     result |-> [n \in Registered |->
                                   IF n # "memory" THEN ""
                                   ELSE IF n \in ill THEN "DEGRADED" ELSE "UP"],
                     ill |-> ill, well |-> Faults \ ill, overlapped |-> others # {}]
     IN probe' = [other \in Probes |->
                    IF other = r THEN started
                    ELSE IF other \in others THEN [probe[other] EXCEPT !.overlapped = TRUE]
                    ELSE probe[other]]
  /\ UNCHANGED <<registered, cached, ill, turns>>

CheckGoesOn(r, n, doing) == probe' = [probe EXCEPT ![r].doing[n] = doing]

(* performCheck resolves; after the timeout nobody listens.                *)
Finds(r, n, status) ==
  probe' = [probe EXCEPT ![r].doing[n] = "done",
                         ![r].result[n] = IF @ = "" THEN status ELSE @]

(* The query answers or fails.                                             *)
Ping(r) ==
  /\ Checking(r, "postgresql")
  /\ Finds(r, "postgresql", IF "postgresql" \in ill THEN "DOWN" ELSE "UP")
  /\ UNCHANGED <<registered, cached, ill, turns>>

CheckDisk(r) ==
  /\ Checking(r, "disk")
  /\ Finds(r, "disk", IF "disk" \in ill THEN "DOWN" ELSE IF "space" \in ill THEN "DEGRADED" ELSE "UP")
  /\ UNCHANGED <<registered, cached, ill, turns>>

CheckConnection(r) ==
  /\ Checking(r, "rabbitmq") /\ probe[r].doing["rabbitmq"] = "begun"
  /\ IF "rabbitmq" \in ill THEN Finds(r, "rabbitmq", "DOWN") ELSE CheckGoesOn(r, "rabbitmq", "connected")
  /\ UNCHANGED <<registered, cached, ill, turns>>

(* A queue is in trouble, or cannot be asked as the connection is lost now.*)
CheckQueues(r) ==
  /\ Checking(r, "rabbitmq") /\ probe[r].doing["rabbitmq"] = "connected"
  /\ Finds(r, "rabbitmq", IF ill \intersect FaultsOf("rabbitmq") # {} THEN "DEGRADED" ELSE "UP")
  /\ UNCHANGED <<registered, cached, ill, turns>>

CacheStep(r, doing) ==
  Checking(r, "cache") /\ probe[r].doing["cache"] = doing /\ UNCHANGED <<registered, ill, turns>>

(* set, get or del throws: del once more, whether it works or not.         *)
CacheFails(r) ==
  /\ \E doing \in {"begun", "written", "read"} : CacheStep(r, doing)
  /\ "cache" \in ill /\ CheckGoesOn(r, "cache", "failed") /\ UNCHANGED cached

SetKey(r) ==
  /\ CacheStep(r, "begun") /\ "cache" \notin ill
  /\ cached' = cached \union {TestKey(probe[r].key)} /\ CheckGoesOn(r, "cache", "written")

GetKey(r) ==
  /\ CacheStep(r, "written") /\ "cache" \notin ill
  /\ IF TestKey(probe[r].key) \in cached THEN CheckGoesOn(r, "cache", "read") ELSE Finds(r, "cache", "DOWN")
  /\ UNCHANGED cached

DeleteKey(r) ==
  /\ \/ CacheStep(r, "read") /\ "cache" \notin ill /\ Finds(r, "cache", "UP")
     \/ CacheStep(r, "failed") /\ Finds(r, "cache", "DOWN")
  /\ cached' = IF "cache" \in ill THEN cached ELSE cached \ {TestKey(probe[r].key)}

(* The timer of check; operations hang only while what they ask is ill.  A *)
(* full disk answers.                                                      *)
MayHang(n) == FaultsOf(n) \ {"memory", "space"}

TimesOut(r) ==
  /\ \E n \in Registered :
       /\ Checking(r, n) /\ MayHang(n) \intersect probe[r].ill # {} /\ probe[r].result[n] = ""
       /\ probe' = [probe EXCEPT ![r].result[n] = "DOWN"]
  /\ UNCHANGED <<registered, cached, ill, turns>>

-----------------------------------------------------------------------------
(* determineOverallStatus *)
OverallStatus(results) ==
  IF results = {} THEN "UNKNOWN"
  ELSE IF "DOWN" \in results THEN "DOWN"
  ELSE IF "DEGRADED" \in results THEN "DEGRADED"
  ELSE "UP"

(* The code of the response.                                               *)
Respond(r) ==
  /\ r \in Running /\ probe[r].said = 0
  /\ LET results == {probe[r].result[n] : n \in Checked(probe[r].kind)}
         good == CASE probe[r].kind = "live"  -> results \subseteq {"UP"}
                   [] probe[r].kind = "ready" -> OverallStatus(results) = "UP"
                   [] probe[r].kind = "full"  -> OverallStatus(results) \in {"UP", "DEGRADED"}
     IN "" \notin results /\ probe' = [probe EXCEPT ![r].said = IF good THEN 200 ELSE 503]
  /\ UNCHANGED <<registered, cached, ill, turns>>

HealthNext ==
  \/ Turn
  \/ \E r \in Probes :
       \/ \E kind \in {"live", "ready", "full"}, key \in TestKeys : Probe(r, kind, key)
       \/ r \in Running /\ (\/ Ping(r) \/ CheckDisk(r) \/ CheckConnection(r) \/ CheckQueues(r)
                            \/ CacheFails(r) \/ SetKey(r) \/ GetKey(r) \/ DeleteKey(r)
                            \/ TimesOut(r) \/ Respond(r))

-----------------------------------------------------------------------------
HealthTypeOK ==
  /\ cached \subseteq TestKeys /\ ill \subseteq Faults /\ turns \in 0 .. MaxTurns
  /\ \A r \in Running :
       /\ probe[r].said \in {0, 200, 503}
       /\ probe[r].result \in [Registered -> {"", "UP", "DOWN", "DEGRADED"}]

(* A probe tells what it could see.  The liveness and readiness probes     *)
(* answer 200 only if nothing was wrong with each thing checked at some    *)
(* time since they began; the full answer already if each thing worked at  *)
(* all ("Still operational"), for as long as a queue is without consumer,  *)
(* the disk full or memory short.  They answer 503 only for a fault they   *)
(* met, the full one only for one of the others, or when another check     *)
(* meddled with their key.                                                 *)
ProbesTellTheTruth ==
  \A r \in Running :
    LET checked == Checked(probe[r].kind)
        Pressure == IF probe[r].kind = "full" THEN {"memory", "space"} ELSE {}
        Trouble == IF probe[r].kind = "full" THEN {"memory", "space", "queues"} ELSE {}
    IN /\ probe[r].said = 200 =>
            \A n \in checked : FaultsOf(n) \ Trouble \subseteq probe[r].well
       /\ probe[r].said = 503 =>
            \/ probe[r].overlapped \/ Registered = {}
            \/ \E n \in checked : (FaultsOf(n) \ Pressure) \intersect probe[r].ill # {}
=============================================================================
