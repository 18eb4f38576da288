--------------------------- MODULE MCCoreLibrary ---------------------------
(***************************************************************************)
(* The parts of libs/core that keep state of their own, checked together:  *)
(* part says which of them a behaviour is about, the others stay as they   *)
(* were initialised.                                                       *)
(***************************************************************************)
EXTENDS Gateway, Bulkhead, RateLimiter, Retry, Snapshots, Cache, ApiVersions,
        EventVersions, Messaging

VARIABLE part

resilience == <<bulkheadVars, limiterVars, retryVars>>
persistence == <<snapshotVars, cacheVars>>
versioning == <<apiVars, eventVersionVars>>
vars == <<part, gatewayVars, resilience, persistence, versioning, messagingVars>>

Parts == {"breaker", "gateway", "bulkhead", "limiter", "retry", "snapshots", "cache", "api", "events", "messaging"}

Init == /\ part \in Parts
        /\ GatewayInit /\ BulkheadInit /\ LimiterInit /\ RetryInit
        /\ SnapshotInit /\ CacheInit /\ ApiInit /\ EventVersionInit
        /\ MessagingInit /\ (part # "messaging" => connects = 1)
        /\ part # "limiter" => strategy = "fixed-window"
        /\ part # "retry" => exponential = TRUE

Gateways ==
  /\ UNCHANGED <<resilience, persistence, versioning, messagingVars>>
  /\ \/ part = "breaker" /\ BreakerNext /\ UNCHANGED <<request, gathering>>
     \/ part = "gateway" /\ GatewayNext

Resilience ==
  /\ UNCHANGED <<gatewayVars, persistence, versioning, messagingVars>>
  /\ \/ part = "bulkhead" /\ BulkheadNext /\ UNCHANGED <<limiterVars, retryVars>>
     \/ part = "limiter" /\ LimiterNext /\ UNCHANGED <<bulkheadVars, retryVars>>
     \/ part = "retry" /\ RetryNext /\ UNCHANGED <<bulkheadVars, limiterVars>>

Persistence ==
  /\ UNCHANGED <<gatewayVars, resilience, versioning, messagingVars>>
  /\ \/ part = "snapshots" /\ SnapshotNext /\ UNCHANGED cacheVars
     \/ part = "cache" /\ CacheNext /\ UNCHANGED snapshotVars

Versioning ==
  /\ UNCHANGED <<gatewayVars, resilience, persistence, messagingVars>>
  /\ \/ part = "api" /\ ApiNext /\ UNCHANGED eventVersionVars
     \/ part = "events" /\ EventVersionNext /\ UNCHANGED apiVars

Queues ==
  /\ UNCHANGED <<gatewayVars, resilience, persistence, versioning>>
  /\ part = "messaging" /\ MessagingNext

Next == UNCHANGED part /\ (Gateways \/ Resilience \/ Persistence \/ Versioning \/ Queues)

Fairness ==
  \/ part = "breaker" /\ BreakerFairness
  \/ part = "gateway" /\ GatewayFairness
  \/ part = "bulkhead" /\ BulkheadFairness
  \/ part \in {"limiter", "snapshots", "cache", "api", "events"}
  \/ part = "retry" /\ WF_retryVars(RetryNext)
  \/ part = "messaging" /\ MessagingFairness

Spec == Init /\ [][Next]_vars /\ Fairness

(* Every part keeps to the types of its state.                             *)
CoreTypeOK ==
  /\ part \in Parts
  /\ GatewayTypeOK /\ BulkheadTypeOK /\ LimiterTypeOK /\ RetryTypeOK
  /\ SnapshotTypeOK /\ CacheTypeOK /\ ApiTypeOK /\ EventVersionTypeOK
  /\ MessagingTypeOK

(* However calls return, time out or are rejected, in whatever order, the  *)
(* counters of the circuit breaker and of the bulkhead tell the truth.     *)
CountersAreRight == CountersMatchState /\ NoIdleCapacity

(* Versions of the API and of events lead to a version that is served, and *)
(* what is registered later does not change where the others lead.         *)
VersionsHold == [](ServedVersionIsAlive /\ VersionsLeadOn) /\ RegisteringIsLocal

-----------------------------------------------------------------------------
MCRoutes == {[name |-> "orders", prefix |-> <<"api">>, enabled |-> TRUE],
             [name |-> "users", prefix |-> <<"api", "users">>, enabled |-> TRUE],
             [name |-> "users", prefix |-> <<"old">>, enabled |-> FALSE]}
MCPaths == {<<"api", "x">>, <<"api", "users", "x">>, <<"old">>}

MCKey(family, type, early) ==
  [family |-> family, type |-> type, from |-> "Truck", id |-> "x", ttl |-> early, early |-> early]
MCKeys == {MCKey("aggregate", "Truck", FALSE), MCKey("query", "Truck", FALSE),
           MCKey("query", "GetTrucksByStatus", TRUE)}
MCReleases == {<<1, 0, 0>>, <<1, 2, 0>>, <<2, 0, 1>>}
MCAsked == MCReleases \union {<<1, 1, 0>>, <<3, 0, 0>>}

MCSchema(v, min, max) == [version |-> v, min |-> min, max |-> max]
MCSchemas == {MCSchema(<<1, 0, 0>>, <<1, 0, 0>>, <<1, 9, 0>>), MCSchema(<<1, 2, 0>>, <<1, 0, 0>>, <<1, 2, 0>>),
              MCSchema(<<2, 0, 0>>, <<1, 1, 0>>, <<2, 0, 0>>), MCSchema(<<2, 0, 1>>, <<1, 2, 1>>, <<2, 0, 1>>),
              MCSchema(<<3, 1, 2>>, <<3, 0, 0>>, <<3, 1, 0>>)}
=============================================================================
