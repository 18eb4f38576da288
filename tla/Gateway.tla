------------------------------ MODULE Gateway -------------------------------
(***************************************************************************)
(* The API gateway: routing, the proxy with one circuit breaker per service*)
(* and the aggregation of several requests.  A call of the breaker is a    *)
(* fetch with a timer that aborts it.  fetch resolves whatever the status  *)
(* of the response is: a service that answers 500 succeeds for its breaker.*)
(***************************************************************************)
EXTENDS CircuitBreaker, Sequences, SequencesExt

CONSTANTS Routes,    \* the configured routes: records [name, prefix, enabled]
          Paths      \* paths clients ask for; paths and prefixes are sequences

ASSUME GatewayAssumption ==
  /\ \A r \in Routes : r.name \in Services /\ r.enabled \in BOOLEAN
  /\ {Len(p) : p \in Paths \union {r.prefix : r \in Routes}} \subseteq Nat

VARIABLES
  request,  \* request[c]: what became of client request c
  members,  \* the requests combined by the aggregated request under way, if any
  failFast  \* config.failFast of it

gatewayVars == <<breaker, call, doomed, healthy, manual, request, members, failFast>>
gathering == <<members, failFast>>

(* response: passed on with the status the service gave it.                *)
Failures == {"404 not found", "503 unavailable", "504 timeout"}
Replies == {"response"} \union Failures
Requests == {"idle", "waiting"} \union Replies

-----------------------------------------------------------------------------
(* RoutingService.findRoute: the longest prefix among the enabled routes.  *)
MatchingRoutes(path) == {r \in Routes : r.enabled /\ IsPrefix(r.prefix, path)}
FindRoute(path) ==
  IF MatchingRoutes(path) = {} THEN NoService
  ELSE (CHOOSE r \in MatchingRoutes(path) :
          \A q \in MatchingRoutes(path) : Len(q.prefix) <= Len(r.prefix)).name

(* What a request gets at once: no route, no admission, or a fetch.        *)
FirstReply(s) ==
  IF s = NoService THEN "404 not found"
  ELSE IF LetsIn(breaker[s]) THEN "waiting" ELSE "503 unavailable"

-----------------------------------------------------------------------------
GatewayInit ==
  /\ BreakerInit
  /\ request = [c \in Calls |-> "idle"]
  /\ members = {} /\ failFast = FALSE

(* proxyRequest and forward, up to the fetch; for Aggregate the requests of*)
(* all endpoints go out before anything else happens.                      *)
SendAll(to) ==
  LET sent == {c \in DOMAIN to : FirstReply(to[c]) = "waiting"}
      asked == {to[c] : c \in sent}
  IN /\ breaker' = [s \in Services |-> IF s \in asked THEN Entered(breaker[s]) ELSE breaker[s]]
     /\ call' = [c \in Calls |-> IF c \in sent THEN to[c] ELSE call[c]]
     /\ \E fails \in SUBSET {c \in sent : to[c] \notin healthy} : doomed' = doomed \union fails
     /\ request' = [c \in Calls |-> IF c \in DOMAIN to THEN FirstReply(to[c]) ELSE request[c]]
     /\ UNCHANGED <<healthy, manual>>

ProxyRequest(c, path) ==
  /\ request[c] # "waiting" /\ c \notin members
  /\ SendAll([d \in {c} |-> FindRoute(path)])
  /\ UNCHANGED gathering

Aggregate(path) ==
  /\ members = {} /\ \A c \in Calls : request[c] # "waiting"
  /\ SendAll([c \in Calls |-> FindRoute(path[c])])
  /\ members' = Calls
  /\ failFast' \in BOOLEAN

(* makeHttpRequest: the response; an error of fetch; the timer, which      *)
(* aborts the fetch.                                                       *)
Respond(c) ==
  /\ request[c] = "waiting" /\ Succeed(c)
  /\ request' = [request EXCEPT ![c] = "response"]
  /\ UNCHANGED gathering

FetchFails(c) ==
  /\ request[c] = "waiting" /\ Fail(c)
  /\ request' = [request EXCEPT ![c] = "503 unavailable"]
  /\ UNCHANGED gathering

(* A slip this code could have had: the timer is cleared as soon as the    *)
(* fetch has started.                                                      *)
FaultyAbort(c) ==
  /\ request[c] = "waiting" /\ call[c] = NoService /\ Fail(c)
  /\ request' = [request EXCEPT ![c] = "504 timeout"]
  /\ UNCHANGED gathering

Abort(c) ==
  /\ request[c] = "waiting" /\ Fail(c)
  /\ request' = [request EXCEPT ![c] = "504 timeout"]
  /\ UNCHANGED gathering

(* The end of an aggregated request: all results, the first failure if     *)
(* that is to fail it, or its timer.  The fetches under way run on.        *)
EndGather ==
  /\ members # {} /\ members' = {}
  /\ failFast' = FALSE
  /\ UNCHANGED <<breakerVars, request>>

Combine ==
  /\ \A c \in members : request[c] \in Replies
  /\ failFast => \A c \in members : request[c] \notin Failures
  /\ EndGather

FailFast ==
  /\ failFast /\ \E c \in members : request[c] \in Failures
  /\ EndGather

GatherTimeout == EndGather

-----------------------------------------------------------------------------
TimeoutOver(s) == ResetTimeout(s) /\ UNCHANGED <<request, gathering>>

GatewayNext ==
  \/ \E c \in Calls : \/ \E path \in Paths : ProxyRequest(c, path)
                      \/ Respond(c) \/ FetchFails(c) \/ Abort(c)
  \/ \E path \in [Calls -> Paths] : Aggregate(path)
  \/ Combine \/ FailFast \/ GatherTimeout
  \/ \E s \in Services : TimeoutOver(s)

GatewaySpec == GatewayInit /\ [][GatewayNext]_gatewayVars

(* Fairness: the timers fire, and promises that can settle do.  A fetch    *)
(* need neither resolve nor reject by itself.                              *)
GatewayFairness ==
  /\ \A c \in Calls : WF_gatewayVars(Respond(c)) /\ WF_gatewayVars(Abort(c))
  /\ WF_gatewayVars(Combine \/ FailFast \/ GatherTimeout)

-----------------------------------------------------------------------------
GatewayTypeOK ==
  /\ BreakerTypeOK
  /\ request \in [Calls -> Requests]
  /\ members \subseteq Calls
  /\ failFast \in BOOLEAN

(* Every client gets an answer, of one service or of several, whether the  *)
(* services answer or hang and whatever state their breakers are in.       *)
EveryClientIsAnswered ==
  /\ \A c \in Calls : request[c] = "waiting" ~> request[c] # "waiting"
  /\ members # {} ~> members = {}
=============================================================================
