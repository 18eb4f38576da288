---------------------------- MODULE ApiVersions -----------------------------
(***************************************************************************)
(* API versioning of libs/core: the VersionManager through its life and    *)
(* what the VersionInterceptor answers to a request.  A version is a triple*)
(* <<major, minor, patch>>.                                                *)
(***************************************************************************)
EXTENDS Naturals, Sequences

CONSTANTS Releases,   \* the versions that may be registered
          Asked       \* the versions clients ask for

ASSUME ReleasesAssumption == Releases \union Asked \subseteq Nat \X Nat \X Nat

VARIABLES
  status,         \* status[v]: what the manager knows of version v
  defaultVersion  \* setDefaultVersion, or NoVersion

apiVars == <<status, defaultVersion>>

NoVersion == <<>>
Malformed == <<0>>

(* ALPHA and BETA differ from STABLE in the same way.                      *)
Statuses == {"BETA", "STABLE", "DEPRECATED", "SUNSET"}
Known == {v \in Releases : status[v] # "none"}
StatusOf(v) == IF v \in Releases THEN status[v] ELSE "none"

(* compareVersions(v, w) > 0 *)
Newer(v, w) ==
  \/ v[1] > w[1]
  \/ v[1] = w[1] /\ v[2] > w[2]
  \/ v[1] = w[1] /\ v[2] = w[2] /\ v[3] > w[3]

Newest(versions) ==
  IF versions = {} THEN NoVersion
  ELSE CHOOSE v \in versions : \A w \in versions \ {v} : Newer(v, w)

Stable == {v \in Releases : status[v] = "STABLE"}

-----------------------------------------------------------------------------
Compatible(v, warned) == [compatible |-> TRUE, version |-> v, warned |-> warned]
Incompatible(v) == [compatible |-> FALSE, version |-> v, warned |-> TRUE]

(* findCompatibleVersion: the latest stable one with the same major.       *)
FindCompatible(v) == Newest({w \in Stable : w[1] = v[1]})

(* What no version asked for stands for.                                   *)
Implied == IF defaultVersion # NoVersion THEN defaultVersion ELSE Newest(Stable)

(* resolveVersion, for a version or the one implied.                       *)
Resolve(v) ==
  IF StatusOf(v) = "none"
  THEN IF FindCompatible(v) = NoVersion THEN Incompatible(v)
       ELSE Compatible(FindCompatible(v), TRUE)
  ELSE IF StatusOf(v) = "SUNSET" THEN Incompatible(v)
  ELSE Compatible(v, StatusOf(v) = "DEPRECATED")

(* The interceptor: extractVersion and what follows from it.               *)
Intercept(asked) ==
  LET v == IF asked = NoVersion THEN Implied ELSE asked
  IN IF asked = Malformed THEN [answer |-> "400"]
     ELSE IF v = NoVersion THEN [answer |-> "500"]
     ELSE IF ~Resolve(v).compatible THEN [answer |-> "410"]
     ELSE [answer |-> "served", version |-> Resolve(v).version, warned |-> Resolve(v).warned]

-----------------------------------------------------------------------------
ApiInit ==
  /\ status = [v \in Releases |-> "none"]
  /\ defaultVersion = NoVersion

(* registerVersion, again for a version it knows as well.                  *)
RegisterVersion(v, s) ==
  /\ status' = [status EXCEPT ![v] = s]
  /\ UNCHANGED defaultVersion

SetDefaultVersion(v) == defaultVersion' = v /\ UNCHANGED status

Deprecate(v) ==
  /\ v \in Known
  /\ status' = [status EXCEPT ![v] = "DEPRECATED"]
  /\ UNCHANGED defaultVersion

Sunset(v) ==
  /\ v \in Known
  /\ status' = [status EXCEPT ![v] = "SUNSET"]
  /\ UNCHANGED defaultVersion

ApiNext ==
  \E v \in Releases : \/ \E s \in Statuses : RegisterVersion(v, s)
                      \/ SetDefaultVersion(v) \/ Deprecate(v) \/ Sunset(v)

ApiSpec == ApiInit /\ [][ApiNext]_apiVars

-----------------------------------------------------------------------------
ApiTypeOK ==
  /\ status \in [Releases -> Statuses \union {"none"}]
  /\ defaultVersion \in Releases \union {NoVersion}

(* Whatever was registered, deprecated and sunset, in any order: who asks  *)
(* for a version is served by that one or, if it never existed, by a stable*)
(* one of the same major; nobody is served by a sunset version, who gets   *)
(* anything but a version in good standing is told, and a stable default   *)
(* serves those who ask for none.                                          *)
ServedVersionIsAlive ==
  \A asked \in Asked \union {NoVersion, Malformed} :
    LET reply == Intercept(asked)
    IN IF reply.answer = "served"
       THEN /\ StatusOf(reply.version) \in Statuses \ {"SUNSET"}
            /\ StatusOf(reply.version) = "DEPRECATED" => reply.warned
            /\ asked # NoVersion => /\ reply.version[1] = asked[1]
                                    /\ reply.version = asked \/ reply.warned
       ELSE /\ StatusOf(asked) \in {"none", "SUNSET"}
            /\ asked = NoVersion => defaultVersion \notin Stable
=============================================================================
