--------------------------- MODULE EventVersions ----------------------------
(***************************************************************************)
(* Versions of stored messages: the EventUpcasterRegistry, which brings an *)
(* event to a later version, and the MessageVersionRegistry, for one event *)
(* type each.  A version of a schema is <<major, minor, patch>>, and there *)
(* is one schema for each.                                                 *)
(***************************************************************************)
EXTENDS Naturals, FiniteSets

CONSTANTS EventVersions,  \* versions of the event
          Schemas         \* schemas: records [version, min, max]; compatibleWith
                          \* is the range from min to max, empty if there is none

ASSUME EventVersionsAssumption ==
  /\ EventVersions \subseteq Nat \ {0} /\ IsFiniteSet(EventVersions)
  /\ \A s \in Schemas : {s.version, s.min, s.max} \subseteq Nat \X Nat \X Nat
  /\ \A s, t \in Schemas : s.version = t.version => s = t

VARIABLES
  upcaster,  \* upcaster[v]: toVersion of the upcaster from version v, or None
  schemas    \* the registered schemas

eventVersionVars == <<upcaster, schemas>>

None == 0
Registered == {v \in EventVersions : upcaster[v] # None}

-----------------------------------------------------------------------------
EventVersionInit == upcaster = [v \in EventVersions |-> None] /\ schemas = {}

(* register overwrites the upcaster there was from that version.           *)
RegisterUpcaster(v, w) ==
  /\ upcaster' = [upcaster EXCEPT ![v] = w]
  /\ UNCHANGED schemas

RegisterSchema(s) ==
  /\ s \notin schemas
  /\ schemas' = schemas \union {s}
  /\ UNCHANGED upcaster

EventVersionNext ==
  \/ \E v, w \in EventVersions : RegisterUpcaster(v, w)
  \/ \E s \in Schemas : RegisterSchema(s)

EventVersionSpec == EventVersionInit /\ [][EventVersionNext]_eventVersionVars

-----------------------------------------------------------------------------
(* findUpcastPath visits one version after the other until it meets one    *)
(* again: no more than there are.                                          *)
Visited(from) ==
  LET visit[n \in 0 .. Cardinality(EventVersions)] ==
        IF n = 0 THEN {from}
        ELSE visit[n - 1] \union {upcaster[v] : v \in Registered \intersect visit[n - 1]}
  IN visit[Cardinality(EventVersions)]

(* upcast: the version of the event it returns, or None if it throws.      *)
Upcast(from, target) ==
  IF from = target THEN from
  ELSE IF from < target /\ target \in Visited(from) THEN target
  ELSE None

HasUpcastPath(from, target) == from = target \/ target \in Visited(from)

-----------------------------------------------------------------------------
PastMinor(v, w) == v[1] > w[1] \/ (v[1] = w[1] /\ v[2] > w[2])
SameMinor(v, w) == v[1] = w[1] /\ v[2] = w[2]
Below(v, w) == PastMinor(w, v) \/ (SameMinor(v, w) /\ v[3] <= w[3])
InRange(v, s) == Below(s.min, v) /\ Below(v, s.max)

SchemasOf(v) == {s \in schemas : s.version = v}

(* areVersionsCompatible *)
AreCompatible(v, w) ==
  /\ SchemasOf(v) # {} /\ SchemasOf(w) # {}
  /\ \/ v = w
     \/ \E s \in SchemasOf(v) : InRange(w, s)
     \/ \E s \in SchemasOf(w) : InRange(v, s)

(* findCompatibleSchema: the schema itself, or the newest that covers it.  *)
FindCompatibleSchema(v) ==
  LET exact == SchemasOf(v)
      covering == {s \in schemas : InRange(v, s)}
      candidates == IF exact # {} THEN exact ELSE covering
  IN {s \in candidates : \A t \in candidates : Below(t.version, s.version)}

(* A slip this code could have had: the target is left out.                *)
FaultyOnTheWay(from, to) ==
  {v \in {s.version : s \in schemas} :
     \/ from[1] < to[1] /\ PastMinor(v, from) /\ PastMinor(to, v)
     \/ from[1] > to[1] /\ PastMinor(from, v) /\ PastMinor(v, to)}

(* getMigrationPath: the versions it returns, the oldest first when it     *)
(* leads forwards and the newest first when it leads backwards.  It does   *)
(* not look at patches, and within one major there is no path.             *)
OnTheWay(from, to) ==
  {v \in {s.version : s \in schemas} :
     \/ from[1] < to[1] /\ PastMinor(v, from) /\ ~PastMinor(v, to)
     \/ from[1] > to[1] /\ PastMinor(from, v) /\ ~PastMinor(to, v)}

(* The version the path ends at.                                           *)
EndOfPath(from, to) ==
  {v \in OnTheWay(from, to) : \A w \in OnTheWay(from, to) :
     IF from[1] < to[1] THEN Below(w, v) ELSE Below(v, w)}

-----------------------------------------------------------------------------
EventVersionTypeOK ==
  /\ upcaster \in [EventVersions -> EventVersions \union {None}]
  /\ schemas \subseteq Schemas

(* Where the upcasters lead, whatever their order and if they run in       *)
(* circles: a set that holds the first version and is closed under them.   *)
LeadsTo(from, target) ==
  \A closed \in SUBSET EventVersions :
    from \in closed /\ (\A v \in closed \intersect Registered : upcaster[v] \in closed)
      => target \in closed

(* An event is brought to a later version exactly when upcasters lead      *)
(* there.  A migration between registered schemas of two majors reaches the*)
(* minor of its target, yet ends at the newest patch of it when it leads   *)
(* forwards and at the oldest when it leads backwards: at its target only  *)
(* if that is the one.  The way back passes the same versions, but for the *)
(* minors at the two ends.                                                 *)
VersionsLeadOn ==
  /\ \A v, w \in EventVersions : v < w => (Upcast(v, w) = w <=> LeadsTo(v, w))
  /\ \A s, t \in schemas :
       LET from == s.version
           to == t.version
           Patches == {w \in {r.version : r \in schemas} : SameMinor(w, to)}
       IN from[1] # to[1] =>
            /\ to \in OnTheWay(from, to) /\ \A v \in EndOfPath(from, to) : SameMinor(v, to)
            /\ to \in EndOfPath(from, to) <=>
                 \A w \in Patches : IF from[1] < to[1] THEN Below(w, to) ELSE Below(to, w)
            /\ {v \in OnTheWay(from, to) : ~SameMinor(v, to)}
                 = {v \in OnTheWay(to, from) : ~SameMinor(v, from)}

Mentioned == UNION {{s.version, s.min, s.max} : s \in Schemas}

(* Registering an upcaster, or overwriting one, breaks or opens paths only *)
(* from versions that lead to the one it starts from.  Registering a schema*)
(* leaves every version its compatible schema or gives it the new one; the *)
(* version it is registered for is compatible with the schema that covered *)
(* it so far.                                                              *)
RegisteringIsLocal ==
  [][/\ \A u \in EventVersions : upcaster'[u] # upcaster[u] =>
          \A v, w \in EventVersions : ~HasUpcastPath(v, u) => (HasUpcastPath(v, w)' <=> HasUpcastPath(v, w))
     /\ \A v \in Mentioned : FindCompatibleSchema(v) # {} =>
          FindCompatibleSchema(v)' \in {FindCompatibleSchema(v)} \union {{s} : s \in schemas' \ schemas}
     /\ \A s \in schemas' \ schemas : \A t \in FindCompatibleSchema(s.version) :
          AreCompatible(s.version, t.version)'
    ]_eventVersionVars
=============================================================================
