------------------------------- MODULE Cache --------------------------------
(***************************************************************************)
(* RedisCache with what uses it: the Cacheable and CacheEvict decorators,  *)
(* CacheInvalidationStrategy and CacheWarmingService.  Readers fill the    *)
(* cache from a source, writers change the source and evict; every call of *)
(* the cache is an await of its own, and KEYS and DEL are two calls.  Of a *)
(* value only matters whether it is what the source holds now.             *)
(***************************************************************************)
EXTENDS Naturals, Sequences, FiniteSets

CONSTANTS Keys,       \* the keys: records [family, type, from, id, ttl, early];
            \* type: what follows the family in its name; from: the type
            \* of the aggregates it is taken from; ttl: it expires;
            \* early: it is evicted with beforeInvocation
          CacheUsers  \* methods that may be under way at the same time

(* The families of CacheInvalidationStrategy; @CacheEvict has one option   *)
(* beforeInvocation for all the keys that its pattern finds.               *)
ASSUME CacheAssumption ==
  \A k, j \in Keys : /\ k.family \in {"aggregate", "list", "query", "company"}
                     /\ k.family = "aggregate" => k.type = k.from
                     /\ k.early \in BOOLEAN
                     /\ j.family = k.family /\ j.type = k.type => j.early = k.early

VARIABLES
  entry,    \* entry[k]: what the cache holds of k
  user,     \* user[u]: the method u runs
  raced     \* the keys whose entry was out of date when it was stored, or
            \* whose eviction failed

cacheVars == <<entry, user, raced>>

Values == {"absent", "current", "outdated"}

(* for: the key of a reader; plan: the calls a writer has still to make,   *)
(* each [op, keys]: write (the method, which changes what is cached under  *)
(* keys), keys (KEYS pattern) or del (DEL).                                *)
Reader(step, keys, val) == [step |-> step, for |-> keys, val |-> val, plan |-> <<>>]
Writer(plan) == [step |-> "writing", for |-> {}, val |-> "absent", plan |-> plan]
AtRest == Reader("idle", {}, "absent")

(* What a pattern such as query:<type>:* finds.                            *)
KeysOf(family, type) == {k \in Keys : k.family = family /\ k.type = type}
Held == {k \in Keys : entry[k] # "absent"}

Becomes(u, state) == user' = [user EXCEPT ![u] = state]

-----------------------------------------------------------------------------
CacheInit ==
  /\ entry = [k \in Keys |-> "absent"]
  /\ user = [u \in CacheUsers |-> AtRest]
  /\ raced = {}

(* Cacheable: on a miss the method is called.  warm calls it anyway.       *)
GetMiss(u, k) ==
  /\ user[u] = AtRest /\ k \notin Held
  /\ Becomes(u, Reader("loading", {k}, "absent"))
  /\ UNCHANGED <<entry, raced>>

Warm(u, k) ==
  /\ user[u] = AtRest
  /\ Becomes(u, Reader("loading", {k}, "absent"))
  /\ UNCHANGED <<entry, raced>>

(* The method reads the source; or it throws or condition refuses its      *)
(* result.                                                                 *)
Load(u) ==
  /\ user[u].step = "loading"
  /\ \/ Becomes(u, Reader("storing", user[u].for, "current"))
     \/ Becomes(u, AtRest)
  /\ UNCHANGED <<entry, raced>>

SetEntry(u) ==
  /\ user[u].step = "storing"
  /\ \E k \in user[u].for : entry' = [entry EXCEPT ![k] = user[u].val]
  /\ raced' = IF user[u].val = "outdated" THEN raced \union user[u].for ELSE raced \ user[u].for
  /\ Becomes(u, AtRest)

(* A ttl that passes.                                                      *)
ExpireEntry(k) ==
  /\ k.ttl /\ k \in Held
  /\ entry' = [entry EXCEPT ![k] = "absent"]
  /\ raced' = raced \ {k}
  /\ UNCHANGED user

-----------------------------------------------------------------------------
Call(op, keys) == [op |-> op, keys |-> keys]

(* CacheEvict, by key or by pattern.                                       *)
EvictPlan(call, early) ==
  LET write == Call("write", call.keys)
  IN IF early THEN <<call, write>> ELSE <<write, call>>

(* What is taken from aggregate k: itself, and the lists, queries and      *)
(* entries of companies that look at aggregates of its type.               *)
Affected(k) == {j \in Keys : j = k \/ (j.family # "aggregate" /\ j.from = k.type)}

(* A slip this code could have had: queries are invalidated before the     *)
(* write.                                                                  *)
FaultyRelatedPlan(k) ==
  <<Call("keys", KeysOf("query", k.type)), Call("write", Affected(k)), Call("del", {k}),
    Call("keys", KeysOf("list", k.type))>>

(* An aggregate changes, then invalidateRelated: of the queries it evicts  *)
(* those that have the name of the aggregate type, and no others.          *)
RelatedPlan(k) ==
  <<Call("write", Affected(k)), Call("del", {k}), Call("keys", KeysOf("list", k.type)),
    Call("keys", KeysOf("query", k.type))>>

Begin(u, plan) ==
  /\ user[u] = AtRest
  /\ Becomes(u, Writer(plan))
  /\ UNCHANGED <<entry, raced>>

Evict(u) == \/ \E k \in Keys : Begin(u, EvictPlan(Call("del", {k}), k.early))
            \/ \E k \in Keys : Begin(u, EvictPlan(Call("keys", KeysOf(k.family, k.type)), k.early))

InvalidateRelated(u) ==
  \E k \in Keys : k.family = "aggregate" /\ Begin(u, RelatedPlan(k))

Clear(u) == Begin(u, <<Call("keys", Keys)>>)

Upcoming(u) == Head(user[u].plan)
Remaining(plan) == IF plan = <<>> THEN AtRest ELSE Writer(plan)

(* The method writes: what is cached of it, or was read before, is now out *)
(* of date.  If it throws, nothing is evicted after it.                    *)
Outdate(val) == IF val = "current" THEN "outdated" ELSE val

RunMethod(u) ==
  LET changed == Upcoming(u).keys
  IN /\ user[u].step = "writing" /\ Upcoming(u).op = "write"
     /\ \/ /\ entry' = [k \in Keys |-> IF k \in changed THEN Outdate(entry[k]) ELSE entry[k]]
           /\ user' = [w \in CacheUsers |->
                IF w = u THEN Remaining(Tail(user[u].plan))
                ELSE IF user[w].for \intersect changed # {} THEN [user[w] EXCEPT !.val = Outdate(@)]
                ELSE user[w]]
        \/ Becomes(u, AtRest) /\ UNCHANGED entry
     /\ UNCHANGED raced

(* delPattern, first call: with nothing found there is no second.          *)
FindKeys(u) ==
  LET found == Upcoming(u).keys \intersect Held
      rest == Tail(user[u].plan)
  IN /\ user[u].step = "writing" /\ Upcoming(u).op = "keys"
     /\ Becomes(u, Remaining(IF found = {} THEN rest ELSE <<Call("del", found)>> \o rest))
     /\ UNCHANGED <<entry, raced>>

Del(u) ==
  LET keys == Upcoming(u).keys
  IN /\ user[u].step = "writing" /\ Upcoming(u).op = "del"
     /\ entry' = [k \in Keys |-> IF k \in keys THEN "absent" ELSE entry[k]]
     /\ raced' = raced \ keys
     /\ Becomes(u, Remaining(Tail(user[u].plan)))

Owed(u, k) ==
  \E i \in DOMAIN user[u].plan : user[u].plan[i].op # "write" /\ k \in user[u].plan[i].keys

(* Redis fails: the error reaches the caller, nothing else is evicted.     *)
EvictionFails(u) ==
  /\ user[u].step = "writing" /\ Upcoming(u).op # "write"
  /\ raced' = raced \union {k \in Keys : entry[k] = "outdated" /\ Owed(u, k)}
  /\ Becomes(u, AtRest)
  /\ UNCHANGED entry

CacheNext ==
  \/ \E u \in CacheUsers :
       \/ \E k \in Keys : GetMiss(u, k) \/ Warm(u, k)
       \/ Load(u) \/ SetEntry(u)
       \/ Evict(u) \/ InvalidateRelated(u) \/ Clear(u)
       \/ RunMethod(u) \/ FindKeys(u) \/ Del(u) \/ EvictionFails(u)
  \/ \E k \in Keys : ExpireEntry(k)

CacheSpec == CacheInit /\ [][CacheNext]_cacheVars

-----------------------------------------------------------------------------
CacheTypeOK ==
  /\ entry \in [Keys -> Values]
  /\ \A u \in CacheUsers :
       /\ user[u].step \in {"idle", "loading", "storing", "writing"}
       /\ user[u].val \in Values
       /\ \A i \in DOMAIN user[u].plan : user[u].plan[i].keys \subseteq Keys
  /\ raced \subseteq Keys

(* What invalidateRelated reaches when an aggregate changes that k is taken*)
(* from: not the entries of companies, nor a query that has a name of its  *)
(* own, as GetTrucksByStatus has: these go with their ttl, if they have it.*)
EvictionReaches(k) == k.family # "company" /\ k.type = k.from

(* With eviction after the method, an entry that eviction reaches is out of*)
(* date only while the writer has yet to evict it, because its eviction    *)
(* failed, or because its value was read before the write and stored after *)
(* the eviction.                                                           *)
OutdatedEntryIsOwedOrRaced ==
  \A k \in Keys : entry[k] = "outdated" /\ ~k.early /\ EvictionReaches(k) =>
    \/ k \in raced
    \/ \E u \in CacheUsers : Owed(u, k)
=============================================================================
