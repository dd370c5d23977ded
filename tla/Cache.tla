------------------------------- MODULE Cache -------------------------------
(***************************************************************************)
(* The in-process cache and RememberJSON (cache/cache.go).                 *)
(*                                                                         *)
(* The values cached under a key are versions of a source the application  *)
(* reads in RememberJSON's load; it changes the source and then forgets    *)
(* the key.  Get reads under the read lock and, when the entry it read is  *)
(* over, deletes under the write lock, so other callers run in between.    *)
(***************************************************************************)
EXTENDS Integers, FiniteSets

CONSTANTS CacheKeys, CacheCallers,
          Lifetime,             \* the lifetime RememberJSON is given; 0: for ever
          MaxCacheVersion, MaxCacheTime   \* bounds of the model

ASSUME CacheAssumption == Lifetime \in Int

VARIABLES cacheNow, cacheEntries, source, cacheCaller,
          forgotten,  \* history: the source's version at the key's last Forget
          late        \* history: callers that had loaded when that Forget ran

cacheVars == <<cacheNow, cacheEntries, source, cacheCaller, forgotten, late>>

NoValue == [value |-> 0, expiresAt |-> 0, tainted |-> FALSE]
CacheIdle == [pc |-> "idle", key |-> CHOOSE k \in CacheKeys : TRUE, read |-> NoValue, clock |-> 0]

\* An entry without expiry has the zero time.
Over(e, t) == e # NoValue /\ e.expiresAt # 0 /\ t >= e.expiresAt

CacheInit ==
    /\ cacheNow = 1
    /\ cacheEntries = [k \in CacheKeys |-> NoValue]
    /\ source = [k \in CacheKeys |-> 1]
    /\ cacheCaller = [c \in CacheCallers |-> CacheIdle]
    /\ forgotten = [k \in CacheKeys |-> 0]
    /\ late = {}

Goto(c, pc) == cacheCaller' = [cacheCaller EXCEPT ![c].pc = pc]

\* Get, under the read lock.
Read(c, k) ==
    /\ cacheCaller[c].pc = "idle"
    /\ cacheCaller' = [cacheCaller EXCEPT ![c] = [pc |-> "read", key |-> k, read |-> cacheEntries[k], clock |-> 0]]
    /\ UNCHANGED <<cacheNow, cacheEntries, source, forgotten, late>>

\* A hit is returned.
Hit(c) ==
    /\ cacheCaller[c].pc = "read"
    /\ cacheCaller[c].read # NoValue /\ ~Over(cacheCaller[c].read, cacheNow)
    /\ Goto(c, "idle")
    /\ UNCHANGED <<cacheNow, cacheEntries, source, forgotten, late>>

\* RememberJSON loads after a miss.
Miss(c) ==
    /\ cacheCaller[c].pc = "read"
    /\ cacheCaller[c].read = NoValue
    /\ Goto(c, "load")
    /\ UNCHANGED <<cacheNow, cacheEntries, source, forgotten, late>>

FindsOver(c) ==
    /\ cacheCaller[c].pc = "read"
    /\ Over(cacheCaller[c].read, cacheNow)
    /\ Goto(c, "evict")
    /\ UNCHANGED <<cacheNow, cacheEntries, source, forgotten, late>>

Evictable(e, t) == Over(e, t)

Evict(c) ==
    LET k == cacheCaller[c].key IN
    /\ cacheCaller[c].pc = "evict"
    /\ cacheEntries' = [cacheEntries EXCEPT ![k] = IF Evictable(@, cacheNow) THEN NoValue ELSE @]
    /\ Goto(c, "load")
    /\ UNCHANGED <<cacheNow, source, forgotten, late>>

\* load reads the source (or fails, and nothing is stored).
Load(c) ==
    /\ cacheCaller[c].pc = "load"
    /\ \/ cacheCaller' = [cacheCaller EXCEPT ![c].pc = "put", ![c].clock = cacheNow,
                       ![c].read = [NoValue EXCEPT !.value = source[cacheCaller[c].key]]]
       \/ cacheCaller' = [cacheCaller EXCEPT ![c] = CacheIdle]
    /\ UNCHANGED <<cacheNow, cacheEntries, source, forgotten, late>>

\* Put computes the expiry before it takes the lock.
CacheStamp(c) ==
    /\ cacheCaller[c].pc = "put"
    /\ cacheCaller' = [cacheCaller EXCEPT ![c].pc = "store", ![c].clock = cacheNow]
    /\ UNCHANGED <<cacheNow, cacheEntries, source, forgotten, late>>

Put(c) ==
    LET k == cacheCaller[c].key IN
    /\ cacheCaller[c].pc = "store"
    /\ cacheEntries' = [cacheEntries EXCEPT ![k] =
         [value |-> cacheCaller[c].read.value, tainted |-> c \in late,
          expiresAt |-> IF Lifetime > 0 THEN cacheCaller[c].clock + Lifetime ELSE 0]]
    /\ late' = late \ {c}
    /\ cacheCaller' = [cacheCaller EXCEPT ![c] = CacheIdle]
    /\ UNCHANGED <<cacheNow, source, forgotten>>

\* The application changes what load reads.
ChangeSource(k) ==
    /\ source[k] < MaxCacheVersion
    /\ source' = [source EXCEPT ![k] = @ + 1]
    /\ UNCHANGED <<cacheNow, cacheEntries, cacheCaller, forgotten, late>>

MutantForgetAll(S) ==
    /\ cacheEntries' = [k \in CacheKeys |-> IF k \in S /\ Over(cacheEntries[k], cacheNow) THEN NoValue ELSE cacheEntries[k]]
    /\ forgotten' = [k \in CacheKeys |-> IF k \in S THEN source[k] ELSE forgotten[k]]
    /\ late' = late \cup {c \in CacheCallers : cacheCaller[c].key \in S /\ cacheCaller[c].pc \in {"put", "store"}}
ForgetAll(S) ==
    /\ cacheEntries' = [k \in CacheKeys |-> IF k \in S THEN NoValue ELSE cacheEntries[k]]
    /\ forgotten' = [k \in CacheKeys |-> IF k \in S THEN source[k] ELSE forgotten[k]]
    /\ late' = late \cup {c \in CacheCallers : cacheCaller[c].key \in S /\ cacheCaller[c].pc \in {"put", "store"}}

Forget(k) == ForgetAll({k}) /\ UNCHANGED <<cacheNow, source, cacheCaller>>
Flush == ForgetAll(CacheKeys) /\ UNCHANGED <<cacheNow, source, cacheCaller>>

\* Prune reads the clock before it takes the lock; an older clock only
\* keeps more entries.
Prune ==
    /\ \E clock \in 1 .. cacheNow :
         cacheEntries' = [k \in CacheKeys |-> IF Over(cacheEntries[k], clock) THEN NoValue ELSE cacheEntries[k]]
    /\ UNCHANGED <<cacheNow, source, cacheCaller, forgotten, late>>

CacheTick ==
    /\ cacheNow < MaxCacheTime
    /\ cacheNow' = cacheNow + 1
    /\ UNCHANGED <<cacheEntries, source, cacheCaller, forgotten, late>>

CacheNext ==
    \/ \E c \in CacheCallers :
         Hit(c) \/ Miss(c) \/ FindsOver(c) \/ Evict(c) \/ Load(c) \/ CacheStamp(c) \/ Put(c)
    \/ \E c \in CacheCallers, k \in CacheKeys : Read(c, k)
    \/ \E k \in CacheKeys : ChangeSource(k) \/ Forget(k)
    \/ Flush \/ Prune \/ CacheTick

CacheSpec == CacheInit /\ [][CacheNext]_cacheVars

Forgetting == Flush \/ \E k \in CacheKeys : Forget(k)

\* Cleaning up never costs a live value: an entry that disappears without a
\* Forget or Flush was over when it did, also when a Put replaced the expired
\* entry that a concurrent Get was about to delete.
OnlyExpiredAreEvicted ==
    [][\A k \in CacheKeys : cacheEntries[k] # NoValue /\ cacheEntries'[k] = NoValue /\ ~Over(cacheEntries[k], cacheNow)
          => Forgetting]_cacheVars

\* After a change and a Forget the cache never serves the older value, unless
\* a RememberJSON that had already loaded it was still to store it: that race,
\* which the cache does not exclude, is the only source of stale entries.
StaleOnlyByLateLoader ==
    \A k \in CacheKeys : cacheEntries[k] # NoValue /\ ~cacheEntries[k].tainted => cacheEntries[k].value >= forgotten[k]
=============================================================================
