----------------------------- MODULE WebProofs -----------------------------
(***************************************************************************)
(* The cache, the durable rate limiter, CORS, the body of a request and    *)
(* its way through the middleware, for every number of callers, keys and   *)
(* requests and every order of steps.                                      *)
(***************************************************************************)
EXTENDS Cache, RateLimitPostgres, CORS, RequestBody, RequestPipeline, TLAPS

-----------------------------------------------------------------------------
(* The cache *)

CacheEntry == [value : Nat, expiresAt : Int, tainted : BOOLEAN]
CachePC == {"idle", "read", "evict", "load", "put", "store"}
CacheCall == [pc : CachePC, key : CacheKeys \cup {CacheIdle.key}, read : CacheEntry, clock : Nat]

\* What the caller in state q holds once it has loaded: a version of the source,
\* not older than the last Forget unless that Forget ran after the load.
Carries(c, q) ==
    /\ q.pc # "idle" => q.key \in CacheKeys
    /\ q.pc \in {"put", "store"} =>
          /\ q.read.value >= 1
          /\ c \notin late => q.read.value >= forgotten[q.key]

CacheInv ==
    /\ cacheNow \in Nat
    /\ cacheEntries \in [CacheKeys -> CacheEntry]
    /\ source \in [CacheKeys -> Nat \ {0}]
    /\ forgotten \in [CacheKeys -> Nat]
    /\ cacheCaller \in [CacheCallers -> CacheCall]
    /\ \A k \in CacheKeys : forgotten[k] <= source[k]
    /\ \A c \in CacheCallers : Carries(c, cacheCaller[c])
    /\ StaleOnlyByLateLoader

LEMMA IdleCall == NoValue \in CacheEntry /\ CacheIdle \in CacheCall /\ CacheIdle.pc = "idle"
<1>1. NoValue \in CacheEntry
  BY DEF NoValue, CacheEntry
<1> QED BY Zenon, <1>1 DEF CacheIdle, CacheCall, CachePC

LEMMA CacheInitInv == CacheInit => CacheInv
<1> SUFFICES ASSUME CacheInit PROVE CacheInv
  BY Zenon
<1>1. cacheCaller \in [CacheCallers -> CacheCall] /\ \A c \in CacheCallers : Carries(c, cacheCaller[c])
  BY Zenon, IdleCall DEF CacheInit, Carries
<1> QED BY <1>1, IdleCall DEF CacheInit, CacheInv, StaleOnlyByLateLoader

\* A step of caller c that at most removes entries.
LEMMA CallerMoves ==
    ASSUME CacheInv, NEW c \in CacheCallers, NEW q \in CacheCall, Carries(c, q),
           cacheCaller' = [cacheCaller EXCEPT ![c] = q],
           cacheNow' = cacheNow, source' = source, forgotten' = forgotten, late' = late,
           cacheEntries' \in [CacheKeys -> CacheEntry],
           \A k \in CacheKeys : cacheEntries'[k] \in {cacheEntries[k], NoValue}
    PROVE  CacheInv'
<1>1. cacheCaller' \in [CacheCallers -> CacheCall]
  BY Zenon DEF CacheInv
<1>2. ASSUME NEW d \in CacheCallers PROVE Carries(d, cacheCaller[d])'
  BY Zenon DEF CacheInv, Carries
<1>3. StaleOnlyByLateLoader'
  BY Zenon DEF CacheInv, StaleOnlyByLateLoader
<1> QED BY Zenon, <1>1, <1>2, <1>3 DEF CacheInv

LEMMA CacheCallerInv ==
    ASSUME CacheInv, NEW c \in CacheCallers,
           \/ Hit(c) \/ Miss(c) \/ FindsOver(c) \/ Evict(c) \/ Load(c) \/ CacheStamp(c)
           \/ \E k \in CacheKeys : Read(c, k)
    PROVE  CacheInv'
<1>0. /\ cacheCaller[c] \in CacheCall /\ Carries(c, cacheCaller[c]) /\ cacheNow \in Nat
      /\ cacheEntries \in [CacheKeys -> CacheEntry]
      /\ cacheCaller \in [CacheCallers -> CacheCall]
      /\ source \in [CacheKeys -> Nat \ {0}] /\ forgotten \in [CacheKeys -> Nat]
      /\ \A k \in CacheKeys : forgotten[k] <= source[k]
  BY Zenon DEF CacheInv
<1>a. cacheNow' = cacheNow /\ source' = source /\ forgotten' = forgotten /\ late' = late
  BY Zenon DEF Hit, Miss, FindsOver, Evict, Load, CacheStamp, Read
<1>b. ~Evict(c) => cacheEntries' = cacheEntries
  BY Zenon DEF Hit, Miss, FindsOver, Load, CacheStamp, Read
<1>c. /\ cacheEntries' \in [CacheKeys -> CacheEntry]
      /\ \A k \in CacheKeys : cacheEntries'[k] \in {cacheEntries[k], NoValue}
  BY Zenon, <1>0, <1>b, IdleCall DEF Evict
<1>d. ASSUME NEW q \in CacheCall, Carries(c, q), cacheCaller' = [cacheCaller EXCEPT ![c] = q]
      PROVE  CacheInv'
  BY <1>a, <1>c, <1>d, CallerMoves, Zenon
<1>1. ASSUME NEW pc \in {"idle", "evict", "load"}, Goto(c, pc), cacheCaller[c].pc # "idle"
      PROVE  CacheInv'
  <2> DEFINE q == [cacheCaller[c] EXCEPT !.pc = pc]
  <2>1. q \in CacheCall /\ Carries(c, q)
    BY Zenon, <1>0, <1>1 DEF CacheCall, CachePC, Carries
  <2>2. cacheCaller' = [cacheCaller EXCEPT ![c] = q]
    BY Zenon, <1>1 DEF Goto
  <2> HIDE DEF q
  <2> QED BY <1>d, <2>1, <2>2, Zenon
<1>2. CASE Hit(c) \/ Miss(c) \/ FindsOver(c) \/ Evict(c)
  BY Zenon, <1>1, <1>2 DEF Hit, Miss, FindsOver, Evict
<1>3. ASSUME NEW k \in CacheKeys, Read(c, k) PROVE CacheInv'
  <2> DEFINE q == [pc |-> "read", key |-> k, read |-> cacheEntries[k], clock |-> 0]
  <2>1. q \in CacheCall /\ Carries(c, q)
    BY Zenon, <1>0 DEF CacheCall, CachePC, Carries
  <2>2. cacheCaller' = [cacheCaller EXCEPT ![c] = q]
    BY Zenon, <1>3 DEF Read
  <2> HIDE DEF q
  <2> QED BY <1>d, <2>1, <2>2, Zenon
<1>4. CASE Load(c)
  <2> DEFINE v == [NoValue EXCEPT !.value = source[cacheCaller[c].key]]
             q == [cacheCaller[c] EXCEPT !.pc = "put", !.clock = cacheNow, !.read = v]
  <2>1. cacheCaller' = [cacheCaller EXCEPT ![c] = q] \/ cacheCaller' = [cacheCaller EXCEPT ![c] = CacheIdle]
    BY <1>4, Zenon DEF Load
  <2>2. CacheIdle \in CacheCall /\ Carries(c, CacheIdle)
    BY Zenon, IdleCall DEF Carries
  <2>3. cacheCaller[c].key \in CacheKeys
    BY Zenon, <1>0, <1>4 DEF Load, Carries
  <2>4. v \in CacheEntry /\ v.value = source[cacheCaller[c].key]
    <3>1. source[cacheCaller[c].key] \in Nat
      BY Zenon, <1>0, <2>3
    <3> QED BY Zenon, <3>1, IdleCall DEF CacheEntry
  <2> HIDE DEF v
  <2>5. q \in CacheCall /\ q.pc = "put" /\ q.read = v /\ q.key = cacheCaller[c].key
    BY <1>0, <2>4, Zenon DEF CacheCall, CachePC
  <2> HIDE DEF q
  <2>6. Carries(c, q)
    BY <1>0, <2>3, <2>4, <2>5 DEF Carries
  <2> QED BY Zenon, <1>d, <2>1, <2>2, <2>5, <2>6
<1>5. CASE CacheStamp(c)
  <2> DEFINE q == [cacheCaller[c] EXCEPT !.pc = "store", !.clock = cacheNow]
  <2>1. q \in CacheCall /\ Carries(c, q)
    BY <1>0, <1>5, Zenon DEF CacheCall, CachePC, Carries, CacheStamp
  <2>2. cacheCaller' = [cacheCaller EXCEPT ![c] = q]
    BY <1>5, Zenon DEF CacheStamp
  <2> HIDE DEF q
  <2> QED BY <1>d, <2>1, <2>2, Zenon
<1> QED BY Zenon, <1>2, <1>3, <1>4, <1>5

LEMMA CacheTableInv ==
    ASSUME CacheInv, \/ \E c \in CacheCallers : Put(c)
                     \/ \E k \in CacheKeys : ChangeSource(k) \/ Forget(k)
                     \/ Flush \/ Prune \/ CacheTick
    PROVE  CacheInv'
<1>1. ASSUME NEW c \in CacheCallers, Put(c) PROVE CacheInv'
  <2> DEFINE k == cacheCaller[c].key
             e == [value |-> cacheCaller[c].read.value, tainted |-> c \in late,
                   expiresAt |-> IF Lifetime > 0 THEN cacheCaller[c].clock + Lifetime ELSE 0]
  <2>1. /\ cacheCaller[c] \in CacheCall /\ cacheCaller[c].pc = "store" /\ k \in CacheKeys
        /\ c \notin late => cacheCaller[c].read.value >= forgotten[k]
        /\ cacheEntries' = [cacheEntries EXCEPT ![k] = e]
        /\ cacheCaller' = [cacheCaller EXCEPT ![c] = CacheIdle] /\ late' = late \ {c}
        /\ UNCHANGED <<cacheNow, source, forgotten>>
    BY Zenon, <1>1 DEF CacheInv, Carries, Put
  <2>2. e \in CacheEntry /\ e.value = cacheCaller[c].read.value /\ e.tainted = (c \in late)
    BY <2>1, CacheAssumption DEF CacheCall, CacheEntry
  <2> HIDE DEF e, k
  <2>3. cacheEntries' \in [CacheKeys -> CacheEntry] /\ cacheCaller' \in [CacheCallers -> CacheCall]
    BY Zenon, <2>1, <2>2, IdleCall DEF CacheInv
  <2>4. ASSUME NEW d \in CacheCallers PROVE Carries(d, cacheCaller[d])'
    BY Zenon, <2>1, IdleCall DEF CacheInv, Carries
  <2>5. StaleOnlyByLateLoader'
    BY <2>1, <2>2, Zenon DEF CacheInv, StaleOnlyByLateLoader
  <2> QED BY Zenon, <2>1, <2>3, <2>4, <2>5 DEF CacheInv
<1>2. ASSUME NEW k \in CacheKeys, ChangeSource(k) PROVE CacheInv'
  <2>1. source' \in [CacheKeys -> Nat \ {0}] /\ \A j \in CacheKeys : forgotten[j] <= source'[j]
    BY <1>2 DEF CacheInv, ChangeSource
  <2> QED BY Zenon, <1>2, <2>1 DEF CacheInv, ChangeSource, Carries, StaleOnlyByLateLoader
<1>3. ASSUME NEW S \in SUBSET CacheKeys, ForgetAll(S), UNCHANGED <<cacheNow, source, cacheCaller>>
      PROVE  CacheInv'
  <2>1. /\ cacheEntries' \in [CacheKeys -> CacheEntry] /\ forgotten' \in [CacheKeys -> Nat]
        /\ \A k \in CacheKeys : forgotten'[k] <= source[k]
    BY <1>3, IdleCall DEF CacheInv, ForgetAll
  <2>2. ASSUME NEW d \in CacheCallers PROVE Carries(d, cacheCaller[d])'
    BY Zenon, <1>3 DEF CacheInv, Carries, ForgetAll
  <2>3. StaleOnlyByLateLoader'
    BY Zenon, <1>3 DEF CacheInv, StaleOnlyByLateLoader, ForgetAll
  <2> QED BY Zenon, <1>3, <2>1, <2>2, <2>3 DEF CacheInv
<1>4. CASE Prune
  <2>1. PICK clock \in 1 .. cacheNow :
          cacheEntries' = [k \in CacheKeys |-> IF Over(cacheEntries[k], clock) THEN NoValue ELSE cacheEntries[k]]
    BY Zenon, <1>4 DEF Prune
  <2>2. /\ cacheEntries' \in [CacheKeys -> CacheEntry]
        /\ \A k \in CacheKeys : cacheEntries'[k] \in {cacheEntries[k], NoValue}
    BY Zenon, <2>1, IdleCall DEF CacheInv
  <2> QED BY Zenon, <1>4, <2>2 DEF CacheInv, Prune, Carries, StaleOnlyByLateLoader
<1>5. CASE CacheTick
  BY <1>5 DEF CacheInv, CacheTick, Carries, StaleOnlyByLateLoader
<1> QED BY <1>1, <1>2, <1>3, <1>4, <1>5, Zenon DEF Forget, Flush

LEMMA CacheNextInv == ASSUME CacheInv, [CacheNext]_cacheVars PROVE CacheInv'
<1>1. CASE UNCHANGED cacheVars
  BY Zenon, <1>1 DEF CacheInv, cacheVars, Carries, StaleOnlyByLateLoader
<1> QED BY Zenon, <1>1, CacheCallerInv, CacheTableInv DEF CacheNext

\* The invariant of the cache holds in every state that its callers can bring about.
THEOREM CacheInvariant == CacheSpec => []CacheInv
  BY CacheInitInv, CacheNextInv, PTL DEF CacheSpec

\* Whatever Gets, Puts, Forgets and source changes interleave, RememberJSON never
\* leaves a value older than the last Forget, but for a load that was under way.
THEOREM StaleOnlyByRace == CacheSpec => []StaleOnlyByLateLoader
<1>1. CacheInv => StaleOnlyByLateLoader
  BY Zenon DEF CacheInv
<1> QED BY <1>1, CacheInvariant, PTL

\* Get's second look at the entry under the write lock, and Prune, delete only
\* what is over: a value that a Put has just stored survives both.
THEOREM LiveValuesSurvive == CacheSpec => OnlyExpiredAreEvicted
<1>1. CacheInv /\ [CacheNext]_cacheVars =>
      \A k \in CacheKeys : cacheEntries[k] # NoValue /\ cacheEntries'[k] = NoValue
                             /\ ~Over(cacheEntries[k], cacheNow) => Forgetting
  <2> SUFFICES ASSUME CacheInv, [CacheNext]_cacheVars, NEW k \in CacheKeys,
                      cacheEntries[k] # NoValue, cacheEntries'[k] = NoValue,
                      ~Over(cacheEntries[k], cacheNow), ~Forgetting
               PROVE  FALSE
    BY Zenon
  <2>0. cacheEntries' # cacheEntries
    BY Zenon
  <2>1. ASSUME NEW c \in CacheCallers, Evict(c) PROVE FALSE
    BY Zenon, <2>1 DEF CacheInv, Evict, Evictable
  <2>2. ASSUME NEW c \in CacheCallers, Put(c) PROVE FALSE
    BY <2>2 DEF CacheInv, Put, Carries, NoValue
  <2>3. CASE Prune
    BY <2>3 DEF CacheInv, Prune, Over, CacheEntry
  <2>4. ASSUME NEW c \in CacheCallers, \/ Hit(c) \/ Miss(c) \/ FindsOver(c) \/ Load(c) \/ CacheStamp(c)
                                       \/ \E j \in CacheKeys : Read(c, j)
        PROVE  FALSE
    BY <2>0, <2>4, Zenon DEF Hit, Miss, FindsOver, Load, CacheStamp, Read
  <2>5. CASE CacheTick \/ UNCHANGED cacheVars \/ \E j \in CacheKeys : ChangeSource(j)
    BY <2>0, <2>5, Zenon DEF CacheTick, ChangeSource, cacheVars
  <2> QED BY <2>1, <2>2, <2>3, <2>4, <2>5, Zenon DEF CacheNext, Forgetting
<1> QED BY <1>1, CacheInvariant, PTL DEF CacheSpec, OnlyExpiredAreEvicted

-----------------------------------------------------------------------------
(* The durable rate limiter *)

DurableCounter == [attempts : 1 .. DurableLimit + 1, resetAt : Nat \ {0}]
DurableCall == [pc : {"idle", "prune", "pruned", "take"}, key : DurableKeys \cup {DurableIdle.key},
                clock : Nat]

DurableOutcome == {"none", "allowed", "denied", "invalid counter", "invalid reset"}

\* Every statement's clock is in the past.
DurableInv ==
    /\ databaseNow \in Nat \ {0}
    /\ rows \in [DurableKeys -> DurableCounter \cup {NoRow}]
    /\ outcome \in [Processes -> DurableOutcome]
    /\ proc \in [Processes -> DurableCall]
    /\ \A p \in Processes :
          /\ proc[p].clock <= databaseNow
          /\ proc[p].pc # "idle" => proc[p].key \in DurableKeys

LEMMA DurableNumbers ==
    /\ DurableLimit \in Nat \ {0} /\ DurableWindow \in Nat \ {0} /\ PruneLimit \in Nat \ {0}
    /\ DatabaseSecond \in Nat \ {0}
    /\ NoRow.attempts = 0 /\ NoRow.resetAt = 0 /\ NoRow \notin DurableCounter
    /\ DurableIdle \in DurableCall /\ DurableIdle.pc = "idle" /\ DurableIdle.clock = 0
    /\ \A r \in DurableCounter : r # NoRow /\ r.attempts \in 1 .. DurableLimit + 1
                                 /\ r.resetAt \in Nat \ {0}
<1>1. /\ DurableLimit \in Nat \ {0} /\ DurableWindow \in Nat \ {0} /\ PruneLimit \in Nat \ {0}
      /\ DatabaseSecond \in Nat \ {0}
  BY Zenon, DurableAssumption
<1>2. NoRow.attempts = 0 /\ NoRow.resetAt = 0 /\ NoRow \notin DurableCounter
  BY Zenon, <1>1 DEF NoRow, DurableCounter
<1>3. DurableIdle \in DurableCall /\ DurableIdle.pc = "idle" /\ DurableIdle.clock = 0
  BY Zenon DEF DurableIdle, DurableCall
<1>4. \A r \in DurableCounter : r # NoRow /\ r.attempts \in 1 .. DurableLimit + 1
                                /\ r.resetAt \in Nat \ {0}
  BY Zenon, <1>2 DEF DurableCounter
<1> QED BY Zenon, <1>1, <1>2, <1>3, <1>4

\* What the upsert makes of a row.
LEMMA ConsumedRow ==
    ASSUME NEW r \in DurableCounter \cup {NoRow}, NEW t \in Nat
    PROVE  /\ Consumed(r, t) \in DurableCounter
           /\ \/ /\ r = NoRow \/ r.resetAt <= t
                 /\ Consumed(r, t).attempts = 1 /\ Consumed(r, t).resetAt = t + DurableWindow
              \/ /\ r \in DurableCounter /\ Consumed(r, t).resetAt = r.resetAt
                 /\ Consumed(r, t).attempts =
                      IF r.attempts <= DurableLimit THEN r.attempts + 1 ELSE DurableLimit + 1
<1>1. CASE r = NoRow \/ r.resetAt <= t
  <2>1. Consumed(r, t) = [attempts |-> 1, resetAt |-> t + DurableWindow]
    BY <1>1, Zenon DEF Consumed
  <2> QED BY <1>1, <2>1, DurableNumbers DEF DurableCounter
<1>2. CASE ~(r = NoRow \/ r.resetAt <= t)
  <2> DEFINE n == IF r.attempts + 1 < DurableLimit + 1 THEN r.attempts + 1 ELSE DurableLimit + 1
  <2>1. r \in DurableCounter /\ r.attempts \in 1 .. DurableLimit + 1 /\ DurableLimit \in Nat \ {0}
    BY Zenon, <1>2, DurableNumbers
  <2>2. Consumed(r, t) = [r EXCEPT !.attempts = n]
    BY Zenon, <1>2 DEF Consumed
  <2>3. n \in 1 .. DurableLimit + 1 /\ n = IF r.attempts <= DurableLimit THEN r.attempts + 1 ELSE DurableLimit + 1
    BY <2>1
  <2> HIDE DEF n
  <2> QED BY Zenon, <2>1, <2>2, <2>3 DEF DurableCounter
<1> QED BY Zenon, <1>1, <1>2

LEMMA DecisionType ==
    ASSUME NEW r \in DurableCounter, NEW t \in Nat
    PROVE  Decision(r, t) \in DurableOutcome /\ (Decision(r, t) = "allowed" => r.attempts <= DurableLimit)
<1>1. r.attempts \in 1 .. DurableLimit \/ r.attempts = DurableLimit + 1
  BY DurableNumbers
<1>2. CASE r.attempts \in 1 .. DurableLimit
  <2>1. Decision(r, t) = "allowed" /\ r.attempts <= DurableLimit
    BY <1>2, DurableNumbers DEF Decision
  <2> QED BY Zenon, <2>1 DEF DurableOutcome
<1>3. CASE r.attempts = DurableLimit + 1
  <2>1. r.resetAt - t <= DurableWindow + DatabaseSecond \/ r.resetAt - t > DurableWindow + DatabaseSecond
    BY DurableNumbers
  <2>2. ~(r.attempts < 1 \/ r.attempts > DurableLimit + 1) /\ r.attempts \notin 1 .. DurableLimit
    BY <1>3, DurableNumbers
  <2>3. CASE r.resetAt - t <= DurableWindow + DatabaseSecond
    <3>1. ~(r.resetAt - t > DurableWindow + DatabaseSecond)
      BY <2>3, DurableNumbers
    <3>2. Decision(r, t) = "denied"
      BY <1>3, <2>2, <2>3, <3>1, Zenon DEF Decision
    <3> QED BY Zenon, <3>2 DEF DurableOutcome
  <2>4. CASE r.resetAt - t > DurableWindow + DatabaseSecond
    <3>1. ~(r.resetAt - t <= DurableWindow + DatabaseSecond)
      BY <2>4, DurableNumbers
    <3>2. Decision(r, t) = "invalid reset"
      BY <1>3, <2>2, <2>4, <3>1, Zenon DEF Decision
    <3> QED BY <3>2, Zenon DEF DurableOutcome
  <2> QED BY <2>1, <2>3, <2>4, Zenon
<1> QED BY Zenon, <1>1, <1>2, <1>3

LEMMA DurableInitInv == DurableInit => DurableInv
  BY DurableNumbers DEF DurableInit, DurableInv, DurableOutcome

LEMMA DurableNextInv == ASSUME DurableInv, [DurableNext]_durableVars PROVE DurableInv'
<1>1. ASSUME NEW p \in Processes, NEW q \in DurableCall, q.clock <= databaseNow,
             q.pc # "idle" => q.key \in DurableKeys, databaseNow' = databaseNow,
             proc' = [proc EXCEPT ![p] = q], rows' \in [DurableKeys -> DurableCounter \cup {NoRow}],
             outcome' \in [Processes -> DurableOutcome]
      PROVE  DurableInv'
  BY Zenon, <1>1 DEF DurableInv
<1>2. ASSUME NEW p \in Processes, NEW k \in DurableKeys, Begin(p, k) PROVE DurableInv'
  <2> DEFINE q == [pc |-> "prune", key |-> k, clock |-> databaseNow]
  <2>1. q \in DurableCall /\ q.clock <= databaseNow /\ q.key \in DurableKeys
    BY DEF DurableCall, DurableInv
  <2>2. proc' = [proc EXCEPT ![p] = q] /\ UNCHANGED <<databaseNow, rows, durableResets>>
    BY Zenon, <1>2 DEF Begin
  <2>3. outcome' \in [Processes -> DurableOutcome]
    BY <1>2, Zenon DEF Begin, DurableInv, DurableOutcome
  <2> HIDE DEF q
  <2> QED BY <1>1, <2>1, <2>2, <2>3, Zenon DEF DurableInv
<1>3. ASSUME NEW p \in Processes, DurablePrune(p) PROVE DurableInv'
  <2> DEFINE q == [proc[p] EXCEPT !.pc = "pruned"]
  <2>1. q \in DurableCall /\ q.clock <= databaseNow /\ q.key \in DurableKeys
    BY Zenon, <1>3 DEF DurableCall, DurableInv, DurablePrune
  <2>2. proc' = [proc EXCEPT ![p] = q] /\ UNCHANGED <<databaseNow, outcome>>
    BY Zenon, <1>3 DEF DurablePrune
  <2>3. rows' \in [DurableKeys -> DurableCounter \cup {NoRow}]
    BY Zenon, <1>3 DEF DurablePrune, DurableInv
  <2> HIDE DEF q
  <2> QED BY <1>1, <2>1, <2>2, <2>3, Zenon DEF DurableInv
<1>4. ASSUME NEW p \in Processes, StartTake(p) PROVE DurableInv'
  <2> DEFINE q == [proc[p] EXCEPT !.pc = "take", !.clock = databaseNow]
  <2>1. q \in DurableCall /\ q.clock <= databaseNow /\ q.key \in DurableKeys
    <3>1. proc[p] \in DurableCall /\ databaseNow \in Nat /\ proc[p].key \in DurableKeys
      BY Zenon, <1>4 DEF DurableInv, StartTake
    <3>2. q \in DurableCall /\ q.clock = databaseNow /\ q.key = proc[p].key
      BY <3>1, Zenon DEF DurableCall
    <3> QED BY <3>1, <3>2
  <2>2. proc' = [proc EXCEPT ![p] = q] /\ UNCHANGED <<databaseNow, rows, outcome>>
    BY <1>4, Zenon DEF StartTake
  <2> HIDE DEF q
  <2> QED BY <1>1, <2>1, <2>2, Zenon DEF DurableInv
<1>5. ASSUME NEW p \in Processes, DurableTake(p) \/ Abandon(p) PROVE DurableInv'
  <2>1. DurableIdle \in DurableCall /\ DurableIdle.clock <= databaseNow /\ DurableIdle.pc = "idle"
    BY DurableNumbers DEF DurableInv
  <2>2. proc' = [proc EXCEPT ![p] = DurableIdle] /\ databaseNow' = databaseNow
    BY Zenon, <1>5 DEF DurableTake, Abandon
  <2>3. rows' \in [DurableKeys -> DurableCounter \cup {NoRow}] /\ outcome' \in [Processes -> DurableOutcome]
    <3>1. CASE DurableTake(p)
      <4>1. proc[p].key \in DurableKeys /\ proc[p].clock \in Nat
        BY Zenon, <3>1 DEF DurableTake, DurableInv, DurableCall
      <4>2. Consumed(rows[proc[p].key], proc[p].clock) \in DurableCounter
        BY Zenon, <4>1, ConsumedRow DEF DurableInv
      <4>3. Decision(Consumed(rows[proc[p].key], proc[p].clock), proc[p].clock) \in DurableOutcome
        BY Zenon, <4>1, <4>2, DecisionType
      <4>4. rows' \in [DurableKeys -> DurableCounter \cup {NoRow}]
        BY Zenon, <3>1, <4>1, <4>2 DEF DurableTake, DurableInv
      <4>5. outcome' \in [Processes -> DurableOutcome]
        BY Zenon, <3>1, <4>3 DEF DurableTake, DurableInv
      <4> QED BY Zenon, <4>4, <4>5
    <3>2. CASE Abandon(p)
      BY Zenon, <3>2 DEF Abandon, DurableInv
    <3> QED BY Zenon, <1>5, <3>1, <3>2
  <2> QED BY <1>1, <2>1, <2>2, <2>3, Zenon
<1>6. ASSUME NEW k \in DurableKeys, DurableReset(k) PROVE DurableInv'
  BY Zenon, <1>6 DEF DurableInv, DurableReset
<1>7. CASE DatabaseTick
  BY <1>7 DEF DurableInv, DatabaseTick, DurableCall
<1>8. CASE UNCHANGED durableVars
  BY Zenon, <1>8 DEF DurableInv, durableVars
<1> QED BY <1>2, <1>3, <1>4, <1>5, <1>6, <1>7, <1>8, Zenon DEF DurableNext

\* The invariant of the durable limiter holds between any two statements of Take.
THEOREM DurableInvariant == DurableSpec => []DurableInv
  BY DurableInitInv, DurableNextInv, PTL DEF DurableSpec

\* The abstract counter of a row: attempts beyond the limit are not grants.
Granted(r) == IF r.attempts > DurableLimit THEN DurableLimit ELSE r.attempts

\* The upsert is a step of FixedWindow.
LEMMA UpsertIsGrant ==
    ASSUME DurableInv, NEW k \in DurableKeys, NEW t \in Nat, t <= databaseNow,
           rows' = [rows EXCEPT ![k] = Consumed(rows[k], t)],
           UNCHANGED <<databaseNow, durableResets>>
    PROVE  [DurablePromise!Next]_(DurablePromise!vars)
<1> DEFINE used == [j \in DurableKeys |-> Granted(rows[j])]
           end == [j \in DurableKeys |-> rows[j].resetAt]
           r == rows[k]
           new == Consumed(r, t)
<1>0. /\ rows \in [DurableKeys -> DurableCounter \cup {NoRow}] /\ r \in DurableCounter \cup {NoRow}
      /\ databaseNow \in Nat \ {0} /\ DurableLimit \in Nat \ {0} /\ DurableWindow \in Nat \ {0}
  BY Zenon, DurableNumbers DEF DurableInv
<1>1. /\ [j \in DurableKeys |-> Granted(rows'[j])] = [used EXCEPT ![k] = Granted(new)]
      /\ [j \in DurableKeys |-> rows'[j].resetAt] = [end EXCEPT ![k] = new.resetAt]
  BY <1>0, Zenon
<1>2. /\ [j \in DurableKeys |-> IF j \in {} THEN 0 ELSE used[j]] = used
      /\ [j \in DurableKeys |-> IF j \in {} THEN 0 ELSE end[j]] = end
  BY Zenon
<1>3. {} \in SUBSET {j \in DurableKeys \ {k} : databaseNow >= end[j]}
  BY Zenon
<1>4. CASE (r = NoRow \/ r.resetAt <= t) /\ new.attempts = 1 /\ new.resetAt = t + DurableWindow
  <2>1. Granted(new) = 1
    BY <1>0, <1>4 DEF Granted
  <2>2. t + DurableWindow \in 1 .. databaseNow + DurableWindow /\ databaseNow >= end[k]
    BY <1>0, <1>4, DurableNumbers
  <2>3. /\ [j \in DurableKeys |-> Granted(rows'[j])] = [used EXCEPT ![k] = 1]
        /\ [j \in DurableKeys |-> rows'[j].resetAt] = [end EXCEPT ![k] = t + DurableWindow]
    BY Zenon, <1>1, <1>4, <2>1
  <2>4. DurablePromise!Grant(k)
    BY <1>2, <1>3, <2>2, <2>3, Zenon DEF DurablePromise!Grant, DurablePromise!Over,
       DurablePromise!Without, DurablePromise!UsedWithout, Granted
  <2> QED BY Zenon, <2>4 DEF DurablePromise!Next
<1>5. CASE r \in DurableCounter /\ new.resetAt = r.resetAt /\ r.attempts < DurableLimit
           /\ new.attempts = r.attempts + 1
  <2>1. Granted(new) = used[k] + 1 /\ used[k] < DurableLimit /\ end[k] # 0
    BY <1>0, <1>5, DurableNumbers DEF Granted
  <2>2. [end EXCEPT ![k] = new.resetAt] = end
    BY Zenon, <1>5
  <2>3. DurablePromise!Grant(k)
    BY <1>1, <1>2, <1>3, <2>1, <2>2, Zenon DEF DurablePromise!Grant, DurablePromise!Over,
       DurablePromise!Without, DurablePromise!UsedWithout, Granted
  <2> QED BY Zenon, <2>3 DEF DurablePromise!Next
<1>6. CASE r \in DurableCounter /\ new.resetAt = r.resetAt /\ r.attempts >= DurableLimit
           /\ new.attempts = DurableLimit + 1
  <2>1. Granted(new) = used[k]
    BY <1>0, <1>6, DurableNumbers DEF Granted
  <2>2. [end EXCEPT ![k] = new.resetAt] = end /\ [used EXCEPT ![k] = Granted(new)] = used
    BY <1>6, <2>1, Zenon
  <2> QED BY <1>1, <2>2, Zenon DEF DurablePromise!vars, Granted
<1>7. \/ (r = NoRow \/ r.resetAt <= t) /\ new.attempts = 1 /\ new.resetAt = t + DurableWindow
      \/ r \in DurableCounter /\ new.resetAt = r.resetAt /\ r.attempts < DurableLimit
           /\ new.attempts = r.attempts + 1
      \/ r \in DurableCounter /\ new.resetAt = r.resetAt /\ r.attempts >= DurableLimit
           /\ new.attempts = DurableLimit + 1
  <2> HIDE DEF r
  <2>1. r \in DurableCounter => r.attempts \in 1 .. DurableLimit + 1
    BY Zenon, DurableNumbers
  <2> QED BY <1>0, <2>1, ConsumedRow
<1> QED BY Zenon, <1>4, <1>5, <1>6, <1>7

LEMMA DurableStepPromised ==
    ASSUME DurableInv, [DurableNext]_durableVars
    PROVE  [DurablePromise!Next]_(DurablePromise!vars)
<1>0. \A j \in DurableKeys : rows[j] \in DurableCounter \cup {NoRow} /\ rows[j].resetAt \in Nat
  BY DurableNumbers DEF DurableInv
<1>1. ASSUME NEW p \in Processes, DurableTake(p) PROVE [DurablePromise!Next]_(DurablePromise!vars)
  <2>1. proc[p].key \in DurableKeys /\ proc[p].clock \in Nat /\ proc[p].clock <= databaseNow
    BY Zenon, <1>1 DEF DurableTake, DurableInv, DurableCall
  <2> QED BY <1>1, <2>1, UpsertIsGrant, Zenon DEF DurableTake
<1>2. CASE UNCHANGED <<databaseNow, rows, durableResets>>
  BY <1>2, Zenon DEF DurablePromise!vars
<1>3. ASSUME NEW p \in Processes, DurablePrune(p) PROVE DurablePromise!Expire
  <2>1. PICK S \in PruneBatches(proc[p].clock) :
          rows' = [k \in DurableKeys |-> IF k \in S THEN NoRow ELSE rows[k]]
    BY Zenon, <1>3 DEF DurablePrune
  <2>2. S \in SUBSET {k \in DurableKeys : rows[k].resetAt <= proc[p].clock}
    BY Zenon, <2>1 DEF PruneBatches, Expired
  <2>3. proc[p].clock \in Nat /\ proc[p].clock <= databaseNow /\ databaseNow \in Nat
    BY Zenon DEF DurableInv, DurableCall
  <2>4. S \in SUBSET {k \in DurableKeys : databaseNow >= [j \in DurableKeys |-> rows[j].resetAt][k]}
    BY <1>0, <2>2, <2>3
  <2>5. [j \in DurableKeys |-> rows'[j].resetAt] =
        [j \in DurableKeys |-> IF j \in S THEN 0 ELSE [i \in DurableKeys |-> rows[i].resetAt][j]]
    BY Zenon, <2>1, DurableNumbers
  <2>6. Granted(NoRow) = 0
    BY DurableNumbers DEF Granted
  <2>7. [j \in DurableKeys |-> Granted(rows'[j])] =
        [j \in DurableKeys |-> IF j \in S THEN 0 ELSE [i \in DurableKeys |-> Granted(rows[i])][j]]
    BY Zenon, <2>1, <2>6
  <2>8. databaseNow' = databaseNow /\ durableResets' = durableResets
    BY Zenon, <1>3 DEF DurablePrune
  <2> QED BY <2>4, <2>5, <2>7, <2>8, Zenon DEF DurablePromise!Expire, DurablePromise!Over,
        DurablePromise!Without, DurablePromise!UsedWithout, Granted
<1>4. ASSUME NEW k \in DurableKeys, DurableReset(k) PROVE DurablePromise!Reset(k)
  <2>1. Granted(NoRow) = 0 /\ NoRow.resetAt = 0
    BY DurableNumbers DEF Granted
  <2>2. [j \in DurableKeys |-> rows'[j].resetAt] = [[j \in DurableKeys |-> rows[j].resetAt] EXCEPT ![k] = 0]
    BY <1>4, <2>1, Zenon DEF DurableReset, DurableInv
  <2>3. [j \in DurableKeys |-> Granted(rows'[j])] = [[j \in DurableKeys |-> Granted(rows[j])] EXCEPT ![k] = 0]
    BY <1>4, <2>1, Zenon DEF DurableReset, DurableInv
  <2> QED BY <1>4, <2>2, <2>3, Zenon DEF DurableReset, DurablePromise!Reset, Granted
<1>5. CASE DatabaseTick
  BY <1>5, Zenon DEF DatabaseTick, DurablePromise!Next, DurablePromise!Tick
<1>6. ASSUME NEW p \in Processes, StartTake(p) \/ Abandon(p) \/ \E k \in DurableKeys : Begin(p, k)
      PROVE  UNCHANGED <<databaseNow, rows, durableResets>>
  BY <1>6, Zenon DEF StartTake, Abandon, Begin
<1> QED BY <1>1, <1>2, <1>3, <1>4, <1>5, <1>6, Zenon DEF DurableNext, durableVars, DurablePromise!Next

\* The processes that share goforge_rate_limits together keep the promise of one
\* store: no prune, stale clock or crash between the two statements of a Take
\* forgets a running window or grants a key more than the limit.
THEOREM DurableStoreIsFixedWindow == DurableSpec => DurableFixedWindow
<1>1. DurableInit => DurablePromise!Init
  BY DurableNumbers DEF DurableInit, DurablePromise!Init
<1>2. DurableInv /\ [DurableNext]_durableVars => [DurablePromise!Next]_(DurablePromise!vars)
  BY Zenon, DurableStepPromised
<1> QED BY <1>1, <1>2, DurableInvariant, PTL DEF DurableSpec, DurableFixedWindow, DurablePromise!Spec

\* Take answers "allowed" only for a key whose counter had budget left or whose
\* window was over at that moment.
THEOREM GrantsStayInBudget == DurableSpec => GrantsWithinBudget
<1>1. DurableInv /\ [DurableNext]_durableVars =>
      \A p \in Processes :
        outcome'[p] = "allowed" /\ outcome[p] # "allowed" =>
            LET k == proc[p].key IN
            rows[k].attempts < DurableLimit \/ rows[k].resetAt <= databaseNow
  <2> SUFFICES ASSUME DurableInv, [DurableNext]_durableVars, NEW p \in Processes,
                      outcome'[p] = "allowed", outcome[p] # "allowed"
               PROVE  \/ rows[proc[p].key].attempts < DurableLimit
                      \/ rows[proc[p].key].resetAt <= databaseNow
    BY Zenon
  <2>1. DurableTake(p)
    <3>1. outcome'[p] # outcome[p]
      BY Zenon
    <3>2. ASSUME NEW q \in Processes, DurableTake(q) PROVE q = p
      BY Zenon, <3>1, <3>2 DEF DurableTake, DurableInv
    <3>3. ASSUME NEW q \in Processes, NEW k \in DurableKeys, Begin(q, k) PROVE FALSE
      BY Zenon, <3>1, <3>3 DEF Begin, DurableInv
    <3>4. outcome' # outcome
      BY Zenon, <3>1
    <3> QED BY <3>2, <3>3, <3>4, Zenon DEF DurableNext, DurablePrune, StartTake, Abandon, DurableReset,
              DatabaseTick, durableVars
  <2> DEFINE r == rows[proc[p].key]
             t == proc[p].clock
  <2>2. /\ proc[p].key \in DurableKeys /\ t \in Nat /\ t <= databaseNow /\ databaseNow \in Nat
        /\ r \in DurableCounter \cup {NoRow} /\ Decision(Consumed(r, t), t) = "allowed"
    BY Zenon, <2>1 DEF DurableTake, DurableInv, DurableCall
  <2>3. Consumed(r, t) \in DurableCounter /\ Consumed(r, t).attempts <= DurableLimit
    BY Zenon, <2>2, ConsumedRow, DecisionType
  <2> HIDE DEF r, t
  <2>4. r \in DurableCounter => r.resetAt \in Nat /\ r.attempts \in 1 .. DurableLimit + 1
    BY Zenon, DurableNumbers
  <2>5. ASSUME r = NoRow \/ r.resetAt <= t PROVE r.resetAt <= databaseNow
    <3>1. r.resetAt \in Nat /\ (r = NoRow => r.resetAt = 0)
      BY <2>2, <2>4, DurableNumbers
    <3> QED BY <2>2, <2>5, <3>1
  <2>6. ASSUME ~(r = NoRow \/ r.resetAt <= t) PROVE r.attempts < DurableLimit
    <3>1. /\ r \in DurableCounter
          /\ Consumed(r, t).attempts = IF r.attempts <= DurableLimit THEN r.attempts + 1 ELSE DurableLimit + 1
      BY <2>2, <2>6, ConsumedRow, Zenon
    <3> QED BY <2>3, <2>4, <3>1, DurableNumbers
  <2> QED BY Zenon, <2>5, <2>6 DEF r
<1> QED BY <1>1, DurableInvariant, PTL DEF DurableSpec, GrantsWithinBudget

-----------------------------------------------------------------------------
(* CORS *)

\* The middleware's policy never changes once it serves, so every answer given so far
\* is the one it would give again.
CORSInv ==
    /\ shares = {}
    /\ state # "serving" => served = {}
    /\ \A s \in served : s.answer = AnswerCORS(prepared, s.request) /\ s.vary = Vary(prepared, s.request)

LEMMA CORSStep ==
    ASSUME CORSInv, [CORSNext]_corsVars
    PROVE  CORSInv'
<1>1. CASE NewCORS
  BY Zenon, <1>1 DEF NewCORS, CORSInv, Shares
<1>2. CASE CallerWrites
  <2>1. prepared' = prepared /\ UNCHANGED <<shares, state, served>>
    BY Zenon, <1>2 DEF CallerWrites, CORSInv
  <2> QED BY Zenon, <2>1 DEF CORSInv
<1>3. CASE Serve
  <2>1. PICK r \in CORSRequests :
            served' = served \cup {[request |-> r, answer |-> AnswerCORS(prepared, r), vary |-> Vary(prepared, r)]}
    BY Zenon, <1>3 DEF Serve
  <2>2. state = "serving" /\ UNCHANGED <<shares, state, prepared>>
    BY Zenon, <1>3 DEF Serve
  <2> QED BY <2>1, <2>2 DEF CORSInv
<1>4. CASE UNCHANGED corsVars
  BY Zenon, <1>4 DEF corsVars, CORSInv
<1> QED BY Zenon, <1>1, <1>2, <1>3, <1>4 DEF CORSNext, Rejection

\* Whatever the policy and the requests, and whatever the application does with the
\* slices it passed: an answer may be reused for every request that agrees with the
\* first on the headers named by its Vary.
THEOREM AnswersAreCacheable == CORSSpec => []CacheSafe
<1>1. CORSInit => CORSInv
  BY Zenon DEF CORSInit, CORSInv
<1>2. CORSInv => CacheSafe
  <2> SUFFICES ASSUME CORSInv, NEW s \in served, NEW t \in served,
                      s.request.method = t.request.method,
                      s.request.method # "OPTIONS" \/ Preflight(s.request),
                      \A h \in s.vary : s.request[h] = t.request[h]
               PROVE  s.answer = t.answer
    BY Zenon DEF CacheSafe
  <2> DEFINE q == s.request
             r == t.request
  <2>1. s.answer = AnswerCORS(prepared, q) /\ t.answer = AnswerCORS(prepared, r) /\ s.vary = Vary(prepared, q)
    BY Zenon DEF CORSInv
  <2>2. q.origin = r.origin
    BY Zenon, <2>1 DEF Vary
  <2>3. CASE Preflight(q)
    <3>1. q.wants = r.wants /\ q.adds = r.adds
      BY Zenon, <2>1, <2>3 DEF Vary
    <3>2. Preflight(r) /\ PreflightAllowed(prepared, q) = PreflightAllowed(prepared, r)
      BY Zenon, <2>3, <3>1 DEF Preflight, PreflightAllowed
    <3> HIDE DEF q, r
    <3> QED BY Zenon, <2>1, <2>2, <2>3, <3>2 DEF AnswerCORS
  <2>4. CASE ~Preflight(q)
    <3>1. ~Preflight(r)
      BY Zenon, <2>4 DEF Preflight
    <3> HIDE DEF q, r
    <3> QED BY Zenon, <2>1, <2>2, <2>4, <3>1 DEF AnswerCORS
  <2> QED BY Zenon, <2>3, <2>4
<1> QED BY <1>1, <1>2, CORSStep, PTL DEF CORSSpec
-----------------------------------------------------------------------------
(* The body of a request *)

Contents == {b.values : b \in Bodies} \cup {<<>>}
Answers == [call : {"form", "json"}, max : Nat, status : {Ok, 400, 413, 415, 500}, values : Contents]

\* What the form's cache holds was read from the body, all of it.
BodyInv ==
    /\ body \in Bodies /\ formBytes \in Nat /\ form \in Contents /\ formErr \in {Ok, 400, 413, 415}
    /\ answers \in Seq(Answers)
    /\ formErr = Ok /\ form # <<>> => formBytes = body.size
    /\ LimitHolds

\* One more answer, within its own limit.
LEMMA AnswerAdded ==
    ASSUME BodyInv, NEW call \in {"form", "json"}, NEW max \in Nat, NEW status \in {Ok, 400, 413, 415, 500},
           NEW values \in Contents, Answered(call, max, status, values),
           status = Ok /\ values # <<>> => body.size <= max, body' = body
    PROVE  LimitHolds' /\ answers' \in Seq(Answers)
<1> DEFINE a == [call |-> call, max |-> max, status |-> status, values |-> values]
<1>1. a \in Answers /\ a.max = max /\ a.status = status /\ a.values = values
  BY DEF Answers
<1>2. answers' = Append(answers, a) /\ answers \in Seq(Answers)
  BY DEF Answered, BodyInv
<1> HIDE DEF a, Answers
<1>3. /\ answers' \in Seq(Answers) /\ Len(answers') = Len(answers) + 1 /\ Len(answers) \in Nat
      /\ answers'[Len(answers) + 1] = a
      /\ \A i \in 1..Len(answers) : answers'[i] = answers[i]
  BY <1>1, <1>2
<1>4. ASSUME NEW i \in 1..Len(answers'), answers'[i].status = Ok, answers'[i].values # <<>>
      PROVE  body'.size <= answers'[i].max
  <2>1. CASE i = Len(answers) + 1
    BY <1>1, <1>3, <1>4, <2>1
  <2>2. CASE i # Len(answers) + 1
    <3>1. i \in 1..Len(answers)
      BY <1>3, <2>2
    <3> QED BY <1>3, <1>4, <3>1 DEF BodyInv, LimitHolds
  <2> QED BY <2>1, <2>2
<1> QED BY <1>3, <1>4 DEF LimitHolds

LEMMA BodyStep ==
    ASSUME BodyInv, [BodyNext]_bodyVars
    PROVE  BodyInv'
<1>0. /\ body.size \in Nat /\ body.values \in Contents /\ <<>> \in Contents /\ form \in Contents
      /\ Limits \subseteq Nat /\ formBytes \in Nat
  BY BodyAssumption DEF BodyInv, Contents
<1>1. CASE FormCached
  <2>1. PICK max \in Limits :
            Answered("form", max, CachedStatus(max), IF CachedStatus(max) = Ok THEN form ELSE <<>>)
    BY Zenon, <1>1 DEF FormCached
  <2> DEFINE values == IF CachedStatus(max) = Ok THEN form ELSE <<>>
             status == CachedStatus(max)
  <2>2. /\ status \in {Ok, 400, 413, 415} /\ values \in Contents
        /\ status = Ok /\ values # <<>> => body.size <= max
    BY <1>0 DEF CachedStatus, BodyInv, Ok
  <2>3. UNCHANGED <<body, formErr, formBytes, form>>
    BY Zenon, <1>1 DEF FormCached
  <2>4. Answered("form", max, status, values)
    BY Zenon, <2>1
  <2> HIDE DEF status, values
  <2>5. LimitHolds' /\ answers' \in Seq(Answers)
    BY <1>0, <2>2, <2>3, <2>4, AnswerAdded
  <2> QED BY <2>3, <2>5 DEF BodyInv
<1>2. CASE FormParse
  <2>1. PICK max \in Limits :
       IF body.type # "form"
       THEN /\ formErr' = 415 /\ Answered("form", max, 415, <<>>)
            /\ UNCHANGED <<stream, formBytes, form, postForm, given>>
       ELSE LET status == ParseStatus(ReadAll(max))
                values == IF status # Ok THEN <<>>
                          ELSE IF stream = "fresh" THEN body.values ELSE <<>>
            IN /\ stream' = ReadAll(max)
               /\ formErr' = status
               /\ formBytes' = IF status = Ok /\ stream = "fresh" THEN body.size ELSE formBytes
               /\ form' = values /\ postForm' = values /\ given' = values
               /\ Answered("form", max, status, values)
    BY Zenon, <1>2 DEF FormParse
  <2>2. body' = body
    BY Zenon, <1>2 DEF FormParse
  <2>3. CASE body.type # "form"
    <3>1. LimitHolds' /\ answers' \in Seq(Answers)
      BY <1>0, <2>1, <2>2, <2>3, AnswerAdded DEF Ok
    <3> QED BY <2>1, <2>2, <2>3, <3>1 DEF BodyInv, Ok
  <2>4. CASE body.type = "form"
    <3> DEFINE status == ParseStatus(ReadAll(max))
               values == IF status # Ok THEN <<>> ELSE IF stream = "fresh" THEN body.values ELSE <<>>
    <3>1. /\ status \in {Ok, 400, 413, 415} /\ values \in Contents
          /\ status = Ok /\ stream = "fresh" => body.size <= max
      BY <1>0 DEF ParseStatus, ReadAll, Ok
    <3>2. /\ formErr' = status /\ form' = values /\ Answered("form", max, status, values)
          /\ formBytes' = IF status = Ok /\ stream = "fresh" THEN body.size ELSE formBytes
          /\ values # <<>> => stream = "fresh"
      BY Zenon, <2>1, <2>4
    <3> HIDE DEF status, values
    <3>3. LimitHolds' /\ answers' \in Seq(Answers)
      BY <1>0, <2>2, <3>1, <3>2, AnswerAdded
    <3> QED BY <1>0, <2>2, <3>1, <3>2, <3>3 DEF BodyInv
  <2> QED BY Zenon, <2>3, <2>4
<1>3. CASE BindJSONLimit
  <2>1. UNCHANGED <<body, formErr, formBytes, form>>
    BY Zenon, <1>3 DEF BindJSONLimit
  <2>2. PICK max \in Limits, status \in {Ok, 400, 413, 415}, values \in Contents :
            /\ Answered("json", max, status, values)
            /\ status = Ok /\ values # <<>> => body.size <= max
    <3>1. PICK max \in Limits :
            IF body.type # "json" THEN Answered("json", max, 415, <<>>) /\ UNCHANGED stream
            ELSE \E status \in JSONStatuses(ReadAll(max)) :
              /\ stream' = ReadAll(max)
              /\ Answered("json", max, status, IF status = Ok THEN body.values ELSE <<>>)
      BY Zenon, <1>3 DEF BindJSONLimit
    <3>2. CASE body.type # "json"
      BY <1>0, <3>1, <3>2 DEF Ok
    <3>3. CASE body.type = "json"
      <4>1. PICK status \in JSONStatuses(ReadAll(max)) :
                Answered("json", max, status, IF status = Ok THEN body.values ELSE <<>>)
        BY Zenon, <3>1, <3>3
      <4>2. status \in {Ok, 400, 413, 415} /\ (status = Ok => body.size <= max)
        BY <1>0 DEF JSONStatuses, OneValue, ReadAll, Ok
      <4> DEFINE values == IF status = Ok THEN body.values ELSE <<>>
      <4>3. values \in Contents
        BY Zenon, <1>0
      <4> HIDE DEF values
      <4> QED BY <4>1, <4>2, <4>3 DEF values
    <3> QED BY Zenon, <3>2, <3>3
  <2>3. LimitHolds' /\ answers' \in Seq(Answers)
    BY <1>0, <2>1, <2>2, AnswerAdded
  <2> QED BY <2>1, <2>3 DEF BodyInv
<1>4. CASE AppWrites \/ UNCHANGED bodyVars
  <2>1. UNCHANGED <<body, formErr, formBytes, form, answers>>
    BY Zenon, <1>4 DEF AppWrites, SharesForm, bodyVars
  <2> QED BY <2>1 DEF BodyInv, LimitHolds
<1>5. CASE LimitNotPositive
  <2>1. UNCHANGED <<body, formErr, formBytes, form>>
    BY Zenon, <1>5 DEF LimitNotPositive
  <2>2. PICK call \in {"form", "json"} : Answered(call, 0, 500, <<>>)
    BY Zenon, <1>5 DEF LimitNotPositive
  <2>3. LimitHolds' /\ answers' \in Seq(Answers)
    BY <1>0, <2>1, <2>2, AnswerAdded DEF Ok
  <2> QED BY <2>1, <2>3 DEF BodyInv
<1> QED BY Zenon, <1>1, <1>2, <1>3, <1>4, <1>5 DEF BodyNext, BodyFinished

\* A call that gets the body's contents saw a body within its own limit, for all bodies,
\* limits and orders of the calls, also when the form was parsed under a larger one.
THEOREM LimitsHold == BodySpec => []LimitHolds
<1>1. BodyInit => BodyInv
  BY BodyAssumption DEF BodyInit, BodyInv, LimitHolds, Contents, Ok
<1>2. BodyInv => LimitHolds
  BY Zenon DEF BodyInv
<1> QED BY <1>1, <1>2, BodyStep, PTL DEF BodySpec

-----------------------------------------------------------------------------
(***************************************************************************)
(* One request through the middleware, for every stack with Logger outside *)
(* Timeout, every set of routes and statuses and every number of writes.   *)
(***************************************************************************)

\* A sequence, of whatever.
IsSeq(s) == \E S : s \in Seq(S)

\* A record of the connection.
IsWire(w) ==
    \E I, H, B : w \in [info : I, final : Int, headers : H, body : B, hijacked : BOOLEAN, aborted : BOOLEAN]

TrackerRecord == [status : Int, wrote : BOOLEAN]
ErrKinds == {"nil", "plain", "panic", "abort", "http", "deadline", "canceled"}
ErrRecord == [k : ErrKinds, status : Int, cause : {"none", "deadline", "canceled"}]

\* What the tracker s says is what the connection w has sent.
Consistent(s, w) ==
    /\ s \in TrackerRecord /\ IsWire(w)
    /\ ~s.wrote => w.final = 0 /\ ~w.hijacked /\ s.status <= 200
    /\ s.wrote => w.final \in {0, s.status} /\ s.status > 0 /\ (~w.hijacked => w.final = s.status)

\* Where the request is; nothing has gone wrong or been logged before it leaves.
StepShape ==
    /\ phase \in {"in", "handler", "out", "done"} /\ depth \in Nat
    /\ phase \in {"in", "handler"} => err = Nil /\ log = <<>>
    /\ phase = "handler" => depth = Len(Stack)
    /\ phase = "out" => depth <= Len(Stack)
    /\ phase = "in" => depth >= 1 /\ depth <= Len(Stack) + 1

ErrShape ==
    /\ err \in ErrRecord
    /\ err.cause # "none" => err.k = "http"

NoTimeout == \A i \in 1..Len(Stack) : Stack[i] # "timeout"

\* An expired context has become a 504, or there is still a Timeout to come, or
\* none at all.
DeadlineInside ==
    Is(err, "deadline") =>
       \/ err.k = "http" /\ err.status = 504
       \/ NoTimeout
       \/ \E i \in 1..Len(Stack) : i <= depth /\ Stack[i] = "timeout"

ChildShape ==
    inbound \in {"none", "canceled"} /\ child \in {"absent", "none", "canceled", "deadline"}

\* The record r against what is about to be answered.
StatusTold(r) ==
    \/ inbound # "none"
    \/ err = Nil /\ r.status = sw.status
    \/ err # Nil /\ sw.wrote /\ r.status = sw.status
    \/ Panicking /\ ~sw.wrote /\ r.status = 500
    \/ ~Panicking /\ ~sw.wrote /\ Overruled(r.status)
    \/ err # Nil /\ ~Panicking /\ r.status = ErrorStatus /\ (sw.wrote => err.k = "http")

Recorded(r) ==
    /\ r.outcome = "success" => err = Nil /\ r.status = sw.status /\ r.status < 400
    /\ r.outcome = "canceled" => inbound = "canceled" \/ Is(err, "canceled")
    /\ r.outcome = "timeout" => Is(err, "deadline")
    /\ StatusTold(r)

LoggedShape ==
    log # <<>> => /\ Recorded(log[1])
                  /\ \A i \in 1..Len(Stack) : i <= depth => Stack[i] # "timeout"

PipelineInv ==
    /\ StepShape /\ ErrShape /\ DeadlineInside /\ ChildShape /\ IsSeq(log)
    /\ phase # "done" => Consistent(sw, wire) /\ LoggedShape
    /\ phase = "done" => CompletionIsTrue

-----------------------------------------------------------------------------
\* A final or informational header on the connection.
LEMMA HeaderOn ==
    ASSUME NEW w, IsWire(w), NEW s \in Int
    PROVE  /\ IsWire(NetWriteHeader(w, s)) /\ NetWriteHeader(w, s).hijacked = w.hijacked
           /\ w.hijacked \/ w.final # 0 => NetWriteHeader(w, s).final = w.final
           /\ ~w.hijacked /\ w.final = 0 =>
                NetWriteHeader(w, s).final = IF s \in 100..199 /\ s # 101 THEN 0 ELSE s
<1>1. CASE w.hijacked \/ w.final # 0
  BY Zenon, <1>1 DEF NetWriteHeader
<1>2. CASE ~(w.hijacked \/ w.final # 0) /\ s \in 100..199 /\ s # 101
  <2> DEFINE x == [w EXCEPT !.info = @ \cup {s}]
  <2>1. NetWriteHeader(w, s) = x
    BY Zenon, <1>2 DEF NetWriteHeader
  <2>2. PICK I, H, B : w \in [info : I, final : Int, headers : H, body : B, hijacked : BOOLEAN, aborted : BOOLEAN]
    BY Zenon DEF IsWire
  <2>3. x \in [info : {w.info \cup {s}}, final : Int, headers : H, body : B, hijacked : BOOLEAN, aborted : BOOLEAN]
    BY Zenon, <2>2
  <2>4. x.hijacked = w.hijacked
    BY Zenon, <2>2
  <2>5. x.final = w.final
    BY Zenon, <2>2
  <2> HIDE DEF x
  <2>6. IsWire(x)
    BY Zenon, <2>3 DEF IsWire
  <2> QED BY Zenon, <2>1, <2>4, <2>5, <2>6, <1>2
<1>3. CASE ~(w.hijacked \/ w.final # 0) /\ ~(s \in 100..199 /\ s # 101)
  <2> DEFINE x == [w EXCEPT !.final = s, !.headers = headers]
  <2>1. NetWriteHeader(w, s) = x
    BY Zenon, <1>3 DEF NetWriteHeader
  <2>2. PICK I, H, B : w \in [info : I, final : Int, headers : H, body : B, hijacked : BOOLEAN, aborted : BOOLEAN]
    BY Zenon DEF IsWire
  <2>3. x \in [info : I, final : Int, headers : {headers}, body : B, hijacked : BOOLEAN, aborted : BOOLEAN]
    BY Zenon, <2>2
  <2>4. x.hijacked = w.hijacked
    BY Zenon, <2>2
  <2>5. x.final = s
    BY Zenon, <2>2
  <2> HIDE DEF x
  <2>6. IsWire(x)
    BY Zenon, <2>3 DEF IsWire
  <2> QED BY Zenon, <2>1, <2>4, <2>5, <2>6, <1>3
<1> QED BY Zenon, <1>1, <1>2, <1>3

\* A part of the body.
LEMMA BodyOn ==
    ASSUME NEW w, IsWire(w), NEW part
    PROVE  /\ IsWire(NetWrite(w, part)) /\ NetWrite(w, part).hijacked = w.hijacked
           /\ NetWrite(w, part).final = w.final
<1>1. CASE w.hijacked
  BY Zenon, <1>1 DEF NetWrite
<1>2. CASE ~w.hijacked
  <2> DEFINE x == [w EXCEPT !.body = Append(@, part)]
  <2>1. NetWrite(w, part) = x
    BY Zenon, <1>2 DEF NetWrite
  <2>2. PICK I, H, B : w \in [info : I, final : Int, headers : H, body : B, hijacked : BOOLEAN, aborted : BOOLEAN]
    BY Zenon DEF IsWire
  <2>3. x \in [info : I, final : Int, headers : H, body : {Append(w.body, part)}, hijacked : BOOLEAN, aborted : BOOLEAN]
    BY Zenon, <2>2
  <2>4. x.hijacked = w.hijacked
    BY Zenon, <2>2
  <2>5. x.final = w.final
    BY Zenon, <2>2
  <2> HIDE DEF x
  <2>6. IsWire(x)
    BY Zenon, <2>3 DEF IsWire
  <2> QED BY Zenon, <2>1, <2>4, <2>5, <2>6
<1> QED BY Zenon, <1>1, <1>2

\* What a record of a tracker is.
LEMMA TrackerOn ==
    ASSUME NEW status \in Int, NEW wrote \in BOOLEAN
    PROVE  LET t == [status |-> status, wrote |-> wrote]
           IN t \in TrackerRecord /\ t.status = status /\ t.wrote = wrote
BY Zenon DEF TrackerRecord

\* WriteHeader: a final status is the one sent, unless one was sent before.
LEMMA WriteHeaderOn ==
    ASSUME NEW r, Consistent(r.sw, r.wire), NEW status \in Int, status >= 100
    PROVE  /\ Consistent(WriteHeader(r, status).sw, WriteHeader(r, status).wire)
           /\ WriteHeader(r, status).wire.hijacked = r.wire.hijacked
           /\ ~r.sw.wrote /\ status >= 200 =>
                WriteHeader(r, status).sw.wrote /\ WriteHeader(r, status).wire.final = status
<1>1. CASE r.sw.wrote
  BY Zenon, <1>1 DEF WriteHeader
<1>2. CASE ~r.sw.wrote
  <2> DEFINE final == ~(status >= 100 /\ status < 200 /\ status # 101)
             s == [status |-> status, wrote |-> final]
             w == NetWriteHeader(r.wire, status)
  <2>1. WriteHeader(r, status).sw = s /\ WriteHeader(r, status).wire = w
    BY Zenon, <1>2 DEF WriteHeader
  <2>2. final \in BOOLEAN
    BY Zenon
  <2>3. s \in TrackerRecord /\ s.status = status /\ s.wrote = final
    BY Zenon, <2>2, TrackerOn
  <2>4. IsWire(r.wire) /\ r.wire.final = 0 /\ ~r.wire.hijacked
    BY Zenon, <1>2 DEF Consistent
  <2>5. /\ IsWire(w) /\ w.hijacked = r.wire.hijacked
        /\ w.final = IF status \in 100..199 /\ status # 101 THEN 0 ELSE status
    BY Zenon, <2>4, HeaderOn
  <2>6. CASE final
    <3>1. w.final = status /\ status > 0
      BY <2>5, <2>6
    <3>2. s.wrote /\ s.status = status
      BY Zenon, <2>3, <2>6
    <3> HIDE DEF s, w, final
    <3>3. Consistent(s, w)
      BY Zenon, <2>3, <2>5, <3>1, <3>2 DEF Consistent
    <3> QED BY Zenon, <2>1, <2>5, <3>1, <3>2, <3>3
  <2>7. CASE ~final
    <3>1. w.final = 0 /\ status <= 200 /\ ~(status >= 200)
      BY <2>5, <2>7
    <3>2. ~s.wrote /\ s.status = status
      BY Zenon, <2>3, <2>7
    <3> HIDE DEF s, w, final
    <3>3. ~w.hijacked
      BY Zenon, <2>4, <2>5
    <3>4. s.status <= 200
      BY <3>1, <3>2
    <3>5. Consistent(s, w)
      BY Zenon, <2>3, <2>5, <3>1, <3>2, <3>3, <3>4 DEF Consistent
    <3> QED BY Zenon, <2>1, <2>5, <3>1, <3>5
  <2> QED BY Zenon, <2>6, <2>7
<1> QED BY Zenon, <1>1, <1>2

\* A response is the tracker's record and the connection's.
LEMMA CommittedOn ==
    ASSUME NEW r, Consistent(r.sw, r.wire)
    PROVE  /\ Consistent(Committed(r).sw, Committed(r).wire)
           /\ Committed(r).wire.hijacked = r.wire.hijacked
           /\ r.sw.wrote => Committed(r) = r
<1> DEFINE ok == 200
<1>1. ok \in Int /\ ok >= 100
  OBVIOUS
<1>2. CASE r.sw.wrote
  BY Zenon, <1>2 DEF Committed
<1>3. CASE ~r.sw.wrote
  <2>1. Committed(r) = WriteHeader(r, ok)
    BY Zenon, <1>3 DEF Committed
  <2> HIDE DEF ok
  <2>2. /\ Consistent(WriteHeader(r, ok).sw, WriteHeader(r, ok).wire)
        /\ WriteHeader(r, ok).wire.hijacked = r.wire.hijacked
    BY Zenon, <1>1, WriteHeaderOn
  <2> QED BY Zenon, <1>3, <2>1, <2>2
<1> QED BY Zenon, <1>2, <1>3

\* What is a pair of a tracker's and a connection's record.
IsResponse(r) == \E S, W : r \in [sw : S, wire : W]

\* The operations return such pairs.
LEMMA ResponseOn ==
    ASSUME NEW r, IsResponse(r), NEW status
    PROVE  IsResponse(WriteHeader(r, status)) /\ IsResponse(Committed(r)) /\ IsResponse(Response)
<1>1. ASSUME NEW a, NEW b PROVE IsResponse([sw |-> a, wire |-> b])
  <2>1. [sw |-> a, wire |-> b] \in [sw : {a}, wire : {b}]
    BY Zenon
  <2> QED BY Zenon, <2>1 DEF IsResponse
<1>2. ASSUME NEW x PROVE IsResponse(WriteHeader(r, x))
  <2> DEFINE final == ~(x >= 100 /\ x < 200 /\ x # 101)
  <2>1. WriteHeader(r, x) = IF r.sw.wrote THEN r
                            ELSE [sw |-> [status |-> x, wrote |-> final], wire |-> NetWriteHeader(r.wire, x)]
    BY Zenon DEF WriteHeader
  <2> HIDE DEF final
  <2> QED BY Zenon, <1>1, <2>1
<1> QED BY Zenon, <1>1, <1>2 DEF Committed, Response

\* A body commits a header first.
LEMMA WriteOn ==
    ASSUME NEW r, IsResponse(r), Consistent(r.sw, r.wire), NEW part
    PROVE  /\ Consistent(Write(r, part).sw, Write(r, part).wire)
           /\ Write(r, part).wire.hijacked = r.wire.hijacked
           /\ r.sw.wrote => Write(r, part).wire.final = r.wire.final
<1> DEFINE c == Committed(r)
<1>1. /\ Consistent(c.sw, c.wire) /\ c.wire.hijacked = r.wire.hijacked /\ (r.sw.wrote => c = r)
  BY Zenon, CommittedOn
<1>2. IsResponse(c)
  BY Zenon, ResponseOn
<1> HIDE DEF c
<1>3. PICK S, W : c \in [sw : S, wire : W]
  BY Zenon, <1>2 DEF IsResponse
<1>4. [c EXCEPT !.wire = NetWrite(c.wire, part)].sw = c.sw
  BY Zenon, <1>3
<1>5. [c EXCEPT !.wire = NetWrite(c.wire, part)].wire = NetWrite(c.wire, part)
  BY Zenon, <1>3
<1>6. Write(r, part).sw = c.sw /\ Write(r, part).wire = NetWrite(c.wire, part)
  BY Zenon, <1>4, <1>5 DEF Write, c
<1>7. IsWire(c.wire)
  BY Zenon, <1>1 DEF Consistent
<1>8. /\ IsWire(NetWrite(c.wire, part)) /\ NetWrite(c.wire, part).hijacked = c.wire.hijacked
      /\ NetWrite(c.wire, part).final = c.wire.final
  BY Zenon, <1>7, BodyOn
<1>9. Consistent(c.sw, NetWrite(c.wire, part))
  BY Zenon, <1>1, <1>8 DEF Consistent
<1> QED BY Zenon, <1>1, <1>6, <1>8, <1>9

\* A hijacked connection counts as a response with status 101.
LEMMA HijackOn ==
    ASSUME NEW r, Consistent(r.sw, r.wire)
    PROVE  Consistent(hijack(r).sw, hijack(r).wire)
<1> DEFINE s == IF r.sw.wrote THEN r.sw ELSE [status |-> 101, wrote |-> TRUE]
           w == [r.wire EXCEPT !.hijacked = TRUE]
<1>1. hijack(r).sw = s /\ hijack(r).wire = w
  BY Zenon DEF hijack
<1>2. IsWire(r.wire)
  BY Zenon DEF Consistent
<1>3. PICK I, H, B : r.wire \in [info : I, final : Int, headers : H, body : B, hijacked : BOOLEAN, aborted : BOOLEAN]
  BY Zenon, <1>2 DEF IsWire
<1>4. w \in [info : I, final : Int, headers : H, body : B, hijacked : BOOLEAN, aborted : BOOLEAN]
  BY Zenon, <1>3
<1>5. w.final = r.wire.final
  BY Zenon, <1>3
<1>6. w.hijacked = TRUE
  BY Zenon, <1>3
<1> HIDE DEF w
<1>7. IsWire(w)
  BY Zenon, <1>4 DEF IsWire
<1>8. CASE r.sw.wrote
  <2>1. s = r.sw
    BY Zenon, <1>8
  <2> HIDE DEF s
  <2> QED BY Zenon, <1>1, <1>5, <1>6, <1>7, <1>8, <2>1 DEF Consistent
<1>9. CASE ~r.sw.wrote
  <2>1. s = [status |-> 101, wrote |-> TRUE]
    BY Zenon, <1>9
  <2> DEFINE switching == 101
  <2>2. switching \in Int /\ TRUE \in BOOLEAN /\ switching > 0
    OBVIOUS
  <2>3. s = [status |-> switching, wrote |-> TRUE]
    BY Zenon, <2>1
  <2> HIDE DEF s, switching
  <2>4. s \in TrackerRecord /\ s.status = switching /\ s.wrote = TRUE
    BY Zenon, <2>2, <2>3, TrackerOn
  <2>5. w.final = 0
    BY Zenon, <1>5, <1>9 DEF Consistent
  <2> HIDE DEF s
  <2> QED BY Zenon, <1>1, <1>6, <1>7, <2>2, <2>4, <2>5 DEF Consistent
<1> QED BY Zenon, <1>8, <1>9

\* The response as it stands.
LEMMA ResponseIs == Response.sw = sw /\ Response.wire = wire /\ IsResponse(Response)
<1>1. Response \in [sw : {sw}, wire : {wire}]
  BY Zenon DEF Response
<1>2. Response.sw = sw /\ Response.wire = wire
  BY Zenon DEF Response
<1> QED BY Zenon, <1>1, <1>2 DEF IsResponse

\* The errors the middleware and a handler make.
LEMMA ErrorsMade ==
    /\ Nil \in ErrRecord /\ Nil.k = "nil" /\ Nil.cause = "none"
    /\ \A kind \in ErrKinds : Failure(kind) \in ErrRecord /\ Failure(kind).k = kind /\ Failure(kind).cause = "none"
    /\ \A status \in Int : /\ NewHTTPError(status) \in ErrRecord /\ NewHTTPError(status).k = "http"
                           /\ NewHTTPError(status).status = status /\ NewHTTPError(status).cause = "none"
<1>1. 0 \in Int
  OBVIOUS
<1>2. Nil \in ErrRecord /\ Nil.k = "nil" /\ Nil.cause = "none"
  BY Zenon, <1>1 DEF Nil, ErrRecord, ErrKinds
<1>3. \A kind \in ErrKinds : Failure(kind) \in ErrRecord /\ Failure(kind).k = kind /\ Failure(kind).cause = "none"
  BY Zenon, <1>1 DEF Failure, ErrRecord
<1>4. \A status \in Int : /\ NewHTTPError(status) \in ErrRecord /\ NewHTTPError(status).k = "http"
                         /\ NewHTTPError(status).status = status /\ NewHTTPError(status).cause = "none"
  BY Zenon DEF NewHTTPError, ErrRecord, ErrKinds
<1> QED BY Zenon, <1>2, <1>3, <1>4

\* A request starts with nothing sent, failed or logged.
LEMMA PipelineStart ==
    ASSUME PipelineInit
    PROVE  PipelineInv
<1>1. /\ phase = "in" /\ depth = 1 /\ err = Nil /\ inbound = "none" /\ child = "absent" /\ log = <<>>
      /\ sw = [status |-> 200, wrote |-> FALSE]
      /\ wire = [info |-> {}, final |-> 0, headers |-> {}, body |-> <<>>, hijacked |-> FALSE, aborted |-> FALSE]
  BY Zenon DEF PipelineInit, newContext
<1>2. Len(Stack) \in Nat
  BY PipelineAssumption
<1>3. StepShape
  BY <1>1, <1>2 DEF StepShape
<1>4. ErrShape /\ DeadlineInside
  BY Zenon, <1>1, ErrorsMade DEF ErrShape, DeadlineInside, Is
<1>5. ChildShape
  BY Zenon, <1>1 DEF ChildShape
<1>6. IsSeq(log)
  <2>1. log \in Seq({})
    BY <1>1
  <2> QED BY Zenon, <2>1 DEF IsSeq
<1>7. sw \in TrackerRecord /\ sw.wrote = FALSE /\ sw.status <= 200
  BY <1>1 DEF TrackerRecord
<1>8. IsWire(wire)
  <2>1. 0 \in Int
    OBVIOUS
  <2>2. wire \in [info : {{}}, final : Int, headers : {{}}, body : {<<>>}, hijacked : BOOLEAN, aborted : BOOLEAN]
    BY Zenon, <2>1, <1>1
  <2> QED BY Zenon, <2>2 DEF IsWire
<1>9. wire.final = 0 /\ wire.hijacked = FALSE
  BY Zenon, <1>1
<1>10. Consistent(sw, wire)
  BY Zenon, <1>7, <1>8, <1>9 DEF Consistent
<1> QED BY Zenon, <1>1, <1>3, <1>4, <1>5, <1>6, <1>10 DEF PipelineInv, LoggedShape

\* A middleware is entered: it calls next, or returns an error of its own.
LEMMA EnterKeeps ==
    ASSUME PipelineInv, phase = "in", depth <= Len(Stack), UNCHANGED <<sw, wire, inbound, log>>, ChildShape',
           \/ CallNext
           \/ \E e \in ErrRecord : ReturnEarly(e) /\ e.k # "deadline" /\ e.cause = "none"
    PROVE  PipelineInv'
<1>1. /\ StepShape /\ ErrShape /\ DeadlineInside /\ IsSeq(log) /\ Consistent(sw, wire)
      /\ err = Nil /\ log = <<>>
  BY Zenon DEF PipelineInv, StepShape
<1>2. sw' = sw /\ wire' = wire /\ log' = log
  BY Zenon
<1>3. depth \in Nat /\ depth >= 1 /\ Len(Stack) \in Nat
  BY <1>1, PipelineAssumption DEF StepShape
<1>4. Consistent(sw', wire') /\ IsSeq(log') /\ LoggedShape'
  BY Zenon, <1>1, <1>2 DEF LoggedShape
<1>5. CASE CallNext
  <2>1. phase' = "in" /\ err' = err /\ depth' = depth + 1
    BY Zenon, <1>5 DEF CallNext
  <2>2. StepShape'
    BY <1>1, <1>2, <1>3, <2>1 DEF StepShape
  <2>3. ErrShape' /\ DeadlineInside'
    BY Zenon, <1>1, <2>1, ErrorsMade DEF ErrShape, DeadlineInside, Is
  <2> QED BY Zenon, <1>4, <2>1, <2>2, <2>3 DEF PipelineInv
<1>6. ASSUME NEW e \in ErrRecord, ReturnEarly(e), e.k # "deadline", e.cause = "none" PROVE PipelineInv'
  <2>1. phase' = "out" /\ err' = e /\ depth' = depth - 1
    BY Zenon, <1>6 DEF ReturnEarly
  <2>2. StepShape'
    BY <1>3, <2>1 DEF StepShape
  <2>3. ErrShape' /\ DeadlineInside'
    BY Zenon, <1>6, <2>1 DEF ErrShape, DeadlineInside, Is
  <2> QED BY Zenon, <1>4, <2>1, <2>2, <2>3 DEF PipelineInv
<1> QED BY Zenon, <1>5, <1>6

\* Every middleware is entered in this way.
LEMMA EntersKeep ==
    ASSUME PipelineInv, \/ EnterRecover \/ EnterRequestID \/ EnterLogger \/ EnterSecurity
                        \/ EnterOverride \/ EnterTimeout
    PROVE  PipelineInv'
<1>1. phase = "in" /\ depth <= Len(Stack)
  BY Zenon DEF EnterRecover, EnterRequestID, EnterLogger, EnterSecurity, EnterOverride, EnterTimeout, Next_
<1>2. UNCHANGED <<sw, wire, inbound, log>>
  BY Zenon DEF EnterRecover, EnterRequestID, EnterLogger, EnterSecurity, EnterOverride, EnterTimeout
<1>3. ChildShape /\ depth >= 1 /\ depth \in Nat
  BY Zenon, <1>1 DEF PipelineInv, StepShape
<1>4. ChildShape'
  <2>1. CASE EnterTimeout
    <3>1. child' = inbound /\ inbound' = inbound
      BY Zenon, <2>1 DEF EnterTimeout
    <3> QED BY Zenon, <1>3, <3>1 DEF ChildShape
  <2>2. CASE ~EnterTimeout
    <3>1. child' = child /\ inbound' = inbound
      BY Zenon, <2>2 DEF EnterRecover, EnterRequestID, EnterLogger, EnterSecurity, EnterOverride
    <3> QED BY Zenon, <1>3, <3>1 DEF ChildShape
  <2> QED BY Zenon, <2>1, <2>2
<1> DEFINE refused == NewHTTPError(400)
<1>5. CallNext \/ ReturnEarly(Failure("plain")) \/ ReturnEarly(refused)
  BY Zenon DEF EnterRecover, EnterRequestID, EnterLogger, EnterSecurity, EnterOverride, EnterTimeout
<1>6. Failure("plain") \in ErrRecord /\ Failure("plain").k # "deadline" /\ Failure("plain").cause = "none"
  <2>1. "plain" \in ErrKinds /\ "plain" # "deadline"
    BY Zenon DEF ErrKinds
  <2> QED BY Zenon, <2>1, ErrorsMade
<1>7. refused \in ErrRecord /\ refused.k # "deadline" /\ refused.cause = "none"
  BY DEF NewHTTPError, ErrRecord, ErrKinds
<1> HIDE DEF refused
<1>8. CallNext \/ \E e \in ErrRecord : ReturnEarly(e) /\ e.k # "deadline" /\ e.cause = "none"
  BY Zenon, <1>5, <1>6, <1>7
<1> QED BY Zenon, <1>1, <1>2, <1>4, <1>8, EnterKeeps

\* A step that leaves the layers alone and has a consistent response.
LEMMA InnerKeeps ==
    ASSUME PipelineInv, phase \in {"in", "handler"}, phase' \in {"handler", "out"}, depth' = Len(Stack),
           log' = log, ErrShape', DeadlineInside', ChildShape', Consistent(sw', wire'), phase' = "handler" => err' = Nil
    PROVE  PipelineInv'
<1>1. log = <<>> /\ IsSeq(log)
  BY Zenon DEF PipelineInv, StepShape
<1>2. Len(Stack) \in Nat /\ Len(Stack) <= Len(Stack)
  BY PipelineAssumption
<1>3. StepShape'
  BY Zenon, <1>1, <1>2 DEF StepShape
<1>4. LoggedShape' /\ IsSeq(log')
  BY Zenon, <1>1 DEF LoggedShape
<1> QED BY Zenon, <1>3, <1>4 DEF PipelineInv

\* The statuses that are written are at least 100.
LEMMA WritesKeep ==
    ASSUME PipelineInv, Consistent(sw, wire)
    PROVE  /\ \A status \in Int : status >= 100 =>
                LET r == WriteHeader(Response, status)
                IN Consistent(r.sw, r.wire) /\ Consistent(Write(r, "mux").sw, Write(r, "mux").wire)
           /\ Consistent(Write(Response, "handler").sw, Write(Response, "handler").wire)
           /\ Consistent(flush(Response).sw, flush(Response).wire)
           /\ Consistent(hijack(Response).sw, hijack(Response).wire)
<1>1. Consistent(Response.sw, Response.wire) /\ IsResponse(Response)
  BY Zenon, ResponseIs
<1>2. ASSUME NEW status \in Int, status >= 100, NEW r, r = WriteHeader(Response, status)
      PROVE  Consistent(r.sw, r.wire) /\ Consistent(Write(r, "mux").sw, Write(r, "mux").wire)
  <2>1. Consistent(r.sw, r.wire)
    BY Zenon, <1>1, <1>2, WriteHeaderOn
  <2>2. IsResponse(r)
    BY Zenon, <1>1, <1>2, ResponseOn
  <2> QED BY Zenon, <2>1, <2>2, WriteOn
<1>3. Consistent(Write(Response, "handler").sw, Write(Response, "handler").wire)
  BY Zenon, <1>1, WriteOn
<1>4. Consistent(flush(Response).sw, flush(Response).wire)
  BY Zenon, <1>1, CommittedOn DEF flush
<1>5. Consistent(hijack(Response).sw, hijack(Response).wire)
  BY Zenon, <1>1, HijackOn
<1> QED BY Zenon, <1>2, <1>3, <1>4, <1>5

\* The mux calls the handler or answers itself.
LEMMA MuxKeeps ==
    ASSUME PipelineInv, Mux
    PROVE  PipelineInv'
<1>1. phase = "in" /\ depth' = Len(Stack) /\ inbound' = inbound /\ child' = child /\ log' = log /\ err' = err
  BY Zenon DEF Mux
<1>2. /\ err = Nil /\ ErrShape /\ ChildShape /\ Consistent(sw, wire)
  BY Zenon, <1>1 DEF PipelineInv, StepShape
<1>3. ErrShape' /\ ChildShape' /\ DeadlineInside'
  BY Zenon, <1>1, <1>2, ErrorsMade DEF ErrShape, ChildShape, DeadlineInside, Is
<1>4. CASE phase' = "handler" /\ sw' = sw /\ wire' = wire
  BY Zenon, <1>1, <1>2, <1>3, <1>4, InnerKeeps
<1>5. ASSUME NEW status \in Int, status >= 100, phase' = "out", Becomes(Write(WriteHeader(Response, status), "mux"))
      PROVE  PipelineInv'
  <2>1. Consistent(sw', wire')
    BY Zenon, <1>2, <1>5, WritesKeep DEF Becomes
  <2> QED BY Zenon, <1>1, <1>3, <1>5, <2>1, InnerKeeps
<1>6. \/ phase' = "handler" /\ sw' = sw /\ wire' = wire
      \/ \E status \in Int : status >= 100 /\ phase' = "out" /\ Becomes(Write(WriteHeader(Response, status), "mux"))
  <2> DEFINE status == IF Routes = {} THEN 404 ELSE 405
  <2>1. status \in Int /\ status >= 100
    OBVIOUS
  <2>2. \/ phase' = "handler" /\ sw' = sw /\ wire' = wire
        \/ phase' = "out" /\ Becomes(Write(WriteHeader(Response, status), "mux"))
    BY Zenon DEF Mux
  <2> HIDE DEF status
  <2> QED BY Zenon, <2>1, <2>2
<1> QED BY Zenon, <1>4, <1>5, <1>6

\* The handler writes, flushes, hijacks, or returns.
LEMMA HandlerKeeps ==
    ASSUME PipelineInv, HandlerWrites \/ HandlerUses \/ HandlerReturns
    PROVE  PipelineInv'
<1>1. phase = "handler" /\ depth' = depth /\ inbound' = inbound /\ child' = child /\ log' = log
  BY Zenon DEF HandlerWrites, HandlerCall, HandlerUses, HandlerReturns
<1>2. /\ err = Nil /\ ErrShape /\ ChildShape /\ Consistent(sw, wire) /\ depth = Len(Stack)
  BY Zenon, <1>1 DEF PipelineInv, StepShape
<1>3. ChildShape'
  BY Zenon, <1>1, <1>2 DEF ChildShape
<1>4. ASSUME err' = err, phase' \in {"handler", "out"}, Consistent(sw', wire') PROVE PipelineInv'
  <2>1. ErrShape' /\ DeadlineInside' /\ err' = Nil
    BY Zenon, <1>2, <1>4, ErrorsMade DEF ErrShape, DeadlineInside, Is
  <2> QED BY Zenon, <1>1, <1>2, <1>3, <1>4, <2>1, InnerKeeps
<1>5. ASSUME NEW e \in ErrRecord, e.cause # "none" => e.k = "http", err' = e, phase' = "out", Consistent(sw', wire')
      PROVE  PipelineInv'
  <2>1. ErrShape'
    BY Zenon, <1>5 DEF ErrShape
  <2>2. \A i \in 1..Len(Stack) : i <= depth'
    BY <1>1, <1>2, PipelineAssumption
  <2>3. DeadlineInside'
    BY Zenon, <2>2 DEF DeadlineInside, NoTimeout
  <2> QED BY Zenon, <1>1, <1>2, <1>3, <1>5, <2>1, <2>3, InnerKeeps
<1>6. CASE HandlerWrites
  <2>1. phase' = phase /\ err' = err
    BY Zenon, <1>6 DEF HandlerWrites, HandlerCall
  <2>2. Consistent(sw', wire')
    <3>1. \A status \in Statuses : status \in Int /\ status >= 100
      BY PipelineAssumption
    <3>2. \/ \E status \in Statuses : Becomes(WriteHeader(Response, status))
          \/ Becomes(Write(Response, "handler"))
      BY Zenon, <1>6 DEF HandlerWrites, HandlerCall
    <3> QED BY Zenon, <1>2, <3>1, <3>2, WritesKeep DEF Becomes
  <2> QED BY Zenon, <1>1, <1>4, <2>1, <2>2
<1>7. CASE HandlerUses
  <2>1. Becomes(flush(Response)) \/ Becomes(hijack(Response)) \/ (sw' = sw /\ wire' = wire)
    BY Zenon, <1>7 DEF HandlerUses
  <2>2. Consistent(sw', wire')
    BY Zenon, <1>2, <2>1, WritesKeep DEF Becomes
  <2>3. (phase' = phase /\ err' = err) \/ (phase' = "out" /\ err' = Failure("panic"))
    BY Zenon, <1>7 DEF HandlerUses
  <2>4. Failure("panic") \in ErrRecord /\ Failure("panic").cause = "none"
    BY Zenon, ErrorsMade DEF ErrKinds
  <2> QED BY Zenon, <1>1, <1>4, <1>5, <2>2, <2>3, <2>4
<1>8. CASE HandlerReturns
  <2>1. phase' = "out" /\ sw' = sw /\ wire' = wire
    BY Zenon, <1>8 DEF HandlerReturns
  <2>2. \/ err' \in {Nil, Failure("plain"), Failure("panic"), Failure("abort")}
        \/ \E status \in HTTPErrors, cause \in {"none", "deadline", "canceled"} :
             err' = WithCause(NewHTTPError(status), cause)
        \/ err' \in {Failure("deadline"), Failure("canceled")}
    BY Zenon, <1>8 DEF HandlerReturns
  <2>3. ASSUME NEW status \in HTTPErrors, NEW cause \in {"none", "deadline", "canceled"},
               err' = WithCause(NewHTTPError(status), cause)
        PROVE  PipelineInv'
    <3> DEFINE e == WithCause(NewHTTPError(status), cause)
    <3>1. status \in Int
      BY PipelineAssumption
    <3>2. NewHTTPError(status) \in ErrRecord /\ NewHTTPError(status).k = "http"
      BY Zenon, <3>1, ErrorsMade
    <3>3. e \in ErrRecord /\ e.k = "http"
      BY Zenon, <3>2 DEF WithCause, ErrRecord
    <3> HIDE DEF e
    <3> QED BY Zenon, <1>2, <1>5, <2>1, <2>3, <3>3 DEF e
  <2>4. ASSUME NEW kind \in {"plain", "panic", "abort", "deadline", "canceled"}, err' = Failure(kind)
        PROVE  PipelineInv'
    <3>1. kind \in ErrKinds
      BY Zenon DEF ErrKinds
    <3> QED BY Zenon, <1>2, <1>5, <2>1, <2>4, <3>1, ErrorsMade
  <2>5. CASE err' = Nil
    BY Zenon, <1>2, <1>4, <2>1, <2>5
  <2> QED BY Zenon, <2>2, <2>3, <2>4, <2>5
<1> QED BY Zenon, <1>6, <1>7, <1>8

\* A step of the unwinding.
LEMMA LeavesKeep ==
    ASSUME PipelineInv, phase = "out", phase' = "out", depth >= 1, depth' = depth - 1, sw' = sw, wire' = wire,
           ErrShape', DeadlineInside', ChildShape', IsSeq(log'), LoggedShape'
    PROVE  PipelineInv'
<1>1. StepShape /\ Consistent(sw, wire)
  BY Zenon DEF PipelineInv
<1>2. depth \in Nat /\ depth <= Len(Stack) /\ Len(Stack) \in Nat
  BY <1>1, PipelineAssumption DEF StepShape
<1>3. StepShape'
  BY <1>2 DEF StepShape
<1> QED BY Zenon, <1>1, <1>3 DEF PipelineInv

\* A layer that is not Timeout passes a context error on.
LEMMA StillInside ==
    ASSUME PipelineInv, phase = "out", depth >= 1, depth' = depth - 1, Stack[depth] # "timeout", err' = err
    PROVE  DeadlineInside'
<1>1. DeadlineInside /\ depth \in Nat /\ Len(Stack) \in Nat
  BY PipelineAssumption DEF PipelineInv, StepShape
<1>2. ASSUME NEW i \in 1..Len(Stack), i <= depth, Stack[i] = "timeout" PROVE i <= depth'
  <2>1. i # depth
    BY Zenon, <1>2
  <2> QED BY <1>1, <1>2, <2>1
<1>3. Is(err, "deadline")' <=> Is(err, "deadline")
  BY Zenon DEF Is
<1> QED BY Zenon, <1>1, <1>2, <1>3 DEF DeadlineInside, NoTimeout

\* What is recorded and outside stays so when a layer passes everything on.
LEMMA PassesOn ==
    ASSUME PipelineInv, phase = "out", depth >= 1, depth' = depth - 1, log # <<>>
    PROVE  \A i \in 1..Len(Stack) : i <= depth' => Stack[i] # "timeout"
<1>1. \A i \in 1..Len(Stack) : i <= depth => Stack[i] # "timeout"
  BY Zenon DEF PipelineInv, LoggedShape
<1>2. depth \in Nat /\ Len(Stack) \in Nat
  BY PipelineAssumption DEF PipelineInv, StepShape
<1>3. \A i \in 1..Len(Stack) : i <= depth' => i <= depth
  BY <1>2
<1> QED BY Zenon, <1>1, <1>3

\* A record stays true while neither the error nor the response changes.
LEMMA RecordedOn ==
    ASSUME NEW r, Recorded(r), err' = err, sw' = sw, inbound' = inbound
    PROVE  Recorded(r)'
<1>1. ErrorStatus' = ErrorStatus
  BY DEF ErrorStatus
<1>2. Panicking' <=> Panicking
  BY Zenon DEF Panicking
<1>3. /\ Is(err, "deadline")' <=> Is(err, "deadline")
      /\ Is(err, "canceled")' <=> Is(err, "canceled")
  BY Zenon DEF Is
<1>4. Overruled(r.status)' <=> Overruled(r.status)
  BY Zenon, <1>3 DEF Overruled
<1>5. \/ inbound' # "none"
      \/ err' = Nil /\ r.status = sw'.status
      \/ err' # Nil /\ sw'.wrote /\ r.status = sw'.status
      \/ Panicking' /\ ~sw'.wrote /\ r.status = 500
      \/ ~Panicking' /\ ~sw'.wrote /\ Overruled(r.status)'
      \/ err' # Nil /\ ~Panicking' /\ r.status = ErrorStatus' /\ (sw'.wrote => err'.k = "http")
  BY Zenon, <1>1, <1>2, <1>4 DEF Recorded, StatusTold
<1>6. StatusTold(r)'
  BY Zenon, <1>5 DEF StatusTold
<1> QED BY Zenon, <1>3, <1>6 DEF Recorded

\* A layer that only passes on.
LEMMA LeavePlainKeeps ==
    ASSUME PipelineInv, LeavePlain
    PROVE  PipelineInv'
<1>1. /\ phase = "out" /\ phase' = "out" /\ depth >= 1 /\ depth' = depth - 1 /\ err' = err /\ sw' = sw
      /\ wire' = wire /\ inbound' = inbound /\ child' = child /\ log' = log /\ Stack[depth] # "timeout"
  BY Zenon DEF LeavePlain, Leaving, Unwind
<1>2. ErrShape /\ ChildShape /\ IsSeq(log) /\ LoggedShape
  BY Zenon, <1>1 DEF PipelineInv
<1>3. ErrShape' /\ ChildShape' /\ IsSeq(log')
  BY Zenon, <1>1, <1>2 DEF ErrShape, ChildShape
<1>4. DeadlineInside'
  BY Zenon, <1>1, StillInside
<1>5. LoggedShape'
  <2>1. ASSUME log # <<>> PROVE Recorded(log[1])'
    <3>1. PICK r : r = log[1] /\ r = log'[1]
      BY Zenon, <1>1
    <3>2. Recorded(r)
      BY Zenon, <1>2, <2>1, <3>1 DEF LoggedShape
    <3>3. Recorded(r)'
      BY Zenon, <1>1, <3>2, RecordedOn
    <3> QED BY Zenon, <3>1, <3>3
  <2> QED BY Zenon, <1>1, <2>1, PassesOn DEF LoggedShape
<1> QED BY Zenon, <1>1, <1>3, <1>4, <1>5, LeavesKeep

\* Timeout turns an expired context into a 504; it is inside Logger.
LEMMA LeaveTimeoutKeeps ==
    ASSUME PipelineInv, LeaveTimeout
    PROVE  PipelineInv'
<1> DEFINE gone == WithCause(NewHTTPError(504), "deadline")
<1>1. /\ phase = "out" /\ phase' = "out" /\ depth >= 1 /\ depth' = depth - 1 /\ sw' = sw
      /\ wire' = wire /\ inbound' = inbound /\ log' = log /\ Stack[depth] = "timeout"
      /\ child' = IF child = "none" THEN "canceled" ELSE child
      /\ err' = IF ~Panicking /\ (Is(err, "deadline") \/ child = "deadline") THEN gone ELSE err
  BY Zenon DEF LeaveTimeout, Leaving, Unwind
<1>2. ErrShape /\ ChildShape /\ IsSeq(log) /\ LoggedShape /\ StepShape
  BY Zenon, <1>1 DEF PipelineInv
<1>3. gone \in ErrRecord /\ gone.k = "http" /\ gone.status = 504
  BY DEF WithCause, NewHTTPError, ErrRecord, ErrKinds
<1> HIDE DEF gone
<1>4. ErrShape'
  <2>1. err' = gone \/ err' = err
    BY Zenon, <1>1
  <2>2. CASE err' = gone
    BY <1>3, <2>2 DEF ErrShape
  <2>3. CASE err' = err
    BY <1>2, <2>3 DEF ErrShape
  <2> QED BY Zenon, <2>1, <2>2, <2>3
<1>5. ChildShape'
  BY Zenon, <1>1, <1>2 DEF ChildShape
<1>6. DeadlineInside'
  <2>1. Is(err, "deadline") => ~Panicking
    BY Zenon, <1>2 DEF Panicking, Is, ErrShape
  <2>2. (err'.k = "http" /\ err'.status = 504) \/ ~Is(err', "deadline")
    BY Zenon, <1>1, <1>3, <2>1
  <2> QED BY Zenon, <2>2 DEF DeadlineInside, Is
<1>7. log = <<>>
  <2>1. depth \in 1..Len(Stack) /\ depth <= depth
    BY <1>1, <1>2, PipelineAssumption DEF StepShape
  <2> QED BY Zenon, <1>1, <1>2, <2>1 DEF LoggedShape
<1>8. LoggedShape' /\ IsSeq(log')
  BY Zenon, <1>1, <1>2, <1>7 DEF LoggedShape
<1> QED BY Zenon, <1>1, <1>4, <1>5, <1>6, <1>8, LeavesKeep

\* Recover turns a panic into a 500, which is what was logged unless the
\* response was committed.
LEMMA LeaveRecoverKeeps ==
    ASSUME PipelineInv, LeaveRecover
    PROVE  PipelineInv'
<1> DEFINE failed == NewHTTPError(500)
<1>1. /\ phase = "out" /\ phase' = "out" /\ depth >= 1 /\ depth' = depth - 1 /\ sw' = sw
      /\ wire' = wire /\ inbound' = inbound /\ child' = child /\ log' = log /\ Stack[depth] # "timeout"
      /\ err' = IF err.k = "panic" THEN failed ELSE err
  BY Zenon DEF LeaveRecover, Leaving, Unwind
<1>2. ErrShape /\ ChildShape /\ IsSeq(log) /\ LoggedShape
  BY Zenon, <1>1 DEF PipelineInv
<1>3. failed \in ErrRecord /\ failed.k = "http" /\ failed.status = 500 /\ failed.cause = "none" /\ failed # Nil
  BY DEF NewHTTPError, ErrRecord, ErrKinds, Nil
<1> HIDE DEF failed
<1>4. ChildShape' /\ IsSeq(log')
  BY Zenon, <1>1, <1>2 DEF ChildShape
<1>5. ASSUME log # <<>>, NEW r, r = log[1], r = log'[1], Recorded(r)' PROVE LoggedShape'
  BY Zenon, <1>1, <1>5, PassesOn DEF LoggedShape
<1>6. CASE err.k = "panic"
  <2>1. err' = failed
    BY Zenon, <1>1, <1>6
  <2>2. ErrShape' /\ DeadlineInside'
    BY Zenon, <1>3, <2>1 DEF ErrShape, DeadlineInside, Is
  <2>3. ErrorStatus' = 500
    BY <1>3, <2>1 DEF ErrorStatus
  <2>4. ~Panicking'
    BY Zenon, <1>3, <2>1 DEF Panicking
  <2>5. Panicking /\ err # Nil /\ ~Is(err, "canceled") /\ ~Is(err, "deadline")
    BY Zenon, <1>2, <1>6, ErrorsMade DEF Panicking, Is, ErrShape
  <2>6. ASSUME log # <<>> PROVE LoggedShape'
    <3>1. PICK r : r = log[1] /\ r = log'[1]
      BY Zenon, <1>1
    <3>2. Recorded(r)
      BY Zenon, <1>2, <2>6, <3>1 DEF LoggedShape
    <3>3. inbound' # "none" \/ (sw'.wrote /\ r.status = sw'.status) \/ (~sw'.wrote /\ r.status = ErrorStatus')
      BY Zenon, <1>1, <2>3, <2>5, <3>2 DEF Recorded, StatusTold
    <3>4. StatusTold(r)'
      BY Zenon, <1>3, <2>1, <2>4, <3>3 DEF StatusTold
    <3>5. r.outcome # "success" /\ r.outcome # "timeout" /\ (r.outcome = "canceled" => inbound' = "canceled")
      BY Zenon, <1>1, <2>5, <3>2 DEF Recorded
    <3>6. Recorded(r)'
      BY Zenon, <3>4, <3>5 DEF Recorded
    <3> QED BY Zenon, <1>5, <2>6, <3>1, <3>6
  <2>7. LoggedShape'
    BY Zenon, <1>1, <2>6 DEF LoggedShape
  <2> QED BY Zenon, <1>1, <1>4, <2>2, <2>7, LeavesKeep
<1>7. CASE err.k # "panic"
  <2>1. err' = err
    BY Zenon, <1>1, <1>7
  <2>2. ErrShape'
    BY <1>2, <2>1 DEF ErrShape
  <2>3. DeadlineInside'
    BY Zenon, <1>1, <2>1, StillInside
  <2>4. ErrShape' /\ DeadlineInside'
    BY Zenon, <2>2, <2>3
  <2>5. ASSUME log # <<>> PROVE LoggedShape'
    <3>1. PICK r : r = log[1] /\ r = log'[1]
      BY Zenon, <1>1
    <3>2. Recorded(r)
      BY Zenon, <1>2, <2>5, <3>1 DEF LoggedShape
    <3>3. Recorded(r)'
      BY Zenon, <1>1, <2>1, <3>2, RecordedOn
    <3> QED BY Zenon, <1>5, <2>5, <3>1, <3>3
  <2>6. LoggedShape'
    BY Zenon, <1>1, <2>5 DEF LoggedShape
  <2> QED BY Zenon, <1>1, <1>4, <2>4, <2>6, LeavesKeep
<1> QED BY Zenon, <1>6, <1>7

\* What Logger writes down: an expired context that got this far has become a
\* 504, or no Timeout is there to make it one.
LEMMA RecordTells ==
    ASSUME ErrShape, ChildShape, sw.status \in Int,
           Is(err, "deadline") => (err.k = "http" /\ err.status = 504) \/ NoTimeout
    PROVE  Recorded(Record(inbound))
<1> DEFINE judged == Outcome(inbound)
           status  == LoggedStatus(judged)
           told    == IF judged = "success" /\ status >= 400 THEN "error" ELSE judged
           r       == Record(inbound)
<1>1. r.status = status /\ r.outcome = told
  BY Zenon DEF Record
<1>2. inbound \in {"none", "canceled"}
  BY Zenon DEF ChildShape
<1>3. err.k = "http" /\ err.status = 504 => ErrorStatus = 504
  BY DEF ErrorStatus
<1>4. Is(err, "deadline") \/ Is(err, "canceled") => err # Nil
  BY Zenon, ErrorsMade DEF Is
<1> HIDE DEF r
<1>5. CASE Panicking
  <2>1. judged = "panic"
    BY <1>5 DEF Outcome
  <2>2. status = IF sw.wrote THEN sw.status ELSE 500
    BY <2>1 DEF LoggedStatus
  <2>3. err # Nil
    BY Zenon, <1>5, ErrorsMade DEF Panicking
  <2>4. told = "panic"
    BY Zenon, <2>1
  <2> HIDE DEF judged, status, told
  <2> QED BY Zenon, <1>1, <1>5, <2>2, <2>3, <2>4 DEF Recorded, StatusTold, r
<1>6. CASE ~Panicking /\ Is(err, "deadline")
  <2>1. judged = "timeout"
    BY <1>6 DEF Outcome
  <2>2. status = IF sw.wrote THEN sw.status ELSE 504
    BY <2>1 DEF LoggedStatus
  <2>3. told = "timeout"
    BY Zenon, <2>1
  <2> HIDE DEF judged, status, told
  <2>4. r.status = status
    BY Zenon, <1>1 DEF r
  <2>5. ASSUME sw.wrote PROVE StatusTold(r)
    BY Zenon, <1>4, <1>6, <2>2, <2>4, <2>5 DEF StatusTold
  <2>6. ASSUME ~sw.wrote, NoTimeout PROVE StatusTold(r)
    BY <1>6, <2>2, <2>4, <2>6 DEF StatusTold, Overruled, NoTimeout
  <2>7. ASSUME ~sw.wrote, err.k = "http", err.status = 504 PROVE StatusTold(r)
    <3>1. r.status = ErrorStatus
      BY <1>3, <2>2, <2>4, <2>7
    <3> QED BY Zenon, <1>4, <1>6, <2>7, <3>1 DEF StatusTold
  <2>8. StatusTold(r)
    BY Zenon, <1>6, <2>5, <2>6, <2>7
  <2> QED BY Zenon, <1>1, <1>6, <2>3, <2>8 DEF Recorded, r
<1>7. CASE ~Panicking /\ ~Is(err, "deadline") /\ (Is(err, "canceled") \/ inbound = "canceled")
  <2>1. judged = "canceled"
    BY <1>2, <1>7 DEF Outcome
  <2>2. status = IF sw.wrote THEN sw.status ELSE 500
    BY <2>1 DEF LoggedStatus
  <2>3. told = "canceled"
    BY Zenon, <2>1
  <2> HIDE DEF judged, status, told
  <2>4. r.status = status
    BY Zenon, <1>1 DEF r
  <2>5. ASSUME inbound = "canceled" PROVE StatusTold(r)
    BY Zenon, <2>5 DEF StatusTold
  <2>6. ASSUME Is(err, "canceled"), sw.wrote PROVE StatusTold(r)
    BY Zenon, <1>4, <2>2, <2>4, <2>6 DEF StatusTold
  <2>7. ASSUME Is(err, "canceled"), ~sw.wrote PROVE StatusTold(r)
    BY <1>7, <2>2, <2>4, <2>7 DEF StatusTold, Overruled
  <2>8. StatusTold(r)
    BY Zenon, <1>7, <2>5, <2>6, <2>7
  <2> QED BY Zenon, <1>1, <1>7, <2>3, <2>8 DEF Recorded, r
<1>8. CASE ~Panicking /\ ~Is(err, "deadline") /\ ~Is(err, "canceled") /\ inbound # "canceled" /\ err = Nil
  <2>1. judged = "success"
    BY <1>2, <1>8 DEF Outcome
  <2>2. status = sw.status
    BY <1>8, <2>1, ErrorsMade DEF LoggedStatus
  <2>3. told # "canceled" /\ told # "timeout" /\ (told = "success" => status < 400)
    BY <2>1, <2>2
  <2> HIDE DEF judged, status, told
  <2> QED BY Zenon, <1>1, <1>8, <2>2, <2>3 DEF Recorded, StatusTold, r
<1>9. CASE ~Panicking /\ ~Is(err, "deadline") /\ ~Is(err, "canceled") /\ inbound # "canceled" /\ err # Nil
  <2>1. judged = "error"
    BY <1>2, <1>9 DEF Outcome
  <2>2. /\ status = ErrorStatus \/ (sw.wrote /\ status = sw.status)
        /\ status # sw.status /\ sw.wrote => err.k = "http"
    BY <2>1 DEF LoggedStatus, ErrorStatus
  <2>3. told = "error"
    BY Zenon, <2>1
  <2> HIDE DEF judged, status, told
  <2>4. StatusTold(r)
    BY Zenon, <1>1, <1>9, <2>2 DEF StatusTold, r
  <2> QED BY Zenon, <1>1, <2>3, <2>4 DEF Recorded, r
<1> QED BY Zenon, <1>5, <1>6, <1>7, <1>8, <1>9 DEF r

\* One more record.
LEMMA OneMoreRecord ==
    ASSUME NEW s, IsSeq(s), NEW e
    PROVE  /\ IsSeq(Append(s, e))
           /\ s # <<>> => Append(s, e)[1] = s[1]
           /\ s = <<>> => Append(s, e)[1] = e
<1>1. PICK S : s \in Seq(S)
  BY Zenon DEF IsSeq
<1>2. Append(s, e) \in Seq(S \cup {e})
  BY <1>1
<1>3. s # <<>> => Append(s, e)[1] = s[1]
  BY <1>1
<1>4. s = <<>> => Append(s, e)[1] = e
  BY <1>1
<1>5. IsSeq(Append(s, e))
  BY Zenon, <1>2 DEF IsSeq
<1> QED BY Zenon, <1>3, <1>4, <1>5

\* Logger is outside Timeout: what it sees is what is answered.
LEMMA LeaveLoggerKeeps ==
    ASSUME PipelineInv, LeaveLogger
    PROVE  PipelineInv'
<1>1. /\ phase = "out" /\ phase' = "out" /\ depth >= 1 /\ depth' = depth - 1 /\ err' = err /\ sw' = sw
      /\ wire' = wire /\ inbound' = inbound /\ child' = child /\ Stack[depth] = "logger" /\ Stack[depth] # "timeout"
      /\ log' = Append(log, Record(inbound))
  BY Zenon DEF LeaveLogger, Leaving, Unwind, Captured
<1>2. ErrShape /\ ChildShape /\ IsSeq(log) /\ LoggedShape /\ StepShape /\ DeadlineInside /\ Consistent(sw, wire)
  BY Zenon, <1>1 DEF PipelineInv
<1>3. ErrShape'
  BY <1>1, <1>2 DEF ErrShape
<1>4. ChildShape'
  BY Zenon, <1>1, <1>2 DEF ChildShape
<1>5. depth \in 1..Len(Stack) /\ Len(Stack) \in Nat
  BY <1>1, <1>2, PipelineAssumption DEF StepShape
<1>6. \A i \in 1..Len(Stack) : Stack[i] = "timeout" => depth < i
  BY Zenon, <1>1, <1>5, PipelineAssumption
<1>7. \A i \in 1..Len(Stack) : i <= depth => Stack[i] # "timeout"
  <2>1. \A i \in 1..Len(Stack) : ~(i <= depth /\ depth < i)
    BY <1>5
  <2> QED BY Zenon, <1>6, <2>1
<1>8. Is(err, "deadline") => (err.k = "http" /\ err.status = 504) \/ NoTimeout
  BY Zenon, <1>2, <1>7 DEF DeadlineInside
<1>9. DeadlineInside'
  BY Zenon, <1>1, StillInside
<1>10. sw.status \in Int
  <2>1. sw \in TrackerRecord
    BY Zenon, <1>2 DEF Consistent
  <2> QED BY <2>1 DEF TrackerRecord
<1>11. IsSeq(log') /\ (log # <<>> => log'[1] = log[1]) /\ (log = <<>> => log'[1] = Record(inbound))
  BY Zenon, <1>1, <1>2, OneMoreRecord
<1>12. PICK r : r = log'[1] /\ Recorded(r)
  <2>1. CASE log # <<>>
    BY Zenon, <1>2, <1>11, <2>1 DEF LoggedShape
  <2>2. CASE log = <<>>
    <3>1. Recorded(Record(inbound))
      BY Zenon, <1>2, <1>8, <1>10, RecordTells
    <3> QED BY Zenon, <1>11, <2>2, <3>1
  <2> QED BY Zenon, <2>1, <2>2
<1>13. Recorded(r)'
  BY Zenon, <1>1, <1>12, RecordedOn
<1>14. Recorded(log[1])'
  BY Zenon, <1>12, <1>13
<1>15. \A i \in 1..Len(Stack) : i <= depth' => Stack[i] # "timeout"
  <2>1. \A i \in 1..Len(Stack) : i <= depth' => i <= depth
    BY <1>1, <1>5
  <2> QED BY Zenon, <1>7, <2>1
<1>16. LoggedShape'
  BY Zenon, <1>14, <1>15 DEF LoggedShape
<1> QED BY Zenon, <1>1, <1>3, <1>4, <1>9, <1>11, <1>16, LeavesKeep

\* The client leaves, or the deadline fires.
LEMMA ContextKeeps ==
    ASSUME PipelineInv, ClientLeaves \/ DeadlineFires
    PROVE  PipelineInv'
<1>1. phase' = phase /\ depth' = depth /\ err' = err /\ sw' = sw /\ wire' = wire /\ log' = log
  BY Zenon DEF ClientLeaves, DeadlineFires
<1>2. StepShape /\ ErrShape /\ DeadlineInside /\ ChildShape /\ IsSeq(log)
  BY Zenon DEF PipelineInv
<1>3. ErrShape'
  BY <1>1, <1>2 DEF ErrShape
<1>4. StepShape' /\ DeadlineInside' /\ IsSeq(log')
  <2>1. StepShape' /\ IsSeq(log')
    BY Zenon, <1>1, <1>2 DEF StepShape
  <2>2. Is(err, "deadline")' <=> Is(err, "deadline")
    BY Zenon, <1>1 DEF Is
  <2>3. DeadlineInside'
    BY Zenon, <1>1, <1>2, <2>2 DEF DeadlineInside, NoTimeout
  <2> QED BY Zenon, <2>1, <2>3
<1>5. ChildShape'
  BY Zenon, <1>2 DEF ChildShape, ClientLeaves, DeadlineFires
<1>6. CASE phase # "done"
  <2>1. Consistent(sw, wire) /\ LoggedShape
    BY Zenon, <1>6 DEF PipelineInv
  <2>2. inbound' = inbound \/ inbound' = "canceled"
    BY Zenon DEF ClientLeaves, DeadlineFires
  <2>3. ASSUME NEW r, Recorded(r) PROVE Recorded(r)'
    <3>1. CASE inbound' = inbound
      BY Zenon, <1>1, <2>3, <3>1, RecordedOn
    <3>2. CASE inbound' = "canceled"
      <4>1. StatusTold(r)'
        BY Zenon, <3>2 DEF StatusTold
      <4> QED BY Zenon, <1>1, <2>3, <3>2, <4>1 DEF Recorded, Is
    <3> QED BY Zenon, <2>2, <3>1, <3>2
  <2>4. ASSUME log # <<>> PROVE Recorded(log[1])'
    <3>1. PICK r : r = log[1] /\ r = log'[1]
      BY Zenon, <1>1
    <3>2. Recorded(r)
      BY Zenon, <2>1, <2>4, <3>1 DEF LoggedShape
    <3>3. Recorded(r)'
      BY Zenon, <2>3, <3>2
    <3> QED BY Zenon, <3>1, <3>3
  <2>5. LoggedShape'
    BY Zenon, <1>1, <2>1, <2>4 DEF LoggedShape
  <2> QED BY Zenon, <1>1, <1>3, <1>4, <1>5, <1>6, <2>1, <2>5 DEF PipelineInv
<1>7. CASE phase = "done"
  <2>1. inbound' = inbound
    BY Zenon, <1>7 DEF ClientLeaves, DeadlineFires
  <2>2. CompletionIsTrue
    BY Zenon, <1>7 DEF PipelineInv
  <2>3. CompletionIsTrue'
    BY <1>1, <2>1, <2>2 DEF CompletionIsTrue, Done, ErrorStatus, Overruled, Is
  <2> QED BY Zenon, <1>1, <1>3, <1>4, <1>5, <1>7, <2>3 DEF PipelineInv
<1> QED BY Zenon, <1>6, <1>7

\* What the client gets when the error, if any, is not a panic.
LEMMA ClientGets ==
    ASSUME Consistent(sw, wire), Answer, ~Panicking
    PROVE  /\ wire'.hijacked = wire.hijacked
           /\ ~sw.wrote /\ err # Nil => wire'.final = ErrorStatus
           /\ ~sw.wrote /\ err = Nil => wire'.final = 200
           /\ sw.wrote => wire'.final = wire.final
<1>1. Consistent(Response.sw, Response.wire) /\ IsResponse(Response) /\ Response.sw = sw /\ Response.wire = wire
  BY Zenon, ResponseIs
<1>2. CASE AnswersError
  <2> DEFINE h == WriteHeader(Response, ErrorStatus)
  <2>1. ~sw.wrote /\ err # Nil
    BY Zenon, <1>2 DEF AnswersError
  <2>2. ErrorStatus \in Int /\ ErrorStatus >= 100 /\ ErrorStatus >= 200
    BY DEF ErrorStatus
  <2>3. /\ Consistent(h.sw, h.wire) /\ h.wire.hijacked = wire.hijacked /\ h.sw.wrote
        /\ h.wire.final = ErrorStatus
    BY Zenon, <1>1, <2>1, <2>2, WriteHeaderOn
  <2>4. IsResponse(h)
    BY Zenon, <1>1, ResponseOn
  <2>5. wire' = Write(h, "error").wire
    BY Zenon, <1>2 DEF Answer, Becomes
  <2> HIDE DEF h
  <2>6. Write(h, "error").wire.hijacked = h.wire.hijacked /\ Write(h, "error").wire.final = h.wire.final
    BY Zenon, <2>3, <2>4, WriteOn
  <2> QED BY Zenon, <2>1, <2>3, <2>5, <2>6
<1>3. CASE ~AnswersError
  <2> DEFINE ok == 200
  <2>1. sw.wrote \/ err = Nil
    BY Zenon, <1>3 DEF AnswersError
  <2>2. [Response EXCEPT !.wire = NetWriteHeader(Response.wire, ok)].wire = NetWriteHeader(Response.wire, ok)
    <3>1. PICK S, W : Response \in [sw : S, wire : W]
      BY Zenon, <1>1 DEF IsResponse
    <3> QED BY Zenon, <3>1
  <2>3. wire' = [Response EXCEPT !.wire = NetWriteHeader(Response.wire, ok)].wire
    BY <1>3 DEF Answer, Becomes
  <2>4. wire' = NetWriteHeader(wire, ok)
    BY Zenon, <1>1, <2>2, <2>3
  <2>5. ok \in Int /\ ~(ok \in 100..199 /\ ok # 101) /\ ok = 200
    OBVIOUS
  <2>6. IsWire(wire) /\ ok \in Int
    BY Zenon, <2>5 DEF Consistent
  <2> HIDE DEF ok
  <2>7. /\ NetWriteHeader(wire, ok).hijacked = wire.hijacked
        /\ wire.hijacked \/ wire.final # 0 => NetWriteHeader(wire, ok).final = wire.final
        /\ ~wire.hijacked /\ wire.final = 0 =>
             NetWriteHeader(wire, ok).final = IF ok \in 100..199 /\ ok # 101 THEN 0 ELSE ok
    BY Zenon, <2>6, HeaderOn
  <2>8. CASE sw.wrote
    <3>1. wire.hijacked \/ wire.final # 0
      <4>1. sw.status > 0 /\ sw \in TrackerRecord /\ (~wire.hijacked => wire.final = sw.status)
        BY Zenon, <2>8 DEF Consistent
      <4> QED BY <4>1 DEF TrackerRecord
    <3> QED BY Zenon, <2>4, <2>7, <2>8, <3>1
  <2>9. CASE ~sw.wrote
    <3>1. ~wire.hijacked /\ wire.final = 0
      BY Zenon, <2>9 DEF Consistent
    <3>2. wire'.final = ok /\ wire'.hijacked = wire.hijacked
      BY Zenon, <2>4, <2>5, <2>7, <3>1
    <3> QED BY Zenon, <2>1, <2>5, <2>9, <3>2
  <2> QED BY Zenon, <2>8, <2>9
<1> QED BY Zenon, <1>2, <1>3

\* ServeHTTP answers what was logged.
LEMMA AnswerKeeps ==
    ASSUME PipelineInv, Answer
    PROVE  PipelineInv'
<1>1. /\ phase = "out" /\ phase' = "done" /\ depth' = depth /\ err' = err /\ inbound' = inbound
      /\ child' = child /\ log' = log
  BY Zenon DEF Answer
<1>2. StepShape /\ ErrShape /\ DeadlineInside /\ ChildShape /\ IsSeq(log) /\ Consistent(sw, wire) /\ LoggedShape
  BY Zenon, <1>1 DEF PipelineInv
<1>3. ErrShape'
  BY <1>1, <1>2 DEF ErrShape
<1>4. StepShape' /\ DeadlineInside' /\ ChildShape' /\ IsSeq(log')
  BY Zenon, <1>1, <1>2 DEF StepShape, DeadlineInside, ChildShape, Is, NoTimeout
<1>5. /\ ErrorStatus' = ErrorStatus
      /\ \A s : Overruled(s)' <=> Overruled(s)
      /\ Is(err, "canceled")' <=> Is(err, "canceled")
      /\ Is(err, "deadline")' <=> Is(err, "deadline")
  <2>1. ErrorStatus' = ErrorStatus
    BY <1>1 DEF ErrorStatus
  <2>2. (Is(err, "canceled")' <=> Is(err, "canceled")) /\ (Is(err, "deadline")' <=> Is(err, "deadline"))
    BY Zenon, <1>1 DEF Is
  <2>3. \A s : Overruled(s)' <=> Overruled(s)
    BY Zenon, <2>2 DEF Overruled
  <2> QED BY Zenon, <2>1, <2>2, <2>3
<1>6. CASE Panicking
  <2>1. IsWire(wire) /\ wire' = [wire EXCEPT !.aborted = TRUE]
    BY Zenon, <1>2, <1>6 DEF Answer, Consistent
  <2>2. PICK I, H, B : wire \in [info : I, final : Int, headers : H, body : B, hijacked : BOOLEAN, aborted : BOOLEAN]
    BY Zenon, <2>1 DEF IsWire
  <2>3. wire'.aborted
    BY Zenon, <2>1, <2>2
  <2>4. CompletionIsTrue'
    BY Zenon, <2>3 DEF CompletionIsTrue
  <2> QED BY Zenon, <1>1, <1>3, <1>4, <2>4 DEF PipelineInv
<1>7. CASE ~Panicking /\ log = <<>>
  <2>1. CompletionIsTrue'
    BY Zenon, <1>1, <1>7 DEF CompletionIsTrue
  <2> QED BY Zenon, <1>1, <1>3, <1>4, <2>1 DEF PipelineInv
<1>8. CASE ~Panicking /\ log # <<>>
  <2>1. PICK r : r = log[1] /\ r = log'[1]
    BY Zenon, <1>1
  <2>2. Recorded(r)
    BY Zenon, <1>2, <1>8, <2>1 DEF LoggedShape
  <2>3. /\ wire'.hijacked = wire.hijacked
        /\ ~sw.wrote /\ err # Nil => wire'.final = ErrorStatus
        /\ ~sw.wrote /\ err = Nil => wire'.final = 200
        /\ sw.wrote => wire'.final = wire.final
    BY Zenon, <1>2, <1>8, ClientGets
  <2>4. /\ sw.status \in Int
        /\ ~sw.wrote => sw.status <= 200
        /\ sw.wrote => wire.final \in {0, sw.status} /\ (~wire.hijacked => wire.final = sw.status)
    <3>1. sw \in TrackerRecord
      BY Zenon, <1>2 DEF Consistent
    <3>2. sw.status \in Int
      BY <3>1 DEF TrackerRecord
    <3> QED BY Zenon, <1>2, <3>2 DEF Consistent
  <2>5. r.outcome = "success" => wire'.final < 400
    <3> SUFFICES ASSUME r.outcome = "success" PROVE wire'.final < 400
      BY Zenon
    <3>1. err = Nil /\ sw.status < 400
      BY Zenon, <2>2 DEF Recorded
    <3>2. wire'.final = 200 \/ wire'.final = 0 \/ wire'.final = sw.status
      BY Zenon, <2>3, <2>4, <3>1
    <3> QED BY <3>1, <3>2
  <2>6. /\ r.outcome = "canceled" => inbound' = "canceled" \/ Is(err, "canceled")'
        /\ r.outcome = "timeout" => Is(err, "deadline")'
    BY Zenon, <1>1, <1>5, <2>2 DEF Recorded
  <2>7. ASSUME inbound' = "none", r.status >= 200, ~wire'.hijacked, ~(err'.k = "http" /\ wire'.final # ErrorStatus')
        PROVE  r.status = wire'.final \/ Overruled(r.status)'
    <3>1. \/ Overruled(r.status)'
          \/ err = Nil /\ r.status = sw.status
          \/ err # Nil /\ sw.wrote /\ r.status = sw.status
          \/ err # Nil /\ r.status = ErrorStatus /\ (sw.wrote => err.k = "http")
      BY Zenon, <1>1, <1>5, <1>8, <2>2, <2>7 DEF Recorded, StatusTold
    <3>2. sw.wrote => wire'.final = sw.status
      BY Zenon, <2>3, <2>4, <2>7
    <3>3. CASE sw.wrote
      BY Zenon, <1>1, <1>5, <2>7, <3>1, <3>2, <3>3
    <3>4. CASE ~sw.wrote /\ err = Nil /\ ~Overruled(r.status)'
      <4>1. r.status = sw.status /\ wire'.final = 200 /\ sw.status <= 200
        BY Zenon, <2>3, <2>4, <3>1, <3>4
      <4> QED BY <2>4, <2>7, <4>1
    <3>5. CASE ~sw.wrote /\ err # Nil
      BY Zenon, <2>3, <3>1, <3>5
    <3> QED BY Zenon, <3>3, <3>4, <3>5
  <2>8. /\ log'[1].outcome = "success" => wire'.final < 400
        /\ log'[1].outcome = "canceled" => inbound' = "canceled" \/ Is(err, "canceled")'
        /\ log'[1].outcome = "timeout" => Is(err, "deadline")'
        /\ (inbound' = "none" /\ log'[1].status >= 200 /\ ~wire'.hijacked
            /\ ~(err'.k = "http" /\ wire'.final # ErrorStatus'))
           => log'[1].status = wire'.final \/ Overruled(log[1].status)'
    BY Zenon, <2>1, <2>5, <2>6, <2>7
  <2>9. CompletionIsTrue'
    BY Zenon, <2>8 DEF CompletionIsTrue
  <2> QED BY Zenon, <1>1, <1>3, <1>4, <2>9 DEF PipelineInv
<1> QED BY Zenon, <1>6, <1>7, <1>8

\* Every step keeps the invariant.
LEMMA PipelineKeeps ==
    ASSUME PipelineInv, [PipelineNext]_pipelineVars
    PROVE  PipelineInv'
<1>1. CASE UNCHANGED pipelineVars
  <2>1. /\ phase' = phase /\ depth' = depth /\ err' = err /\ sw' = sw /\ wire' = wire /\ log' = log
        /\ inbound' = inbound /\ child' = child
    BY Zenon, <1>1 DEF pipelineVars
  <2>2. /\ StepShape' <=> StepShape
        /\ DeadlineInside' <=> DeadlineInside
        /\ ChildShape' <=> ChildShape
    BY Zenon, <2>1 DEF StepShape, DeadlineInside, ChildShape, Is, NoTimeout
  <2>3. ErrShape' <=> ErrShape
    BY <2>1 DEF ErrShape
  <2>4. CompletionIsTrue' <=> CompletionIsTrue
    BY <2>1 DEF CompletionIsTrue, Done, ErrorStatus, Overruled, Is
  <2>5. ASSUME LoggedShape PROVE LoggedShape'
    <3>1. ASSUME log # <<>> PROVE Recorded(log[1])'
      <4>1. PICK r : r = log[1] /\ r = log'[1]
        BY Zenon, <2>1
      <4>2. Recorded(r)
        BY Zenon, <2>5, <3>1, <4>1 DEF LoggedShape
      <4>3. Recorded(r)'
        BY Zenon, <2>1, <4>2, RecordedOn
      <4> QED BY Zenon, <4>1, <4>3
    <3> QED BY Zenon, <2>1, <2>5, <3>1 DEF LoggedShape
  <2> QED BY Zenon, <2>1, <2>2, <2>3, <2>4, <2>5 DEF PipelineInv
<1> QED BY Zenon, <1>1, EntersKeep, MuxKeeps, HandlerKeeps, LeaveTimeoutKeeps, LeavePlainKeeps, LeaveLoggerKeeps,
        LeaveRecoverKeeps, AnswerKeeps, ContextKeeps DEF PipelineNext, Finished

\* middleware.go: the completion record tells what the client saw, for every
\* stack that has Logger outside any Timeout, whatever the handler writes and
\* returns and whenever the client leaves or the deadline fires.
THEOREM LogTellsResponse == PipelineSpec => []CompletionIsTrue
<1>1. PipelineInit => PipelineInv
  BY Zenon, PipelineStart
<1>2. PipelineInv /\ [PipelineNext]_pipelineVars => PipelineInv'
  BY Zenon, PipelineKeeps
<1>3. PipelineInv => CompletionIsTrue
  BY Zenon DEF PipelineInv, CompletionIsTrue, Done
<1> QED BY <1>1, <1>2, <1>3, PTL DEF PipelineSpec

=============================================================================
