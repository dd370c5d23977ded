----------------------------- MODULE RateLimit -----------------------------
(***************************************************************************)
(* ratelimit.Limiter over the bounded in-memory store                      *)
(* (security/ratelimit/ratelimit.go, security/ratelimit/memory.go).        *)
(*                                                                         *)
(* The limiter reads the clock before the store takes its mutex, so the    *)
(* attempts of several callers reach the store with stamps that may be     *)
(* old and out of order.                                                   *)
(***************************************************************************)
EXTENDS Integers, FiniteSets

CONSTANTS LimiterKeys, LimiterCallers, Limit, Window, Capacity,
          LimiterSecond,     \* clock ticks of one second (Retry-After counts seconds)
          MaxLimiterTime, MaxResets   \* bounds of the model

ASSUME LimiterAssumption ==
    /\ Limit \in Nat \ {0} /\ Window \in Nat \ {0} /\ Capacity \in Nat \ {0}
    /\ LimiterSecond \in Nat \ {0}

VARIABLES limiterNow, entries, limiterCaller,
          resets   \* history: how often each key was reset
limiterVars == <<limiterNow, entries, limiterCaller, resets>>

Absent == [count |-> 0, resetAt |-> 0]
Known(e) == {k \in LimiterKeys : e[k] # Absent}

Opened(t) == [count |-> 1, resetAt |-> t + Window]

Allow(e) == [entries |-> e, allowed |-> TRUE, retry |-> 0]
Deny(e, retry) == [entries |-> e, allowed |-> FALSE, retry |-> retry]

Full(e) == Cardinality(Known(e)) >= Capacity

\* Ended windows are removed from a full table.
MutantSwept(e, t) ==
    LET oldest == CHOOSE k \in Known(e) : \A j \in Known(e) : e[k].resetAt <= e[j].resetAt
    IN [e EXCEPT ![oldest] = Absent]
Swept(e, t) == [k \in LimiterKeys |-> IF t >= e[k].resetAt THEN Absent ELSE e[k]]

\* The wait a full table asks for: until its first window ends.
First(S) == CHOOSE x \in S : \A y \in S : x <= y
Earliest(e) == First({e[k].resetAt : k \in Known(e)})

TakeUnseen(e, key, t) ==
    LET table == IF Full(e) THEN Swept(e, t) ELSE e
    IN IF Full(table)
       THEN Deny(table, Earliest(table) - t)
       ELSE Allow([table EXCEPT ![key] = Opened(t)])

\* MemoryStore.Take: the table afterwards and the decision.
Take(e, key, t) ==
    CASE e[key] = Absent -> TakeUnseen(e, key, t)
      [] e[key] # Absent /\ t >= e[key].resetAt -> Allow([e EXCEPT ![key] = Opened(t)])
      [] e[key] # Absent /\ t < e[key].resetAt ->
           IF e[key].count >= Limit THEN Deny(e, e[key].resetAt - t)
           ELSE Allow([e EXCEPT ![key].count = @ + 1])

\* retryAfterSeconds, in ticks: whole seconds, rounded up, at least one.
RetryAfter(retry) ==
    LET seconds == (retry + LimiterSecond - 1) \div LimiterSecond
    IN LimiterSecond * (IF seconds < 1 THEN 1 ELSE seconds)

LimiterIdle == [pc |-> "idle", key |-> CHOOSE k \in LimiterKeys : TRUE, stamp |-> 0]

LimiterInit ==
    /\ limiterNow = 1
    /\ entries = [k \in LimiterKeys |-> Absent]
    /\ limiterCaller = [c \in LimiterCallers |-> LimiterIdle]
    /\ resets = [k \in LimiterKeys |-> 0]

\* Limiter.Take reads the clock.
Stamp(c, k) ==
    /\ limiterCaller[c].pc = "idle"
    /\ limiterCaller' = [limiterCaller EXCEPT ![c] = [pc |-> "take", key |-> k, stamp |-> limiterNow]]
    /\ UNCHANGED <<limiterNow, entries, resets>>

\* The store decides under its mutex.
Decide(c) ==
    /\ limiterCaller[c].pc = "take"
    /\ entries' = Take(entries, limiterCaller[c].key, limiterCaller[c].stamp).entries
    /\ limiterCaller' = [limiterCaller EXCEPT ![c] = LimiterIdle]
    /\ UNCHANGED <<limiterNow, resets>>

Reset(k) ==
    /\ resets[k] < MaxResets
    /\ resets' = [resets EXCEPT ![k] = @ + 1]
    /\ entries' = [entries EXCEPT ![k] = Absent]
    /\ UNCHANGED <<limiterNow, limiterCaller>>

LimiterTick ==
    /\ limiterNow < MaxLimiterTime
    /\ limiterNow' = limiterNow + 1
    /\ UNCHANGED <<entries, limiterCaller, resets>>

LimiterNext ==
    \/ \E c \in LimiterCallers : Decide(c) \/ \E k \in LimiterKeys : Stamp(c, k)
    \/ \E k \in LimiterKeys : Reset(k)
    \/ LimiterTick

LimiterSpec == LimiterInit /\ [][LimiterNext]_limiterVars

\* Entries count at most Limit, the table holds at most Capacity keys and a
\* caller's stamp is not in the future.
RateLimitTypeOK ==
    /\ entries \in [LimiterKeys -> {Absent} \cup [count : 1 .. Limit, resetAt : Nat \ {0}]]
    /\ Cardinality(Known(entries)) <= Capacity
    /\ \A c \in LimiterCallers : limiterCaller[c].stamp <= limiterNow

\* The in-memory store implements fixed windows: whatever the order of the
\* stamps and however full the table is, it forgets no running window and
\* grants no key more than Limit attempts in one.
Promise == INSTANCE FixedWindow WITH
    Keys <- LimiterKeys, now <- limiterNow,
    used <- [k \in LimiterKeys |-> entries[k].count], end <- [k \in LimiterKeys |-> entries[k].resetAt]
ImplementsFixedWindow == Promise!Spec

\* A denied caller that waits as long as Retry-After says, and whom nobody
\* overtakes, is granted; the exact wait of the decision is not a tick too long.
WaitSuffices ==
    \A k \in LimiterKeys :
        LET d == Take(entries, k, limiterNow) IN
        ~d.allowed => /\ Take(d.entries, k, limiterNow + RetryAfter(d.retry)).allowed
                      /\ Take(d.entries, k, limiterNow + d.retry).allowed
                      /\ \A t \in limiterNow .. limiterNow + d.retry - 1 : ~Take(d.entries, k, t).allowed
=============================================================================
