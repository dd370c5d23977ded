------------------------- MODULE RateLimitPostgres -------------------------
(***************************************************************************)
(* The durable rate-limit store (security/ratelimit/postgres/store.go).    *)
(*                                                                         *)
(* A Take is two statements of its own: Prune deletes at most PruneLimit   *)
(* counters whose window is over, then one upsert consumes the attempt.    *)
(* Both read the database clock once, when they start; the upsert may then *)
(* wait for the row lock of another process, so it is applied with a clock *)
(* that may be old.  A process may die between the two statements.         *)
(***************************************************************************)
EXTENDS Integers, FiniteSets

CONSTANTS DurableKeys, Processes, DurableLimit, DurableWindow, PruneLimit,
          DatabaseSecond,     \* clock ticks of one second
          MaxDurableTime, MaxDurableResets   \* bounds of the model

ASSUME DurableAssumption == \A n \in {DurableLimit, DurableWindow, PruneLimit, DatabaseSecond} : n \in Nat \ {0}

VARIABLES databaseNow,     \* clock_timestamp()
          rows,    \* the table: attempts and reset_at of each key
          proc,    \* the statement each process is in
          outcome, \* history: the last decision of each process
          durableResets   \* history: how often each key was reset

durableVars == <<databaseNow, rows, proc, outcome, durableResets>>

NoRow == [attempts |-> 0, resetAt |-> 0]
DurableIdle == [pc |-> "idle", key |-> CHOOSE k \in DurableKeys : TRUE, clock |-> 0]

DurableInit ==
    /\ databaseNow = 1
    /\ rows = [k \in DurableKeys |-> NoRow]
    /\ proc = [p \in Processes |-> DurableIdle]
    /\ outcome = [p \in Processes |-> "none"]
    /\ durableResets = [k \in DurableKeys |-> 0]

Begin(p, k) ==
    /\ proc[p].pc = "idle"
    /\ proc' = [proc EXCEPT ![p] = [pc |-> "prune", key |-> k, clock |-> databaseNow]]
    /\ outcome' = [outcome EXCEPT ![p] = "none"]
    /\ UNCHANGED <<databaseNow, rows, durableResets>>

MutantExpired(clock) == {k \in DurableKeys : rows[k] # NoRow /\ rows[k].resetAt <= clock + 1}

\* The counters whose window is over.
Expired(clock) == {k \in DurableKeys : rows[k] # NoRow /\ rows[k].resetAt <= clock}

\* The batch was chosen, oldest first, in the snapshot the statement began with; a row that
\* was renewed or deleted since is checked again and left out.
PruneBatches(clock) == {S \in SUBSET Expired(clock) : Cardinality(S) <= PruneLimit}

DurablePrune(p) ==
    /\ proc[p].pc = "prune"
    /\ \E S \in PruneBatches(proc[p].clock) :
         rows' = [k \in DurableKeys |-> IF k \in S THEN NoRow ELSE rows[k]]
    /\ proc' = [proc EXCEPT ![p].pc = "pruned"]
    /\ UNCHANGED <<databaseNow, outcome, durableResets>>

\* The upsert reads the clock, and then queues for the row.
StartTake(p) ==
    /\ proc[p].pc = "pruned"
    /\ proc' = [proc EXCEPT ![p].pc = "take", ![p].clock = databaseNow]
    /\ UNCHANGED <<databaseNow, rows, outcome, durableResets>>

Consumed(row, clock) ==
    IF row = NoRow \/ row.resetAt <= clock
    THEN [attempts |-> 1, resetAt |-> clock + DurableWindow]
    ELSE [row EXCEPT !.attempts = IF @ + 1 < DurableLimit + 1 THEN @ + 1 ELSE DurableLimit + 1]

\* Take's reading of the returned row.
Decision(row, clock) ==
    CASE row.attempts < 1 \/ row.attempts > DurableLimit + 1 -> "invalid counter"
      [] row.attempts \in 1 .. DurableLimit -> "allowed"
      [] row.attempts = DurableLimit + 1 /\ row.resetAt - clock <= DurableWindow + DatabaseSecond -> "denied"
      [] row.attempts = DurableLimit + 1 /\ row.resetAt - clock > DurableWindow + DatabaseSecond -> "invalid reset"

DurableTake(p) ==
    LET k == proc[p].key
        row == Consumed(rows[k], proc[p].clock)
    IN /\ proc[p].pc = "take"
       /\ rows' = [rows EXCEPT ![k] = row]
       /\ outcome' = [outcome EXCEPT ![p] = Decision(row, proc[p].clock)]
       /\ proc' = [proc EXCEPT ![p] = DurableIdle]
       /\ UNCHANGED <<databaseNow, durableResets>>

\* The process dies or its context ends between two statements.
Abandon(p) ==
    /\ proc[p].pc # "idle"
    /\ proc' = [proc EXCEPT ![p] = DurableIdle]
    /\ UNCHANGED <<databaseNow, rows, outcome, durableResets>>

DurableReset(k) ==
    /\ durableResets[k] < MaxDurableResets
    /\ durableResets' = [durableResets EXCEPT ![k] = @ + 1]
    /\ rows' = [rows EXCEPT ![k] = NoRow]
    /\ UNCHANGED <<databaseNow, proc, outcome>>

DatabaseTick ==
    /\ databaseNow < MaxDurableTime
    /\ databaseNow' = databaseNow + 1
    /\ UNCHANGED <<rows, proc, outcome, durableResets>>

DurableNext ==
    \/ \E p \in Processes : DurablePrune(p) \/ StartTake(p) \/ DurableTake(p) \/ Abandon(p)
    \/ \E p \in Processes, k \in DurableKeys : Begin(p, k)
    \/ \E k \in DurableKeys : DurableReset(k)
    \/ DatabaseTick

DurableSpec == DurableInit /\ [][DurableNext]_durableVars

\* The processes together grant a key at most Limit attempts per window: the
\* table implements fixed windows although every statement's clock may be old
\* and pruning and consuming are separate statements.
DurablePromise == INSTANCE FixedWindow WITH
    Keys <- DurableKeys, Limit <- DurableLimit, Window <- DurableWindow,
    now <- databaseNow, resets <- durableResets,
    used <- [k \in DurableKeys |-> IF rows[k].attempts > DurableLimit THEN DurableLimit ELSE rows[k].attempts],
    end <- [k \in DurableKeys |-> rows[k].resetAt]
DurableFixedWindow == DurablePromise!Spec

\* An attempt is granted only by a step that leaves the key's counter within
\* the limit, and only for a key that still had budget or a new window.
GrantsWithinBudget ==
    [][\A p \in Processes :
        outcome'[p] = "allowed" /\ outcome[p] # "allowed" =>
            LET k == proc[p].key IN
            rows[k].attempts < DurableLimit \/ rows[k].resetAt <= databaseNow]_durableVars
=============================================================================
