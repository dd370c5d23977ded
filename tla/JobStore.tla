------------------------------ MODULE JobStore ------------------------------
(***************************************************************************)
(* The PostgreSQL job store: the tables goforge_jobs and                   *)
(* goforge_failed_jobs and every statement of job/postgres that changes    *)
(* them.  Each statement is one action, taken by any client at any time: a *)
(* lease that Claim once returned stays usable by its holder for ever, so  *)
(* late, repeated and reordered calls are all behaviours of this module.   *)
(*                                                                         *)
(* A statement reads clock_timestamp() once and may then wait for a row    *)
(* lock or a CPU, so it runs with a clock t that can lag the real time     *)
(* now by up to MaxStall.  Enqueue runs in the caller's transaction; its   *)
(* row, or the row it collided with, is held until that transaction ends.  *)
(***************************************************************************)
EXTENDS Integers, FiniteSets

CONSTANTS
    Ids,             \* job ids; uuids are compared by ORDER BY, so numbers
    Workers,         \* worker ids
    Routes,          \* (queue, name) pairs
    Keys,            \* deduplication keys
    Priorities,      \* priorities that are dispatched
    Budgets,         \* max_attempts values of the job definitions
    LeaseDurations,  \* durations given to Claim and Heartbeat
    Delays,          \* relative delays of Enqueue and Retry
    Ats,             \* absolute timestamps given to job.At
    Limits,          \* LIMITs given to Claim and FailExhausted
    Txs,             \* database transactions that enqueue
    MaxStall,        \* how far a statement's clock may lag
    MaxNow,          \* bound: the last instant of the model
    MaxRestores,     \* bound: RetryFailed calls per job
    NULL

ASSUME JobStoreAssumption ==
    /\ Ids \subseteq Nat
    /\ Priorities \subseteq Int
    /\ Budgets \subseteq 1 .. 1000
    /\ LeaseDurations \subseteq Nat \ {0}
    /\ Delays \subseteq Nat
    /\ Ats \subseteq Nat
    /\ MaxStall \in Nat
    /\ NULL \notin Workers /\ NULL \notin Keys /\ NULL \notin Nat

VARIABLES
    jobs,      \* goforge_jobs: the row of each id, NULL if there is none
    failed,    \* goforge_failed_jobs, likewise
    tx,        \* each open transaction: the row it inserts or has locked
    now,       \* the database clock
    issued,    \* ids that were ever committed to goforge_jobs
    leases,    \* every lease Claim ever returned
    restores   \* how often RetryFailed brought each job back

storeVars == <<jobs, failed, tx, now, issued, leases, restores>>

Row == [route : Routes, priority : Priorities, key : Keys \cup {NULL},
        max_attempts : Budgets, attempts : Nat, available_at : Nat,
        lease_owner : Workers \cup {NULL}, lease_expires_at : Nat \cup {NULL},
        lease_generation : Nat]

FailedRow == [route : Routes, priority : Priorities, key : Keys \cup {NULL},
              max_attempts : Budgets, attempts : Nat]

\* A job.Lease.  The field restore is not part of the Go struct: it records
\* which life of the job the claim belongs to, and no action reads it.
Lease == [job : Ids, worker : Workers, generation : Nat, restore : Nat]

\* An open transaction inserts row under id or, when row is NULL, holds the
\* lock that ON CONFLICT DO UPDATE took on the existing row id.
Transaction == [id : Ids, row : Row \cup {NULL}]

ASSUME NullAssumption ==
    NULL \notin Row /\ NULL \notin FailedRow /\ NULL \notin Transaction

TypeOK ==
    /\ jobs \in [Ids -> Row \cup {NULL}]
    /\ failed \in [Ids -> FailedRow \cup {NULL}]
    /\ tx \in [Txs -> Transaction \cup {NULL}]
    /\ now \in Nat
    /\ issued \subseteq Ids
    /\ leases \subseteq Lease
    /\ restores \in [Ids -> Nat]

Init ==
    /\ jobs = [id \in Ids |-> NULL]
    /\ failed = [id \in Ids |-> NULL]
    /\ tx = [x \in Txs |-> NULL]
    /\ now = 0
    /\ issued = {}
    /\ leases = {}
    /\ restores = [id \in Ids |-> 0]

-----------------------------------------------------------------------------
\* The clocks a statement that takes effect at this instant may have read.
Clocks == {t \in 0 .. now : now <= t + MaxStall}

\* The partial unique index on (queue, name, dedup_key).
SameKey(a, b) == a.key # NULL /\ a.key = b.key /\ a.route = b.route

Active(id) == jobs[id] # NULL

Inserting(x) == tx[x] # NULL /\ tx[x].row # NULL

\* A row that an open transaction collided with: UPDATE and DELETE wait for
\* it, SKIP LOCKED passes it over.
Locked(id) == \E x \in Txs : tx[x] # NULL /\ tx[x].row = NULL /\ tx[x].id = id

NewRow(route, priority, key, budget, available) ==
    [route |-> route, priority |-> priority, key |-> key,
     max_attempts |-> budget, attempts |-> 0, available_at |-> available,
     lease_owner |-> NULL, lease_expires_at |-> NULL, lease_generation |-> 0]

-----------------------------------------------------------------------------
\* Enqueue through the executor of transaction x, with a fresh id.  A second
\* insert of the same key waits for the first transaction to end.
Enqueue(x, id, row) ==
    /\ tx[x] = NULL
    /\ id \notin issued
    /\ \A y \in Txs : Inserting(y) => tx[y].id # id /\ ~SameKey(tx[y].row, row)
    /\ \/ /\ \A d \in Ids : Active(d) => ~SameKey(jobs[d], row)
          /\ tx' = [tx EXCEPT ![x] = [id |-> id, row |-> row]]
       \/ \E d \in Ids :
            /\ Active(d) /\ SameKey(jobs[d], row) /\ ~Locked(d)
            /\ tx' = [tx EXCEPT ![x] = [id |-> d, row |-> NULL]]
    /\ UNCHANGED <<jobs, failed, now, issued, leases, restores>>

\* The caller's transaction commits: only now is the row visible.
Commit(x) ==
    /\ tx[x] # NULL
    /\ tx' = [tx EXCEPT ![x] = NULL]
    /\ IF tx[x].row # NULL
       THEN /\ jobs' = [jobs EXCEPT ![tx[x].id] = tx[x].row]
            /\ issued' = issued \cup {tx[x].id}
       ELSE UNCHANGED <<jobs, issued>>
    /\ UNCHANGED <<failed, now, leases, restores>>

\* An error, a panic, a lost connection or the application rolls it back.
Rollback(x) ==
    /\ tx[x] # NULL
    /\ tx' = [tx EXCEPT ![x] = NULL]
    /\ UNCHANGED <<jobs, failed, now, issued, leases, restores>>

-----------------------------------------------------------------------------
\* ORDER BY priority DESC, available_at, id.
ClaimBefore(a, b) ==
    \/ jobs[a].priority > jobs[b].priority
    \/ /\ jobs[a].priority = jobs[b].priority
       /\ \/ jobs[a].available_at < jobs[b].available_at
          \/ jobs[a].available_at = jobs[b].available_at /\ a < b

\* ORDER BY available_at, id.
ExhaustedBefore(a, b) ==
    \/ jobs[a].available_at < jobs[b].available_at
    \/ jobs[a].available_at = jobs[b].available_at /\ a < b

\* batch is what ORDER BY before LIMIT n selects from candidates.
IsFirst(batch, candidates, n, before) ==
    /\ \A c \in batch, s \in candidates \ batch : <<c, s>> \in before
    /\ \/ Cardinality(batch) = n
       \/ Cardinality(batch) < n /\ batch = candidates

\* Mutant: Claim does not look at available_at.
ClaimableEarly(id, routes, t) ==
    /\ Active(id)
    /\ jobs[id].route \in routes
    /\ jobs[id].attempts < jobs[id].max_attempts

Claimable(id, routes, t) ==
    /\ Active(id)
    /\ jobs[id].route \in routes
    /\ jobs[id].available_at <= t
    /\ jobs[id].attempts < jobs[id].max_attempts

\* Mutant: a job is exhausted although nobody held it.
ExhaustedUnleased(id, routes, t) ==
    /\ Active(id)
    /\ jobs[id].route \in routes
    /\ jobs[id].available_at <= t
    /\ jobs[id].attempts >= jobs[id].max_attempts

Exhausted(id, routes, t) ==
    /\ Active(id)
    /\ jobs[id].route \in routes
    /\ jobs[id].lease_owner # NULL
    /\ jobs[id].available_at <= t
    /\ jobs[id].attempts >= jobs[id].max_attempts

ClaimBatches(routes, limit, t) ==
    LET candidates == {id \in Ids : Claimable(id, routes, t) /\ ~Locked(id)}
        before == {p \in candidates \X candidates : ClaimBefore(p[1], p[2])}
    IN {b \in SUBSET candidates : IsFirst(b, candidates, limit, before)}

ExhaustedBatches(routes, limit, t) ==
    LET candidates == {id \in Ids : Exhausted(id, routes, t) /\ ~Locked(id)}
        before == {p \in candidates \X candidates : ExhaustedBefore(p[1], p[2])}
    IN {b \in SUBSET candidates : IsFirst(b, candidates, limit, before)}

LeasedRow(row, w, d, t) ==
    [row EXCEPT !.attempts = @ + 1, !.lease_owner = w,
                !.lease_generation = @ + 1, !.lease_expires_at = t + d,
                !.available_at = t + d]

\* The lease that Claim returns for the row it has just updated.
NewLease(id, w) ==
    [job |-> id, worker |-> w, generation |-> jobs[id].lease_generation + 1,
     restore |-> restores[id]]

Claim(w, batch, d, t) ==
    /\ jobs' = [id \in Ids |-> IF id \in batch THEN LeasedRow(jobs[id], w, d, t)
                                               ELSE jobs[id]]
    /\ leases' = leases \cup {NewLease(id, w) : id \in batch}
    /\ UNCHANGED <<failed, tx, now, issued, restores>>

-----------------------------------------------------------------------------
\* The WHERE clause that fences every mutation of a claimed row.
Matches(l) ==
    /\ Active(l.job)
    /\ jobs[l.job].lease_owner = l.worker
    /\ jobs[l.job].lease_generation = l.generation

Fenced(l, t) == Matches(l) /\ jobs[l.job].lease_expires_at > t

\* A mutation affects the row only if the fence holds; it waits for the lock.
Owned(l, t) == Fenced(l, t) /\ ~Locked(l.job)

\* The fence does not hold: no row is affected and the caller gets "false".
NotOwned(l, t) == ~Fenced(l, t) /\ UNCHANGED storeVars

HeartbeatRow(row, d, t) ==
    [row EXCEPT !.lease_expires_at = t + d, !.available_at = t + d]

Heartbeat(l, d, t) ==
    /\ Owned(l, t)
    /\ jobs' = [jobs EXCEPT ![l.job] = HeartbeatRow(@, d, t)]
    /\ UNCHANGED <<failed, tx, now, issued, leases, restores>>

Ack(l, t) ==
    /\ Owned(l, t)
    /\ jobs' = [jobs EXCEPT ![l.job] = NULL]
    /\ UNCHANGED <<failed, tx, now, issued, leases, restores>>

ReleasedRow(row, available) ==
    [row EXCEPT !.available_at = available, !.lease_owner = NULL,
                !.lease_expires_at = NULL]

Retry(l, delay, t) ==
    /\ Owned(l, t)
    /\ jobs' = [jobs EXCEPT ![l.job] = ReleasedRow(@, t + delay)]
    /\ UNCHANGED <<failed, tx, now, issued, leases, restores>>

Release(l, t) ==
    /\ Owned(l, t)
    /\ jobs' = [jobs EXCEPT ![l.job] = ReleasedRow(@, t)]
    /\ UNCHANGED <<failed, tx, now, issued, leases, restores>>

-----------------------------------------------------------------------------
BuriedRow(row) ==
    [route |-> row.route, priority |-> row.priority, key |-> row.key,
     max_attempts |-> row.max_attempts, attempts |-> row.attempts]

\* One statement deletes the rows of batch and inserts them among the failures.
Bury(batch) ==
    /\ jobs' = [id \in Ids |-> IF id \in batch THEN NULL ELSE jobs[id]]
    /\ failed' = [id \in Ids |-> IF id \in batch THEN BuriedRow(jobs[id])
                                                 ELSE failed[id]]
    /\ UNCHANGED <<tx, now, issued, leases, restores>>

Fail(l, t) == Owned(l, t) /\ Bury({l.job})

FailExhausted(routes, limit, t) ==
    \E batch \in ExhaustedBatches(routes, limit, t) : Bury(batch)

-----------------------------------------------------------------------------
\* RetryFailed restores a terminal failure.  When a row with the same key is
\* active the unique index fails the statement and nothing changes; when one
\* is being inserted the statement waits.
RetryFailed(id, t) ==
    LET row == NewRow(failed[id].route, failed[id].priority, failed[id].key,
                      failed[id].max_attempts, t)
    IN /\ failed[id] # NULL
       /\ restores[id] < MaxRestores
       /\ \A d \in Ids : Active(d) => ~SameKey(jobs[d], row)
       /\ \A y \in Txs : Inserting(y) => ~SameKey(tx[y].row, row)
       /\ jobs' = [jobs EXCEPT ![id] = row]
       /\ failed' = [failed EXCEPT ![id] = NULL]
       /\ restores' = [restores EXCEPT ![id] = @ + 1]
       /\ UNCHANGED <<tx, now, issued, leases>>

ForgetFailed(id) ==
    /\ failed[id] # NULL
    /\ failed' = [failed EXCEPT ![id] = NULL]
    /\ UNCHANGED <<jobs, tx, now, issued, leases, restores>>

Tick ==
    /\ now < MaxNow
    /\ now' = now + 1
    /\ UNCHANGED <<jobs, failed, tx, issued, leases, restores>>

-----------------------------------------------------------------------------
Dispatch ==
    \E x \in Txs, id \in Ids, route \in Routes, p \in Priorities,
       k \in Keys \cup {NULL}, m \in Budgets, t \in Clocks :
       \E available \in {t + d : d \in Delays} \cup Ats :
          Enqueue(x, id, NewRow(route, p, k, m, available))

EndTransaction == \E x \in Txs : Commit(x) \/ Rollback(x)

ClaimSome ==
    \E w \in Workers, routes \in SUBSET Routes, n \in Limits,
       d \in LeaseDurations, t \in Clocks :
       \E batch \in ClaimBatches(routes, n, t) : Claim(w, batch, d, t)

Holder ==
    \E l \in leases, t \in Clocks :
       \/ \E d \in LeaseDurations : Heartbeat(l, d, t)
       \/ Ack(l, t)
       \/ \E delay \in Delays : Retry(l, delay, t)
       \/ Release(l, t)
       \/ Fail(l, t)
       \/ NotOwned(l, t)

Sweep ==
    \E routes \in SUBSET Routes, n \in Limits, t \in Clocks :
       FailExhausted(routes, n, t)

Operator ==
    \E id \in Ids : (\E t \in Clocks : RetryFailed(id, t)) \/ ForgetFailed(id)

Next ==
    \/ Dispatch \/ EndTransaction \/ ClaimSome \/ Holder \/ Sweep \/ Operator
    \/ Tick

Spec == Init /\ [][Next]_storeVars

-----------------------------------------------------------------------------
(* Safety *)

\* Among the leases handed out in one life of a job (between two RetryFailed)
\* only the most recent passes the fence, whatever the clock says: a worker
\* whose job was claimed again can no longer change the row.
OnlyLatestClaimMatches ==
    \A l \in leases :
       Matches(l) /\ l.restore = restores[l.job]
         => \A k \in leases :
              k.job = l.job /\ k.restore = l.restore /\ k # l
                => k.generation < l.generation

\* Claim and FailExhausted on the one side and the fence of Heartbeat, Ack,
\* Retry, Release and Fail on the other judge two different columns
\* (available_at, lease_expires_at) and still never both accept at one clock
\* reading: nobody can take a job that its holder can still settle.
HolderNeverRaced ==
    \A l \in leases : \A t \in 0 .. now :
       Fenced(l, t) => ~Claimable(l.job, Routes, t) /\ ~Exhausted(l.job, Routes, t)

\* A lease that has not expired by the database clock is never superseded by
\* another claim, even when the claiming statement runs with a stalled clock.
NoTakeoverOfLiveLease ==
    [][\A id \in Ids :
         (/\ Active(id) /\ Active(id)'
          /\ jobs[id].lease_owner # NULL
          /\ jobs[id].lease_expires_at > now)
            => jobs'[id].lease_generation = jobs[id].lease_generation]_storeVars

\* Deduplication: at most one row per (queue, name, key) is active, whatever
\* dispatches are in flight and whatever RetryFailed brings back.
OneActivePerKey ==
    \A a, b \in Ids :
       (/\ Active(a) /\ Active(b) /\ a # b
        /\ jobs[a].key # NULL /\ jobs[a].route = jobs[b].route)
          => jobs[a].key # jobs[b].key

Deliveries(id) == {l \in leases : l.job = id /\ l.restore = restores[id]}

\* max_attempts bounds the deliveries: counting every lease ever returned in
\* the current life of a job, lost and stalled ones included, a job is handed
\* out exactly attempts times and at most max_attempts times.
DeliveriesWithinBudget ==
    \A id \in Ids : Active(id) =>
       /\ Cardinality(Deliveries(id)) = jobs[id].attempts
       /\ jobs[id].attempts <= jobs[id].max_attempts

\* jobs.md says the lease generation of a job increases monotonically: a later
\* claim carries a larger generation than every earlier one.
GenerationsIncrease ==
    \A k, l \in leases :
       k.job = l.job /\ k.restore < l.restore => k.generation < l.generation

-----------------------------------------------------------------------------
(* The inductive invariant behind these properties *)

\* The lease columns of a row (the table's CHECK, and what no CHECK states:
\* a leased row becomes available when its lease expires, and attempts and
\* lease_generation advance together).
WellLeased(row) ==
    /\ row.lease_owner = NULL <=> row.lease_expires_at = NULL
    /\ row.lease_owner # NULL => row.available_at = row.lease_expires_at
    /\ row.lease_owner # NULL => row.attempts > 0
    /\ row.attempts = row.lease_generation
    /\ row.attempts <= row.max_attempts

RowsWellFormed ==
    \A id \in Ids :
       /\ Active(id) => WellLeased(jobs[id]) /\ failed[id] = NULL /\ id \in issued
       /\ failed[id] # NULL => /\ id \in issued
                               /\ failed[id].attempts <= failed[id].max_attempts

PendingFresh ==
    \A x \in Txs : Inserting(x) =>
       /\ tx[x].id \notin issued
       /\ tx[x].row.attempts = 0
       /\ tx[x].row.lease_owner = NULL
       /\ WellLeased(tx[x].row)
       /\ \A id \in Ids : Active(id) => ~SameKey(jobs[id], tx[x].row)
       /\ \A y \in Txs : Inserting(y) /\ x # y =>
             tx[x].id # tx[y].id /\ ~SameKey(tx[x].row, tx[y].row)

LeaseHistory ==
    /\ \A l \in leases :
         /\ l.job \in issued
         /\ l.restore <= restores[l.job]
         /\ Active(l.job) /\ l.restore = restores[l.job]
              => l.generation <= jobs[l.job].lease_generation
    /\ \A k, l \in leases :
         k.job = l.job /\ k.restore = l.restore /\ k.generation = l.generation
           => k = l

\* Rows, pending inserts and the leases handed out so far fit together, as the
\* statements of the store need them to.
StoreInv ==
    TypeOK /\ RowsWellFormed /\ PendingFresh /\ OneActivePerKey /\ LeaseHistory

-----------------------------------------------------------------------------
(* The promise the store implements *)

status ==
    [id \in Ids |->
       IF jobs[id] # NULL
       THEN IF jobs[id].lease_owner # NULL THEN "leased" ELSE "waiting"
       ELSE IF failed[id] # NULL THEN "failed"
       ELSE IF id \in issued THEN "gone" ELSE "new"]

tries ==
    [id \in Ids |->
       IF jobs[id] # NULL THEN jobs[id].attempts
       ELSE IF failed[id] # NULL THEN failed[id].attempts
       ELSE 0]

budget ==
    [id \in Ids |->
       IF jobs[id] # NULL THEN jobs[id].max_attempts
       ELSE IF failed[id] # NULL THEN failed[id].max_attempts
       ELSE 0]

Lifecycle == INSTANCE JobLifecycle WITH MaxBudget <- 1000

\* No committed job is lost or finished behind its holder's back: each step of
\* the store moves every job along the lifecycle, so a job leaves the tables
\* only by an acknowledgement of its current lease or by ForgetFailed.
ImplementsLifecycle == Lifecycle!Spec

=============================================================================
