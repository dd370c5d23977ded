--------------------------- MODULE JobStoreProofs ---------------------------
(***************************************************************************)
(* Proofs about JobStore for every number of jobs, workers, routes, keys   *)
(* and transactions, every lease duration, delay and limit, and every      *)
(* MaxStall: a clock reading may be arbitrarily stale.  The last part      *)
(* proves that the store implements JobLifecycle.                          *)
(***************************************************************************)
EXTENDS JobStore, TLAPS

\* Initially both tables are empty and nothing was handed out.
LEMMA InitInv == Init => StoreInv
  BY JobStoreAssumption, NullAssumption
  DEF Init, StoreInv, TypeOK, RowsWellFormed, PendingFresh, OneActivePerKey,
      LeaseHistory, Active, Inserting

\* A statement's clock is an instant that has already passed.
LEMMA ClocksPast == ASSUME now \in Nat PROVE \A t \in Clocks : t \in Nat /\ t <= now
  BY DEF Clocks

LEMMA NewRowType ==
  ASSUME NEW route \in Routes, NEW p \in Priorities, NEW k \in Keys \cup {NULL},
         NEW m \in Budgets, NEW available \in Nat
  PROVE  LET row == NewRow(route, p, k, m, available)
         IN row \in Row /\ WellLeased(row) /\ row.attempts = 0 /\ row.lease_owner = NULL
<1> DEFINE row == NewRow(route, p, k, m, available)
<1>1. 0 \in Nat /\ m \in Nat /\ 0 <= m
  BY JobStoreAssumption
<1>2. row \in Row
  BY Zenon, <1>1 DEF NewRow, Row
<1>3. /\ row.attempts = 0 /\ row.lease_owner = NULL /\ row.lease_expires_at = NULL
      /\ row.lease_generation = 0 /\ row.max_attempts = m
  BY Zenon DEF NewRow
<1>4. WellLeased(row)
  BY Zenon, <1>1, <1>3 DEF WellLeased
<1> QED BY Zenon, <1>2, <1>3, <1>4

\* What a claim, a heartbeat and a release make of a row.
LEMMA LeasedRowType ==
  ASSUME NEW row \in Row, WellLeased(row), row.attempts < row.max_attempts,
         NEW w \in Workers, NEW d \in LeaseDurations, NEW t \in Nat
  PROVE  LET new == LeasedRow(row, w, d, t)
         IN /\ new \in Row /\ WellLeased(new)
            /\ new.key = row.key /\ new.route = row.route
            /\ new.lease_generation = row.lease_generation + 1
<1> DEFINE new == LeasedRow(row, w, d, t)
<1>1. t + d \in Nat /\ NULL \notin Workers /\ t + d # NULL
  BY JobStoreAssumption
<1>2. /\ row.attempts \in Nat /\ row.lease_generation \in Nat
      /\ row.max_attempts \in Nat
  <2>1. Budgets \subseteq Nat
    BY JobStoreAssumption
  <2> QED BY <2>1, Zenon DEF Row
<1>3. /\ new.attempts = row.attempts + 1
      /\ new.lease_generation = row.lease_generation + 1
      /\ new.lease_owner = w
      /\ new.lease_expires_at = t + d
      /\ new.available_at = t + d
      /\ new.key = row.key /\ new.route = row.route
      /\ new.max_attempts = row.max_attempts
  BY Zenon DEF LeasedRow, Row
<1>4. new \in Row
  <2>1. row.attempts + 1 \in Nat /\ row.lease_generation + 1 \in Nat
    BY <1>2
  <2> QED BY <1>1, <2>1, Zenon DEF LeasedRow, Row
<1>5. WellLeased(new)
  BY <1>1, <1>2, <1>3 DEF WellLeased
<1> QED BY Zenon, <1>3, <1>4, <1>5

LEMMA HeartbeatRowType ==
  ASSUME NEW row \in Row, WellLeased(row), row.lease_owner # NULL,
         NEW d \in LeaseDurations, NEW t \in Nat
  PROVE  LET new == HeartbeatRow(row, d, t)
         IN /\ new \in Row /\ WellLeased(new)
            /\ new.key = row.key /\ new.route = row.route
            /\ new.lease_generation = row.lease_generation
            /\ new.lease_owner = row.lease_owner
            /\ new.attempts = row.attempts
            /\ new.max_attempts = row.max_attempts
<1> DEFINE new == HeartbeatRow(row, d, t)
<1>1. t + d \in Nat /\ t + d # NULL
  BY JobStoreAssumption
<1>2. /\ new.attempts = row.attempts
      /\ new.lease_generation = row.lease_generation
      /\ new.lease_owner = row.lease_owner
      /\ new.lease_expires_at = t + d
      /\ new.available_at = t + d
      /\ new.key = row.key /\ new.route = row.route
      /\ new.max_attempts = row.max_attempts
  BY Zenon DEF HeartbeatRow, Row
<1>3. new \in Row
  BY <1>1, Zenon DEF HeartbeatRow, Row
<1>4. WellLeased(new)
  BY Zenon, <1>1, <1>2 DEF WellLeased
<1> QED BY Zenon, <1>2, <1>3, <1>4

LEMMA ReleasedRowType ==
  ASSUME NEW row \in Row, WellLeased(row), NEW available \in Nat
  PROVE  LET new == ReleasedRow(row, available)
         IN /\ new \in Row /\ WellLeased(new)
            /\ new.key = row.key /\ new.route = row.route
            /\ new.lease_generation = row.lease_generation
            /\ new.lease_owner = NULL
            /\ new.attempts = row.attempts
            /\ new.max_attempts = row.max_attempts
<1> DEFINE new == ReleasedRow(row, available)
<1>1. /\ new.attempts = row.attempts
      /\ new.lease_generation = row.lease_generation
      /\ new.lease_owner = NULL
      /\ new.lease_expires_at = NULL
      /\ new.key = row.key /\ new.route = row.route
      /\ new.max_attempts = row.max_attempts
  BY Zenon DEF ReleasedRow, Row
<1>2. new \in Row
  BY Zenon DEF ReleasedRow, Row
<1>3. WellLeased(new)
  BY Zenon, <1>1 DEF WellLeased
<1> QED BY Zenon, <1>1, <1>2, <1>3

\* A pending insert has a fresh id and a key nobody else holds or inserts.
LEMMA EnqueueInv ==
  ASSUME StoreInv, NEW x \in Txs, NEW id \in Ids, NEW row \in Row,
         WellLeased(row), row.attempts = 0, row.lease_owner = NULL,
         Enqueue(x, id, row)
  PROVE  StoreInv'
<1> USE NullAssumption DEF StoreInv
<1>1. UNCHANGED <<jobs, failed, now, issued, leases, restores>> /\ tx[x] = NULL
  BY Zenon DEF Enqueue
<1>2. (RowsWellFormed /\ OneActivePerKey /\ LeaseHistory)'
  BY <1>1 DEF RowsWellFormed, OneActivePerKey, LeaseHistory, Active, WellLeased
<1>3. CASE /\ \A d \in Ids : Active(d) => ~SameKey(jobs[d], row)
           /\ tx' = [tx EXCEPT ![x] = [id |-> id, row |-> row]]
  <2>1. TypeOK'
    BY Zenon, <1>1, <1>3 DEF TypeOK, Transaction
  <2>2. \A y \in Txs : y # x => tx'[y] = tx[y]
    BY Zenon, <1>3 DEF TypeOK
  <2>3. tx'[x] = [id |-> id, row |-> row]
    BY Zenon, <1>3 DEF TypeOK
  <2>4. \A y \in Txs : Inserting(y)' /\ y # x =>
           Inserting(y) /\ tx[y].id # id /\ ~SameKey(tx[y].row, row)
    BY Zenon, <2>2 DEF Enqueue, Inserting
  <2>5. PendingFresh'
    <3> SUFFICES ASSUME NEW y \in Txs, Inserting(y)'
                 PROVE  /\ tx'[y].id \notin issued
                        /\ tx'[y].row.attempts = 0
                        /\ tx'[y].row.lease_owner = NULL
                        /\ WellLeased(tx'[y].row)
                        /\ \A d \in Ids : Active(d) => ~SameKey(jobs[d], tx'[y].row)
                        /\ \A z \in Txs : Inserting(z)' /\ y # z =>
                             tx'[y].id # tx'[z].id /\ ~SameKey(tx'[y].row, tx'[z].row)
      BY <1>1 DEF PendingFresh, WellLeased, Active, SameKey
    <3>1. CASE y = x
      BY <1>3, <2>2, <2>3, <2>4, <3>1 DEF Enqueue, SameKey
    <3>2. CASE y # x
      BY <2>2, <2>3, <2>4, <3>2 DEF PendingFresh
    <3> QED BY Zenon, <3>1, <3>2
  <2> QED BY Zenon, <1>2, <2>1, <2>5
<1>4. CASE \E d \in Ids : tx' = [tx EXCEPT ![x] = [id |-> d, row |-> NULL]]
  <2>1. PICK d \in Ids : tx' = [tx EXCEPT ![x] = [id |-> d, row |-> NULL]]
    BY <1>4, Zenon
  <2>2. TypeOK'
    BY Zenon, <1>1, <2>1 DEF TypeOK, Transaction
  <2>3. PendingFresh'
    BY <1>1, <2>1 DEF TypeOK, PendingFresh, Inserting, Active, SameKey, WellLeased
  <2> QED BY Zenon, <1>2, <2>2, <2>3
<1> QED BY Zenon, <1>3, <1>4 DEF Enqueue

\* The transaction's row becomes visible under an id that had no row, no
\* failure and no lease.
LEMMA CommitInv == ASSUME StoreInv, NEW x \in Txs, Commit(x) PROVE StoreInv'
<1> USE NullAssumption DEF StoreInv
<1>1. \A y \in Txs : y # x => tx'[y] = tx[y]
  BY Zenon DEF Commit, TypeOK
<1>2. tx'[x] = NULL /\ tx[x] \in Transaction /\ UNCHANGED <<failed, now, leases, restores>>
  BY Zenon DEF Commit, TypeOK
<1>3. CASE tx[x].row = NULL
  <2>1. UNCHANGED <<jobs, issued>>
    BY Zenon, <1>3 DEF Commit
  <2>2. TypeOK'
    BY Zenon, <1>2, <2>1 DEF Commit, TypeOK
  <2>3. (RowsWellFormed /\ OneActivePerKey /\ LeaseHistory)'
    BY Zenon, <1>2, <2>1 DEF RowsWellFormed, OneActivePerKey, LeaseHistory, Active, WellLeased
  <2>4. PendingFresh'
    BY <1>1, <1>2, <2>1 DEF PendingFresh, Inserting, Active, SameKey, WellLeased
  <2> QED BY Zenon, <2>2, <2>3, <2>4
<1>4. CASE tx[x].row # NULL
  <2> DEFINE new == tx[x].id
             row == tx[x].row
  <2>1. new \in Ids /\ row \in Row /\ new \notin issued /\ WellLeased(row)
    BY Zenon, <1>2, <1>4 DEF Transaction, PendingFresh, Inserting
  <2>2. jobs' = [jobs EXCEPT ![new] = row] /\ issued' = issued \cup {new}
    BY Zenon, <1>4 DEF Commit
  <2>3. jobs'[new] = row /\ \A id \in Ids : id # new => jobs'[id] = jobs[id]
    BY Zenon, <2>1, <2>2 DEF TypeOK
  <2>4. ~Active(new) /\ failed[new] = NULL /\ \A l \in leases : l.job # new
    BY Zenon, <2>1 DEF RowsWellFormed, LeaseHistory
  <2>5. Inserting(x) /\ \A id \in Ids : Active(id) => ~SameKey(jobs[id], row)
    BY Zenon, <1>2, <1>4 DEF Inserting, PendingFresh
  <2>6. TypeOK'
    BY Zenon, <1>2, <2>1, <2>2 DEF Commit, TypeOK
  <2>7. RowsWellFormed'
    BY <1>2, <2>1, <2>2, <2>3, <2>4 DEF RowsWellFormed, Active, WellLeased
  <2>8. PendingFresh'
    <3> SUFFICES ASSUME NEW y \in Txs, Inserting(y)'
                 PROVE  /\ tx'[y].id \notin issued'
                        /\ tx'[y].row.attempts = 0
                        /\ tx'[y].row.lease_owner = NULL
                        /\ WellLeased(tx'[y].row)
                        /\ \A d \in Ids : jobs'[d] # NULL => ~SameKey(jobs'[d], tx'[y].row)
                        /\ \A z \in Txs : Inserting(z)' /\ y # z =>
                             tx'[y].id # tx'[z].id /\ ~SameKey(tx'[y].row, tx'[z].row)
      BY Zenon DEF PendingFresh, WellLeased, Active, SameKey
    <3>1. y # x /\ tx'[y] = tx[y] /\ Inserting(y)
      BY Zenon, <1>1, <1>2 DEF Inserting
    <3>2. tx[y].id # new /\ ~SameKey(row, tx[y].row)
      BY Zenon, <2>5, <3>1 DEF PendingFresh, SameKey
    <3>3. \A d \in Ids : jobs'[d] # NULL => ~SameKey(jobs'[d], tx[y].row)
      BY Zenon, <2>3, <3>1, <3>2 DEF PendingFresh, Active
    <3>4. \A z \in Txs : Inserting(z)' => tx'[z] = tx[z] /\ Inserting(z)
      BY Zenon, <1>1, <1>2 DEF Inserting
    <3> QED BY <2>2, <3>1, <3>2, <3>3, <3>4, Zenon DEF PendingFresh
  <2>9. OneActivePerKey'
    <3>1. \A a \in Ids : Active(a) /\ row.key # NULL /\ jobs[a].route = row.route
                           => jobs[a].key # row.key
      BY Zenon, <2>5 DEF SameKey
    <3> QED BY <2>1, <2>3, <2>4, <3>1 DEF OneActivePerKey, Active
  <2>10. LeaseHistory'
    BY <1>2, <2>2, <2>3, <2>4 DEF LeaseHistory, Active, TypeOK, Lease
  <2> QED BY Zenon, <2>6, <2>7, <2>8, <2>9, <2>10
<1> QED BY Zenon, <1>3, <1>4

LEMMA RollbackInv == ASSUME StoreInv, NEW x \in Txs, Rollback(x) PROVE StoreInv'
<1> USE NullAssumption DEF StoreInv
<1>1. UNCHANGED <<jobs, failed, now, issued, leases, restores>>
  BY Zenon DEF Rollback
<1>2. (RowsWellFormed /\ OneActivePerKey /\ LeaseHistory)'
  BY <1>1 DEF RowsWellFormed, OneActivePerKey, LeaseHistory, Active, WellLeased
<1>3. TypeOK'
  BY Zenon, <1>1 DEF Rollback, TypeOK
<1>4. PendingFresh'
  BY <1>1 DEF Rollback, TypeOK, PendingFresh, Inserting, Active, SameKey, WellLeased
<1> QED BY Zenon, <1>2, <1>3, <1>4

\* What every statement but Enqueue, Commit and RetryFailed does to the rows:
\* no row appears, and a row that stays keeps its identity, remains well
\* leased and never goes back to an older generation.
RowKept(id) ==
    jobs'[id] # NULL =>
       /\ jobs[id] # NULL
       /\ WellLeased(jobs'[id])
       /\ jobs'[id].key = jobs[id].key
       /\ jobs'[id].route = jobs[id].route
       /\ jobs'[id].lease_generation >= jobs[id].lease_generation

\* A row among the failures was there before or has just left the queue.
FailureKept(id) ==
    failed'[id] # NULL =>
       \/ failed'[id] = failed[id] /\ jobs'[id] = jobs[id]
       \/ /\ jobs[id] # NULL /\ jobs'[id] = NULL
          /\ failed'[id].attempts <= failed'[id].max_attempts

LEMMA RowsKeptInv ==
  ASSUME StoreInv, TypeOK', UNCHANGED <<tx, issued, restores>>,
         \A id \in Ids : RowKept(id) /\ FailureKept(id)
  PROVE  /\ (RowsWellFormed /\ PendingFresh /\ OneActivePerKey)'
         /\ leases' = leases => LeaseHistory'
<1> USE NullAssumption DEF StoreInv
<1>1. RowsWellFormed'
  BY DEF RowsWellFormed, RowKept, FailureKept, Active, WellLeased
<1>2. PendingFresh'
  BY DEF PendingFresh, Inserting, RowKept, Active, SameKey, WellLeased
<1>3. OneActivePerKey'
  BY DEF OneActivePerKey, RowKept, Active
<1>4. ASSUME leases' = leases PROVE LeaseHistory'
  <2>1. ASSUME NEW l \in leases, jobs'[l.job] # NULL, l.restore = restores[l.job]
        PROVE  l.generation <= jobs'[l.job].lease_generation
    <3>1. l.job \in Ids /\ l.generation \in Nat
      BY Zenon DEF TypeOK, Lease
    <3>2. jobs[l.job] # NULL /\ l.generation <= jobs[l.job].lease_generation
      BY Zenon, <2>1, <3>1 DEF RowKept, LeaseHistory, Active
    <3>3. /\ jobs[l.job].lease_generation \in Nat
          /\ jobs'[l.job].lease_generation \in Nat
      BY Zenon, <2>1, <3>1, <3>2 DEF TypeOK, Row
    <3> QED BY <2>1, <3>1, <3>2, <3>3 DEF RowKept
  <2> QED BY Zenon, <1>4, <2>1 DEF LeaseHistory, Active
<1> QED BY Zenon, <1>1, <1>2, <1>3, <1>4

\* Every row of a batch gets a lease with a generation nobody was given before.
LEMMA ClaimInv ==
  ASSUME StoreInv, NEW w \in Workers, NEW routes, NEW d \in LeaseDurations,
         NEW t \in Nat, NEW batch \in SUBSET Ids,
         \A id \in batch : Claimable(id, routes, t),
         Claim(w, batch, d, t)
  PROVE  StoreInv'
<1>0. /\ TypeOK /\ RowsWellFormed /\ LeaseHistory /\ batch \subseteq Ids
      /\ NULL \notin Row /\ UNCHANGED <<failed, tx, now, issued, restores>>
  BY Zenon, NullAssumption DEF StoreInv, Claim
<1>1. \A id \in Ids : jobs'[id] = IF id \in batch THEN LeasedRow(jobs[id], w, d, t)
                                                   ELSE jobs[id]
  BY Zenon DEF Claim
<1>2. \A id \in batch : /\ jobs[id] # NULL /\ jobs[id] \in Row /\ WellLeased(jobs[id])
                        /\ failed[id] = NULL /\ id \in issued
                        /\ jobs[id].attempts < jobs[id].max_attempts
  BY Zenon, <1>0 DEF TypeOK, Claimable, Active, RowsWellFormed
<1>3. ASSUME NEW id \in batch
      PROVE  /\ jobs'[id] \in Row /\ WellLeased(jobs'[id])
             /\ jobs'[id].key = jobs[id].key /\ jobs'[id].route = jobs[id].route
             /\ jobs'[id].lease_generation = jobs[id].lease_generation + 1
  <2>1. jobs'[id] = LeasedRow(jobs[id], w, d, t)
    BY Zenon, <1>0, <1>1
  <2>2. jobs[id] \in Row /\ WellLeased(jobs[id]) /\ jobs[id].attempts < jobs[id].max_attempts
    BY Zenon, <1>2
  <2> QED BY <2>1, <2>2, LeasedRowType
<1>4. \A row \in Row : row.lease_generation \in Nat
  BY Zenon DEF Row
<1>5. \A id \in batch : NewLease(id, w) \in Lease
  <2> SUFFICES ASSUME NEW id \in batch PROVE NewLease(id, w) \in Lease
    BY Zenon
  <2>1. jobs[id].lease_generation \in Nat /\ restores[id] \in Nat /\ id \in Ids
    BY Zenon, <1>0, <1>2, <1>4 DEF TypeOK
  <2>2. jobs[id].lease_generation + 1 \in Nat
    BY <2>1
  <2> QED BY Zenon, <2>1, <2>2 DEF NewLease, Lease
<1>6. TypeOK'
  <2>1. jobs' \in [Ids -> Row \cup {NULL}]
    <3>1. \A id \in Ids : jobs'[id] \in Row \cup {NULL}
      BY Zenon, <1>0, <1>1, <1>3 DEF TypeOK
    <3>2. jobs' = [id \in Ids |-> jobs'[id]]
      BY Zenon DEF Claim
    <3> QED BY Zenon, <3>1, <3>2
  <2>2. leases' \subseteq Lease
    BY Zenon, <1>0, <1>5 DEF TypeOK, Claim
  <2> QED BY Zenon, <1>0, <2>1, <2>2 DEF TypeOK
<1>7. \A id \in Ids : RowKept(id) /\ FailureKept(id)
  <2> SUFFICES ASSUME NEW id \in Ids PROVE RowKept(id) /\ FailureKept(id)
    BY Zenon
  <2>1. CASE id \in batch
    <3>1. jobs[id].lease_generation \in Nat
      BY Zenon, <1>2, <1>4, <2>1
    <3>2. jobs'[id].lease_generation >= jobs[id].lease_generation
      BY <1>3, <2>1, <3>1
    <3> QED BY Zenon, <1>0, <1>2, <1>3, <2>1, <3>2 DEF RowKept, FailureKept
  <2>2. CASE id \notin batch
    <3>1. jobs'[id] = jobs[id] /\ failed'[id] = failed[id]
      BY Zenon, <1>0, <1>1, <2>2
    <3>2. jobs[id] # NULL => WellLeased(jobs[id]) /\ jobs[id].lease_generation \in Nat
      BY Zenon, <1>0, <1>4 DEF TypeOK, RowsWellFormed, Active
    <3>3. jobs[id] # NULL => jobs[id].lease_generation >= jobs[id].lease_generation
      BY <3>2
    <3> QED BY Zenon, <3>1, <3>2, <3>3 DEF RowKept, FailureKept
  <2> QED BY Zenon, <2>1, <2>2
<1>8. (RowsWellFormed /\ PendingFresh /\ OneActivePerKey)'
  BY Zenon, <1>0, <1>6, <1>7, RowsKeptInv
<1>9. LeaseHistory'
  <2>1. ASSUME NEW l \in leases'
        PROVE  \/ l \in leases
               \/ \E id \in batch : l = NewLease(id, w)
    BY Zenon DEF Claim
  \* The leases already handed out for a row of the batch are older.
  <2>2. ASSUME NEW id \in batch, NEW k \in leases, k.job = id, k.restore = restores[id]
        PROVE  k.generation < jobs[id].lease_generation + 1
    <3>1. k.generation <= jobs[id].lease_generation
      BY Zenon, <1>0, <1>2, <2>2 DEF LeaseHistory, Active
    <3>2. k.generation \in Nat /\ jobs[id].lease_generation \in Nat
      BY Zenon, <1>0, <1>2, <1>4 DEF TypeOK, Lease
    <3> QED BY <3>1, <3>2
  <2>3. ASSUME NEW l \in leases'
        PROVE  /\ l.job \in issued
               /\ l.restore <= restores[l.job]
               /\ jobs'[l.job] # NULL /\ l.restore = restores[l.job]
                    => l.generation <= jobs'[l.job].lease_generation
    <3>1. CASE l \in leases
      <4>1. l.job \in Ids /\ l.generation \in Nat /\ l.job \in issued /\ l.restore <= restores[l.job]
        BY Zenon, <1>0, <3>1 DEF TypeOK, Lease, LeaseHistory
      <4>2. ASSUME jobs'[l.job] # NULL, l.restore = restores[l.job]
            PROVE  l.generation <= jobs'[l.job].lease_generation
        <5>1. RowKept(l.job)
          BY <1>7, <4>1, Zenon
        <5>2. jobs[l.job] # NULL /\ l.generation <= jobs[l.job].lease_generation
          BY Zenon, <1>0, <3>1, <4>2, <5>1 DEF RowKept, LeaseHistory, Active
        <5>3. jobs[l.job].lease_generation \in Nat
          BY Zenon, <1>0, <1>4, <4>1, <5>2 DEF TypeOK
        <5>4. CASE l.job \in batch
          <6>1. jobs'[l.job].lease_generation = jobs[l.job].lease_generation + 1
            BY <1>3, <5>4, Zenon
          <6> QED BY <4>1, <5>2, <5>3, <6>1
        <5>5. CASE l.job \notin batch
          BY <1>1, <4>1, <5>2, <5>5, Zenon
        <5> QED BY Zenon, <5>4, <5>5
      <4> QED BY Zenon, <4>1, <4>2
    <3>2. CASE \E id \in batch : l = NewLease(id, w)
      <4>1. PICK id \in batch : l = NewLease(id, w)
        BY Zenon, <3>2
      <4>2. l.job = id /\ l.restore = restores[id] /\ l.generation = jobs'[id].lease_generation
        BY Zenon, <1>3, <4>1 DEF NewLease
      <4>3. jobs'[id].lease_generation \in Nat /\ restores[id] \in Nat /\ id \in issued
        BY Zenon, <1>0, <1>2, <1>3, <1>4 DEF TypeOK
      <4>4. l.restore <= restores[id] /\ l.generation <= jobs'[id].lease_generation
        BY <4>2, <4>3
      <4> QED BY Zenon, <4>2, <4>3, <4>4
    <3> QED BY <2>1, <3>1, <3>2, Zenon
  \* A new lease differs from every old one.
  <2>4. ASSUME NEW id \in batch, NEW k \in leases, k.job = id, k.restore = restores[id]
        PROVE  k.generation # NewLease(id, w).generation
    <3>1. NewLease(id, w).generation = jobs[id].lease_generation + 1
      BY Zenon DEF NewLease
    <3>2. k.generation \in Nat /\ jobs[id].lease_generation \in Nat
      BY Zenon, <1>0, <1>2, <1>4 DEF TypeOK, Lease
    <3>3. k.generation < jobs[id].lease_generation + 1
      BY Zenon, <2>2, <2>4
    <3> QED BY <3>1, <3>2, <3>3
  <2>5. \A id \in batch : NewLease(id, w).job = id /\ NewLease(id, w).restore = restores[id]
    BY Zenon DEF NewLease
  <2>6. ASSUME NEW k \in leases', NEW l \in leases', k.job = l.job,
               k.restore = l.restore, k.generation = l.generation
        PROVE  k = l
    <3>1. CASE k \in leases /\ l \in leases
      BY Zenon, <1>0, <2>6, <3>1 DEF LeaseHistory
    <3>2. CASE k \in leases /\ l \notin leases
      <4>1. PICK id \in batch : l = NewLease(id, w)
        BY Zenon, <2>1, <3>2
      <4>2. k.job = id /\ k.restore = restores[id]
        BY Zenon, <2>5, <2>6, <4>1
      <4> QED BY Zenon, <2>4, <2>6, <3>2, <4>1, <4>2
    <3>3. CASE k \notin leases /\ l \in leases
      <4>1. PICK id \in batch : k = NewLease(id, w)
        BY Zenon, <2>1, <3>3
      <4>2. l.job = id /\ l.restore = restores[id]
        BY Zenon, <2>5, <2>6, <4>1
      <4> QED BY Zenon, <2>4, <2>6, <3>3, <4>1, <4>2
    <3>4. CASE k \notin leases /\ l \notin leases
      BY Zenon, <2>1, <2>5, <2>6, <3>4
    <3> QED BY Zenon, <3>1, <3>2, <3>3, <3>4
  <2> QED BY Zenon, <1>0, <2>3, <2>6 DEF LeaseHistory, Active
<1> QED BY Zenon, <1>6, <1>8, <1>9 DEF StoreInv

\* A fenced statement finds a leased, well-formed row.
LEMMA FencedRow ==
  ASSUME StoreInv, NEW l \in leases, NEW t \in Nat, Fenced(l, t)
  PROVE  /\ l.job \in Ids /\ jobs[l.job] \in Row /\ WellLeased(jobs[l.job])
         /\ jobs[l.job] # NULL
         /\ jobs[l.job].lease_owner # NULL
         /\ jobs[l.job].lease_owner = l.worker
         /\ jobs[l.job].lease_generation = l.generation
         /\ jobs[l.job].lease_expires_at > t
<1>1. l.job \in Ids /\ l.worker \in Workers
  BY Zenon DEF StoreInv, TypeOK, Lease
<1>2. jobs[l.job] # NULL
  BY Zenon DEF Fenced, Matches, Active
<1>3. jobs[l.job] \in Row /\ WellLeased(jobs[l.job])
  BY Zenon, <1>1, <1>2 DEF StoreInv, TypeOK, RowsWellFormed, Active
<1> QED BY <1>1, <1>2, <1>3, JobStoreAssumption DEF Fenced, Matches

\* Replacing one fenced row by a row of the same identity keeps the invariant.
LEMMA UpdateInv ==
  ASSUME StoreInv, NEW j \in Ids, NEW new \in Row, jobs[j] # NULL,
         jobs' = [jobs EXCEPT ![j] = new],
         WellLeased(new), new.key = jobs[j].key, new.route = jobs[j].route,
         new.lease_generation = jobs[j].lease_generation,
         UNCHANGED <<failed, tx, now, issued, leases, restores>>
  PROVE  StoreInv'
<1> USE NullAssumption
<1>1. TypeOK'
  BY Zenon DEF StoreInv, TypeOK
<1>2. \A id \in Ids : jobs[id] # NULL => jobs[id].lease_generation \in Nat
  BY Zenon DEF StoreInv, TypeOK, Row
<1>3. jobs'[j] = new /\ \A id \in Ids : id # j => jobs'[id] = jobs[id]
  BY Zenon DEF StoreInv, TypeOK
<1>4. ASSUME NEW id \in Ids PROVE RowKept(id) /\ FailureKept(id)
  <2>1. jobs[id] # NULL => WellLeased(jobs[id]) /\ failed[id] = NULL
    BY Zenon DEF StoreInv, RowsWellFormed, Active
  <2>2. CASE id = j
    BY <1>2, <1>3, <2>1, <2>2 DEF RowKept, FailureKept
  <2>3. CASE id # j
    BY <1>2, <1>3, <2>1, <2>3 DEF RowKept, FailureKept
  <2> QED BY Zenon, <2>2, <2>3
<1> QED BY Zenon, <1>1, <1>4, RowsKeptInv DEF StoreInv

LEMMA HeartbeatInv ==
  ASSUME StoreInv, NEW l \in leases, NEW d \in LeaseDurations, NEW t \in Nat,
         Heartbeat(l, d, t)
  PROVE  StoreInv'
  BY FencedRow, HeartbeatRowType, UpdateInv, Zenon DEF Heartbeat, Owned

LEMMA RetryInv ==
  ASSUME StoreInv, NEW l \in leases, NEW delay \in Nat, NEW t \in Nat,
         Retry(l, delay, t)
  PROVE  StoreInv'
<1>1. t + delay \in Nat
  OBVIOUS
<1> QED BY <1>1, FencedRow, ReleasedRowType, UpdateInv, Zenon DEF Retry, Owned

LEMMA ReleaseInv ==
  ASSUME StoreInv, NEW l \in leases, NEW t \in Nat, Release(l, t)
  PROVE  StoreInv'
  BY FencedRow, ReleasedRowType, UpdateInv, Zenon DEF Release, Owned

LEMMA AckInv ==
  ASSUME StoreInv, NEW l \in leases, NEW t \in Nat, Ack(l, t)
  PROVE  StoreInv'
<1> USE NullAssumption
<1>1. TypeOK'
  BY Zenon DEF Ack, StoreInv, TypeOK
<1>2. \A id \in Ids : jobs[id] # NULL =>
        jobs[id].lease_generation \in Nat /\ WellLeased(jobs[id]) /\ failed[id] = NULL
  BY Zenon DEF StoreInv, TypeOK, Row, RowsWellFormed, Active
<1>3. \A id \in Ids : jobs'[id] # NULL => jobs'[id] = jobs[id]
  BY Zenon DEF Ack, StoreInv, TypeOK
<1>4. \A id \in Ids : RowKept(id) /\ FailureKept(id)
  <2>1. l.job \in Ids /\ jobs[l.job] # NULL
    BY FencedRow, Zenon DEF Ack, Owned
  <2> QED BY <1>2, <1>3, <2>1 DEF Ack, RowKept, FailureKept, StoreInv, TypeOK
<1> QED BY Zenon, <1>1, <1>4, RowsKeptInv DEF Ack, StoreInv

\* Bury moves rows of the queue, and only those, among the failures.
LEMMA BuryInv ==
  ASSUME StoreInv, NEW batch \in SUBSET Ids, \A id \in batch : Active(id), Bury(batch)
  PROVE  StoreInv'
<1> USE NullAssumption
<1>1. \A id \in Ids : jobs[id] # NULL =>
        /\ jobs[id] \in Row /\ jobs[id].lease_generation \in Nat
        /\ WellLeased(jobs[id]) /\ failed[id] = NULL
  BY Zenon DEF StoreInv, TypeOK, Row, RowsWellFormed, Active
<1>2. \A id \in batch : BuriedRow(jobs[id]) \in FailedRow
  BY Zenon, <1>1 DEF BuriedRow, FailedRow, Row, Active
<1>3. \A id \in batch : BuriedRow(jobs[id]).attempts <= BuriedRow(jobs[id]).max_attempts
  BY Zenon, <1>1 DEF BuriedRow, WellLeased, Active
<1>4. TypeOK'
  BY Zenon, <1>2 DEF Bury, StoreInv, TypeOK
<1>5. ASSUME NEW id \in Ids PROVE RowKept(id) /\ FailureKept(id)
  <2>1. CASE id \in batch
    BY Zenon, <1>1, <1>3, <2>1 DEF Bury, RowKept, FailureKept, Active
  <2>2. CASE id \notin batch
    BY <1>1, <2>2 DEF Bury, RowKept, FailureKept
  <2> QED BY Zenon, <2>1, <2>2
<1> QED BY Zenon, <1>4, <1>5, RowsKeptInv DEF Bury, StoreInv

\* A restored job starts a new life: fresh counters, an unused restore number.
LEMMA RetryFailedInv ==
  ASSUME StoreInv, NEW j \in Ids, NEW t \in Nat, RetryFailed(j, t)
  PROVE  StoreInv'
<1> USE NullAssumption
<1> DEFINE row == NewRow(failed[j].route, failed[j].priority, failed[j].key,
                         failed[j].max_attempts, t)
<1>1. /\ failed[j] # NULL
      /\ \A d \in Ids : Active(d) => ~SameKey(jobs[d], row)
      /\ \A y \in Txs : Inserting(y) => ~SameKey(tx[y].row, row)
      /\ jobs' = [jobs EXCEPT ![j] = row]
      /\ failed' = [failed EXCEPT ![j] = NULL]
      /\ restores' = [restores EXCEPT ![j] = @ + 1]
      /\ UNCHANGED <<tx, now, issued, leases>>
  BY Zenon DEF RetryFailed
<1>2. failed[j] \in FailedRow /\ j \in issued /\ ~Active(j)
  BY Zenon, <1>1 DEF StoreInv, TypeOK, RowsWellFormed, Active
<1>3. row \in Row /\ WellLeased(row)
  BY <1>2, NewRowType, Zenon DEF FailedRow
<1> HIDE DEF row
<1>4. /\ jobs'[j] = row /\ failed'[j] = NULL
      /\ \A id \in Ids : id # j => jobs'[id] = jobs[id] /\ failed'[id] = failed[id]
  BY Zenon, <1>1 DEF StoreInv, TypeOK
<1>5. restores'[j] = restores[j] + 1 /\ restores[j] \in Nat
        /\ \A id \in Ids : id # j => restores'[id] = restores[id]
  BY Zenon, <1>1 DEF StoreInv, TypeOK
<1>6. TypeOK'
  <2>1. TypeOK
    BY Zenon DEF StoreInv
  <2>2. jobs' \in [Ids -> Row \cup {NULL}]
    BY Zenon, <2>1, <1>1, <1>3 DEF TypeOK
  <2>3. failed' \in [Ids -> FailedRow \cup {NULL}]
    BY Zenon, <2>1, <1>1 DEF TypeOK
  <2>4. restores' \in [Ids -> Nat]
    BY <2>1, <1>1, <1>5 DEF TypeOK
  <2> QED BY <2>1, <2>2, <2>3, <2>4, <1>1, Zenon DEF TypeOK
<1>7. RowsWellFormed'
  <2> SUFFICES ASSUME NEW id \in Ids
               PROVE  /\ jobs'[id] # NULL =>
                            WellLeased(jobs'[id]) /\ failed'[id] = NULL /\ id \in issued
                      /\ failed'[id] # NULL =>
                            id \in issued /\ failed'[id].attempts <= failed'[id].max_attempts
    BY <1>1, Zenon DEF RowsWellFormed, Active, WellLeased
  <2>1. CASE id = j
    BY <2>1, <1>2, <1>3, <1>4, Zenon
  <2>2. CASE id # j
    BY <2>2, <1>4, Zenon DEF StoreInv, RowsWellFormed, Active
  <2> QED BY <2>1, <2>2, Zenon
<1>8. PendingFresh'
  <2>1. \A y \in Txs : Inserting(y) =>
          \A d \in Ids : jobs'[d] # NULL => ~SameKey(jobs'[d], tx[y].row)
    BY <1>1, <1>4 DEF StoreInv, PendingFresh, Active, SameKey
  <2>2. PendingFresh /\ UNCHANGED <<tx, issued>>
    BY Zenon, <1>1 DEF StoreInv
  <2> QED BY <2>1, <2>2, Zenon DEF PendingFresh, Inserting, Active, SameKey, WellLeased
<1>9. OneActivePerKey'
  <2>1. \A a \in Ids : Active(a) /\ row.key # NULL /\ jobs[a].route = row.route
                         => jobs[a].key # row.key
    BY Zenon, <1>1 DEF SameKey
  <2> QED BY <1>2, <1>4, <2>1 DEF StoreInv, OneActivePerKey, Active
<1>10. LeaseHistory'
  <2>1. ASSUME NEW l \in leases
        PROVE  /\ l.job \in issued
               /\ l.restore <= restores'[l.job]
               /\ jobs'[l.job] # NULL /\ l.restore = restores'[l.job]
                    => l.generation <= jobs'[l.job].lease_generation
    <3>1. l.job \in Ids /\ l.restore \in Nat /\ l.job \in issued /\ l.restore <= restores[l.job]
      BY Zenon DEF StoreInv, TypeOK, Lease, LeaseHistory
    <3>2. CASE l.job = j
      BY <1>5, <3>1, <3>2
    <3>3. CASE l.job # j
      BY Zenon, <1>4, <1>5, <3>1, <3>3 DEF StoreInv, LeaseHistory, Active
    <3> QED BY Zenon, <3>2, <3>3
  <2> QED BY <1>1, <2>1, Zenon DEF StoreInv, LeaseHistory, Active
<1> QED BY Zenon, <1>6, <1>7, <1>8, <1>9, <1>10 DEF StoreInv

\* What does not depend on the failed jobs or on the clock.
LEMMA TablesKept ==
  ASSUME StoreInv, UNCHANGED <<jobs, tx, issued, leases, restores>>
  PROVE  PendingFresh' /\ OneActivePerKey' /\ LeaseHistory'
<1>1. PendingFresh'
  BY Zenon DEF StoreInv, PendingFresh, Active, Inserting, SameKey, WellLeased
<1>2. OneActivePerKey'
  BY Zenon DEF StoreInv, OneActivePerKey, Active
<1>3. LeaseHistory'
  BY Zenon DEF StoreInv, LeaseHistory, Active
<1> QED BY Zenon, <1>1, <1>2, <1>3

LEMMA ForgetFailedInv ==
  ASSUME StoreInv, NEW j \in Ids, ForgetFailed(j)
  PROVE  StoreInv'
<1>1. TypeOK'
  BY Zenon DEF ForgetFailed, StoreInv, TypeOK
<1>2. failed \in [Ids -> FailedRow \cup {NULL}]
  BY Zenon DEF StoreInv, TypeOK
<1>3. \A id \in Ids : failed'[id] = failed[id] \/ failed'[id] = NULL
  BY Zenon, <1>2 DEF ForgetFailed
<1>4. UNCHANGED <<jobs, tx, issued, leases, restores>>
  BY Zenon DEF ForgetFailed
<1>5. RowsWellFormed'
  BY <1>3, <1>4, Zenon DEF StoreInv, RowsWellFormed, Active, WellLeased
<1> QED BY <1>1, <1>4, <1>5, TablesKept, Zenon DEF StoreInv

\* Neither the clock nor a stuttering step touches the tables.
LEMMA TablesUnchangedInv ==
  ASSUME StoreInv, now' \in Nat, UNCHANGED <<jobs, failed, tx, issued, leases, restores>>
  PROVE  StoreInv'
<1>1. TypeOK'
  BY Zenon DEF StoreInv, TypeOK
<1>2. RowsWellFormed'
  BY Zenon DEF StoreInv, RowsWellFormed, Active, WellLeased
<1> QED BY <1>1, <1>2, TablesKept, Zenon DEF StoreInv

-----------------------------------------------------------------------------
\* The rows that Claim and FailExhausted select satisfy their WHERE clauses.
LEMMA BatchesSelected ==
  ASSUME NEW routes, NEW n, NEW t
  PROVE  /\ \A b \in ClaimBatches(routes, n, t) :
              b \subseteq Ids /\ \A id \in b : Claimable(id, routes, t)
         /\ \A b \in ExhaustedBatches(routes, n, t) :
              b \subseteq Ids /\ \A id \in b : Exhausted(id, routes, t)
  BY Zenon DEF ClaimBatches, ExhaustedBatches

\* Every step of the store preserves the inductive invariant.
LEMMA NextInv == ASSUME StoreInv, [Next]_storeVars PROVE StoreInv'
<1>0. now \in Nat /\ \A t \in Clocks : t \in Nat
  BY Zenon, ClocksPast DEF StoreInv, TypeOK
<1>1. CASE Dispatch
  <2>1. PICK x \in Txs, id \in Ids, route \in Routes, p \in Priorities,
             k \in Keys \cup {NULL}, m \in Budgets, t \in Clocks :
             \E available \in {t + d : d \in Delays} \cup Ats :
                Enqueue(x, id, NewRow(route, p, k, m, available))
    BY Zenon, <1>1 DEF Dispatch
  <2>2. PICK available \in {t + d : d \in Delays} \cup Ats :
             Enqueue(x, id, NewRow(route, p, k, m, available))
    BY Zenon, <2>1
  <2>3. available \in Nat
    <3>1. t \in Nat /\ Ats \subseteq Nat /\ Delays \subseteq Nat
      BY <1>0, JobStoreAssumption
    <3>2. CASE available \in Ats
      BY Zenon, <3>1, <3>2
    <3>3. CASE \E d \in Delays : available = t + d
      BY <3>1, <3>3
    <3> QED BY Zenon, <2>2, <3>2, <3>3
  <2> QED BY Zenon, <2>2, <2>3, NewRowType, EnqueueInv
<1>2. CASE EndTransaction
  BY Zenon, <1>2, CommitInv, RollbackInv DEF EndTransaction
<1>3. CASE ClaimSome
  <2>1. PICK w \in Workers, routes \in SUBSET Routes, n \in Limits,
             d \in LeaseDurations, t \in Clocks :
             \E batch \in ClaimBatches(routes, n, t) : Claim(w, batch, d, t)
    BY Zenon, <1>3 DEF ClaimSome
  <2>2. PICK batch \in ClaimBatches(routes, n, t) : Claim(w, batch, d, t)
    BY Zenon, <2>1
  <2> QED BY Zenon, <1>0, <2>2, BatchesSelected, ClaimInv
<1>4. CASE Holder
  <2>1. PICK l \in leases, t \in Clocks :
             \/ \E d \in LeaseDurations : Heartbeat(l, d, t)
             \/ Ack(l, t)
             \/ \E delay \in Delays : Retry(l, delay, t)
             \/ Release(l, t)
             \/ Fail(l, t)
             \/ NotOwned(l, t)
    BY Zenon, <1>4 DEF Holder
  <2>2. CASE \E d \in LeaseDurations : Heartbeat(l, d, t)
    BY Zenon, <1>0, <2>2, HeartbeatInv
  <2>3. CASE Ack(l, t)
    BY Zenon, <1>0, <2>3, AckInv
  <2>4. CASE \E delay \in Delays : Retry(l, delay, t)
    BY <1>0, <2>4, RetryInv, JobStoreAssumption
  <2>5. CASE Release(l, t)
    BY Zenon, <1>0, <2>5, ReleaseInv
  <2>6. CASE Fail(l, t)
    BY Zenon, <1>0, <2>6, FencedRow, BuryInv DEF Fail, Owned, Active
  <2>7. CASE NotOwned(l, t)
    BY Zenon, <1>0, <2>7, TablesUnchangedInv DEF NotOwned, storeVars
  <2> QED BY Zenon, <2>1, <2>2, <2>3, <2>4, <2>5, <2>6, <2>7
<1>5. CASE Sweep
  BY Zenon, <1>5, BatchesSelected, BuryInv DEF Sweep, FailExhausted, Exhausted
<1>6. CASE Operator
  BY Zenon, <1>0, <1>6, RetryFailedInv, ForgetFailedInv DEF Operator
<1>7. CASE Tick
  BY <1>0, <1>7, TablesUnchangedInv DEF Tick
<1>8. CASE UNCHANGED storeVars
  BY Zenon, <1>0, <1>8, TablesUnchangedInv DEF storeVars
<1> QED BY Zenon, <1>1, <1>2, <1>3, <1>4, <1>5, <1>6, <1>7, <1>8 DEF Next

\* The invariant holds in every reachable state, for every instance.
THEOREM StoreInvariant == Spec => []StoreInv
  BY InitInv, NextInv, PTL DEF Spec

\* Every variable keeps its type.
THEOREM StoreTypeCorrect == Spec => []TypeOK
<1>1. StoreInv => TypeOK
  BY Zenon DEF StoreInv
<1> QED BY <1>1, StoreInvariant, PTL

\* Deduplication: the unique index, the waiting of concurrent inserts and the
\* check in RetryFailed leave at most one active row per key.
THEOREM Deduplicated == Spec => []OneActivePerKey
<1>1. StoreInv => OneActivePerKey
  BY Zenon DEF StoreInv
<1> QED BY <1>1, StoreInvariant, PTL

\* Fencing: within one life of a job a lease that was superseded never matches.
THEOREM FencedByLatestClaim == Spec => []OnlyLatestClaimMatches
<1>1. ASSUME StoreInv PROVE OnlyLatestClaimMatches
  <2> SUFFICES ASSUME NEW l \in leases, Matches(l), l.restore = restores[l.job],
                      NEW k \in leases, k.job = l.job, k.restore = l.restore, k # l
               PROVE  k.generation < l.generation
    BY Zenon DEF OnlyLatestClaimMatches
  <2>1. k.generation \in Nat /\ l.generation \in Nat
    BY <1>1, Zenon DEF StoreInv, TypeOK, Lease
  <2>2. k.generation <= l.generation
    BY Zenon, <1>1 DEF StoreInv, LeaseHistory, Matches
  <2>3. k.generation # l.generation
    BY Zenon, <1>1 DEF StoreInv, LeaseHistory
  <2> QED BY <2>1, <2>2, <2>3
<1> QED BY <1>1, StoreInvariant, PTL

\* A job its holder can still settle can be neither claimed nor swept.
THEOREM HolderUnraced == Spec => []HolderNeverRaced
<1>1. ASSUME StoreInv PROVE HolderNeverRaced
  <2> SUFFICES ASSUME NEW l \in leases, NEW t \in 0 .. now, Fenced(l, t)
               PROVE  ~Claimable(l.job, Routes, t) /\ ~Exhausted(l.job, Routes, t)
    BY Zenon DEF HolderNeverRaced
  <2>1. t \in Nat
    BY <1>1 DEF StoreInv, TypeOK
  <2>2. /\ jobs[l.job].available_at = jobs[l.job].lease_expires_at
        /\ jobs[l.job].lease_expires_at > t
        /\ jobs[l.job].available_at \in Nat
    BY Zenon, <1>1, <2>1, FencedRow DEF WellLeased, Row
  <2> QED BY <2>1, <2>2 DEF Claimable, Exhausted
<1> QED BY <1>1, StoreInvariant, PTL

-----------------------------------------------------------------------------
\* What a step does to one active row: the row appears fresh (Commit or
\* RetryFailed, with no lease in its new life), or is claimed with a clock at
\* which it was available, or stays in its life with the same counters.
Appears(id) ==
    /\ jobs[id] = NULL
    /\ jobs'[id].attempts = 0
    /\ \A l \in leases' : ~(l.job = id /\ l.restore = restores'[id])

Claimed(id) ==
    /\ jobs[id] # NULL
    /\ restores'[id] = restores[id]
    /\ jobs[id].available_at <= now
    /\ jobs'[id].attempts = jobs[id].attempts + 1
    /\ \E l \in Lease : /\ l.job = id /\ l.restore = restores[id] /\ l \notin leases
                        /\ Deliveries(id)' = Deliveries(id) \cup {l}

Persists(id) ==
    /\ jobs[id] # NULL
    /\ restores'[id] = restores[id]
    /\ jobs'[id].attempts = jobs[id].attempts
    /\ jobs'[id].lease_generation = jobs[id].lease_generation
    /\ Deliveries(id)' = Deliveries(id)

\* A dispatch only opens a transaction.
LEMMA DispatchKeeps ==
  ASSUME Dispatch
  PROVE  jobs' = jobs /\ failed' = failed /\ issued' = issued
         /\ leases' = leases /\ restores' = restores
<1>1. \A x, n, row : Enqueue(x, n, row) => UNCHANGED <<jobs, failed, issued, leases, restores>>
  BY Zenon DEF Enqueue
<1>2. \E x, n, row : Enqueue(x, n, row)
  BY Zenon DEF Dispatch
<1> QED BY <1>1, <1>2, Zenon

\* A batch that is claimed gets exactly one new lease for each of its rows.
LEMMA ClaimedRows ==
  ASSUME StoreInv, NEW w \in Workers, NEW routes, NEW d \in LeaseDurations,
         NEW t \in Clocks, NEW batch \in SUBSET Ids,
         \A id \in batch : Claimable(id, routes, t),
         Claim(w, batch, d, t),
         NEW id \in Ids, jobs'[id] # NULL
  PROVE  Claimed(id) \/ Persists(id)
<1>1. t \in Nat /\ now \in Nat /\ t <= now
  BY Zenon, ClocksPast DEF StoreInv, TypeOK
<1>2. /\ jobs'[id] = IF id \in batch THEN LeasedRow(jobs[id], w, d, t) ELSE jobs[id]
      /\ restores' = restores
      /\ leases' = leases \cup {NewLease(n, w) : n \in batch}
      /\ \A n \in batch : NewLease(n, w).job = n
  BY Zenon DEF Claim, NewLease
<1>3. CASE id \notin batch
  <2>1. Deliveries(id)' = Deliveries(id)
    BY <1>2, <1>3 DEF Deliveries
  <2> QED BY <1>2, <1>3, <2>1, Zenon DEF Persists
<1>4. CASE id \in batch
  <2>1. /\ jobs[id] # NULL /\ jobs[id] \in Row /\ WellLeased(jobs[id])
        /\ jobs[id].available_at <= t /\ jobs[id].attempts < jobs[id].max_attempts
    BY Zenon, <1>4 DEF StoreInv, TypeOK, RowsWellFormed, Claimable, Active
  <2>2. jobs[id].available_at \in Nat /\ jobs[id].lease_generation \in Nat
    BY <2>1, Zenon DEF Row
  <2>3. jobs'[id].attempts = jobs[id].attempts + 1
    BY Zenon, <1>2, <1>4, <2>1 DEF LeasedRow, Row
  <2>4. NewLease(id, w) \in Lease
    BY <2>2 DEF NewLease, Lease, StoreInv, TypeOK
  <2>5. NewLease(id, w) \notin leases
    <3> SUFFICES ASSUME NewLease(id, w) \in leases PROVE FALSE
      BY Zenon
    <3>1. NewLease(id, w).generation <= jobs[id].lease_generation
      BY Zenon, <2>1 DEF StoreInv, LeaseHistory, NewLease, Active
    <3> QED BY <2>2, <3>1 DEF NewLease
  <2>6. NewLease(id, w).job = id /\ NewLease(id, w).restore = restores[id]
    BY Zenon DEF NewLease
  <2>7. Deliveries(id)' = Deliveries(id) \cup {NewLease(id, w)}
    BY <1>2, <1>4, <2>6 DEF Deliveries
  <2>8. jobs[id].available_at <= now /\ restores'[id] = restores[id]
    BY <1>1, <1>2, <2>1, <2>2
  <2> QED BY <2>1, <2>3, <2>4, <2>5, <2>6, <2>7, <2>8, Zenon DEF Claimed
<1> QED BY Zenon, <1>3, <1>4

LEMMA StepRows ==
  ASSUME StoreInv, [Next]_storeVars, NEW id \in Ids, jobs'[id] # NULL
  PROVE  Appears(id) \/ Claimed(id) \/ Persists(id)
<1> USE NullAssumption
<1>0. now \in Nat /\ \A t \in Clocks : t \in Nat
  BY Zenon, ClocksPast DEF StoreInv, TypeOK
<1>1. ASSUME jobs'[id] = jobs[id], restores' = restores, leases' = leases
      PROVE  Persists(id)
  BY Zenon, <1>1 DEF Persists, Deliveries
<1>2. CASE Dispatch
  <2>1. jobs' = jobs /\ leases' = leases /\ restores' = restores
    BY <1>2, DispatchKeeps, Zenon
  <2> QED BY <1>1, <2>1, Zenon
<1>3. CASE EndTransaction
  <2>1. PICK x \in Txs : Commit(x) \/ Rollback(x)
    BY Zenon, <1>3 DEF EndTransaction
  <2>2. CASE Rollback(x)
    BY Zenon, <1>1, <2>2 DEF Rollback
  <2>3. CASE Commit(x) /\ tx[x].row = NULL
    BY Zenon, <1>1, <2>3 DEF Commit
  <2>4. CASE Commit(x) /\ tx[x].row # NULL
    <3>1. tx[x] \in Transaction /\ Inserting(x)
      BY <2>4, Zenon DEF StoreInv, TypeOK, Commit, Inserting
    <3>2. tx[x].id \in Ids /\ tx[x].id \notin issued /\ tx[x].row.attempts = 0
      BY <3>1, Zenon DEF Transaction, StoreInv, PendingFresh
    <3>3. CASE id # tx[x].id
      <4>1. jobs'[id] = jobs[id] /\ restores' = restores /\ leases' = leases
        BY Zenon, <2>4, <3>2, <3>3 DEF Commit, StoreInv, TypeOK
      <4> QED BY Zenon, <1>1, <4>1
    <3>4. CASE id = tx[x].id
      <4>1. jobs'[id] = tx[x].row /\ leases' = leases
        BY <2>4, <3>2, <3>4, Zenon DEF Commit, StoreInv, TypeOK
      <4>2. jobs[id] = NULL /\ \A l \in leases : l.job # id
        BY Zenon, <3>2, <3>4 DEF StoreInv, RowsWellFormed, LeaseHistory, Active
      <4> QED BY <3>2, <4>1, <4>2, Zenon DEF Appears
    <3> QED BY Zenon, <3>3, <3>4
  <2> QED BY Zenon, <2>1, <2>2, <2>3, <2>4
<1>4. CASE ClaimSome
  <2>1. PICK w \in Workers, routes \in SUBSET Routes, n \in Limits,
             d \in LeaseDurations, t \in Clocks :
             \E batch \in ClaimBatches(routes, n, t) : Claim(w, batch, d, t)
    BY Zenon, <1>4 DEF ClaimSome
  <2>2. PICK batch \in ClaimBatches(routes, n, t) : Claim(w, batch, d, t)
    BY Zenon, <2>1
  <2> QED BY <2>2, BatchesSelected, ClaimedRows, Zenon
<1>5. CASE Holder
  <2>1. PICK l \in leases, t \in Clocks :
             \/ \E d \in LeaseDurations : Heartbeat(l, d, t)
             \/ Ack(l, t)
             \/ \E delay \in Delays : Retry(l, delay, t)
             \/ Release(l, t)
             \/ Fail(l, t)
             \/ NotOwned(l, t)
    BY <1>5, Zenon DEF Holder
  <2>2. restores' = restores /\ leases' = leases
    BY Zenon, <2>1 DEF Heartbeat, Ack, Retry, Release, Fail, Bury, NotOwned, storeVars
  <2>3. ASSUME NEW new \in Row, jobs' = [jobs EXCEPT ![l.job] = new], jobs[l.job] # NULL,
               new.attempts = jobs[l.job].attempts,
               new.lease_generation = jobs[l.job].lease_generation
        PROVE  Persists(id)
    BY <2>2, <2>3, Zenon DEF Persists, Deliveries, StoreInv, TypeOK
  <2>4. CASE \E d \in LeaseDurations : Heartbeat(l, d, t)
    <3>1. PICK d \in LeaseDurations : Heartbeat(l, d, t)
      BY Zenon, <2>4
    <3>2. /\ jobs[l.job] \in Row /\ WellLeased(jobs[l.job])
          /\ jobs[l.job] # NULL /\ jobs[l.job].lease_owner # NULL
      BY Zenon, <1>0, <3>1, FencedRow DEF Heartbeat, Owned
    <3> DEFINE new == HeartbeatRow(jobs[l.job], d, t)
    <3>3. /\ new \in Row /\ new.attempts = jobs[l.job].attempts
          /\ new.lease_generation = jobs[l.job].lease_generation
      BY <1>0, <3>2, HeartbeatRowType, Zenon
    <3>4. jobs' = [jobs EXCEPT ![l.job] = new]
      BY Zenon, <3>1 DEF Heartbeat
    <3> HIDE DEF new
    <3> QED BY <2>3, <3>2, <3>3, <3>4, Zenon
  <2>5. CASE Ack(l, t)
    BY Zenon, <1>1, <2>2, <2>5 DEF Ack, StoreInv, TypeOK
  <2>6. CASE \E delay \in Delays : Retry(l, delay, t)
    <3>1. PICK delay \in Delays : Retry(l, delay, t)
      BY Zenon, <2>6
    <3>2. t + delay \in Nat
      BY <1>0, JobStoreAssumption
    <3> QED BY <1>0, <2>3, <3>1, <3>2, FencedRow, ReleasedRowType, Zenon DEF Retry, Owned
  <2>7. CASE Release(l, t)
    BY <1>0, <2>3, <2>7, FencedRow, ReleasedRowType, Zenon DEF Release, Owned
  <2>8. CASE Fail(l, t)
    BY Zenon, <1>1, <2>2, <2>8 DEF Fail, Bury
  <2>9. CASE NotOwned(l, t)
    BY <1>1, <2>2, <2>9, Zenon DEF NotOwned, storeVars
  <2> QED BY Zenon, <2>1, <2>4, <2>5, <2>6, <2>7, <2>8, <2>9
<1>6. CASE Sweep
  BY Zenon, <1>1, <1>6 DEF Sweep, FailExhausted, Bury
<1>7. CASE Operator
  <2>1. ASSUME NEW j \in Ids, ForgetFailed(j) PROVE Persists(id)
    BY Zenon, <1>1, <2>1 DEF ForgetFailed
  <2>2. ASSUME NEW j \in Ids, NEW t \in Clocks, RetryFailed(j, t)
        PROVE  Appears(id) \/ Persists(id)
    <3>1. CASE id # j
      <4>1. /\ jobs'[id] = jobs[id] /\ restores'[id] = restores[id] /\ leases' = leases
        BY <2>2, <3>1, Zenon DEF RetryFailed, StoreInv, TypeOK
      <4> QED BY Zenon, <4>1 DEF Persists, Deliveries
    <3>2. CASE id = j
      <4>1. jobs[id] = NULL
        BY <2>2, <3>2, Zenon DEF RetryFailed, StoreInv, RowsWellFormed, Active
      <4>2. jobs'[id].attempts = 0
        BY <2>2, <3>2, Zenon DEF RetryFailed, NewRow, StoreInv, TypeOK
      <4>3. restores'[id] = restores[id] + 1 /\ restores[id] \in Nat /\ leases' = leases
        BY <2>2, <3>2, Zenon DEF RetryFailed, StoreInv, TypeOK
      <4>4. \A l \in leases : l.job = id => l.restore \in Nat /\ l.restore <= restores[id]
        BY Zenon DEF StoreInv, LeaseHistory, TypeOK, Lease
      <4> QED BY <4>1, <4>2, <4>3, <4>4 DEF Appears
    <3> QED BY <3>1, <3>2, Zenon
  <2> QED BY Zenon, <1>7, <2>1, <2>2 DEF Operator
<1>8. CASE Tick
  BY Zenon, <1>1, <1>8 DEF Tick
<1>9. CASE UNCHANGED storeVars
  BY Zenon, <1>1, <1>9 DEF storeVars
<1> QED BY Zenon, <1>2, <1>3, <1>4, <1>5, <1>6, <1>7, <1>8, <1>9 DEF Next

\* Even a stalled claim only takes rows that are available now, and an
\* unexpired lease keeps its row unavailable.
THEOREM LiveLeaseKept == Spec => NoTakeoverOfLiveLease
<1>1. ASSUME StoreInv, [Next]_storeVars, NEW id \in Ids,
             jobs[id] # NULL, jobs'[id] # NULL,
             jobs[id].lease_owner # NULL, jobs[id].lease_expires_at > now
      PROVE  jobs'[id].lease_generation = jobs[id].lease_generation
  <2>1. jobs[id] \in Row /\ WellLeased(jobs[id]) /\ now \in Nat
    BY <1>1, Zenon DEF StoreInv, TypeOK, RowsWellFormed, Active
  <2>2. jobs[id].available_at \in Nat /\ jobs[id].available_at = jobs[id].lease_expires_at
    BY Zenon, <1>1, <2>1 DEF Row, WellLeased
  <2>4. ~(jobs[id].available_at <= now)
    BY <1>1, <2>1, <2>2
  <2>3. ~Claimed(id) /\ ~Appears(id)
    BY Zenon, <1>1, <2>1, <2>2, <2>4 DEF Claimed, Appears
  <2> QED BY Zenon, <1>1, <2>3, StepRows DEF Persists
<1>2. StoreInv /\ [Next]_storeVars =>
        [\A id \in Ids :
           (/\ Active(id) /\ Active(id)'
            /\ jobs[id].lease_owner # NULL
            /\ jobs[id].lease_expires_at > now)
              => jobs'[id].lease_generation = jobs[id].lease_generation]_storeVars
  BY Zenon, <1>1 DEF Active
<1> QED BY <1>2, StoreInvariant, PTL DEF Spec, NoTakeoverOfLiveLease

-----------------------------------------------------------------------------
(* The store implements JobLifecycle. *)

\* Where the refinement mapping places a job, before and after a step.
LEMMA Mapping ==
  ASSUME NEW id \in Ids
  PROVE  /\ jobs[id] # NULL =>
              /\ status[id] = IF jobs[id].lease_owner # NULL THEN "leased" ELSE "waiting"
              /\ tries[id] = jobs[id].attempts /\ budget[id] = jobs[id].max_attempts
         /\ jobs[id] = NULL /\ failed[id] # NULL =>
              /\ status[id] = "failed"
              /\ tries[id] = failed[id].attempts /\ budget[id] = failed[id].max_attempts
         /\ jobs[id] = NULL /\ failed[id] = NULL =>
              /\ status[id] = IF id \in issued THEN "gone" ELSE "new"
              /\ tries[id] = 0 /\ budget[id] = 0
         /\ jobs'[id] # NULL =>
              /\ status'[id] = IF jobs'[id].lease_owner # NULL THEN "leased" ELSE "waiting"
              /\ tries'[id] = jobs'[id].attempts /\ budget'[id] = jobs'[id].max_attempts
         /\ jobs'[id] = NULL /\ failed'[id] # NULL =>
              /\ status'[id] = "failed"
              /\ tries'[id] = failed'[id].attempts /\ budget'[id] = failed'[id].max_attempts
         /\ jobs'[id] = NULL /\ failed'[id] = NULL =>
              /\ status'[id] = IF id \in issued' THEN "gone" ELSE "new"
              /\ tries'[id] = 0 /\ budget'[id] = 0
  BY Zenon DEF status, tries, budget

\* A job whose rows a step leaves alone stays where it is.
LEMMA StayStep ==
  ASSUME NEW id \in Ids, jobs'[id] = jobs[id], failed'[id] = failed[id],
         id \in issued' <=> id \in issued
  PROVE  Lifecycle!Step(id)
<1>1. status'[id] = status[id] /\ tries'[id] = tries[id] /\ budget'[id] = budget[id]
  BY Zenon DEF status, tries, budget
<1> QED BY Zenon, <1>1 DEF Lifecycle!Step, Lifecycle!Stay, Lifecycle!Moves, Lifecycle!Counts

LEMMA CommitStep ==
  ASSUME StoreInv, NEW x \in Txs, Commit(x), NEW id \in Ids
  PROVE  Lifecycle!Step(id)
<1> USE NullAssumption
<1>1. CASE tx[x].row = NULL \/ id # tx[x].id
  <2>1. jobs'[id] = jobs[id] /\ failed' = failed /\ (id \in issued' <=> id \in issued)
    BY Zenon, <1>1 DEF Commit, StoreInv, TypeOK
  <2> QED BY Zenon, <2>1, StayStep
<1>2. CASE tx[x].row # NULL /\ id = tx[x].id
  <2>1. tx[x] \in Transaction /\ Inserting(x)
    BY Zenon, <1>2 DEF StoreInv, TypeOK, Commit, Inserting
  <2>2. /\ id \notin issued /\ tx[x].row \in Row
        /\ tx[x].row.attempts = 0 /\ tx[x].row.lease_owner = NULL
    BY Zenon, <1>2, <2>1 DEF Transaction, StoreInv, PendingFresh
  <2>3. jobs[id] = NULL /\ failed[id] = NULL
    BY Zenon, <2>2 DEF StoreInv, RowsWellFormed, Active
  <2>4. jobs'[id] = tx[x].row
    BY Zenon, <1>2 DEF Commit, StoreInv, TypeOK
  <2>5. jobs'[id].max_attempts \in Budgets /\ jobs'[id] # NULL
    BY Zenon, <2>2, <2>4 DEF Row
  <2>6. /\ status[id] = "new" /\ status'[id] = "waiting" /\ tries'[id] = 0
        /\ budget'[id] = jobs'[id].max_attempts
    BY <2>2, <2>3, <2>4, <2>5, Mapping
  <2>7. \A b \in Budgets : b \in 1 .. 1000
    BY JobStoreAssumption
  <2>8. budget'[id] \in 1 .. 1000
    BY <2>5, <2>6, <2>7
  <2> QED BY Zenon, <2>6, <2>8 DEF Lifecycle!Step, Lifecycle!Submit, Lifecycle!Moves
<1> QED BY Zenon, <1>1, <1>2

LEMMA ClaimStep ==
  ASSUME StoreInv, NEW w \in Workers, NEW routes, NEW d \in LeaseDurations,
         NEW t \in Nat, NEW batch \in SUBSET Ids,
         \A j \in batch : Claimable(j, routes, t),
         Claim(w, batch, d, t), NEW id \in Ids
  PROVE  Lifecycle!Step(id)
<1> USE NullAssumption
<1>1. CASE id \notin batch
  BY Zenon, <1>1, StayStep DEF Claim
<1>2. CASE id \in batch
  <2>1. jobs[id] # NULL /\ jobs[id] \in Row /\ jobs[id].attempts < jobs[id].max_attempts
          /\ WellLeased(jobs[id])
    BY Zenon, <1>2 DEF StoreInv, TypeOK, RowsWellFormed, Claimable, Active
  <2>2. jobs'[id] = LeasedRow(jobs[id], w, d, t)
    BY Zenon, <1>2 DEF Claim
  <2>3. /\ jobs'[id].attempts = jobs[id].attempts + 1
        /\ jobs'[id].max_attempts = jobs[id].max_attempts
        /\ jobs'[id].lease_owner = w
    BY Zenon, <2>1, <2>2 DEF LeasedRow, Row
  <2>4. jobs'[id] # NULL /\ w # NULL
    BY <2>1, <2>2, LeasedRowType, JobStoreAssumption
  <2>5. /\ status[id] \in {"waiting", "leased"} /\ status'[id] = "leased"
        /\ tries[id] < budget[id] /\ tries'[id] = tries[id] + 1 /\ budget'[id] = budget[id]
    BY Zenon, <2>1, <2>3, <2>4, Mapping
  <2> QED BY Zenon, <2>5 DEF Lifecycle!Step, Lifecycle!Take, Lifecycle!Moves, Lifecycle!Counts
<1> QED BY Zenon, <1>1, <1>2

\* Heartbeat, Retry and Release: a leased row is replaced by one with the same
\* counters, still leased or released.
LEMMA UpdateStep ==
  ASSUME StoreInv, NEW j \in Ids, NEW new \in Row,
         jobs[j] # NULL, jobs[j].lease_owner # NULL,
         new.attempts = jobs[j].attempts, new.max_attempts = jobs[j].max_attempts,
         jobs' = [jobs EXCEPT ![j] = new], UNCHANGED <<failed, issued>>,
         NEW id \in Ids
  PROVE  Lifecycle!Step(id)
<1> USE NullAssumption
<1>1. CASE id # j
  BY Zenon, <1>1, StayStep DEF StoreInv, TypeOK
<1>2. CASE id = j
  <2>1. jobs'[id] = new
    BY Zenon, <1>2 DEF StoreInv, TypeOK
  <2>2. /\ status[id] = "leased" /\ status'[id] \in {"leased", "waiting"}
        /\ tries'[id] = tries[id] /\ budget'[id] = budget[id]
    BY <1>2, <2>1, Mapping
  <2> QED BY Zenon, <2>2 DEF Lifecycle!Step, Lifecycle!Requeue, Lifecycle!Stay,
                      Lifecycle!Moves, Lifecycle!Counts
<1> QED BY Zenon, <1>1, <1>2

LEMMA AckStep ==
  ASSUME StoreInv, NEW l \in leases, NEW t \in Nat, Ack(l, t), NEW id \in Ids
  PROVE  Lifecycle!Step(id)
<1> USE NullAssumption
<1>1. l.job \in Ids /\ jobs[l.job] # NULL /\ jobs[l.job].lease_owner # NULL
  BY Zenon, FencedRow DEF Ack, Owned
<1>2. CASE id # l.job
  BY Zenon, <1>1, <1>2, StayStep DEF Ack, StoreInv, TypeOK
<1>3. CASE id = l.job
  <2>1. jobs'[id] = NULL /\ failed'[id] = NULL /\ id \in issued'
    BY Zenon, <1>1, <1>3 DEF Ack, StoreInv, TypeOK, RowsWellFormed, Active
  <2>2. status[id] = "leased" /\ status'[id] = "gone" /\ tries'[id] = 0 /\ budget'[id] = 0
    BY Zenon, <1>1, <1>3, <2>1, Mapping
  <2> QED BY Zenon, <2>2 DEF Lifecycle!Step, Lifecycle!Finish, Lifecycle!Moves, Lifecycle!Counts
<1> QED BY Zenon, <1>2, <1>3

LEMMA BuryStep ==
  ASSUME StoreInv, NEW batch \in SUBSET Ids, Bury(batch),
         \A j \in batch : jobs[j] # NULL /\ jobs[j].lease_owner # NULL, NEW id \in Ids
  PROVE  Lifecycle!Step(id)
<1> USE NullAssumption
<1>1. CASE id \notin batch
  BY Zenon, <1>1, StayStep DEF Bury
<1>2. CASE id \in batch
  <2>1. jobs'[id] = NULL /\ failed'[id] = BuriedRow(jobs[id]) /\ jobs[id] \in Row
    BY Zenon, <1>2 DEF Bury, StoreInv, TypeOK
  <2>2. /\ BuriedRow(jobs[id]).attempts = jobs[id].attempts
        /\ BuriedRow(jobs[id]).max_attempts = jobs[id].max_attempts
        /\ BuriedRow(jobs[id]) \in FailedRow
    BY Zenon, <2>1 DEF BuriedRow, FailedRow, Row
  <2>3. /\ status[id] = "leased" /\ status'[id] = "failed"
        /\ tries'[id] = tries[id] /\ budget'[id] = budget[id]
    BY <1>2, <2>1, <2>2, Mapping
  <2> QED BY Zenon, <2>3 DEF Lifecycle!Step, Lifecycle!Bury, Lifecycle!Moves, Lifecycle!Counts
<1> QED BY Zenon, <1>1, <1>2

LEMMA RetryFailedStep ==
  ASSUME StoreInv, NEW j \in Ids, NEW t \in Nat, RetryFailed(j, t), NEW id \in Ids
  PROVE  Lifecycle!Step(id)
<1> USE NullAssumption
<1>1. CASE id # j
  BY Zenon, <1>1, StayStep DEF RetryFailed, StoreInv, TypeOK
<1>2. CASE id = j
  <2>1. failed[id] # NULL /\ jobs[id] = NULL /\ failed[id] \in FailedRow
    BY Zenon, <1>2 DEF RetryFailed, StoreInv, TypeOK, RowsWellFormed, Active
  <2>2. jobs'[id] = NewRow(failed[id].route, failed[id].priority, failed[id].key,
                           failed[id].max_attempts, t)
    BY Zenon, <1>2 DEF RetryFailed, StoreInv, TypeOK
  <2>3. /\ failed[id].route \in Routes /\ failed[id].priority \in Priorities
        /\ failed[id].key \in Keys \cup {NULL} /\ failed[id].max_attempts \in Budgets
    BY Zenon, <2>1 DEF FailedRow
  <2>4. jobs'[id] \in Row /\ jobs'[id].attempts = 0 /\ jobs'[id].lease_owner = NULL
    BY <2>2, <2>3, NewRowType
  <2>5. jobs'[id].max_attempts = failed[id].max_attempts
    BY <2>2 DEF NewRow
  <2>6. jobs'[id] # NULL
    BY Zenon, <2>4 DEF Row
  <2>7. /\ status[id] = "failed" /\ status'[id] = "waiting"
        /\ tries'[id] = 0 /\ budget'[id] = budget[id]
    BY Zenon, <2>1, <2>4, <2>5, <2>6, Mapping
  <2> QED BY Zenon, <2>7 DEF Lifecycle!Step, Lifecycle!Restore, Lifecycle!Moves, Lifecycle!Counts
<1> QED BY Zenon, <1>1, <1>2

LEMMA ForgetFailedStep ==
  ASSUME StoreInv, NEW j \in Ids, ForgetFailed(j), NEW id \in Ids
  PROVE  Lifecycle!Step(id)
<1> USE NullAssumption
<1>1. CASE id # j
  BY Zenon, <1>1, StayStep DEF ForgetFailed, StoreInv, TypeOK
<1>2. CASE id = j
  <2>1. /\ failed[id] # NULL /\ jobs[id] = NULL /\ failed'[id] = NULL /\ jobs'[id] = NULL
        /\ id \in issued'
    BY Zenon, <1>2 DEF ForgetFailed, StoreInv, TypeOK, RowsWellFormed, Active
  <2>2. status[id] = "failed" /\ status'[id] = "gone" /\ tries'[id] = 0 /\ budget'[id] = 0
    BY Zenon, <2>1, Mapping
  <2> QED BY Zenon, <2>2 DEF Lifecycle!Step, Lifecycle!Forget, Lifecycle!Moves, Lifecycle!Counts
<1> QED BY Zenon, <1>1, <1>2

\* Each step of the store is a step of the lifecycle for every job.
LEMMA LifecycleStep ==
  ASSUME StoreInv, [Next]_storeVars PROVE Lifecycle!Next
<1> SUFFICES ASSUME NEW id \in Ids PROVE Lifecycle!Step(id)
  BY Zenon DEF Lifecycle!Next
<1>0. now \in Nat /\ \A t \in Clocks : t \in Nat
  BY Zenon, ClocksPast DEF StoreInv, TypeOK
<1>1. CASE Dispatch
  <2>1. jobs' = jobs /\ failed' = failed /\ issued' = issued
    BY <1>1, DispatchKeeps, Zenon
  <2> QED BY Zenon, <2>1, StayStep
<1>2. CASE EndTransaction
  <2>1. ASSUME NEW x \in Txs, Rollback(x) PROVE Lifecycle!Step(id)
    BY Zenon, <2>1, StayStep DEF Rollback
  <2> QED BY Zenon, <1>2, <2>1, CommitStep DEF EndTransaction
<1>3. CASE ClaimSome
  <2>1. PICK w \in Workers, routes \in SUBSET Routes, n \in Limits,
             d \in LeaseDurations, t \in Clocks :
             \E batch \in ClaimBatches(routes, n, t) : Claim(w, batch, d, t)
    BY Zenon, <1>3 DEF ClaimSome
  <2>2. PICK batch \in ClaimBatches(routes, n, t) : Claim(w, batch, d, t)
    BY Zenon, <2>1
  <2> QED BY Zenon, <1>0, <2>2, BatchesSelected, ClaimStep
<1>4. CASE Holder
  <2>1. PICK l \in leases, t \in Clocks :
             \/ \E d \in LeaseDurations : Heartbeat(l, d, t)
             \/ Ack(l, t)
             \/ \E delay \in Delays : Retry(l, delay, t)
             \/ Release(l, t)
             \/ Fail(l, t)
             \/ NotOwned(l, t)
    BY Zenon, <1>4 DEF Holder
  <2>2. t \in Nat
    BY Zenon, <1>0
  <2>3. ASSUME Fenced(l, t)
        PROVE  /\ l.job \in Ids /\ jobs[l.job] \in Row /\ WellLeased(jobs[l.job])
               /\ jobs[l.job] # NULL /\ jobs[l.job].lease_owner # NULL
    BY Zenon, <2>2, <2>3, FencedRow
  <2>4. CASE \E d \in LeaseDurations : Heartbeat(l, d, t)
    <3>1. PICK d \in LeaseDurations : Heartbeat(l, d, t)
      BY Zenon, <2>4
    <3>2. Fenced(l, t) /\ jobs' = [jobs EXCEPT ![l.job] = HeartbeatRow(jobs[l.job], d, t)]
            /\ UNCHANGED <<failed, issued>>
      BY Zenon, <3>1 DEF Heartbeat, Owned
    <3>3. /\ HeartbeatRow(jobs[l.job], d, t) \in Row
          /\ HeartbeatRow(jobs[l.job], d, t).attempts = jobs[l.job].attempts
          /\ HeartbeatRow(jobs[l.job], d, t).max_attempts = jobs[l.job].max_attempts
      BY Zenon, <2>2, <2>3, <3>2, HeartbeatRowType
    <3> QED BY Zenon, <2>3, <3>2, <3>3, UpdateStep
  <2>5. CASE Ack(l, t)
    BY Zenon, <2>2, <2>5, AckStep
  <2>6. ASSUME NEW a \in Nat, Fenced(l, t), UNCHANGED <<failed, issued>>,
               jobs' = [jobs EXCEPT ![l.job] = ReleasedRow(jobs[l.job], a)]
        PROVE  Lifecycle!Step(id)
    <3>1. /\ ReleasedRow(jobs[l.job], a) \in Row
          /\ ReleasedRow(jobs[l.job], a).attempts = jobs[l.job].attempts
          /\ ReleasedRow(jobs[l.job], a).max_attempts = jobs[l.job].max_attempts
      BY Zenon, <2>3, <2>6, ReleasedRowType
    <3> QED BY Zenon, <2>3, <2>6, <3>1, UpdateStep
  <2>7. CASE \E delay \in Delays : Retry(l, delay, t)
    <3>1. PICK delay \in Delays : Retry(l, delay, t)
      BY Zenon, <2>7
    <3>2. t + delay \in Nat
      BY <2>2, JobStoreAssumption
    <3> QED BY Zenon, <2>6, <3>1, <3>2 DEF Retry, Owned
  <2>8. CASE Release(l, t)
    BY Zenon, <2>2, <2>6, <2>8 DEF Release, Owned
  <2>9. CASE Fail(l, t)
    BY Zenon, <2>3, <2>9, BuryStep DEF Fail, Owned
  <2>10. CASE NotOwned(l, t)
    BY Zenon, <2>10, StayStep DEF NotOwned, storeVars
  <2> QED BY Zenon, <2>1, <2>4, <2>5, <2>7, <2>8, <2>9, <2>10
<1>5. CASE Sweep
  BY Zenon, <1>5, BatchesSelected, BuryStep DEF Sweep, FailExhausted, Exhausted, Active
<1>6. CASE Operator
  BY Zenon, <1>0, <1>6, RetryFailedStep, ForgetFailedStep DEF Operator
<1>7. CASE Tick
  BY Zenon, <1>7, StayStep DEF Tick
<1>8. CASE UNCHANGED storeVars
  BY Zenon, <1>8, StayStep DEF storeVars
<1> QED BY Zenon, <1>1, <1>2, <1>3, <1>4, <1>5, <1>6, <1>7, <1>8 DEF Next

\* The store keeps the promise of JobLifecycle: no committed job is lost, a job
\* is finished only by the holder of its current lease, and no life of a job
\* has more deliveries than its budget.
THEOREM LifecycleImplemented == Spec => ImplementsLifecycle
<1>1. Init => Lifecycle!Init
  BY Zenon DEF Init, Lifecycle!Init, status, tries, budget
<1>2. StoreInv /\ [Next]_storeVars => [Lifecycle!Next]_(Lifecycle!lifecycleVars)
  BY Zenon, LifecycleStep
<1> QED BY <1>1, <1>2, StoreInvariant, PTL DEF Spec, ImplementsLifecycle, Lifecycle!Spec

=============================================================================
