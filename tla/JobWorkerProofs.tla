-------------------------- MODULE JobWorkerProofs ---------------------------
(***************************************************************************)
(* Theorems of JobWorker for every number of workers, jobs and slots: the  *)
(* worker never runs out of slots for what it claims, it drives the        *)
(* store only through its statements, a job counts as done only by the     *)
(* handler of its current lease, no row is left where nobody would take    *)
(* it, and an abandoned handler ends its worker's Run.  The deliveries of  *)
(* a job, which the store counts, are at the end.                          *)
(***************************************************************************)
EXTENDS JobWorker, JobStoreProofs, FiniteSetTheorems

\* What the proofs need of a worker's bookkeeping.
Counted(w) ==
    /\ free[w] \in Nat
    /\ errs[w] \in Nat
    /\ IsFiniteSet(procs[w])
    /\ errs[w] <= Concurrency
    /\ Cardinality(procs[w]) + free[w] <= Concurrency
    /\ run[w] \in {"sweep", "claim"} <=> free[w] > 0

WorkerFunctions ==
    /\ run = [w \in Workers |-> run[w]] /\ free = [w \in Workers |-> free[w]]
    /\ errs = [w \in Workers |-> errs[w]] /\ procs = [w \in Workers |-> procs[w]]

\* Every process goroutine works under a lease that Claim returned.
LeasesIssued == \A w \in Workers : \A p \in procs[w] : p \in Process /\ p.lease \in leases

WorkerInv ==
    /\ StoreInv /\ WorkerFunctions /\ LeasesIssued
    /\ \A w \in Workers : Counted(w)

\* ORDER BY ... LIMIT n returns at most n rows.
LEMMA BatchSize ==
    ASSUME NEW n \in Nat, NEW t, NEW routes, NEW batch \in ClaimBatches(routes, n, t)
    PROVE  IsFiniteSet(batch) /\ Cardinality(batch) <= n /\ batch \subseteq Ids
<1>1. batch \subseteq Ids
  BY Zenon DEF ClaimBatches
<1>2. IsFiniteSet(batch)
  BY Zenon, <1>1, FS_Subset, JobWorkerAssumption
<1>3. Cardinality(batch) \in Nat
  BY Zenon, <1>2, FS_CardinalityType
<1>4. Cardinality(batch) = n \/ Cardinality(batch) < n
  BY Zenon DEF ClaimBatches, IsFirst
<1> QED
  BY <1>1, <1>2, <1>3, <1>4

\* A budget allows at least one attempt.
LEMMA BudgetsPositive == \A b \in Budgets : b \in Nat /\ b > 0
  BY JobStoreAssumption

\* An attempt is counted in the naturals.
LEMMA Succeeds == \A n \in Nat : n + 1 \in Nat
  OBVIOUS

\* Spawning one process per claimed row takes at most one slot per row.
LEMMA Spawned ==
    ASSUME NEW w, NEW batch, IsFiniteSet(batch), NEW ps, IsFiniteSet(ps)
    PROVE  LET new == {NewProcess(NewLease(id, w), jobs[id]) : id \in batch}
           IN /\ IsFiniteSet(ps \cup new)
              /\ Cardinality(ps \cup new) <= Cardinality(ps) + Cardinality(batch)
<1> DEFINE f == [id \in batch |-> NewProcess(NewLease(id, w), jobs[id])]
           new == {NewProcess(NewLease(id, w), jobs[id]) : id \in batch}
<1>1. f \in Surjection(batch, new)
  BY Zenon DEF Surjection
<1> HIDE DEF f, new
<1>2. IsFiniteSet(new) /\ Cardinality(new) <= Cardinality(batch)
  BY Zenon, <1>1, FS_Surjection
<1>3. IsFiniteSet(ps \cup new)
  BY <1>2, FS_Union, Zenon
<1>4. /\ Cardinality(ps \cup new) = Cardinality(ps) + Cardinality(new) - Cardinality(ps \cap new)
      /\ IsFiniteSet(ps \cap new)
  BY Zenon, <1>2, FS_Union, FS_Intersection
<1>5. /\ Cardinality(ps \cap new) \in Nat /\ Cardinality(new) \in Nat
      /\ Cardinality(ps) \in Nat /\ Cardinality(batch) \in Nat
  BY Zenon, <1>2, <1>4, FS_CardinalityType
<1> QED
  BY <1>2, <1>3, <1>4, <1>5 DEF new

-----------------------------------------------------------------------------
LEMMA InitiallyCounted == WorkerInit => WorkerInv
<1> SUFFICES ASSUME WorkerInit PROVE WorkerInv
  BY Zenon
<1>1. WorkerFunctions /\ LeasesIssued
  BY Zenon DEF WorkerInit, WorkerFunctions, LeasesIssued
<1>2. ASSUME NEW w \in Workers PROVE Counted(w)
  <2>1. procs[w] = {} /\ free[w] = 0 /\ errs[w] = 0 /\ run[w] = "off"
    BY Zenon DEF WorkerInit
  <2> QED
    BY <2>1, FS_EmptySet, JobWorkerAssumption DEF Counted
<1> QED
  BY Zenon, <1>1, <1>2, InitInv DEF WorkerInv, WorkerInit

\* A process that moves on keeps its slot and its lease.
LEMMA ReplacedCounted ==
    ASSUME WorkerInv, NEW w \in Workers, NEW p \in procs[w], NEW q \in Process,
           q.lease = p.lease, Replace(w, p, q),
           UNCHANGED <<run, free, errs>>, leases \subseteq leases', StoreInv'
    PROVE  WorkerInv'
<1> USE DEF WorkerInv
<1>1. procs' = [procs EXCEPT ![w] = (procs[w] \ {p}) \cup {q}]
  BY Zenon DEF Replace
<1>2. WorkerFunctions' /\ LeasesIssued'
  BY <1>1, Zenon DEF WorkerFunctions, LeasesIssued
<1>3. IsFiniteSet(procs[w] \ {p}) /\ Cardinality(procs[w] \ {p}) = Cardinality(procs[w]) - 1
  BY FS_RemoveElement, Zenon DEF Counted
<1>4. /\ IsFiniteSet((procs[w] \ {p}) \cup {q})
      /\ Cardinality((procs[w] \ {p}) \cup {q}) <= Cardinality(procs[w])
      /\ Cardinality((procs[w] \ {p}) \cup {q}) \in Nat
      /\ Cardinality(procs[w]) \in Nat
  <2>1. IsFiniteSet((procs[w] \ {p}) \cup {q})
    BY Zenon, <1>3, FS_AddElement
  <2>2. /\ Cardinality((procs[w] \ {p}) \cup {q}) \in Nat
        /\ Cardinality(procs[w] \ {p}) \in Nat /\ Cardinality(procs[w]) \in Nat
    BY Zenon, <1>3, <2>1, FS_CardinalityType DEF Counted
  <2>3. Cardinality((procs[w] \ {p}) \cup {q}) <= Cardinality(procs[w] \ {p}) + 1
    <3> DEFINE rest == procs[w] \ {p}
    <3>1. Cardinality(rest \cup {q}) = IF q \in rest THEN Cardinality(rest) ELSE Cardinality(rest) + 1
      BY <1>3, FS_AddElement, Zenon
    <3> HIDE DEF rest
    <3>2. Cardinality(rest) \in Nat => Cardinality(rest \cup {q}) <= Cardinality(rest) + 1
      BY <3>1
    <3> QED
      BY Zenon, <2>2, <3>2 DEF rest
  <2> QED
    BY <1>3, <2>1, <2>2, <2>3
<1>5. ASSUME NEW v \in Workers PROVE Counted(v)'
  <2>1. CASE v = w
    <3>1. procs'[w] = (procs[w] \ {p}) \cup {q}
      BY Zenon, <1>1 DEF WorkerFunctions
    <3> QED
      BY <1>4, <2>1, <3>1, JobWorkerAssumption DEF Counted
  <2>2. CASE v # w
    <3>1. procs'[v] = procs[v]
      BY Zenon, <1>1, <2>2 DEF WorkerFunctions
    <3> QED
      BY Zenon, <3>1 DEF Counted
  <2> QED
    BY Zenon, <2>1, <2>2
<1> QED
  BY Zenon, <1>2, <1>5

\* A process that returns gives a slot back, and its error needs one place in
\* the channel.
LEMMA ReturnedCounted ==
    ASSUME WorkerInv, NEW w \in Workers, NEW p \in procs[w],
           Return(w, p) \/ ReturnError(w, p),
           UNCHANGED <<run, free>>, leases \subseteq leases', StoreInv'
    PROVE  WorkerInv'
<1> USE DEF WorkerInv
<1>1. procs' = [procs EXCEPT ![w] = procs[w] \ {p}]
  BY Zenon DEF Return, ReturnError
<1>2. /\ errs' = [v \in Workers |-> errs'[v]]
      /\ \A v \in Workers : v # w => errs'[v] = errs[v]
      /\ errs'[w] = errs[w] \/ (errs[w] < Concurrency /\ errs'[w] = errs[w] + 1)
  BY Zenon DEF Return, ReturnError, WorkerFunctions
<1>3. WorkerFunctions' /\ LeasesIssued'
  BY <1>1, <1>2, Zenon DEF WorkerFunctions, LeasesIssued
<1>4. IsFiniteSet(procs[w] \ {p}) /\ Cardinality(procs[w] \ {p}) = Cardinality(procs[w]) - 1
  BY FS_RemoveElement, Zenon DEF Counted
<1>5. Cardinality(procs[w]) \in Nat
  BY Zenon, FS_CardinalityType DEF Counted
<1>6. ASSUME NEW v \in Workers PROVE Counted(v)'
  <2>1. CASE v = w
    <3>1. procs'[w] = procs[w] \ {p}
      BY Zenon, <1>1 DEF WorkerFunctions
    <3> QED
      BY <1>2, <1>4, <1>5, <2>1, <3>1, JobWorkerAssumption, SMTT(30) DEF Counted
  <2>2. CASE v # w
    <3>1. procs'[v] = procs[v] /\ errs'[v] = errs[v]
      BY Zenon, <1>1, <1>2, <2>2 DEF WorkerFunctions
    <3> QED
      BY Zenon, <3>1 DEF Counted
  <2> QED
    BY Zenon, <2>1, <2>2
<1> QED
  BY Zenon, <1>3, <1>6

\* A handler that returns changes one process in place.
LEMMA HandledCounted ==
    ASSUME WorkerInv, NEW w \in Workers, NEW l \in handlers[w],
           NEW r \in {"ok", "error", "permanent"}, HandlerReturns(w, l, r),
           leases \subseteq leases', StoreInv'
    PROVE  WorkerInv'
<1> USE DEF WorkerInv
<1> DEFINE g(p) == IF p.lease = l THEN [p EXCEPT !.result = r] ELSE p
           ps == {g(p) : p \in procs[w]}
           f == [p \in procs[w] |-> g(p)]
<1>1. procs' = [procs EXCEPT ![w] = ps] /\ UNCHANGED <<run, free, errs>>
  BY Zenon DEF HandlerReturns, runVars
<1>2. f \in Surjection(procs[w], ps)
  BY Zenon DEF Surjection
<1>3. \A p \in procs[w] : g(p) \in Process /\ g(p).lease = p.lease
  BY DEF LeasesIssued, Process, Results
<1>4. \A q \in ps : q \in Process /\ q.lease \in leases
  BY <1>3, Zenon DEF LeasesIssued
<1> HIDE DEF f, ps
<1>5. IsFiniteSet(ps) /\ Cardinality(ps) <= Cardinality(procs[w])
  BY Zenon, <1>2, FS_Surjection DEF Counted
<1>6. Cardinality(ps) \in Nat /\ Cardinality(procs[w]) \in Nat
  BY Zenon, <1>5, FS_CardinalityType DEF Counted
<1>7. WorkerFunctions' /\ LeasesIssued'
  BY Zenon, <1>1, <1>4 DEF WorkerFunctions, LeasesIssued
<1>8. ASSUME NEW v \in Workers PROVE Counted(v)'
  <2>1. CASE v = w
    <3>1. procs'[w] = ps
      BY Zenon, <1>1 DEF WorkerFunctions
    <3> QED
      BY <1>1, <1>5, <1>6, <2>1, <3>1, JobWorkerAssumption DEF Counted
  <2>2. CASE v # w
    <3>1. procs'[v] = procs[v]
      BY <1>1, <2>2, Zenon DEF WorkerFunctions
    <3> QED
      BY Zenon, <1>1, <3>1 DEF Counted
  <2> QED
    BY Zenon, <2>1, <2>2
<1> QED
  BY Zenon, <1>7, <1>8

\* What the store's statements leave alone: leases are only ever added.
LEMMA LeasesKept ==
    ASSUME Next \/ UNCHANGED storeVars
    PROVE  leases \subseteq leases'
<1>1. CASE Dispatch \/ EndTransaction
  BY <1>1 DEF Dispatch, Enqueue, EndTransaction, Commit, Rollback
<1>2. CASE ClaimSome \/ Sweep \/ Tick \/ UNCHANGED storeVars
  BY Zenon, <1>2 DEF ClaimSome, Claim, Sweep, FailExhausted, Bury, Tick, storeVars
<1>3. CASE Holder
  BY Zenon, <1>3 DEF Holder, Heartbeat, Ack, Retry, Release, Fail, Bury, NotOwned, storeVars
<1>4. CASE Operator
  BY Zenon, <1>4 DEF Operator, RetryFailed, ForgetFailed
<1> QED BY Zenon, <1>1, <1>2, <1>3, <1>4 DEF Next

\* An id that was committed stays known.
LEMMA IssuedKept ==
    ASSUME Next \/ UNCHANGED storeVars
    PROVE  issued \subseteq issued'
<1>1. CASE Dispatch \/ EndTransaction
  BY <1>1 DEF Dispatch, Enqueue, EndTransaction, Commit, Rollback
<1>2. CASE ClaimSome \/ Sweep \/ Tick \/ UNCHANGED storeVars
  BY Zenon, <1>2 DEF ClaimSome, Claim, Sweep, FailExhausted, Bury, Tick, storeVars
<1>3. CASE Holder
  BY Zenon, <1>3 DEF Holder, Heartbeat, Ack, Retry, Release, Fail, Bury, NotOwned, storeVars
<1>4. CASE Operator
  BY Zenon, <1>4 DEF Operator, RetryFailed, ForgetFailed
<1> QED BY Zenon, <1>1, <1>2, <1>3, <1>4 DEF Next

\* One worker is at another place of Run; nothing is counted there.
LEMMA MovedCounted ==
    ASSUME WorkerInv, NEW w \in Workers,
           NEW state \in {"loop", "slots", "poll", "draining", "stopped", "off"}, Goto(w, state),
           NEW e, errs' = [errs EXCEPT ![w] = e], e \in Nat, e <= errs[w],
           free' = [free EXCEPT ![w] = 0],
           NEW ps, procs' = [procs EXCEPT ![w] = ps], ps \subseteq procs[w],
           leases \subseteq leases', StoreInv'
    PROVE  WorkerInv'
<1> USE DEF WorkerInv
<1>1. WorkerFunctions'
  BY Zenon DEF WorkerFunctions, Goto
<1>2. LeasesIssued'
  BY Zenon DEF WorkerFunctions, LeasesIssued
<1>3. IsFiniteSet(ps) /\ Cardinality(ps) <= Cardinality(procs[w])
  BY Zenon, FS_Subset DEF Counted
<1>4. Cardinality(ps) \in Nat /\ Cardinality(procs[w]) \in Nat
  BY Zenon, <1>3, FS_CardinalityType DEF Counted
<1>5. ASSUME NEW v \in Workers PROVE Counted(v)'
  <2>1. CASE v = w
    <3>1. procs'[w] = ps /\ free'[w] = 0 /\ errs'[w] = e /\ run'[w] = state
      BY Zenon DEF WorkerFunctions, Goto
    <3> QED
      BY <1>3, <1>4, <2>1, <3>1, JobWorkerAssumption DEF Counted
  <2>2. CASE v # w
    <3>1. /\ procs'[v] = procs[v] /\ errs'[v] = errs[v]
          /\ free'[v] = free[v] /\ run'[v] = run[v]
      BY <2>2, Zenon DEF WorkerFunctions, Goto
    <3> QED
      BY Zenon, <3>1 DEF Counted
  <2> QED
    BY Zenon, <2>1, <2>2
<1> QED
  BY Zenon, <1>1, <1>2, <1>5

-----------------------------------------------------------------------------
\* Run calls the store with a limit it may use.
LEMMA FreeIsALimit ==
    ASSUME WorkerInv, NEW w \in Workers, run[w] \in {"sweep", "claim"}
    PROVE  free[w] \in Limits /\ free[w] \in Nat /\ free[w] > 0
<1>1. Cardinality(procs[w]) \in Nat
  BY Zenon, FS_CardinalityType DEF WorkerInv, Counted
<1>2. free[w] \in 1 .. Concurrency
  BY <1>1, JobWorkerAssumption DEF WorkerInv, Counted
<1> QED
  BY <1>2, JobWorkerAssumption

\* What a process asks of the store: a heartbeat, or the statement for its
\* verdict.
Asks(p) ==
    \/ \E d \in LeaseDurations, t \in Clocks : Heartbeat(p.lease, d, t)
    \/ \E t \in Clocks : NotOwned(p.lease, t)
    \/ Statement(p)

\* The statements that reach the store: no Release, an Ack and a Retry only for
\* a process with that verdict.
WorkerStatement ==
    \/ Dispatch \/ EndTransaction \/ Operator \/ Tick \/ Sweep \/ ClaimSome
    \/ \E w \in Workers : \E p \in procs[w] : Asks(p)

\* The lease that Claim makes for a row is one nobody ever held.
LEMMA FreshLease ==
    ASSUME StoreInv, NEW id \in Ids, Active(id), NEW w
    PROVE  NewLease(id, w) \notin leases
<1>1. jobs[id].lease_generation \in Nat
  BY Zenon DEF StoreInv, TypeOK, Row, Active
<1>2. /\ NewLease(id, w).job = id /\ NewLease(id, w).restore = restores[id]
      /\ NewLease(id, w).generation = jobs[id].lease_generation + 1
  BY Zenon DEF NewLease
<1> QED
  BY <1>1, <1>2 DEF StoreInv, LeaseHistory

\* Every step of the system asks one statement of the store or leaves it alone.
LEMMA StepAsks ==
    ASSUME WorkerInv, WorkerNext
    PROVE  WorkerStatement \/ UNCHANGED storeVars
<1>1. CASE \E w \in Workers : RunStep(w)
  <2> PICK w \in Workers : RunStep(w)
    BY Zenon, <1>1
  <2>1. CASE SweepStore(w)
    <3>1. (\E t \in Clocks : FailExhausted(Routes, free[w], t)) \/ UNCHANGED storeVars
      BY Zenon, <2>1 DEF SweepStore, MaybeDone
    <3>2. free[w] \in Limits
      BY Zenon, <2>1, FreeIsALimit DEF SweepStore
    <3> QED
      BY Zenon, <3>1, <3>2 DEF WorkerStatement, Sweep
  <2>2. CASE ClaimStore(w)
    <3>1. \E d \in LeaseDurations, t \in Clocks :
             \E batch \in ClaimBatches(Routes, free[w], t) : Claim(w, batch, d, t)
      BY Zenon, <2>2 DEF ClaimStore
    <3>2. free[w] \in Limits
      BY Zenon, <2>2, FreeIsALimit DEF ClaimStore
    <3> QED
      BY Zenon, <3>1, <3>2 DEF WorkerStatement, ClaimSome
  <2> QED
    BY Zenon, <2>1, <2>2 DEF RunStep, StartRun, LeaveLoop, LoopTop, ReadFree, PollTimer, Drain, ShutdownTimer
<1>2. CASE \E w \in Workers : ProcessStep(w)
  <2> PICK w \in Workers : ProcessStep(w)
    BY Zenon, <1>2
  <2> PICK p \in procs[w] :
        \/ Begin(w, p) \/ DeadlinePasses(w, p) \/ NoticeDeadline(w, p)
        \/ TakeResult(w, p) \/ Beat(w, p) \/ BeatLost(w, p) \/ Abandon(w, p)
        \/ LeaveLease(w, p) \/ Settle(w, p)
    BY Zenon DEF ProcessStep
  <2>1. CASE Beat(w, p) \/ BeatLost(w, p) \/ Settle(w, p)
    <3>1. Asks(p)
      BY <2>1, Zenon DEF Beat, BeatLost, Settle, Asks
    <3> QED
      BY <3>1, Zenon DEF WorkerStatement
  <2> QED
    BY Zenon, <2>1 DEF Begin, DeadlinePasses, NoticeDeadline, TakeResult, Abandon, LeaveLease
<1>3. CASE \E w \in Workers : Failure(w)
  <2> PICK w \in Workers : Failure(w)
    BY Zenon, <1>3
  <2>1. CASE Signal(w)
    BY Zenon, <2>1 DEF Signal
  <2>2. CASE ClaimFails(w)
    <3>1. \/ UNCHANGED storeVars
          \/ \E d \in LeaseDurations, t \in Clocks :
               \E batch \in ClaimBatches(Routes, free[w], t) : Claim(w, batch, d, t)
      BY Zenon, <2>2 DEF ClaimFails, MaybeDone
    <3>2. free[w] \in Limits
      BY <2>2, FreeIsALimit, Zenon DEF ClaimFails
    <3> QED
      BY Zenon, <3>1, <3>2 DEF WorkerStatement, ClaimSome
  <2>3. ASSUME NEW p \in procs[w], BeatFails(w, p) \/ SettleFails(w, p)
        PROVE  WorkerStatement \/ UNCHANGED storeVars
    <3>1. Asks(p) \/ UNCHANGED storeVars
      BY <2>3, Zenon DEF BeatFails, SettleFails, MaybeDone, Asks
    <3> QED
      BY <3>1, Zenon DEF WorkerStatement
  <2> QED
    BY Zenon, <2>1, <2>2, <2>3 DEF Failure
<1>4. CASE \E w \in Workers : HandlerStep(w) \/ Exit(w)
  BY Zenon, <1>4 DEF HandlerStep, HandlerReturns, Exit
<1>5. CASE Application \/ TimePasses
  BY Zenon, <1>5 DEF Application, TimePasses, WorkerStatement
<1> QED
  BY Zenon, <1>1, <1>2, <1>3, <1>4, <1>5 DEF WorkerNext

\* A process asks as the holder of a lease, so each statement is the store's.
LEMMA StepUsesStore ==
    ASSUME WorkerInv, WorkerNext
    PROVE  Next \/ UNCHANGED storeVars
<1>1. ASSUME NEW w \in Workers, NEW p \in procs[w], Asks(p) PROVE Next
  <2>1. p.lease \in leases
    BY Zenon DEF WorkerInv, LeasesIssued
  <2>2. Holder
    BY Zenon, <1>1, <2>1 DEF Holder, Asks, Statement
  <2> QED
    BY Zenon, <2>2 DEF Next
<1> QED
  BY Zenon, <1>1, StepAsks DEF WorkerStatement, Next

\* The count survives every step.
LEMMA StepCounted ==
    ASSUME WorkerInv, [WorkerNext]_workerVars
    PROVE  WorkerInv'
<1>0. CASE UNCHANGED workerVars
  <2>1. UNCHANGED <<run, free, errs, procs>> /\ UNCHANGED storeVars
    BY Zenon, <1>0 DEF workerVars, runVars, procVars
  <2>2. StoreInv' /\ UNCHANGED leases
    BY Zenon, <2>1, NextInv DEF WorkerInv, storeVars
  <2> QED
    BY Zenon, <2>1, <2>2 DEF WorkerInv, WorkerFunctions, LeasesIssued, Counted
<1> SUFFICES ASSUME WorkerNext PROVE WorkerInv'
  BY Zenon, <1>0
<1>L. leases \subseteq leases' /\ StoreInv'
  BY Zenon, StepUsesStore, LeasesKept, NextInv DEF WorkerInv
<1>F. ASSUME NEW w \in Workers, run[w] \notin {"sweep", "claim"}
      PROVE  free = [free EXCEPT ![w] = 0]
  BY <1>F DEF WorkerInv, WorkerFunctions, Counted
<1>E. ASSUME NEW w \in Workers
      PROVE  /\ errs = [errs EXCEPT ![w] = errs[w]] /\ errs[w] \in Nat
             /\ procs = [procs EXCEPT ![w] = procs[w]]
             /\ errs[w] <= errs[w] /\ procs[w] \subseteq procs[w]
  <2>1. errs[w] \in Nat
    BY Zenon DEF WorkerInv, Counted
  <2>2. errs = [errs EXCEPT ![w] = errs[w]] /\ procs = [procs EXCEPT ![w] = procs[w]]
    BY Zenon DEF WorkerInv, WorkerFunctions
  <2> QED
    BY <2>1, <2>2
<1>1. ASSUME NEW w \in Workers, RunStep(w) PROVE WorkerInv'
  <2>1. CASE StartRun(w) \/ LoopTop(w) \/ PollTimer(w)
    BY Zenon, <2>1, <1>L, <1>F, <1>E, MovedCounted DEF StartRun, LoopTop, PollTimer, procVars
  <2>2. CASE LeaveLoop(w)
    <3>1. CASE UNCHANGED errs
      BY <2>2, <3>1, <1>L, <1>F, <1>E, MovedCounted, Zenon DEF LeaveLoop, procVars
    <3>2. CASE errs[w] > 0 /\ errs' = [errs EXCEPT ![w] = errs[w] - 1]
      <4>1. errs[w] - 1 \in Nat /\ errs[w] - 1 <= errs[w]
        BY <3>2, <1>E
      <4>2. /\ Goto(w, "draining") /\ errs' = [errs EXCEPT ![w] = errs[w] - 1]
            /\ free' = [free EXCEPT ![w] = 0] /\ procs' = [procs EXCEPT ![w] = procs[w]]
        BY Zenon, <2>2, <3>2, <1>F, <1>E DEF LeaveLoop, procVars
      <4> QED
        BY <4>1, <4>2, <1>L, MovedCounted, Zenon
    <3> QED
      BY Zenon, <2>2, <3>1, <3>2 DEF LeaveLoop
  <2>3. CASE ReadFree(w)
    <3> DEFINE slots == Concurrency - Cardinality(procs[w])
    <3>1. /\ free' = [free EXCEPT ![w] = slots]
          /\ run' = [run EXCEPT ![w] = IF slots > 0 THEN "sweep" ELSE "poll"]
          /\ UNCHANGED <<errs, procs, leases>>
      BY Zenon, <2>3 DEF ReadFree, Goto, procVars, storeVars
    <3>2. Cardinality(procs[w]) \in Nat /\ Cardinality(procs[w]) <= Concurrency
      BY FS_CardinalityType, JobWorkerAssumption DEF WorkerInv, Counted
    <3>3. slots \in Nat /\ slots + Cardinality(procs[w]) = Concurrency
      BY <3>2, JobWorkerAssumption
    <3> HIDE DEF slots
    <3>4. WorkerFunctions' /\ LeasesIssued'
      BY <3>1, Zenon DEF WorkerInv, WorkerFunctions, LeasesIssued
    <3>5. ASSUME NEW v \in Workers PROVE Counted(v)'
      <4>1. CASE v = w
        <5>1. free'[w] = slots /\ run'[w] = IF slots > 0 THEN "sweep" ELSE "poll"
          BY Zenon, <3>1 DEF WorkerInv, WorkerFunctions
        <5> QED
          BY <3>1, <3>2, <3>3, <4>1, <5>1 DEF WorkerInv, Counted
      <4>2. CASE v # w
        <5>1. free'[v] = free[v] /\ run'[v] = run[v]
          BY Zenon, <3>1, <4>2 DEF WorkerInv, WorkerFunctions
        <5> QED
          BY Zenon, <3>1, <5>1 DEF WorkerInv, Counted
      <4> QED
        BY Zenon, <4>1, <4>2
    <3> QED
      BY Zenon, <3>4, <3>5, <1>L DEF WorkerInv
  <2>4. CASE SweepStore(w)
    <3>1. CASE Goto(w, "claim") /\ UNCHANGED free
      <4>1. run[w] = "sweep" /\ run' = [run EXCEPT ![w] = "claim"] /\ UNCHANGED <<free, errs, procs>>
        BY Zenon, <2>4, <3>1 DEF SweepStore, Goto, procVars
      <4>2. run'[w] = "claim" /\ \A v \in Workers : v # w => run'[v] = run[v]
        BY Zenon, <4>1 DEF WorkerInv, WorkerFunctions
      <4>3. WorkerFunctions' /\ LeasesIssued'
        BY Zenon, <4>1, <1>L DEF WorkerInv, WorkerFunctions, LeasesIssued
      <4>4. \A v \in Workers : Counted(v)'
        BY Zenon, <4>1, <4>2 DEF WorkerInv, Counted
      <4> QED
        BY Zenon, <4>3, <4>4, <1>L DEF WorkerInv
    <3>2. CASE Goto(w, "draining") /\ free' = [free EXCEPT ![w] = 0]
      <4>1. errs' = [errs EXCEPT ![w] = errs[w]] /\ procs' = [procs EXCEPT ![w] = procs[w]]
        BY Zenon, <2>4, <1>E DEF SweepStore, procVars
      <4>2. errs[w] \in Nat /\ errs[w] <= errs[w] /\ procs[w] \subseteq procs[w]
        BY Zenon, <1>E
      <4> QED
        BY <3>2, <4>1, <4>2, <1>L, MovedCounted, Zenon
    <3> QED
      BY <2>4, <3>1, <3>2, Zenon DEF SweepStore
  <2>5. CASE ClaimStore(w)
    <3> PICK d \in LeaseDurations, t \in Clocks : \E batch \in ClaimBatches(Routes, free[w], t) :
           /\ Claim(w, batch, d, t)
           /\ procs' = [procs EXCEPT ![w] = procs[w] \cup
                          {NewProcess(NewLease(id, w), jobs[id]) : id \in batch}]
           /\ Goto(w, IF batch = {} THEN "poll" ELSE "loop")
      BY <2>5, Zenon DEF ClaimStore
    <3> PICK batch \in ClaimBatches(Routes, free[w], t) :
           /\ Claim(w, batch, d, t)
           /\ procs' = [procs EXCEPT ![w] = procs[w] \cup
                          {NewProcess(NewLease(id, w), jobs[id]) : id \in batch}]
           /\ Goto(w, IF batch = {} THEN "poll" ELSE "loop")
      BY Zenon
    <3> DEFINE new == {NewProcess(NewLease(id, w), jobs[id]) : id \in batch}
    <3>1. free[w] \in Nat
      BY Zenon DEF WorkerInv, Counted
    <3>2. IsFiniteSet(batch) /\ Cardinality(batch) <= free[w]
      BY <3>1, BatchSize, Zenon
    <3>3. IsFiniteSet(procs[w])
      BY Zenon DEF WorkerInv, Counted
    <3>4. /\ IsFiniteSet(procs[w] \cup new)
          /\ Cardinality(procs[w] \cup new) <= Cardinality(procs[w]) + Cardinality(batch)
      <4>1. /\ IsFiniteSet(batch) /\ IsFiniteSet(procs[w])
        BY Zenon, <3>2, <3>3
      <4> QED BY Zenon, <4>1, Spawned
    <3>5. ASSUME NEW p \in new PROVE p \in Process /\ p.lease \in leases'
      <4> PICK id \in batch : p = NewProcess(NewLease(id, w), jobs[id])
        BY Zenon
      <4>1. NewLease(id, w) \in leases' /\ NewLease(id, w) \in Lease
        BY <1>L, Zenon DEF Claim, StoreInv, TypeOK
      <4>2. jobs[id] \in Row
        BY Zenon DEF WorkerInv, StoreInv, TypeOK, ClaimBatches, Claimable, Active
      <4>3. jobs[id].attempts + 1 \in Nat /\ jobs[id].max_attempts \in Nat
        <5>1. jobs[id].attempts \in Nat /\ jobs[id].max_attempts \in Nat
          BY Zenon, <4>2, BudgetsPositive DEF Row
        <5> QED BY Zenon, <5>1, Succeeds
      <4>4. 0 \in 0 .. MaxBeats
        BY JobWorkerAssumption
      <4> QED
        BY <4>1, <4>3, <4>4, Zenon DEF NewProcess, Process, Results
    <3> HIDE DEF new
    <3>6. procs' = [procs EXCEPT ![w] = procs[w] \cup new]
      BY Zenon DEF new
    <3>7. /\ free' = [free EXCEPT ![w] = 0] /\ UNCHANGED errs
          /\ \E s \in {"poll", "loop"} : run' = [run EXCEPT ![w] = s]
      BY <2>5, Zenon DEF ClaimStore, Goto
    <3>8. WorkerFunctions'
      BY <3>6, <3>7, Zenon DEF WorkerInv, WorkerFunctions
    <3>9. LeasesIssued'
      BY <3>5, <3>6, <1>L DEF WorkerInv, WorkerFunctions, LeasesIssued
    <3>10. /\ Cardinality(procs[w]) \in Nat /\ Cardinality(batch) \in Nat
           /\ Cardinality(procs[w] \cup new) \in Nat
      BY Zenon, <3>2, <3>3, <3>4, FS_CardinalityType
    <3>11. ASSUME NEW v \in Workers PROVE Counted(v)'
      <4>1. CASE v = w
        <5>1. procs'[w] = procs[w] \cup new /\ free'[w] = 0 /\ run'[w] \in {"poll", "loop"}
          BY <3>6, <3>7, Zenon DEF WorkerInv, WorkerFunctions
        <5>2. /\ errs[w] \in Nat /\ errs[w] <= Concurrency
              /\ free[w] \in Nat /\ Concurrency \in Nat
              /\ Cardinality(procs[w]) + free[w] <= Concurrency
          BY JobWorkerAssumption, Zenon DEF WorkerInv, Counted
        <5>3. Cardinality(procs[w] \cup new) + 0 <= Concurrency
          BY <3>2, <3>4, <3>10, <5>2
        <5> QED
          BY <3>4, <3>7, <4>1, <5>1, <5>2, <5>3, 0 \in Nat, ~(0 > 0), Zenon DEF Counted
      <4>2. CASE v # w
        <5>1. procs'[v] = procs[v] /\ free'[v] = free[v] /\ run'[v] = run[v]
          BY Zenon, <3>6, <3>7, <4>2 DEF WorkerInv, WorkerFunctions
        <5> QED
          BY <3>7, <5>1, Zenon DEF WorkerInv, Counted
      <4> QED
        BY <4>1, <4>2, Zenon
    <3> QED
      BY <3>8, <3>9, <3>11, <1>L, Zenon DEF WorkerInv
  <2>6. CASE Drain(w) \/ ShutdownTimer(w)
    BY <2>6, <1>L, <1>F, <1>E, MovedCounted, Zenon DEF Drain, ShutdownTimer, procVars
  <2> QED
    BY Zenon, <1>1, <2>1, <2>2, <2>3, <2>4, <2>5, <2>6 DEF RunStep
<1>2. ASSUME NEW w \in Workers, ProcessStep(w) PROVE WorkerInv'
  <2> PICK p \in procs[w] :
        \/ Begin(w, p) \/ DeadlinePasses(w, p) \/ NoticeDeadline(w, p)
        \/ TakeResult(w, p) \/ Beat(w, p) \/ BeatLost(w, p) \/ Abandon(w, p)
        \/ LeaveLease(w, p) \/ Settle(w, p)
    BY Zenon, <1>2 DEF ProcessStep
  <2>1. CASE Abandon(w, p) \/ LeaveLease(w, p) \/ Settle(w, p)
    BY <2>1, <1>L, ReturnedCounted, Zenon DEF Abandon, LeaveLease, Settle
  <2>2. p \in Process
    BY Zenon DEF WorkerInv, LeasesIssued
  <2>3. ASSUME NEW q \in Process, q.lease = p.lease, Replace(w, p, q), UNCHANGED runVars
        PROVE  WorkerInv'
    BY <2>3, <1>L, ReplacedCounted, Zenon DEF runVars
  <2>4. CASE Begin(w, p)
    <3>1. \A c \in {"select", "fail"} :
             [p EXCEPT !.pc = c] \in Process /\ [p EXCEPT !.pc = c].lease = p.lease
      BY Zenon, <2>2 DEF Process
    <3> QED
      BY <2>3, <2>4, <3>1, Zenon DEF Begin
  <2>5. CASE DeadlinePasses(w, p)
    <3>1. [p EXCEPT !.deadline = TRUE] \in Process /\ [p EXCEPT !.deadline = TRUE].lease = p.lease
      BY <2>2, Zenon DEF Process
    <3> QED
      BY <2>3, <2>5, <3>1, Zenon DEF DeadlinePasses
  <2>6. CASE NoticeDeadline(w, p)
    <3>1. [p EXCEPT !.timedOut = TRUE] \in Process /\ [p EXCEPT !.timedOut = TRUE].lease = p.lease
      BY <2>2, Zenon DEF Process
    <3> QED
      BY <2>3, <2>6, <3>1, Zenon DEF NoticeDeadline
  <2>7. CASE TakeResult(w, p)
    <3>1. Verdict(p) \in {"ack", "retry", "fail"}
      BY Zenon DEF Verdict
    <3>2. \A c \in {"ack", "retry", "fail"} :
             [p EXCEPT !.pc = c] \in Process /\ [p EXCEPT !.pc = c].lease = p.lease
      BY Zenon, <2>2 DEF Process
    <3> QED
      BY <2>3, <2>7, <3>1, <3>2, Zenon DEF TakeResult
  <2>8. CASE Beat(w, p)
    <3>1. p.beats + 1 \in 0 .. MaxBeats
      BY <2>2, <2>8, JobWorkerAssumption DEF Beat, Process
    <3>2. \A b \in 0 .. MaxBeats :
             [p EXCEPT !.beats = b] \in Process /\ [p EXCEPT !.beats = b].lease = p.lease
      BY Zenon, <2>2 DEF Process
    <3> QED
      BY <2>3, <2>8, <3>1, <3>2, Zenon DEF Beat
  <2>9. CASE BeatLost(w, p)
    <3>1. [p EXCEPT !.pc = "await"] \in Process /\ [p EXCEPT !.pc = "await"].lease = p.lease
      BY Zenon, <2>2 DEF Process
    <3> QED
      BY <2>3, <2>9, <3>1, Zenon DEF BeatLost
  <2> QED
    BY <2>1, <2>4, <2>5, <2>6, <2>7, <2>8, <2>9, Zenon
<1>3. ASSUME NEW w \in Workers, Failure(w) PROVE WorkerInv'
  <2>1. CASE Signal(w)
    BY Zenon, <2>1, <1>L DEF Signal, procVars, WorkerInv, WorkerFunctions, LeasesIssued, Counted
  <2>2. CASE ClaimFails(w)
    <3>1. /\ Goto(w, "draining") /\ free' = [free EXCEPT ![w] = 0]
          /\ errs' = [errs EXCEPT ![w] = errs[w]] /\ procs' = [procs EXCEPT ![w] = procs[w]]
      BY Zenon, <2>2, <1>E DEF ClaimFails, procVars
    <3>2. errs[w] \in Nat /\ errs[w] <= errs[w] /\ procs[w] \subseteq procs[w]
      BY Zenon, <1>E
    <3> QED
      BY <3>1, <3>2, <1>L, MovedCounted, Zenon
  <2>3. ASSUME NEW p \in procs[w], BeatFails(w, p) \/ SettleFails(w, p) PROVE WorkerInv'
    BY <2>3, <1>L, ReturnedCounted, Zenon DEF BeatFails, SettleFails
  <2> QED
    BY Zenon, <1>3, <2>1, <2>2, <2>3 DEF Failure
<1>4. ASSUME NEW w \in Workers, Exit(w) PROVE WorkerInv'
  <2>1. /\ Goto(w, "off") /\ free' = [free EXCEPT ![w] = 0]
        /\ errs' = [errs EXCEPT ![w] = 0] /\ procs' = [procs EXCEPT ![w] = {}]
    BY Zenon, <1>4 DEF Exit
  <2>2. \E e \in Nat : e <= errs[w] /\ errs' = [errs EXCEPT ![w] = e]
    <3>1. 0 \in Nat /\ 0 <= errs[w]
      BY <1>E
    <3> QED
      BY <2>1, <3>1, Zenon
  <2>3. \E ps : ps \subseteq procs[w] /\ procs' = [procs EXCEPT ![w] = ps]
    BY <2>1, Zenon
  <2>4. PICK e \in Nat : e <= errs[w] /\ errs' = [errs EXCEPT ![w] = e]
    BY <2>2, Zenon
  <2>5. PICK ps : ps \subseteq procs[w] /\ procs' = [procs EXCEPT ![w] = ps]
    BY <2>3, Zenon
  <2> QED
    BY <2>1, <2>4, <2>5, <1>L, MovedCounted, Zenon
<1>5. CASE Application \/ TimePasses
  BY Zenon, <1>5, <1>L DEF Application, TimePasses, runVars, procVars, WorkerInv, WorkerFunctions,
     LeasesIssued, Counted
<1>6. ASSUME NEW w \in Workers, HandlerStep(w) PROVE WorkerInv'
  BY Zenon, <1>6, <1>L, HandledCounted DEF HandlerStep
<1> QED
  BY Zenon, <1>1, <1>2, <1>3, <1>4, <1>5, <1>6 DEF WorkerNext

-----------------------------------------------------------------------------
\* The bookkeeping of Run is right in every reachable state.
THEOREM WorkerInvariant == WorkerSpec => []WorkerInv
  BY InitiallyCounted, StepCounted, PTL DEF WorkerSpec

\* However many deliveries end, fail or are abandoned at once, and whenever Run
\* reads how many slots are free: it never blocks on a slot.
THEOREM SlotsAlwaysFit == WorkerSpec => []SlotsFit
<1>1. WorkerInv => SlotsFit
  BY Zenon DEF WorkerInv, Counted, SlotsFit
<1> QED
  BY <1>1, WorkerInvariant, PTL

\* A worker, its processes, its failures and its restarts are a client of the
\* store: every behaviour of the system is one of JobStore, so the theorems of
\* JobStoreProofs hold of it.
THEOREM WorkerUsesStore == WorkerSpec => UsesStore
<1>1. WorkerInit => Init
  BY Zenon DEF WorkerInit
<1>2. WorkerInv /\ [WorkerNext]_workerVars => [Next]_storeVars
  BY Zenon, StepUsesStore DEF workerVars
<1> QED
  BY <1>1, <1>2, WorkerInvariant, PTL DEF WorkerSpec, UsesStore, Spec

-----------------------------------------------------------------------------
(* What becomes of a process in a step *)

Evolves(p, q) ==
    \/ q = p
    \/ p.pc = "start" /\ \E c \in {"select", "fail"} : q = [p EXCEPT !.pc = c]
    \/ q = [p EXCEPT !.deadline = TRUE]
    \/ q = [p EXCEPT !.timedOut = TRUE]
    \/ q = [p EXCEPT !.beats = p.beats + 1]
    \/ q = [p EXCEPT !.pc = "await"]
    \/ p.result # "none" /\ q = [p EXCEPT !.pc = Verdict(p)]
    \/ \E r \in Results :
         q = [p EXCEPT !.result = r] /\ (r = "ok" /\ ~p.deadline => p.lease \in done')

Starts(w, q) ==
    \E id \in Ids :
       /\ Active(id) /\ Active(id)'
       /\ q = NewProcess(NewLease(id, w), jobs[id])
       /\ jobs'[id].max_attempts = jobs[id].max_attempts

LEMMA ProcessesEvolve ==
    ASSUME WorkerInv, [WorkerNext]_workerVars, NEW w \in Workers, NEW q \in procs'[w]
    PROVE  Starts(w, q) \/ \E p \in procs[w] : Evolves(p, q)
<1>0. ASSUME q \in procs[w] PROVE \E p \in procs[w] : Evolves(p, q)
  BY Zenon, <1>0 DEF Evolves
<1>1. ASSUME procs' = procs PROVE \E p \in procs[w] : Evolves(p, q)
  BY Zenon, <1>0, <1>1
<1>2. CASE UNCHANGED workerVars
  BY Zenon, <1>1, <1>2 DEF workerVars, procVars
<1>3. ASSUME NEW v \in Workers, RunStep(v)
      PROVE  Starts(w, q) \/ \E p \in procs[w] : Evolves(p, q)
  <2>1. CASE ClaimStore(v)
    <3>1. PICK d \in LeaseDurations, t \in Clocks : \E batch \in ClaimBatches(Routes, free[v], t) :
           /\ Claim(v, batch, d, t)
           /\ procs' = [procs EXCEPT ![v] = procs[v] \cup
                          {NewProcess(NewLease(id, v), jobs[id]) : id \in batch}]
      BY <2>1, Zenon DEF ClaimStore
    <3>2. PICK batch \in ClaimBatches(Routes, free[v], t) :
           /\ Claim(v, batch, d, t)
           /\ procs' = [procs EXCEPT ![v] = procs[v] \cup
                          {NewProcess(NewLease(id, v), jobs[id]) : id \in batch}]
      BY Zenon, <3>1
    <3>3. CASE q \in procs[w]
      BY Zenon, <1>0, <3>3
    <3>4. CASE q \notin procs[w]
      <4>1. v = w /\ \E id \in batch : q = NewProcess(NewLease(id, v), jobs[id])
        BY <3>2, <3>4, Zenon DEF WorkerInv, WorkerFunctions
      <4>2. PICK id \in batch : q = NewProcess(NewLease(id, w), jobs[id])
        BY Zenon, <4>1
      <4>3. id \in Ids /\ Active(id) /\ jobs[id] \in Row /\ WellLeased(jobs[id])
            /\ jobs[id].attempts < jobs[id].max_attempts
        BY Zenon DEF ClaimBatches, Claimable, Active, WorkerInv, StoreInv, TypeOK, RowsWellFormed
      <4>4. jobs'[id] = LeasedRow(jobs[id], v, d, t)
        BY Zenon, <3>2, <4>3 DEF Claim
      <4>5. t \in Nat
        BY Zenon, ClocksPast DEF WorkerInv, StoreInv, TypeOK
      <4>6. LeasedRow(jobs[id], v, d, t) \in Row
        BY Zenon, <4>3, <4>5, LeasedRowType
      <4>7. LeasedRow(jobs[id], v, d, t).max_attempts = jobs[id].max_attempts
        BY Zenon, <4>3 DEF LeasedRow, Row
      <4> QED
        BY Zenon, <4>2, <4>3, <4>4, <4>6, <4>7, NullAssumption DEF Starts, Active
    <3> QED
      BY Zenon, <3>3, <3>4
  <2>2. CASE ~ClaimStore(v)
    BY Zenon, <1>1, <1>3, <2>2 DEF RunStep, StartRun, LeaveLoop, LoopTop, ReadFree, SweepStore, PollTimer,
       Drain, ShutdownTimer, procVars
  <2> QED
    BY Zenon, <2>1, <2>2
<1>4. ASSUME NEW v \in Workers, NEW p \in procs[v], NEW r, Replace(v, p, r), Evolves(p, r)
      PROVE  \E o \in procs[w] : Evolves(o, q)
  <2>1. q \in procs[w] \/ (v = w /\ q = r)
    BY <1>4, Zenon DEF Replace, WorkerInv, WorkerFunctions
  <2> QED
    BY <1>0, <1>4, <2>1, Zenon
<1>5. ASSUME NEW v \in Workers, NEW p \in procs[v], Return(v, p) \/ ReturnError(v, p)
      PROVE  \E o \in procs[w] : Evolves(o, q)
  <2>1. procs' = [procs EXCEPT ![v] = procs[v] \ {p}]
    BY Zenon, <1>5 DEF Return, ReturnError
  <2>2. q \in procs[w]
    BY <2>1, Zenon DEF WorkerInv, WorkerFunctions
  <2> QED
    BY Zenon, <1>0, <2>2
<1>6. ASSUME NEW v \in Workers, ProcessStep(v)
      PROVE  \E o \in procs[w] : Evolves(o, q)
  <2> PICK p \in procs[v] :
        \/ Begin(v, p) \/ DeadlinePasses(v, p) \/ NoticeDeadline(v, p)
        \/ TakeResult(v, p) \/ Beat(v, p) \/ BeatLost(v, p) \/ Abandon(v, p)
        \/ LeaveLease(v, p) \/ Settle(v, p)
    BY Zenon, <1>6 DEF ProcessStep
  <2>1. CASE Abandon(v, p) \/ LeaveLease(v, p) \/ Settle(v, p)
    BY <2>1, <1>5, Zenon DEF Abandon, LeaveLease, Settle
  <2>2. CASE Begin(v, p)
    BY <2>2, <1>4, Zenon DEF Begin, Evolves
  <2>3. CASE DeadlinePasses(v, p) \/ NoticeDeadline(v, p)
    BY <2>3, <1>4, Zenon DEF DeadlinePasses, NoticeDeadline, Evolves
  <2>4. CASE TakeResult(v, p) \/ Beat(v, p) \/ BeatLost(v, p)
    BY <2>4, <1>4, Zenon DEF TakeResult, Beat, BeatLost, Evolves
  <2> QED
    BY <2>1, <2>2, <2>3, <2>4, Zenon
<1>7. ASSUME NEW v \in Workers, Failure(v)
      PROVE  \E o \in procs[w] : Evolves(o, q)
  <2>1. CASE Signal(v) \/ ClaimFails(v)
    BY Zenon, <2>1, <1>1 DEF Signal, ClaimFails, procVars
  <2>2. ASSUME NEW p \in procs[v], BeatFails(v, p) \/ SettleFails(v, p)
        PROVE  \E o \in procs[w] : Evolves(o, q)
    BY <2>2, <1>5, Zenon DEF BeatFails, SettleFails
  <2> QED
    BY Zenon, <1>7, <2>1, <2>2 DEF Failure
<1>8. ASSUME NEW v \in Workers, Exit(v) PROVE \E o \in procs[w] : Evolves(o, q)
  <2>1. q \in procs[w]
    BY <1>8, Zenon DEF Exit, WorkerInv, WorkerFunctions
  <2> QED
    BY Zenon, <1>0, <2>1
<1>9. ASSUME NEW v \in Workers, HandlerStep(v) PROVE \E o \in procs[w] : Evolves(o, q)
  <2>1. PICK l \in handlers[v], r \in {"ok", "error", "permanent"} : HandlerReturns(v, l, r)
    BY Zenon, <1>9 DEF HandlerStep
  <2>2. q \in procs[w] \/ \E p \in procs[v] : v = w /\ p.lease = l /\ q = [p EXCEPT !.result = r]
    BY <2>1, Zenon DEF HandlerReturns, WorkerInv, WorkerFunctions
  <2>3. ASSUME NEW p \in procs[v], p.lease = l, ~p.deadline, r = "ok" PROVE p.lease \in done'
    BY Zenon, <2>1, <2>3 DEF HandlerReturns
  <2>4. r \in Results
    BY Zenon DEF Results
  <2> QED
    BY <1>0, <2>2, <2>3, <2>4, Zenon DEF Evolves
<1>10. CASE Application \/ TimePasses
  BY Zenon, <1>10, <1>1 DEF Application, TimePasses, procVars
<1> QED
  BY Zenon, <1>2, <1>3, <1>6, <1>7, <1>8, <1>9, <1>10 DEF WorkerNext

\* done is a history: nothing is taken back.
LEMMA DoneKept == ASSUME [WorkerNext]_workerVars PROVE done \subseteq done'
<1>1. ASSUME NEW w \in Workers, RunStep(w) PROVE UNCHANGED done
  BY <1>1, Zenon DEF RunStep, StartRun, LeaveLoop, LoopTop, ReadFree, SweepStore, ClaimStore,
     PollTimer, Drain, ShutdownTimer, procVars
<1>2. ASSUME NEW w \in Workers, ProcessStep(w) PROVE UNCHANGED done
  BY <1>2, Zenon DEF ProcessStep, Begin, DeadlinePasses, NoticeDeadline, TakeResult, Beat,
     BeatLost, Abandon, LeaveLease, Settle
<1>3. ASSUME NEW w \in Workers, HandlerStep(w) PROVE done \subseteq done'
  BY Zenon, <1>3 DEF HandlerStep, HandlerReturns
<1>4. ASSUME NEW w \in Workers, Failure(w) \/ Exit(w) PROVE UNCHANGED done
  BY <1>4, Zenon DEF Failure, Signal, ClaimFails, BeatFails, SettleFails, Exit, procVars
<1>5. CASE Application \/ TimePasses \/ UNCHANGED workerVars
  BY Zenon, <1>5 DEF Application, TimePasses, workerVars, procVars
<1> QED
  BY Zenon, <1>1, <1>2, <1>3, <1>4, <1>5 DEF WorkerNext

-----------------------------------------------------------------------------
(* A job is done only when its handler succeeded in time *)

\* A result that complete may acknowledge is one that the history records.
Succeeded(p) ==
    /\ p.result = "ok" /\ ~p.deadline => p.lease \in done
    /\ p.pc = "ack" => p.lease \in done

SuccessInv == \A w \in Workers : \A p \in procs[w] : Succeeded(p)

LEMMA SuccessStep ==
    ASSUME WorkerInv, SuccessInv, [WorkerNext]_workerVars PROVE SuccessInv'
<1> SUFFICES ASSUME NEW w \in Workers, NEW q \in procs'[w] PROVE Succeeded(q)'
  BY Zenon DEF SuccessInv
<1>1. CASE Starts(w, q)
  BY <1>1 DEF Starts, NewProcess, Succeeded
<1>2. ASSUME NEW p \in procs[w], Evolves(p, q) PROVE Succeeded(q)'
  <2>1. p \in Process /\ Succeeded(p) /\ done \subseteq done'
    BY Zenon, DoneKept DEF WorkerInv, LeasesIssued, SuccessInv
  <2>2. Verdict(p) = "ack" => p.result = "ok" /\ ~p.deadline
    BY Zenon DEF Verdict
  <2> QED
    BY <1>2, <2>1, <2>2 DEF Evolves, Succeeded, Process
<1> QED
  BY Zenon, <1>1, <1>2, ProcessesEvolve

\* A lease ends by the verdict of its process: who released or finished a row
\* held its lease and was told to retry or to acknowledge.
LEMMA LeaseEnds ==
    ASSUME WorkerInv, WorkerStatement \/ UNCHANGED storeVars, NEW id \in Ids,
           jobs[id] # NULL, jobs[id].lease_owner # NULL
    PROVE  /\ jobs'[id] # NULL /\ jobs'[id].lease_owner = NULL =>
                \E w \in Workers : \E p \in procs[w] :
                   p.pc = "retry" /\ p.lease.job = id /\ Matches(p.lease)
           /\ jobs'[id] = NULL /\ failed'[id] = NULL =>
                \E w \in Workers : \E p \in procs[w] :
                   p.pc = "ack" /\ p.lease.job = id /\ Matches(p.lease)
<1> USE NullAssumption DEF WorkerInv
<1> DEFINE Kept == jobs'[id] # NULL /\ jobs'[id].lease_owner # NULL
           Buried == jobs'[id] = NULL /\ failed'[id] # NULL
<1>0. /\ now \in Nat /\ \A t \in Clocks : t \in Nat
      /\ jobs[id] \in Row /\ WellLeased(jobs[id])
  BY Zenon, ClocksPast DEF StoreInv, TypeOK, RowsWellFormed, Active
<1>1. ASSUME jobs'[id] = jobs[id] PROVE Kept
  BY Zenon, <1>1
<1>2. CASE Dispatch \/ Tick \/ UNCHANGED storeVars
  <2>1. jobs' = jobs
    BY <1>2, DispatchKeeps, Zenon DEF Tick, storeVars
  <2> QED BY Zenon, <1>1, <2>1
<1>3. CASE EndTransaction
  <2>1. PICK x \in Txs : Commit(x) \/ Rollback(x)
    BY Zenon, <1>3 DEF EndTransaction
  <2>2. CASE jobs' = jobs
    BY Zenon, <1>1, <2>2
  <2>3. CASE Commit(x) /\ tx[x].row # NULL
    <3>1. tx[x].id \notin issued
      BY Zenon, <2>3 DEF StoreInv, PendingFresh, Inserting, Commit
    <3>2. id \in issued
      BY Zenon DEF StoreInv, RowsWellFormed, Active
    <3>3. jobs'[id] = jobs[id]
      BY Zenon, <2>3, <3>1, <3>2 DEF Commit, StoreInv, TypeOK
    <3> QED BY Zenon, <1>1, <3>3
  <2> QED BY Zenon, <2>1, <2>2, <2>3 DEF Commit, Rollback
<1>4. CASE Operator
  <2>1. jobs'[id] = jobs[id]
    <3>1. failed[id] = NULL
      BY Zenon DEF StoreInv, RowsWellFormed, Active
    <3> QED
      BY Zenon, <1>4, <3>1 DEF Operator, RetryFailed, ForgetFailed, StoreInv, TypeOK
  <2> QED BY Zenon, <1>1, <2>1
<1>5. ASSUME NEW batch \in SUBSET Ids, Bury(batch) PROVE Kept \/ Buried
  <2>1. CASE id \in batch
    <3>1. jobs'[id] = NULL /\ failed'[id] = BuriedRow(jobs[id])
      BY Zenon, <1>5, <2>1 DEF Bury
    <3>2. BuriedRow(jobs[id]) \in FailedRow
      BY Zenon, <1>0 DEF BuriedRow, FailedRow, Row
    <3> QED BY Zenon, <3>1, <3>2
  <2>2. CASE id \notin batch
    BY Zenon, <1>1, <1>5, <2>2 DEF Bury
  <2> QED BY Zenon, <2>1, <2>2
<1>6. CASE Sweep
  BY <1>5, <1>6, BatchesSelected, Zenon DEF Sweep, FailExhausted
<1>7. CASE ClaimSome
  <2>1. PICK w \in Workers, routes \in SUBSET Routes, n \in Limits,
             d \in LeaseDurations, t \in Clocks :
             \E batch \in ClaimBatches(routes, n, t) : Claim(w, batch, d, t)
    BY Zenon, <1>7 DEF ClaimSome
  <2>2. PICK batch \in ClaimBatches(routes, n, t) : Claim(w, batch, d, t)
    BY Zenon, <2>1
  <2>3. CASE id \notin batch
    BY Zenon, <1>1, <2>2, <2>3 DEF Claim
  <2>4. CASE id \in batch
    <3>1. jobs'[id] = LeasedRow(jobs[id], w, d, t) /\ jobs[id].attempts < jobs[id].max_attempts
      BY Zenon, <2>2, <2>4, BatchesSelected DEF Claim, Claimable
    <3>2. LeasedRow(jobs[id], w, d, t) \in Row
      BY Zenon, <1>0, <3>1, LeasedRowType
    <3>3. LeasedRow(jobs[id], w, d, t).lease_owner = w /\ w # NULL
      BY <1>0, JobStoreAssumption DEF LeasedRow, Row
    <3> QED BY Zenon, <3>1, <3>2, <3>3
  <2> QED BY Zenon, <2>3, <2>4
<1>8. ASSUME NEW w \in Workers, NEW p \in procs[w], Asks(p)
      PROVE  \/ Kept \/ Buried
             \/ /\ p.lease.job = id /\ Matches(p.lease)
                /\ \/ p.pc = "ack" /\ jobs'[id] = NULL
                   \/ p.pc = "retry" /\ jobs'[id] # NULL
  <2> DEFINE l == p.lease
  <2>1. l \in leases /\ l.job \in Ids
    BY DEF LeasesIssued, StoreInv, TypeOK, Lease
  <2>2. ASSUME NEW d \in LeaseDurations, NEW t \in Clocks, Heartbeat(l, d, t) PROVE Kept
    <3>1. CASE id # l.job
      BY Zenon, <1>1, <2>1, <2>2, <3>1 DEF Heartbeat, StoreInv, TypeOK
    <3>2. CASE id = l.job
      <4>1. jobs'[id] = HeartbeatRow(jobs[id], d, t)
        BY Zenon, <2>1, <2>2, <3>2 DEF Heartbeat, StoreInv, TypeOK
      <4> QED BY <1>0, <4>1, HeartbeatRowType
    <3> QED BY Zenon, <3>1, <3>2
  <2>3. ASSUME NEW t \in Clocks, NotOwned(l, t) PROVE Kept
    BY Zenon, <1>1, <2>3 DEF NotOwned, storeVars
  <2>4. ASSUME NEW t \in Clocks, p.pc = "ack", Ack(l, t)
        PROVE  Kept \/ (l.job = id /\ Matches(l) /\ jobs'[id] = NULL)
    BY Zenon, <1>1, <2>1, <2>4 DEF Ack, Owned, Fenced, StoreInv, TypeOK
  <2>5. ASSUME NEW t \in Clocks, NEW delay \in Delays, p.pc = "retry", Retry(l, delay, t)
        PROVE  Kept \/ (l.job = id /\ Matches(l) /\ jobs'[id] # NULL)
    <3>1. CASE id # l.job
      BY Zenon, <1>1, <2>1, <2>5, <3>1 DEF Retry, StoreInv, TypeOK
    <3>2. CASE id = l.job
      <4>1. jobs'[id] = ReleasedRow(jobs[id], t + delay) /\ Matches(l)
        BY Zenon, <2>1, <2>5, <3>2 DEF Retry, Owned, Fenced, StoreInv, TypeOK
      <4>2. t + delay \in Nat
        BY <1>0, JobStoreAssumption
      <4> QED BY Zenon, <1>0, <3>2, <4>1, <4>2, ReleasedRowType
    <3> QED BY Zenon, <3>1, <3>2
  <2>6. ASSUME NEW t \in Clocks, Fail(l, t) PROVE Kept \/ Buried
    BY Zenon, <1>5, <2>1, <2>6, {l.job} \in SUBSET Ids DEF Fail
  <2> HIDE DEF Kept, Buried, l
  <2>7. \/ \E d \in LeaseDurations, t \in Clocks : Heartbeat(l, d, t)
        \/ \E t \in Clocks : NotOwned(l, t)
        \/ \E t \in Clocks : p.pc = "ack" /\ Ack(l, t)
        \/ \E t \in Clocks : p.pc = "retry" /\ \E delay \in Delays : Retry(l, delay, t)
        \/ \E t \in Clocks : Fail(l, t)
    BY Zenon, <1>8 DEF Asks, Statement, l
  <2> QED
    BY <2>2, <2>3, <2>4, <2>5, <2>6, <2>7, Zenon DEF l
<1> QED
  BY Zenon, <1>2, <1>3, <1>4, <1>6, <1>7, <1>8 DEF WorkerStatement

\* A row is never deleted unless its lease was acknowledged by a process whose
\* handler returned nil in time, whatever replies are lost on the way.
THEOREM DoneMeansSuccess == WorkerSpec => DoneOnlyBySuccess
<1>1. WorkerInit => SuccessInv
  BY Zenon DEF WorkerInit, SuccessInv
<1>2. ASSUME WorkerInv, SuccessInv, WorkerNext, NEW id \in Ids,
             Active(id), ~Active(id)', failed'[id] = NULL
      PROVE  \E l \in done : l.job = id /\ Matches(l)
  <2>1. Lifecycle!Step(id)
    BY <1>2, StepUsesStore, LifecycleStep, Zenon DEF WorkerInv, Lifecycle!Next
  <2>2. jobs[id].lease_owner # NULL
    <3>1. id \in issued'
      BY Zenon, <1>2, StepUsesStore, IssuedKept DEF WorkerInv, StoreInv, RowsWellFormed
    <3>2. jobs[id] # NULL /\ jobs'[id] = NULL /\ failed'[id] = NULL
      BY Zenon, <1>2 DEF Active
    <3>3. status'[id] = "gone" /\ status[id] = IF jobs[id].lease_owner # NULL THEN "leased" ELSE "waiting"
      BY Zenon, <3>1, <3>2, Mapping
    <3> QED
      BY <2>1, <3>3 DEF Lifecycle!Step, Lifecycle!Submit, Lifecycle!Take, Lifecycle!Requeue,
         Lifecycle!Finish, Lifecycle!Bury, Lifecycle!Restore, Lifecycle!Forget,
         Lifecycle!Stay, Lifecycle!Moves
  <2>3. PICK w \in Workers : \E p \in procs[w] :
           p.pc = "ack" /\ p.lease.job = id /\ Matches(p.lease)
    BY Zenon, <1>2, <2>2, StepAsks, LeaseEnds DEF Active
  <2> QED
    BY Zenon, <1>2, <2>3 DEF SuccessInv, Succeeded
<1>3. WorkerInv /\ SuccessInv /\ [WorkerNext]_workerVars => SuccessInv'
  BY Zenon, SuccessStep
<1>4. WorkerInv /\ SuccessInv /\ [WorkerNext]_workerVars =>
        [\A id \in Ids :
           Active(id) /\ ~Active(id)' /\ failed'[id] = NULL
             => \E l \in done : l.job = id /\ Matches(l)]_workerVars
  BY Zenon, <1>2
<1> QED
  BY <1>1, <1>3, <1>4, WorkerInvariant, PTL DEF WorkerSpec, DoneOnlyBySuccess

-----------------------------------------------------------------------------
(* No job is stranded *)

\* A process judges by the counters it was given with its delivery; they stay
\* those of the row its lease matches.
KnowsBudget(p) ==
    LET id == p.lease.job
    IN /\ p.attempt = p.lease.generation
       /\ p.pc = "retry" => p.attempt < p.max_attempts
       /\ jobs[id] # NULL => jobs[id].max_attempts = p.max_attempts
       /\ failed[id] # NULL => failed[id].max_attempts = p.max_attempts

BudgetInv ==
    /\ \A w \in Workers : \A p \in procs[w] : KnowsBudget(p)
    /\ NoStrandedJob

\* The budget of a committed job never changes, not even when an operator
\* restores it.
LEMMA BudgetFixed ==
    ASSUME StoreInv, StoreInv', Lifecycle!Next, NEW id \in issued, NEW m,
           jobs[id] # NULL => jobs[id].max_attempts = m,
           failed[id] # NULL => failed[id].max_attempts = m
    PROVE  /\ jobs'[id] # NULL => jobs'[id].max_attempts = m
           /\ failed'[id] # NULL => failed'[id].max_attempts = m
<1>1. id \in Ids
  BY Zenon DEF StoreInv, TypeOK
<1>2. Lifecycle!Step(id)
  BY Zenon, <1>1 DEF Lifecycle!Next
<1>3. failed'[id] # NULL => jobs'[id] = NULL
  BY Zenon, <1>1 DEF StoreInv, RowsWellFormed, Active
<1>4. status[id] # "new"
  BY <1>1, Mapping, Zenon
<1>5. ASSUME status'[id] \in {"waiting", "leased", "failed"}
      PROVE  status[id] \in {"waiting", "leased", "failed"} /\ budget'[id] = budget[id]
  BY <1>2, <1>4, <1>5 DEF Lifecycle!Step, Lifecycle!Submit, Lifecycle!Take,
     Lifecycle!Requeue, Lifecycle!Finish, Lifecycle!Bury, Lifecycle!Restore,
     Lifecycle!Forget, Lifecycle!Stay, Lifecycle!Moves, Lifecycle!Counts
<1>6. status[id] \in {"waiting", "leased", "failed"} => budget[id] = m
  BY <1>1, Mapping
<1>7. jobs'[id] # NULL => status'[id] \in {"waiting", "leased"} /\ budget'[id] = jobs'[id].max_attempts
  BY Zenon, <1>1, Mapping
<1>8. failed'[id] # NULL => status'[id] = "failed" /\ budget'[id] = failed'[id].max_attempts
  BY Zenon, <1>1, <1>3, Mapping
<1> QED
  BY Zenon, <1>5, <1>6, <1>7, <1>8

LEMMA BudgetStep ==
    ASSUME WorkerInv, WorkerInv', BudgetInv, [WorkerNext]_workerVars PROVE BudgetInv'
<1>0. [Next]_storeVars /\ (WorkerStatement \/ UNCHANGED storeVars)
  BY Zenon, StepUsesStore, StepAsks DEF workerVars
<1>1. Lifecycle!Next
  BY Zenon, <1>0, LifecycleStep DEF WorkerInv
<1>2. ASSUME NEW w \in Workers, NEW q \in procs'[w] PROVE KnowsBudget(q)'
  <2>1. CASE Starts(w, q)
    <3>1. PICK id \in Ids :
             /\ jobs[id] # NULL /\ jobs'[id] # NULL
             /\ q = NewProcess(NewLease(id, w), jobs[id])
             /\ jobs'[id].max_attempts = jobs[id].max_attempts
      BY Zenon, <2>1 DEF Starts, Active
    <3>2. /\ q.lease = NewLease(id, w) /\ q.lease.job = id /\ q.pc = "start"
          /\ q.attempt = jobs[id].attempts + 1 /\ q.max_attempts = jobs[id].max_attempts
          /\ q.lease.generation = jobs[id].lease_generation + 1
      BY Zenon, <3>1 DEF NewProcess, NewLease
    <3>3. jobs[id].attempts = jobs[id].lease_generation
      BY Zenon, <3>1 DEF WorkerInv, StoreInv, RowsWellFormed, WellLeased, Active
    <3>4. failed'[id] = NULL
      BY Zenon, <3>1 DEF WorkerInv, StoreInv, RowsWellFormed, Active
    <3> QED
      BY Zenon, <3>1, <3>2, <3>3, <3>4 DEF KnowsBudget
  <2>2. ASSUME NEW p \in procs[w], Evolves(p, q) PROVE KnowsBudget(q)'
    <3>1. p \in Process /\ p.lease \in leases /\ KnowsBudget(p)
      BY Zenon DEF WorkerInv, LeasesIssued, BudgetInv
    <3>2. /\ q.lease = p.lease /\ q.attempt = p.attempt /\ q.max_attempts = p.max_attempts
          /\ q.pc \in {p.pc, "select", "fail", "await", Verdict(p)}
      BY <2>2, <3>1 DEF Evolves, Process
    <3>3. Verdict(p) = "retry" => p.attempt < p.max_attempts
      BY <3>1 DEF Verdict, Process
    <3>4. p.lease.job \in issued
      BY Zenon, <3>1 DEF WorkerInv, StoreInv, LeaseHistory
    <3>5. /\ jobs'[p.lease.job] # NULL => jobs'[p.lease.job].max_attempts = p.max_attempts
          /\ failed'[p.lease.job] # NULL => failed'[p.lease.job].max_attempts = p.max_attempts
      BY Zenon, <1>1, <3>1, <3>4, BudgetFixed DEF WorkerInv, KnowsBudget
    <3> QED
      BY Zenon, <3>1, <3>2, <3>3, <3>5 DEF KnowsBudget
  <2> QED
    BY Zenon, <2>1, <2>2, ProcessesEvolve
<1>3. ASSUME NEW id \in Ids, jobs'[id] # NULL, jobs'[id].lease_owner = NULL
      PROVE  jobs'[id].attempts < jobs'[id].max_attempts
  <2>1. status'[id] = "waiting" /\ tries'[id] = jobs'[id].attempts
        /\ budget'[id] = jobs'[id].max_attempts
    BY Zenon, <1>3, Mapping
  <2>2. jobs'[id] \in Row /\ jobs'[id].max_attempts > 0
    <3>1. jobs'[id] \in Row
      BY Zenon, <1>3 DEF WorkerInv, StoreInv, TypeOK
    <3> QED BY Zenon, <3>1, BudgetsPositive DEF Row
  <2>3. Lifecycle!Step(id)
    BY Zenon, <1>1 DEF Lifecycle!Next
  <2>4. \/ tries'[id] = 0
        \/ /\ status[id] \in {"leased", "waiting"}
           /\ tries'[id] = tries[id] /\ budget'[id] = budget[id]
    <3>1. CASE Lifecycle!Submit(id) \/ Lifecycle!Restore(id)
      <4>1. tries'[id] = 0
        BY Zenon, <3>1 DEF Lifecycle!Submit, Lifecycle!Restore, Lifecycle!Counts
      <4> QED BY Zenon, <4>1
    <3>2. CASE Lifecycle!Take(id) \/ Lifecycle!Finish(id) \/ Lifecycle!Bury(id) \/ Lifecycle!Forget(id)
      BY Zenon, <2>1, <3>2 DEF Lifecycle!Take, Lifecycle!Finish, Lifecycle!Bury, Lifecycle!Forget, Lifecycle!Moves
    <3>3. CASE Lifecycle!Requeue(id) \/ Lifecycle!Stay(id)
      BY Zenon, <2>1, <3>3 DEF Lifecycle!Requeue, Lifecycle!Stay, Lifecycle!Moves, Lifecycle!Counts
    <3> QED BY Zenon, <2>3, <3>1, <3>2, <3>3 DEF Lifecycle!Step
  <2>5. CASE tries'[id] = 0
    BY Zenon, <2>1, <2>2, <2>5
  <2>6. CASE /\ status[id] \in {"leased", "waiting"}
             /\ tries'[id] = tries[id] /\ budget'[id] = budget[id]
    <3>1. jobs[id] # NULL
      BY Zenon, <2>6, Mapping
    <3>2. /\ jobs'[id].attempts = jobs[id].attempts
          /\ jobs'[id].max_attempts = jobs[id].max_attempts
      BY Zenon, <2>1, <2>6, <3>1, Mapping
    <3>3. CASE jobs[id].lease_owner = NULL
      BY Zenon, <3>1, <3>2, <3>3 DEF BudgetInv, NoStrandedJob, Active
    <3>4. CASE jobs[id].lease_owner # NULL
      <4>1. PICK w \in Workers : \E p \in procs[w] :
               p.pc = "retry" /\ p.lease.job = id /\ Matches(p.lease)
        BY Zenon, <1>0, <1>3, <3>1, <3>4, LeaseEnds
      <4>2. PICK p \in procs[w] : p.pc = "retry" /\ p.lease.job = id /\ Matches(p.lease)
        BY Zenon, <4>1
      <4>3. /\ p.lease.generation < jobs[id].max_attempts
            /\ jobs[id].lease_generation = p.lease.generation
        BY Zenon, <3>1, <4>2 DEF BudgetInv, KnowsBudget, Matches
      <4>4. jobs[id].attempts = jobs[id].lease_generation
        BY Zenon, <3>1 DEF WorkerInv, StoreInv, RowsWellFormed, WellLeased, Active
      <4> QED BY Zenon, <3>2, <4>3, <4>4
    <3> QED BY Zenon, <3>3, <3>4
  <2> QED BY Zenon, <2>4, <2>5, <2>6
<1> QED
  BY Zenon, <1>2, <1>3 DEF BudgetInv, NoStrandedJob, Active

\* Every row that is not leased can be claimed again: complete retries a job
\* only when the row still has an attempt, although it decides with the counters
\* it was given when the delivery started and the row may since have been
\* failed and restored.
THEOREM NeverStranded == WorkerSpec => []NoStrandedJob
<1>1. WorkerInit => BudgetInv
  BY Zenon DEF WorkerInit, Init, BudgetInv, NoStrandedJob, Active
<1>2. BudgetInv => NoStrandedJob
  BY Zenon DEF BudgetInv
<1> QED
  BY <1>1, <1>2, StepCounted, BudgetStep, WorkerInvariant, PTL DEF WorkerSpec

-----------------------------------------------------------------------------
(* An abandoned handler stops the worker *)

\* Run has been told to end, or is ending.
Doomed(w) == errs[w] > 0 \/ run[w] \in {"draining", "stopped"}

\* The process of lease l still waits for its handler.
Watching(p, l) == p.lease = l /\ p.pc \in {"select", "await"} /\ p.result = "none"

\* A lease names one process of a worker; its handler is started once and
\* watched until it returns, unless the worker is doomed.
Watched(w) ==
    /\ handlers[w] \subseteq leases
    /\ \A p, q \in procs[w] : p.lease = q.lease => p = q
    /\ \A p \in procs[w] : p.pc = "start" => p.result = "none" /\ p.lease \notin handlers[w]
    /\ base[w] => run[w] = "stopped"
    /\ Doomed(w) \/ \A l \in handlers[w] : \E p \in procs[w] : Watching(p, l)

WatchInv ==
    /\ base = [w \in Workers |-> base[w]] /\ handlers = [w \in Workers |-> handlers[w]]
    /\ \A w \in Workers : Watched(w)

\* Run moves; no process does.
LEMMA MovedWatched ==
    ASSUME NEW w \in Workers, Watched(w), handlers'[w] = handlers[w], procs'[w] = procs[w],
           leases \subseteq leases', Doomed(w) => Doomed(w)', base'[w] => run'[w] = "stopped"
    PROVE  Watched(w)'
BY Zenon DEF Watched

\* A process moves on, still waiting if it was.
LEMMA ReplacedWatched ==
    ASSUME NEW w \in Workers, Watched(w), NEW p \in procs[w], NEW q, q.lease = p.lease,
           procs'[w] = (procs[w] \ {p}) \cup {q}, handlers'[w] = handlers[w],
           run'[w] = run[w], errs'[w] = errs[w], base'[w] = base[w], leases \subseteq leases',
           q.pc # "start", \A l \in handlers[w] : Watching(p, l) => Watching(q, l)
    PROVE  Watched(w)'
<1>1. Doomed(w) => Doomed(w)'
  BY Zenon DEF Doomed
<1>2. \A a, b \in procs'[w] : a.lease = b.lease => a = b
  BY DEF Watched
<1>3. \A a \in procs'[w] : a.pc = "start" => a.result = "none" /\ a.lease \notin handlers[w]
  BY Zenon DEF Watched
<1>4. ASSUME NEW l \in handlers[w], NEW a \in procs[w], Watching(a, l)
      PROVE  \E b \in procs'[w] : Watching(b, l)
  BY Zenon, <1>4
<1>5. Doomed(w) \/ \A l \in handlers[w] : \E b \in procs'[w] : Watching(b, l)
  BY Zenon, <1>4 DEF Watched
<1>6. handlers[w] \subseteq leases /\ (base[w] => run[w] = "stopped")
  BY Zenon DEF Watched
<1> QED
  BY <1>1, <1>2, <1>3, <1>5, <1>6 DEF Watched, Watching

\* A process returns; a handler it was waiting for dooms the worker.
LEMMA ReturnedWatched ==
    ASSUME NEW w \in Workers, Watched(w), NEW p \in procs[w],
           procs'[w] = procs[w] \ {p}, handlers'[w] = handlers[w],
           run'[w] = run[w], base'[w] = base[w], leases \subseteq leases',
           Doomed(w) => Doomed(w)', Doomed(w)' \/ \A l \in handlers[w] : ~Watching(p, l)
    PROVE  Watched(w)'
BY DEF Watched, Watching

LEMMA WatchStep ==
    ASSUME WorkerInv, WatchInv, [WorkerNext]_workerVars PROVE WatchInv'
<1> USE DEF WatchInv
<1>L. leases \subseteq leases'
  BY Zenon, StepUsesStore, LeasesKept DEF workerVars
<1>0. ASSUME UNCHANGED <<run, base, errs, procs, handlers>> PROVE WatchInv'
  BY Zenon, <1>0, <1>L, MovedWatched DEF Doomed, Watched
<1>1. ASSUME NEW w \in Workers, Watched(w)',
             base' = [v \in Workers |-> base'[v]], handlers' = [v \in Workers |-> handlers'[v]],
             \A v \in Workers : v # w =>
                /\ run'[v] = run[v] /\ base'[v] = base[v] /\ errs'[v] = errs[v]
                /\ procs'[v] = procs[v] /\ handlers'[v] = handlers[v]
      PROVE  WatchInv'
  <2>1. ASSUME NEW v \in Workers, v # w PROVE Watched(v)'
    BY <1>1, <2>1, <1>L, MovedWatched DEF Doomed, Watched
  <2> QED
    BY Zenon, <1>1, <2>1
<1>2. ASSUME NEW w \in Workers, NEW state, Goto(w, state),
             UNCHANGED <<procs, handlers>>, Doomed(w) => Doomed(w)',
             base' = [v \in Workers |-> base'[v]], base'[w] => state = "stopped",
             \A v \in Workers : v # w => errs'[v] = errs[v] /\ base'[v] = base[v]
      PROVE  WatchInv'
  <2>1. run'[w] = state /\ \A v \in Workers : v # w => run'[v] = run[v]
    BY Zenon, <1>2 DEF Goto, WorkerInv, WorkerFunctions
  <2>2. Watched(w)'
    BY Zenon, <1>2, <2>1, <1>L, MovedWatched
  <2> QED
    BY Zenon, <1>1, <1>2, <2>1, <2>2
<1>3. ASSUME NEW w \in Workers, RunStep(w) PROVE WatchInv'
  <2>1. CASE StartRun(w) \/ PollTimer(w)
    <3>1. /\ run[w] \in {"off", "poll"} /\ Goto(w, "loop") /\ UNCHANGED <<procs, handlers, base, errs>>
      BY <2>1, Zenon DEF StartRun, PollTimer, procVars
    <3> QED
      BY <1>2, <3>1 DEF Doomed, Watched
  <2>2. CASE LeaveLoop(w)
    <3>1. /\ run[w] \in {"loop", "poll"} /\ Goto(w, "draining") /\ UNCHANGED <<procs, handlers, base>>
          /\ \A v \in Workers : v # w => errs'[v] = errs[v]
      BY Zenon, <2>2 DEF LeaveLoop, procVars, WorkerInv, WorkerFunctions
    <3>2. Doomed(w)'
      BY Zenon, <3>1 DEF Doomed, Goto, WorkerInv, WorkerFunctions
    <3> QED
      BY <1>2, <3>1, <3>2 DEF Watched
  <2>3. CASE LoopTop(w) \/ ReadFree(w)
    <3>1. /\ run[w] \in {"loop", "slots"} /\ UNCHANGED <<procs, handlers, base, errs>>
          /\ \E state : Goto(w, state)
      BY <2>3, Zenon DEF LoopTop, ReadFree, procVars
    <3> QED
      BY <1>2, <3>1 DEF Doomed, Watched
  <2>4. CASE SweepStore(w)
    <3>1. /\ run[w] = "sweep" /\ UNCHANGED <<procs, handlers, base, errs>>
          /\ \E state : Goto(w, state)
      BY <2>4, Zenon DEF SweepStore, procVars
    <3> QED
      BY Zenon, <1>2, <3>1 DEF Doomed, Watched
  <2>5. CASE Drain(w) \/ ShutdownTimer(w)
    <3>1. /\ Goto(w, "stopped") /\ UNCHANGED <<procs, handlers, errs>>
          /\ base' = [base EXCEPT ![w] = TRUE]
      BY <2>5, Zenon DEF Drain, ShutdownTimer, procVars
    <3>2. Doomed(w)'
      BY Zenon, <3>1 DEF Doomed, Goto, WorkerInv, WorkerFunctions
    <3>3. base' = [v \in Workers |-> base'[v]] /\ \A v \in Workers : v # w => base'[v] = base[v]
      BY Zenon, <3>1
    <3> QED
      BY Zenon, <1>2, <3>1, <3>2, <3>3
  <2>6. CASE ClaimStore(w)
    <3>1. PICK d \in LeaseDurations, t \in Clocks : \E batch \in ClaimBatches(Routes, free[w], t) :
           /\ Claim(w, batch, d, t)
           /\ procs' = [procs EXCEPT ![w] = procs[w] \cup
                          {NewProcess(NewLease(id, w), jobs[id]) : id \in batch}]
           /\ Goto(w, IF batch = {} THEN "poll" ELSE "loop")
      BY <2>6, Zenon DEF ClaimStore
    <3>2. PICK batch \in ClaimBatches(Routes, free[w], t) :
           /\ Claim(w, batch, d, t)
           /\ procs' = [procs EXCEPT ![w] = procs[w] \cup
                          {NewProcess(NewLease(id, w), jobs[id]) : id \in batch}]
           /\ Goto(w, IF batch = {} THEN "poll" ELSE "loop")
      BY Zenon, <3>1
    <3> DEFINE fresh == {NewProcess(NewLease(id, w), jobs[id]) : id \in batch}
    <3>3. ASSUME NEW a \in fresh
          PROVE  a.pc = "start" /\ a.result = "none" /\ a.lease \notin leases
      <4>1. PICK id \in batch : a = NewProcess(NewLease(id, w), jobs[id])
        BY Zenon
      <4>2. id \in Ids /\ Active(id)
        BY Zenon, BatchesSelected DEF Claimable
      <4>3. NewLease(id, w) \notin leases
        BY Zenon, <4>2, FreshLease DEF WorkerInv
      <4> QED
        BY Zenon, <4>1, <4>3 DEF NewProcess
    <3>4. ASSUME NEW a \in fresh, NEW b \in fresh, a.lease = b.lease PROVE a = b
      <4>1. PICK i \in batch : a = NewProcess(NewLease(i, w), jobs[i])
        BY Zenon
      <4>2. PICK j \in batch : b = NewProcess(NewLease(j, w), jobs[j])
        BY Zenon
      <4>3. a.lease.job = i /\ b.lease.job = j
        BY Zenon, <4>1, <4>2 DEF NewProcess, NewLease
      <4> QED
        BY Zenon, <3>4, <4>1, <4>2, <4>3
    <3> HIDE DEF fresh
    <3>5. /\ procs'[w] = procs[w] \cup fresh /\ \A v \in Workers : v # w => procs'[v] = procs[v]
      BY <3>2, Zenon DEF fresh, WorkerInv, WorkerFunctions
    <3>6. /\ run[w] = "claim" /\ UNCHANGED <<handlers, base, errs>>
          /\ \A v \in Workers : v # w => run'[v] = run[v]
      BY <2>6, <3>2, Zenon DEF ClaimStore, Goto, WorkerInv, WorkerFunctions
    <3>7. \A p \in procs[w] : p.lease \in leases
      BY Zenon DEF WorkerInv, LeasesIssued
    <3>8. Watched(w)'
      <4>1. \A a, b \in procs'[w] : a.lease = b.lease => a = b
        BY <3>3, <3>4, <3>5, <3>7, Zenon DEF Watched
      <4>2. handlers[w] \subseteq leases /\ ~base[w]
        BY Zenon, <3>6 DEF Watched
      <4>3. \A a \in procs'[w] : a.pc = "start" => a.result = "none" /\ a.lease \notin handlers[w]
        BY <3>3, <3>5, <4>2, Zenon DEF Watched
      <4>4. Doomed(w) => Doomed(w)'
        BY Zenon, <3>6 DEF Doomed
      <4>5. Doomed(w) \/ \A l \in handlers[w] : \E p \in procs'[w] : Watching(p, l)
        BY <3>5, Zenon DEF Watched
      <4> QED
        BY Zenon, <1>L, <3>6, <4>1, <4>2, <4>3, <4>4, <4>5 DEF Watched, Watching
    <3> QED
      BY Zenon, <1>1, <3>5, <3>6, <3>8
  <2> QED
    BY Zenon, <1>3, <2>1, <2>2, <2>3, <2>4, <2>5, <2>6 DEF RunStep
<1>4. ASSUME NEW w \in Workers, NEW p \in procs[w], NEW q, q.lease = p.lease,
             Replace(w, p, q), UNCHANGED <<runVars, handlers>>,
             q.pc # "start", \A l \in handlers[w] : Watching(p, l) => Watching(q, l)
      PROVE  WatchInv'
  <2>1. /\ procs'[w] = (procs[w] \ {p}) \cup {q}
        /\ \A v \in Workers : v # w => procs'[v] = procs[v]
    BY <1>4, Zenon DEF Replace, WorkerInv, WorkerFunctions
  <2>2. Watched(w)'
    BY Zenon, <1>4, <2>1, <1>L, ReplacedWatched DEF runVars
  <2> QED
    BY Zenon, <1>1, <1>4, <2>1, <2>2 DEF runVars
<1>5. ASSUME NEW w \in Workers, NEW p \in procs[w], Return(w, p), UNCHANGED <<run, base, handlers>>,
             Doomed(w) \/ \A l \in handlers[w] : ~Watching(p, l)
      PROVE  WatchInv'
  <2>1. /\ procs'[w] = procs[w] \ {p} /\ errs' = errs
        /\ \A v \in Workers : v # w => procs'[v] = procs[v]
    BY <1>5, Zenon DEF Return, WorkerInv, WorkerFunctions
  <2>2. Watched(w)'
    BY Zenon, <1>5, <2>1, <1>L, ReturnedWatched DEF Doomed
  <2> QED
    BY Zenon, <1>1, <1>5, <2>1, <2>2
<1>6. ASSUME NEW w \in Workers, NEW p \in procs[w], ReturnError(w, p), UNCHANGED <<run, base, handlers>>
      PROVE  WatchInv'
  <2>1. /\ procs'[w] = procs[w] \ {p}
        /\ \A v \in Workers : v # w => procs'[v] = procs[v] /\ errs'[v] = errs[v]
    BY <1>6, Zenon DEF ReturnError, WorkerInv, WorkerFunctions
  <2>2. errs'[w] = IF errs[w] < Concurrency THEN errs[w] + 1 ELSE errs[w]
    BY <1>6, Zenon DEF ReturnError, WorkerInv, WorkerFunctions
  <2>3. errs[w] \in Nat /\ Concurrency \in Nat \ {0}
    BY Zenon, JobWorkerAssumption DEF WorkerInv, Counted
  <2>4. Doomed(w)'
    BY <2>2, <2>3 DEF Doomed
  <2>5. Watched(w)'
    BY Zenon, <1>6, <2>1, <2>4, <1>L, ReturnedWatched
  <2> QED
    BY Zenon, <1>1, <1>6, <2>1, <2>5
<1>7. ASSUME NEW w \in Workers, ProcessStep(w) PROVE WatchInv'
  <2> PICK p \in procs[w] :
        \/ Begin(w, p) \/ DeadlinePasses(w, p) \/ NoticeDeadline(w, p)
        \/ TakeResult(w, p) \/ Beat(w, p) \/ BeatLost(w, p) \/ Abandon(w, p)
        \/ LeaveLease(w, p) \/ Settle(w, p)
    BY Zenon, <1>7 DEF ProcessStep
  <2>0. p \in Process /\ Watched(w)
    BY Zenon DEF WorkerInv, LeasesIssued
  <2>1. CASE Begin(w, p)
    <3>1. p.pc = "start" /\ p.result = "none" /\ p.lease \notin handlers[w]
      BY Zenon, <2>0, <2>1 DEF Begin, Watched
    <3>2. CASE Replace(w, p, [p EXCEPT !.pc = "fail"]) /\ UNCHANGED handlers
      <4>1. [p EXCEPT !.pc = "fail"].lease = p.lease /\ [p EXCEPT !.pc = "fail"].pc = "fail"
        BY Zenon, <2>0 DEF Process
      <4> QED
        BY Zenon, <1>4, <2>1, <3>1, <3>2, <4>1 DEF Begin, Watching
    <3>3. CASE /\ Replace(w, p, [p EXCEPT !.pc = "select"])
               /\ handlers' = [handlers EXCEPT ![w] = @ \cup {p.lease}]
      <4> DEFINE q == [p EXCEPT !.pc = "select"]
      <4>1. q.lease = p.lease /\ q.pc = "select" /\ q.result = "none"
        BY Zenon, <2>0, <3>1 DEF Process
      <4> HIDE DEF q
      <4>2. /\ procs'[w] = (procs[w] \ {p}) \cup {q}
            /\ \A v \in Workers : v # w => procs'[v] = procs[v]
        BY <3>3, Zenon DEF q, Replace, WorkerInv, WorkerFunctions
      <4>3. /\ handlers'[w] = handlers[w] \cup {p.lease}
            /\ handlers' = [v \in Workers |-> handlers'[v]]
            /\ \A v \in Workers : v # w => handlers'[v] = handlers[v]
        BY <3>3, Zenon
      <4>4. UNCHANGED <<run, base, errs>>
        BY Zenon, <2>1 DEF Begin, runVars
      <4>5. p.lease \in leases
        BY Zenon DEF WorkerInv, LeasesIssued
      <4>6. \A a, b \in procs'[w] : a.lease = b.lease => a = b
        <5>1. \A a, b \in procs[w] : a.lease = b.lease => a = b
          BY Zenon, <2>0 DEF Watched
        <5>2. \A a \in procs'[w] : a = q \/ (a \in procs[w] /\ a # p)
          BY Zenon, <4>2
        <5> QED
          BY Zenon, <4>1, <5>1, <5>2
      <4>7. \A a \in procs'[w] : a.pc = "start" => a.result = "none" /\ a.lease \notin handlers'[w]
        BY Zenon, <2>0, <4>1, <4>2, <4>3 DEF Watched
      <4>8. Watching(q, p.lease)
        BY Zenon, <4>1 DEF Watching
      <4>9. ASSUME NEW l \in handlers[w], NEW a \in procs[w], Watching(a, l)
            PROVE  \E b \in procs'[w] : Watching(b, l)
        BY Zenon, <3>1, <4>2, <4>9 DEF Watching
      <4>10. Doomed(w) \/ \A l \in handlers'[w] : \E b \in procs'[w] : Watching(b, l)
        <5>1. Doomed(w) \/ \A l \in handlers[w] : \E a \in procs[w] : Watching(a, l)
          BY Zenon, <2>0 DEF Watched
        <5>2. q \in procs'[w]
          BY Zenon, <4>2
        <5> QED
          BY Zenon, <4>3, <4>8, <4>9, <5>1, <5>2
      <4>11. Watched(w)'
        <5>1. handlers'[w] \subseteq leases' /\ (base'[w] => run'[w] = "stopped")
          BY Zenon, <2>0, <4>3, <4>4, <4>5, <1>L DEF Watched
        <5>2. Doomed(w)' <=> Doomed(w)
          BY Zenon, <4>4 DEF Doomed
        <5> QED
          BY Zenon, <4>6, <4>7, <4>10, <5>1, <5>2 DEF Watched, Watching
      <4> QED
        BY Zenon, <1>1, <4>2, <4>3, <4>4, <4>11
    <3> QED
      BY Zenon, <2>1, <3>2, <3>3 DEF Begin
  <2>2. CASE DeadlinePasses(w, p)
    <3> DEFINE q == [p EXCEPT !.deadline = TRUE]
    <3>1. q.lease = p.lease /\ q.pc = p.pc /\ q.result = p.result
      BY Zenon, <2>0 DEF Process
    <3>2. p.pc = "select" /\ Replace(w, p, q) /\ UNCHANGED <<runVars, handlers>>
      BY Zenon, <2>2 DEF DeadlinePasses
    <3> HIDE DEF q
    <3> QED
      BY Zenon, <1>4, <3>1, <3>2 DEF Watching
  <2>3. CASE NoticeDeadline(w, p)
    <3> DEFINE q == [p EXCEPT !.timedOut = TRUE]
    <3>1. q.lease = p.lease /\ q.pc = p.pc /\ q.result = p.result
      BY Zenon, <2>0 DEF Process
    <3>2. p.pc = "select" /\ Replace(w, p, q) /\ UNCHANGED <<runVars, handlers>>
      BY Zenon, <2>3 DEF NoticeDeadline
    <3> HIDE DEF q
    <3> QED
      BY Zenon, <1>4, <3>1, <3>2 DEF Watching
  <2>4. CASE TakeResult(w, p)
    <3> DEFINE q == [p EXCEPT !.pc = Verdict(p)]
    <3>1. q.lease = p.lease /\ q.pc # "start"
      BY Zenon, <2>0 DEF Process, Verdict
    <3>2. p.result # "none" /\ Replace(w, p, q) /\ UNCHANGED <<runVars, handlers>>
      BY Zenon, <2>4 DEF TakeResult
    <3> HIDE DEF q
    <3> QED
      BY Zenon, <1>4, <3>1, <3>2 DEF Watching
  <2>5. CASE Beat(w, p)
    <3> DEFINE q == [p EXCEPT !.beats = @ + 1]
    <3>1. q.lease = p.lease /\ q.pc = p.pc /\ q.result = p.result
      BY Zenon, <2>0 DEF Process
    <3>2. p.pc = "select" /\ Replace(w, p, q) /\ UNCHANGED <<runVars, handlers>>
      BY Zenon, <2>5 DEF Beat
    <3> HIDE DEF q
    <3> QED
      BY Zenon, <1>4, <3>1, <3>2 DEF Watching
  <2>6. CASE BeatLost(w, p)
    <3> DEFINE q == [p EXCEPT !.pc = "await"]
    <3>1. q.lease = p.lease /\ q.pc = "await" /\ q.result = p.result
      BY Zenon, <2>0 DEF Process
    <3>2. Replace(w, p, q) /\ UNCHANGED <<runVars, handlers>>
      BY Zenon, <2>6 DEF BeatLost
    <3> HIDE DEF q
    <3> QED
      BY Zenon, <1>4, <3>1, <3>2 DEF Watching
  <2>7. CASE Abandon(w, p)
    BY Zenon, <1>6, <2>7 DEF Abandon
  <2>8. CASE LeaveLease(w, p)
    BY Zenon, <1>5, <2>0, <2>8 DEF LeaveLease, Watched, Doomed, Watching
  <2>9. CASE Settle(w, p)
    BY Zenon, <1>5, <2>9 DEF Settle, Watching
  <2> QED
    BY Zenon, <2>1, <2>2, <2>3, <2>4, <2>5, <2>6, <2>7, <2>8, <2>9
<1>8. ASSUME NEW w \in Workers, Failure(w) PROVE WatchInv'
  <2>1. CASE Signal(w)
    BY Zenon, <1>0, <2>1 DEF Signal, procVars
  <2>2. CASE ClaimFails(w)
    <3>1. /\ run[w] = "claim" /\ Goto(w, "draining") /\ UNCHANGED <<procs, handlers, base, errs>>
      BY Zenon, <2>2 DEF ClaimFails, procVars
    <3> QED
      BY <1>2, <3>1 DEF Doomed, Watched
  <2>3. ASSUME NEW p \in procs[w], BeatFails(w, p) \/ SettleFails(w, p) PROVE WatchInv'
    BY Zenon, <2>3, <1>6 DEF BeatFails, SettleFails
  <2> QED
    BY Zenon, <1>8, <2>1, <2>2, <2>3 DEF Failure
<1>9. ASSUME NEW w \in Workers, Exit(w) PROVE WatchInv'
  <2>1. /\ procs'[w] = {} /\ handlers'[w] = {} /\ base'[w] = FALSE
        /\ \A v \in Workers : v # w =>
              /\ run'[v] = run[v] /\ base'[v] = base[v] /\ errs'[v] = errs[v]
              /\ procs'[v] = procs[v] /\ handlers'[v] = handlers[v]
        /\ base' = [v \in Workers |-> base'[v]] /\ handlers' = [v \in Workers |-> handlers'[v]]
    BY <1>9, Zenon DEF Exit, Goto, WorkerInv, WorkerFunctions
  <2>2. Watched(w)'
    BY Zenon, <2>1 DEF Watched
  <2> QED
    BY Zenon, <1>1, <2>1, <2>2
<1>10. ASSUME NEW w \in Workers, HandlerStep(w) PROVE WatchInv'
  <2>1. PICK l \in handlers[w], r \in {"ok", "error", "permanent"} : HandlerReturns(w, l, r)
    BY Zenon, <1>10 DEF HandlerStep
  <2> DEFINE g(p) == IF p.lease = l THEN [p EXCEPT !.result = r] ELSE p
  <2>2. /\ procs'[w] = {g(p) : p \in procs[w]}
        /\ \A v \in Workers : v # w => procs'[v] = procs[v]
    BY <2>1, Zenon DEF HandlerReturns, WorkerInv, WorkerFunctions
  <2>3. /\ handlers'[w] = handlers[w] \ {l}
        /\ handlers' = [v \in Workers |-> handlers'[v]]
        /\ \A v \in Workers : v # w => handlers'[v] = handlers[v]
    BY <2>1, Zenon DEF HandlerReturns
  <2>4. UNCHANGED <<run, base, errs>>
    BY Zenon, <2>1 DEF HandlerReturns, runVars
  <2>5. ASSUME NEW p \in procs[w]
        PROVE  g(p).lease = p.lease /\ g(p).pc = p.pc /\ (p.lease # l => g(p) = p)
    BY Zenon DEF WorkerInv, LeasesIssued, Process
  <2> HIDE DEF g
  <2>6. \A a, b \in procs'[w] : a.lease = b.lease => a = b
    BY <2>2, <2>5 DEF Watched
  <2>7. \A a \in procs'[w] : a.pc = "start" => a.result = "none" /\ a.lease \notin handlers'[w]
    BY <2>2, <2>3, <2>5 DEF Watched
  <2>8. ASSUME NEW k \in handlers'[w], NEW a \in procs[w], Watching(a, k)
        PROVE  \E b \in procs'[w] : Watching(b, k)
    BY <2>2, <2>3, <2>5, <2>8 DEF Watching
  <2>9. Doomed(w) \/ \A k \in handlers'[w] : \E b \in procs'[w] : Watching(b, k)
    BY Zenon, <2>3, <2>8 DEF Watched
  <2>10. Watched(w)'
    <3>1. handlers'[w] \subseteq leases' /\ (base'[w] => run'[w] = "stopped")
      BY Zenon, <2>3, <2>4, <1>L DEF Watched
    <3>2. Doomed(w)' <=> Doomed(w)
      BY Zenon, <2>4 DEF Doomed
    <3> QED
      BY Zenon, <2>6, <2>7, <2>9, <3>1, <3>2 DEF Watched, Watching
  <2> QED
    BY Zenon, <1>1, <2>2, <2>3, <2>4, <2>10
<1>11. CASE Application \/ TimePasses \/ UNCHANGED workerVars
  BY Zenon, <1>0, <1>11 DEF Application, TimePasses, workerVars, runVars, procVars
<1> QED
  BY Zenon, <1>3, <1>7, <1>8, <1>9, <1>10, <1>11 DEF WorkerNext

\* However many processes fail at once: a worker that has lost sight of a
\* running handler has an error waiting for Run or is already ending.
THEOREM AbandonedHandlerEndsRun == WorkerSpec => []AbandonedHandlerStopsWorker
<1>1. WorkerInit => WatchInv
  BY Zenon DEF WorkerInit, WatchInv, Watched
<1>2. WatchInv => AbandonedHandlerStopsWorker
  BY DEF WatchInv, Watched, Watching, Doomed, AbandonedHandlerStopsWorker
<1> QED
  BY <1>1, <1>2, WatchStep, WorkerInvariant, PTL DEF WorkerSpec

-----------------------------------------------------------------------------
\* Every active row has been handed out exactly attempts times.
LeasesCounted ==
    \A id \in Ids : Active(id) =>
       /\ IsFiniteSet(Deliveries(id))
       /\ Cardinality(Deliveries(id)) = jobs[id].attempts

\* A claim adds one lease and one attempt; other steps add neither.
LEMMA CountedStep == ASSUME StoreInv, LeasesCounted, [Next]_storeVars PROVE LeasesCounted'
<1> SUFFICES ASSUME NEW id \in Ids, jobs'[id] # NULL
             PROVE  /\ IsFiniteSet(Deliveries(id)')
                    /\ Cardinality(Deliveries(id)') = jobs'[id].attempts
  BY Zenon DEF LeasesCounted, Active, Deliveries
<1>1. CASE Appears(id)
  <2>1. Deliveries(id)' = {}
    BY <1>1, Zenon DEF Appears, Deliveries
  <2> QED BY Zenon, <1>1, <2>1, FS_EmptySet DEF Appears
<1>2. CASE Claimed(id)
  <2>1. PICK l \in Lease : l \notin leases /\ Deliveries(id)' = Deliveries(id) \cup {l}
    BY Zenon, <1>2 DEF Claimed
  <2>2. l \notin Deliveries(id)
    BY <2>1, Zenon DEF Deliveries
  <2>3. IsFiniteSet(Deliveries(id)) /\ Cardinality(Deliveries(id)) = jobs[id].attempts
    BY Zenon, <1>2 DEF Claimed, LeasesCounted, Active
  <2>4. /\ IsFiniteSet(Deliveries(id) \cup {l})
        /\ Cardinality(Deliveries(id) \cup {l}) = Cardinality(Deliveries(id)) + 1
    BY Zenon, <2>2, <2>3, FS_AddElement
  <2> QED BY <1>2, <2>1, <2>3, <2>4, Zenon DEF Claimed
<1>3. CASE Persists(id)
  BY Zenon, <1>3 DEF Persists, LeasesCounted, Active
<1> QED BY Zenon, <1>1, <1>2, <1>3, StepRows

\* max_attempts bounds the deliveries of each life of a job, and the attempts
\* column counts them exactly.
THEOREM BudgetKept == Spec => []DeliveriesWithinBudget
<1>1. Init => LeasesCounted
  BY Zenon DEF Init, LeasesCounted, Active
<1>2. StoreInv /\ LeasesCounted => DeliveriesWithinBudget
  BY Zenon DEF StoreInv, RowsWellFormed, WellLeased, LeasesCounted, DeliveriesWithinBudget
<1>3. StoreInv /\ LeasesCounted /\ [Next]_storeVars => LeasesCounted'
  BY Zenon, CountedStep
<1> QED BY <1>1, <1>2, <1>3, StoreInvariant, PTL DEF Spec

=============================================================================
