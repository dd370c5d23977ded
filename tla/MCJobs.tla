------------------------------- MODULE MCJobs -------------------------------
(* The job queue, its workers and its schedulers, for TLC.  The workers and the
   schedulers each drive the job store; a behaviour of this module is a behaviour
   of the store alone, of the workers on it or of the schedulers on it.  A part
   stays within bounds of its own, so that one run can follow few jobs for long
   and more jobs briefly.                                                        *)
EXTENDS JobWorker, Schedule, TLC

CONSTANTS Parts,   \* the parts this run explores
          d1, d2, r1, v1, v2, s1, s2

VARIABLE part

MCSymmetry == Permutations(Workers)

\* Two definitions with one target, two versions of the first: minutes 0 and 1 of
\* every three before the deployment, minute 1 after it.
OneName == <<d1>>
TwoNames == <<d1, d2>>
SameCode == [s \in Schedulers |-> v1]
TwoCodes == s1 :> v1 @@ s2 :> v2
MCCron == [v \in Versions |-> [d \in Defined |-> IF v = v1 /\ d = d1 THEN {0, 1} ELSE {1}]]
MCTarget == [v \in Versions |-> [d \in Defined |-> r1]]

-----------------------------------------------------------------------------
Enqueues(ids, keys, budgets) ==
    \A x \in Txs : tx[x] # NULL =>
       /\ tx[x].id \in ids
       /\ tx[x].row # NULL => tx[x].row.key \in keys /\ tx[x].row.max_attempts \in budgets

Within ==
    \* one job, claimed and claimed again by two workers
    \/ /\ part = "leases" /\ Enqueues({1}, {NULL}, Budgets)
       /\ \A x \in Txs : Inserting(x) => tx[x].row.route = r1
    \* two jobs that may share a key, for a short time
    \/ /\ part = "dedup" /\ now <= 1 /\ Enqueues(Ids, Keys \cup {NULL}, {1})
       /\ \A k, l \in leases : k.worker = l.worker
       /\ \A x \in Txs : Inserting(x) => tx[x].row.available_at <= now
    \* two workers on one job: attempts overlap, the first one sends heartbeats
    \/ /\ part = "overlap" /\ Enqueues({1}, {NULL}, {2}) /\ faults = 0
       /\ \A w \in Workers : Cardinality(procs[w]) <= 1
       /\ \A w \in Workers : \A p \in procs[w] : p.beats > 0 => p.attempt = 1
    \* one worker with two jobs, and faults
    \/ /\ part = "faults" /\ now = 0 /\ Enqueues(Ids, {NULL}, {1})
       /\ Cardinality({w \in Workers : run[w] # "off"}) <= 1
       /\ \A w \in Workers : \A p \in procs[w] : p.beats = 0
    \* two versions of two definitions, for a short time
    \/ part = "deploy" /\ now <= 2 /\ Cardinality(leases) <= 1
    \* one job, its worker and its faults for long
    \/ part = "worker" /\ Enqueues({1}, {NULL}, Budgets) /\ tx[s2] = NULL
    \/ part = "schedule"

JobsInit == part \in Parts /\ WorkerInit /\ ScheduleInit

JobsNext ==
    /\ UNCHANGED part
    /\ \/ /\ part \in {"leases", "dedup"} /\ Next
          /\ UNCHANGED <<runVars, procVars, faults, rows, sched, made, crashes>>
       \/ /\ part \in {"overlap", "faults", "worker"} /\ WorkerNext
          /\ UNCHANGED <<rows, sched, made, crashes>>
       \/ /\ part \in {"deploy", "schedule"} /\ ScheduleNext
          /\ UNCHANGED <<runVars, procVars, faults>>
    /\ Within'

jobsVars == <<part, workerVars, rows, sched, made, crashes>>

JobsSpec == JobsInit /\ [][JobsNext]_jobsVars

\* The fairness of JobWorker and of Schedule, for runs of one part.
FairWorkers == JobsSpec /\ RuntimeFairness
FairSchedulers == JobsSpec /\ SchedulerFairness
=============================================================================
