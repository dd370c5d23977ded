------------------------------ MODULE Schedule ------------------------------
(***************************************************************************)
(* The scheduler on top of the job store: schedulers that poll, RunOnce    *)
(* over the registered definitions, and Materialize of                     *)
(* schedule/postgres/store.go, a transaction of several statements that    *)
(* holds the lock of the schedule's row, dispatches into goforge_jobs and  *)
(* advances the cursor.  Other schedulers, workers, operators and failures *)
(* come between any two statements.                                        *)
(*                                                                         *)
(* A code version fixes what a definition's fingerprint covers.  Cron      *)
(* expressions are periodic sets of minutes; occurrences are instants.     *)
(***************************************************************************)
EXTENDS JobStore, Sequences

CONSTANTS
    Names,        \* the registered definitions, in name order (a sequence)
    Schedulers,   \* scheduler processes; each uses its own transaction
    Versions,     \* versions of the application's code
    Code,         \* the version each scheduler runs
    Cron,         \* Cron[version][name]: the minutes of the period that match
    Target,       \* Target[version][name]: queue and job name
    Grace,        \* MisfireGrace, in instants
    Minute,       \* instants per minute
    Period,       \* minutes after which the expressions repeat
    MaxSchedulerFaults     \* bound: errors, crashes and shutdowns

Defined == {Names[i] : i \in 1 .. Len(Names)}

ASSUME ScheduleAssumption ==
    /\ Names \in Seq(Keys) /\ Names # <<>>
    /\ Schedulers \subseteq Txs
    /\ Code \in [Schedulers -> Versions]
    /\ Minute \in Nat \ {0} /\ Period \in Nat \ {0}
    /\ Cron \in [Versions -> [Defined -> (SUBSET (0 .. Period - 1)) \ {{}}]]
    /\ Target \in [Versions -> [Defined -> Routes]]
    /\ Grace \in Nat \ {0}
    /\ MaxSchedulerFaults \in Nat
    /\ 0 \in Delays

VARIABLES
    rows,      \* goforge_schedules: the committed row of each definition
    sched,     \* the state of each scheduler
    made,      \* the occurrences whose job was committed
    crashes    \* errors, crashes and shutdowns so far

scheduleVars == <<storeVars, rows, sched, made, crashes>>

-----------------------------------------------------------------------------
(* Occurrences *)

IsOccurrence(v, d, t) == t % Minute = 0 /\ (t \div Minute) % Period \in Cron[v][d]

\* definition.Next(t) is o: the first occurrence strictly after t.
IsNextAfter(v, d, t, o) ==
    o > t /\ IsOccurrence(v, d, o) /\ \A k \in t + 1 .. o - 1 : ~IsOccurrence(v, d, k)

\* Where it lies: an expression matches at least once in a period.
Horizon(t) == t + 1 .. t + Minute * (Period + 1)

\* latestOccurrence(from, to) is o, or NULL (OccurrenceSearch).
IsLatest(v, d, from, to, o) ==
    IF o = NULL
    THEN \A k \in from .. to : ~IsOccurrence(v, d, k)
    ELSE /\ o \in from .. to /\ IsOccurrence(v, d, o)
         /\ \A k \in o + 1 .. to : ~IsOccurrence(v, d, k)

-----------------------------------------------------------------------------
Outcomes == {"enqueued", "overlap_suppressed", "misfire_skipped"}

ScheduleRow == [version : Versions, next_run_at : Nat,
                last_evaluated_at : Nat \cup {NULL},
                last_occurrence_at : Nat \cup {NULL},
                last_outcome : Outcomes \cup {NULL}]

ASSUME ScheduleRowAssumption == NULL \notin ScheduleRow

\* A scheduler: the definition it is at, the row it has locked (held), whether
\* the row is its own uncommitted insert, the row it writes, the occurrence it
\* dispatches and the clock reading of this evaluation.
Scheduler == [pc : {"stopped", "idle", "lock", "exists", "read", "insert", "relock",
                    "evaluate", "dispatch", "advance", "commit"},
              at : 1 .. Len(Names), held : ScheduleRow \cup {NULL},
              inserted : BOOLEAN, row : ScheduleRow \cup {NULL},
              due : Nat \cup {NULL}, clock : Nat]

At(pc, i) == [pc |-> pc, at |-> i, held |-> NULL, inserted |-> FALSE, row |-> NULL,
              due |-> NULL, clock |-> 0]

ScheduleInit ==
    /\ Init
    /\ rows = [d \in Defined |-> NULL]
    /\ sched = [s \in Schedulers |-> At("idle", 1)]
    /\ made = {}
    /\ crashes = 0

-----------------------------------------------------------------------------
(* Helpers *)

Name(s) == Names[sched[s].at]

Set(s, state) == sched' = [sched EXCEPT ![s] = state]

InTransaction(s) == sched[s].pc \notin {"stopped", "idle"}

\* Some transaction holds the row of d; an uncommitted insert is also locked.
Held(d) == \E s \in Schedulers :
              InTransaction(s) /\ Name(s) = d /\ (sched[s].held # NULL \/ sched[s].inserted)

Visible(d) == rows[d] # NULL

\* Materialize returns without an error: RunOnce goes to the next definition,
\* or Run waits for the next poll.
Proceed(s) ==
    Set(s, IF sched[s].at < Len(Names) THEN At("lock", sched[s].at + 1) ELSE At("idle", 1))

-----------------------------------------------------------------------------
(* Run and Materialize *)

Poll(s) ==
    /\ sched[s].pc = "idle"
    /\ Set(s, At("lock", 1))
    /\ UNCHANGED <<storeVars, rows, made, crashes>>

\* SELECT ... FOR UPDATE SKIP LOCKED.
Lock(s) ==
    /\ sched[s].pc = "lock"
    /\ Set(s, IF Visible(Name(s)) /\ ~Held(Name(s))
              THEN [sched[s] EXCEPT !.pc = "evaluate", !.held = rows[Name(s)]]
              ELSE [sched[s] EXCEPT !.pc = "exists"])
    /\ UNCHANGED <<storeVars, rows, made, crashes>>

\* The row exists: it is contended.
Exists(s) ==
    /\ sched[s].pc = "exists"
    /\ IF Visible(Name(s)) THEN Proceed(s) ELSE Set(s, [sched[s] EXCEPT !.pc = "read"])
    /\ UNCHANGED <<storeVars, rows, made, crashes>>

\* A new schedule starts with the current minute if it matches.
IsFirstCursor(v, d, t, o) ==
    LET current == (t \div Minute) * Minute
    IN IF IsOccurrence(v, d, current) THEN o = current ELSE IsNextAfter(v, d, t, o)

\* initialize reads the clock and computes the cursor.
ReadClock(s) ==
    /\ sched[s].pc = "read"
    /\ \E o \in 0 .. now \cup Horizon(now) :
         /\ IsFirstCursor(Code[s], Name(s), now, o)
         /\ Set(s, [sched[s] EXCEPT
                      !.pc = "insert",
                      !.row = [version |-> Code[s], next_run_at |-> o,
                               last_evaluated_at |-> NULL, last_occurrence_at |-> NULL,
                               last_outcome |-> NULL]])
    /\ UNCHANGED <<storeVars, rows, made, crashes>>

\* INSERT ... ON CONFLICT DO NOTHING waits for a concurrent insert to end.
Insert(s) ==
    /\ sched[s].pc = "insert"
    /\ \A r \in Schedulers : ~(InTransaction(r) /\ Name(r) = Name(s) /\ sched[r].inserted)
    /\ Set(s, IF Visible(Name(s))
              THEN [sched[s] EXCEPT !.pc = "relock", !.row = NULL]
              ELSE [sched[s] EXCEPT !.pc = "relock", !.inserted = TRUE])
    /\ UNCHANGED <<storeVars, rows, made, crashes>>

Relock(s) ==
    /\ sched[s].pc = "relock"
    /\ IF sched[s].inserted
       THEN Set(s, [sched[s] EXCEPT !.pc = "evaluate", !.held = sched[s].row])
       ELSE IF ~Held(Name(s))
       THEN Set(s, [sched[s] EXCEPT !.pc = "evaluate", !.held = rows[Name(s)]])
       ELSE Proceed(s)
    /\ UNCHANGED <<storeVars, rows, made, crashes>>

\* The row advance writes.
AdvancedRow(s, next) ==
    [version |-> sched[s].held.version,
     next_run_at |-> next,
     last_evaluated_at |-> sched[s].clock,
     last_occurrence_at |-> sched[s].due,
     last_outcome |-> IF sched[s].due = NULL THEN "misfire_skipped"
                      ELSE IF Inserting(s) THEN "enqueued" ELSE "overlap_suppressed"]

\* Mutant: the window is open at its start.
WindowStartExclusive(held, t) ==
    IF held.next_run_at > t - Grace THEN held.next_run_at ELSE t - Grace + 1

\* The window reaches back to the cursor, at most Grace.
WindowStart(held, t) ==
    IF held.next_run_at > t - Grace THEN held.next_run_at ELSE t - Grace

\* Mutant: the fingerprint is not compared.
EvaluateAnyVersion(s) ==
    /\ sched[s].pc = "evaluate"
    /\ \/ /\ sched[s].held.next_run_at > now
          /\ Set(s, [sched[s] EXCEPT !.pc = "commit"])
       \/ /\ sched[s].held.next_run_at <= now
          /\ \E due \in 0 .. now \cup {NULL} :
               /\ IsLatest(Code[s], Name(s), WindowStart(sched[s].held, now), now, due)
               /\ Set(s, [sched[s] EXCEPT !.pc = IF due = NULL THEN "advance" ELSE "dispatch",
                                           !.due = due, !.clock = now])
    /\ UNCHANGED <<storeVars, rows, made, crashes>>

\* Mutant: a misfire does not advance the cursor.
EvaluateLeavesMisfire(s) ==
    /\ sched[s].pc = "evaluate"
    /\ sched[s].held.version = Code[s]
    /\ \/ /\ sched[s].held.next_run_at > now
          /\ Set(s, [sched[s] EXCEPT !.pc = "commit"])
       \/ /\ sched[s].held.next_run_at <= now
          /\ \E due \in 0 .. now \cup {NULL} :
               /\ IsLatest(Code[s], Name(s), WindowStart(sched[s].held, now), now, due)
               /\ Set(s, [sched[s] EXCEPT !.pc = IF due = NULL THEN "commit" ELSE "dispatch",
                                           !.due = due, !.clock = now])
    /\ UNCHANGED <<storeVars, rows, made, crashes>>

\* The clock is read; a row that is not due is left as it is.
Evaluate(s) ==
    /\ sched[s].pc = "evaluate"
    /\ sched[s].held.version = Code[s]
    /\ \/ /\ sched[s].held.next_run_at > now
          /\ Set(s, [sched[s] EXCEPT !.pc = "commit"])
       \/ /\ sched[s].held.next_run_at <= now
          /\ \E due \in 0 .. now \cup {NULL} :
               /\ IsLatest(Code[s], Name(s), WindowStart(sched[s].held, now), now, due)
               /\ Set(s, [sched[s] EXCEPT !.pc = IF due = NULL THEN "advance" ELSE "dispatch",
                                           !.due = due, !.clock = now])
    /\ UNCHANGED <<storeVars, rows, made, crashes>>

\* Another version of the code owns the row: Materialize, RunOnce and Run fail.
DefinitionConflict(s) ==
    /\ sched[s].pc = "evaluate"
    /\ sched[s].held.version # Code[s]
    /\ Set(s, At("stopped", 1))
    /\ UNCHANGED <<storeVars, rows, made, crashes>>

\* The job is dispatched in the same transaction, with the schedule as its key.
DispatchDue(s) ==
    /\ sched[s].pc = "dispatch"
    /\ \E id \in Ids, p \in Priorities, m \in Budgets, t \in Clocks :
         Enqueue(s, id, NewRow(Target[Code[s]][Name(s)], p, Name(s), m, t))
    /\ Set(s, [sched[s] EXCEPT !.pc = "advance"])
    /\ UNCHANGED <<rows, made, crashes>>

\* Mutant: the next run may be the minute that was just evaluated.
AdvanceSameMinute(s) ==
    /\ sched[s].pc = "advance"
    /\ LET current == IF sched[s].inserted THEN sched[s].row ELSE rows[Name(s)]
       IN current.version = sched[s].held.version /\ current.next_run_at = sched[s].held.next_run_at
    /\ \E next \in Horizon(sched[s].clock - 1) :
         /\ IsNextAfter(Code[s], Name(s), sched[s].clock - 1, next)
         /\ Set(s, [sched[s] EXCEPT !.pc = "commit", !.row = AdvancedRow(s, next)])
    /\ UNCHANGED <<storeVars, rows, made, crashes>>

\* UPDATE ... WHERE fingerprint and next_run_at are what was read.  The row is
\* locked, so they are: "affected 0 rows" does not arise.
Advance(s) ==
    /\ sched[s].pc = "advance"
    /\ LET current == IF sched[s].inserted THEN sched[s].row ELSE rows[Name(s)]
       IN current.version = sched[s].held.version /\ current.next_run_at = sched[s].held.next_run_at
    /\ \E next \in Horizon(sched[s].clock) :
         /\ IsNextAfter(Code[s], Name(s), sched[s].clock, next)
         /\ Set(s, [sched[s] EXCEPT !.pc = "commit", !.row = AdvancedRow(s, next)])
    /\ UNCHANGED <<storeVars, rows, made, crashes>>

\* The transaction commits: its job and its row become visible together.
CommitRows(s) ==
    /\ IF tx[s] # NULL THEN Commit(s) ELSE UNCHANGED storeVars
    /\ rows' = IF sched[s].row # NULL THEN [rows EXCEPT ![Name(s)] = sched[s].row] ELSE rows
    /\ made' = IF Inserting(s)
               THEN made \cup {[name |-> Name(s), at |-> sched[s].due, job |-> tx[s].id]}
               ELSE made

Finish(s) ==
    /\ sched[s].pc = "commit"
    /\ CommitRows(s)
    /\ Proceed(s)
    /\ UNCHANGED crashes

SchedulerFault == crashes < MaxSchedulerFaults /\ crashes' = crashes + 1

\* The commit takes effect and its reply is lost: Run returns the error.
CommitUncertain(s) ==
    /\ sched[s].pc = "commit"
    /\ CommitRows(s)
    /\ Set(s, At("stopped", 1))
    /\ SchedulerFault

\* An error, a timeout, a crash or the cancellation of Run: what is not
\* committed is rolled back and the scheduler ends.
Abort(s) ==
    /\ sched[s].pc # "stopped"
    /\ IF tx[s] # NULL THEN Rollback(s) ELSE UNCHANGED storeVars
    /\ Set(s, At("stopped", 1))
    /\ SchedulerFault
    /\ UNCHANGED <<rows, made>>

Restart(s) ==
    /\ sched[s].pc = "stopped"
    /\ Set(s, At("idle", 1))
    /\ UNCHANGED <<storeVars, rows, made, crashes>>

-----------------------------------------------------------------------------
SchedulerStep(s) ==
    \/ Poll(s) \/ Lock(s) \/ Exists(s) \/ ReadClock(s) \/ Insert(s) \/ Relock(s)
    \/ Evaluate(s) \/ DefinitionConflict(s) \/ DispatchDue(s) \/ Advance(s)
    \/ Finish(s) \/ Restart(s)

\* Workers and operators use the queue, and time passes.
Queue == (ClaimSome \/ Holder \/ Sweep \/ Operator \/ Tick) /\ UNCHANGED <<rows, sched, made, crashes>>

ScheduleNext ==
    \/ \E s \in Schedulers : SchedulerStep(s) \/ CommitUncertain(s) \/ Abort(s)
    \/ Queue

ScheduleSpec == ScheduleInit /\ [][ScheduleNext]_scheduleVars

SchedulerFairness == \A s \in Schedulers : WF_scheduleVars(SchedulerStep(s))

-----------------------------------------------------------------------------
(* Properties *)

\* Schedulers reach the queue only through Enqueue, commit and rollback:
\* everything proved of JobStore holds with them running.
SchedulesUseStore == Spec

\* However schedulers race, crash and restart, and whether or not a commit's
\* reply was lost, no occurrence is enqueued twice: two jobs committed for one
\* schedule are for different occurrences.
OccurrenceEnqueuedOnce ==
    \A a, b \in made : a.name = b.name /\ a.at = b.at => a = b

\* The cursor of a schedule is an occurrence of the definition that created it,
\* also while schedulers with another version of the definition are running: the
\* fingerprint keeps them from moving a cursor they would compute differently.
CursorIsOccurrence ==
    \A d \in Defined :
       Visible(d) => IsOccurrence(rows[d].version, d, rows[d].next_run_at)

Latest(S) == CHOOSE x \in S : \A y \in S : x >= y

\* When the cursor of a schedule moves it passes no occurrence that is still to
\* come, and if some passed occurrence was within the grace, the latest of them
\* was handed to the queue: a job of the schedule is active as of that commit,
\* the new one or the one that suppressed it.  Otherwise the row records a
\* misfire.
NothingFreshSkipped ==
    [][\A d \in Defined :
         Visible(d) /\ rows'[d] # rows[d] =>
           LET old == rows[d]
               new == rows'[d]
               passed == {o \in old.next_run_at .. new.next_run_at - 1 :
                            IsOccurrence(old.version, d, o)}
               fresh == {o \in passed : o >= new.last_evaluated_at - Grace}
           IN /\ new.version = old.version
              /\ new.next_run_at > old.next_run_at
              /\ \A o \in passed : o <= new.last_evaluated_at
              /\ IF fresh = {}
                 THEN new.last_outcome = "misfire_skipped"
                 ELSE /\ new.last_occurrence_at = Latest(fresh)
                      /\ \E id \in Ids : Active(id)' /\ jobs'[id].key = d]_scheduleVars

\* A due cursor is brought past the present in the end: contention, SKIP LOCKED
\* and transactions that fail leave no schedule waiting for ever.
DueSchedulesAdvance ==
    \A d \in Defined :
       (Visible(d) /\ rows[d].next_run_at <= now) ~> (Visible(d) /\ rows[d].next_run_at > now)

=============================================================================
