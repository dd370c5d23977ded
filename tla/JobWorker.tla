----------------------------- MODULE JobWorker ------------------------------
(***************************************************************************)
(* job.Worker on top of the job store: the loop of Run, one process        *)
(* goroutine per claimed delivery, the handler goroutine it starts, the    *)
(* timers, graceful and forced shutdown, store errors, crashes and         *)
(* restarts.                                                               *)
(*                                                                         *)
(* Timers fire at any moment: nothing relates them to the database clock,  *)
(* so a paused process, a late heartbeat and an early timeout are all      *)
(* behaviours.  A handler returns at any moment, or never.                 *)
(***************************************************************************)
EXTENDS JobStore

CONSTANTS
    Concurrency,  \* WorkerConfig.Concurrency
    MaxBeats,     \* bound: heartbeats per delivery
    MaxFaults     \* bound: signals, crashes and failed store calls, in total

ASSUME JobWorkerAssumption ==
    /\ Concurrency \in Nat \ {0}
    /\ 1 .. Concurrency \subseteq Limits
    /\ IsFiniteSet(Ids)
    /\ MaxBeats \in Nat /\ MaxFaults \in Nat

VARIABLES
    run,       \* where Run is
    stop,      \* the context of Run is cancelled
    base,      \* the context of the process goroutines is cancelled
    free,      \* free slots, as read at the top of the loop; 0 when out of scope
    errs,      \* length of processErrors, a channel of capacity Concurrency
    procs,     \* the process goroutines; each holds a slot
    handlers,  \* leases whose handler goroutine is running
    done,      \* leases whose handler returned nil before its deadline
    faults     \* faults so far

runVars == <<run, stop, base, free, errs>>
procVars == <<procs, handlers, done>>
workerVars == <<storeVars, runVars, procVars, faults>>

RunStates == {"off", "loop", "slots", "sweep", "claim", "poll", "draining", "stopped"}

Results == {"none", "ok", "error", "permanent"}

\* A process goroutine: its lease, the snapshotted attempt counters, where it
\* is, what the handler sent on the result channel, whether the handler's
\* deadline has passed and whether process has noticed it (timedOut).
Process == [lease : Lease, attempt : Nat, max_attempts : Nat,
            pc : {"start", "select", "await", "ack", "retry", "fail"},
            result : Results, deadline : BOOLEAN, timedOut : BOOLEAN,
            beats : 0 .. MaxBeats]

WorkerInit ==
    /\ Init
    /\ run = [w \in Workers |-> "off"]
    /\ stop = [w \in Workers |-> FALSE]
    /\ base = [w \in Workers |-> FALSE]
    /\ free = [w \in Workers |-> 0]
    /\ errs = [w \in Workers |-> 0]
    /\ procs = [w \in Workers |-> {}]
    /\ handlers = [w \in Workers |-> {}]
    /\ done = {}
    /\ faults = 0

-----------------------------------------------------------------------------
(* Helpers *)

Goto(w, state) == run' = [run EXCEPT ![w] = state]

Running(w) == run[w] \in {"loop", "slots", "sweep", "claim", "poll", "draining"}

Fault == faults < MaxFaults /\ faults' = faults + 1

\* A store call with a cancelled context fails without being an extra fault.
CallFails(cancelled) == IF cancelled THEN UNCHANGED faults ELSE Fault

\* A call that fails may or may not have taken effect in the database.
MaybeDone(statement) == statement \/ UNCHANGED storeVars

Replace(w, p, q) == procs' = [procs EXCEPT ![w] = (@ \ {p}) \cup {q}]

\* process returns nil: the goroutine gives its slot back.
Return(w, p) == procs' = [procs EXCEPT ![w] = @ \ {p}] /\ UNCHANGED errs

\* process returns an error: it is also sent to Run, or dropped if the channel
\* is full.
ReturnError(w, p) ==
    /\ procs' = [procs EXCEPT ![w] = @ \ {p}]
    /\ errs' = [errs EXCEPT ![w] = IF @ < Concurrency THEN @ + 1 ELSE @]

NewProcess(l, row) ==
    [lease |-> l, attempt |-> row.attempts + 1, max_attempts |-> row.max_attempts,
     pc |-> "start", result |-> "none", deadline |-> FALSE, timedOut |-> FALSE,
     beats |-> 0]

-----------------------------------------------------------------------------
(* Run *)

StartRun(w) ==
    /\ run[w] = "off"
    /\ Goto(w, "loop")
    /\ UNCHANGED <<storeVars, stop, base, free, errs, procVars, faults>>

\* SIGTERM cancels the context given to Run.
Signal(w) ==
    /\ Running(w) /\ ~stop[w] /\ Fault
    /\ stop' = [stop EXCEPT ![w] = TRUE]
    /\ UNCHANGED <<storeVars, run, base, free, errs, procVars>>

\* Mutant: the select continues without setting runErr.
LeaveLoopForgets(w) ==
    /\ run[w] \in {"loop", "poll"}
    /\ \/ stop[w] /\ UNCHANGED errs
       \/ errs[w] > 0 /\ errs' = [errs EXCEPT ![w] = @ - 1]
    /\ Goto(w, "loop")
    /\ UNCHANGED <<storeVars, stop, base, free, procVars, faults>>

\* The select at the top of the loop and the one that waits for the next poll
\* leave the loop for a cancelled context or for the error of a process.
LeaveLoop(w) ==
    /\ run[w] \in {"loop", "poll"}
    /\ \/ stop[w] /\ UNCHANGED errs
       \/ errs[w] > 0 /\ errs' = [errs EXCEPT ![w] = @ - 1]
    /\ Goto(w, "draining")
    /\ UNCHANGED <<storeVars, stop, base, free, procVars, faults>>

\* That select takes its default when neither is ready.
LoopTop(w) ==
    /\ run[w] = "loop" /\ ~stop[w] /\ errs[w] = 0
    /\ Goto(w, "slots")
    /\ UNCHANGED <<storeVars, stop, base, free, errs, procVars, faults>>

\* The free slots are read after it: a process may have sent its error and
\* given its slot back in between.
ReadFree(w) ==
    /\ run[w] = "slots"
    /\ LET slots == Concurrency - Cardinality(procs[w])
       IN /\ free' = [free EXCEPT ![w] = slots]
          /\ Goto(w, IF slots > 0 THEN "sweep" ELSE "poll")
    /\ UNCHANGED <<storeVars, stop, base, errs, procVars, faults>>

\* Mutant: spent leases are not swept.
SweepStoreSkipped(w) ==
    /\ run[w] = "sweep"
    /\ Goto(w, "claim")
    /\ UNCHANGED <<storeVars, stop, base, free, errs, procVars, faults>>

\* FailExhausted with the names of the registry and the free slots as limit.
SweepStore(w) ==
    /\ run[w] = "sweep"
    /\ \/ /\ \E t \in Clocks : FailExhausted(Routes, free[w], t)
          /\ Goto(w, "claim")
          /\ UNCHANGED <<free, faults>>
       \/ /\ MaybeDone(\E t \in Clocks : FailExhausted(Routes, free[w], t))
          /\ Goto(w, "draining")
          /\ free' = [free EXCEPT ![w] = 0]
          /\ CallFails(stop[w])
    /\ UNCHANGED <<stop, base, errs, procVars>>

\* Claim commits and the deliveries are spawned, one slot each.
ClaimStore(w) ==
    /\ run[w] = "claim"
    /\ \E d \in LeaseDurations, t \in Clocks :
         \E batch \in ClaimBatches(Routes, free[w], t) :
           /\ Claim(w, batch, d, t)
           /\ procs' = [procs EXCEPT ![w] = @ \cup
                          {NewProcess(NewLease(id, w), jobs[id]) : id \in batch}]
           /\ Goto(w, IF batch = {} THEN "poll" ELSE "loop")
    /\ free' = [free EXCEPT ![w] = 0]
    /\ UNCHANGED <<stop, base, errs, handlers, done, faults>>

\* Claim fails: cancelled or timed out before or after the statement took
\* effect, or one bad row made it drop the whole batch.  Nobody holds those
\* leases, and their attempts are spent.
ClaimFails(w) ==
    /\ run[w] = "claim"
    /\ MaybeDone(\E d \in LeaseDurations, t \in Clocks :
                   \E batch \in ClaimBatches(Routes, free[w], t) : Claim(w, batch, d, t))
    /\ Goto(w, "draining")
    /\ free' = [free EXCEPT ![w] = 0]
    /\ CallFails(stop[w])
    /\ UNCHANGED <<stop, base, errs, procVars>>

PollTimer(w) ==
    /\ run[w] = "poll"
    /\ Goto(w, "loop")
    /\ UNCHANGED <<storeVars, stop, base, free, errs, procVars, faults>>

\* All processes have returned, or ShutdownTimeout passes and hardCancel is
\* called; it is also deferred, so base is cancelled once Run has returned.
Drain(w) ==
    /\ run[w] = "draining"
    /\ procs[w] = {}
    /\ Goto(w, "stopped")
    /\ base' = [base EXCEPT ![w] = TRUE]
    /\ UNCHANGED <<storeVars, stop, free, errs, procVars, faults>>

ShutdownTimer(w) ==
    /\ run[w] = "draining"
    /\ Goto(w, "stopped")
    /\ base' = [base EXCEPT ![w] = TRUE]
    /\ UNCHANGED <<storeVars, stop, free, errs, procVars, faults>>

\* The operating system process ends, with all its goroutines, after Run has
\* returned or in a crash; it can be started again.
Exit(w) ==
    /\ \/ run[w] = "stopped" /\ UNCHANGED faults
       \/ Running(w) /\ Fault
    /\ Goto(w, "off")
    /\ stop' = [stop EXCEPT ![w] = FALSE]
    /\ base' = [base EXCEPT ![w] = FALSE]
    /\ free' = [free EXCEPT ![w] = 0]
    /\ errs' = [errs EXCEPT ![w] = 0]
    /\ procs' = [procs EXCEPT ![w] = {}]
    /\ handlers' = [handlers EXCEPT ![w] = {}]
    /\ UNCHANGED <<storeVars, done>>

-----------------------------------------------------------------------------
(* process, and the handler goroutine *)

\* The payload decodes and the handler starts, or the job is failed.  (Claim
\* asks only for registered names, and a name is never unregistered, so the
\* lookup succeeds.)
Begin(w, p) ==
    /\ p.pc = "start"
    /\ \/ /\ Replace(w, p, [p EXCEPT !.pc = "select"])
          /\ handlers' = [handlers EXCEPT ![w] = @ \cup {p.lease}]
       \/ /\ Replace(w, p, [p EXCEPT !.pc = "fail"])
          /\ UNCHANGED handlers
    /\ UNCHANGED <<storeVars, runVars, done, faults>>

\* The handler returns nil, an error or a panic, or a permanent error.  The
\* result channel is buffered; nobody reads it once process has returned.
HandlerReturns(w, l, r) ==
    /\ l \in handlers[w]
    /\ handlers' = [handlers EXCEPT ![w] = @ \ {l}]
    /\ procs' = [procs EXCEPT ![w] =
                   {IF p.lease = l THEN [p EXCEPT !.result = r] ELSE p : p \in @}]
    /\ done' = IF r = "ok" /\ \E p \in procs[w] : p.lease = l /\ ~p.deadline
               THEN done \cup {l} ELSE done
    /\ UNCHANGED <<storeVars, runVars, faults>>

\* The timeout of the handler's context passes, unless it was cancelled first.
DeadlinePasses(w, p) ==
    /\ p.pc = "select" /\ ~p.deadline /\ ~base[w]
    /\ Replace(w, p, [p EXCEPT !.deadline = TRUE])
    /\ UNCHANGED <<storeVars, runVars, handlers, done, faults>>

\* process notices it and starts the cancellation timer.
NoticeDeadline(w, p) ==
    /\ p.pc = "select" /\ p.deadline /\ ~p.timedOut
    /\ Replace(w, p, [p EXCEPT !.timedOut = TRUE])
    /\ UNCHANGED <<storeVars, runVars, handlers, done, faults>>

\* Mutant: the last attempt is retried.
VerdictOffByOne(p) ==
    LET outcome == IF p.timedOut \/ p.deadline THEN "error" ELSE p.result
    IN IF outcome = "ok" THEN "ack"
       ELSE IF outcome = "permanent" \/ p.attempt > p.max_attempts THEN "fail"
       ELSE "retry"

\* What complete does with a result: a missed deadline overrides it.
Verdict(p) ==
    LET outcome == IF p.timedOut \/ p.deadline THEN "error" ELSE p.result
    IN IF outcome = "ok" THEN "ack"
       ELSE IF outcome = "permanent" \/ p.attempt >= p.max_attempts THEN "fail"
       ELSE "retry"

TakeResult(w, p) ==
    /\ p.pc = "select" /\ p.result # "none"
    /\ Replace(w, p, [p EXCEPT !.pc = Verdict(p)])
    /\ UNCHANGED <<storeVars, runVars, handlers, done, faults>>

\* The heartbeat extends the lease, finds it lost, or fails.
Beat(w, p) ==
    /\ p.pc = "select" /\ p.beats < MaxBeats
    /\ \E d \in LeaseDurations, t \in Clocks : Heartbeat(p.lease, d, t)
    /\ Replace(w, p, [p EXCEPT !.beats = @ + 1])
    /\ UNCHANGED <<runVars, handlers, done, faults>>

BeatLost(w, p) ==
    /\ p.pc = "select"
    /\ \E t \in Clocks : NotOwned(p.lease, t)
    /\ Replace(w, p, [p EXCEPT !.pc = "await"])
    /\ UNCHANGED <<runVars, handlers, done, faults>>

BeatFails(w, p) ==
    /\ p.pc = "select"
    /\ MaybeDone(\E d \in LeaseDurations, t \in Clocks : Heartbeat(p.lease, d, t))
    /\ CallFails(base[w])
    /\ ReturnError(w, p)
    /\ UNCHANGED <<run, stop, base, free, handlers, done>>

\* CancellationTimeout passes and the handler has not returned: it is
\* abandoned, and the error stops the worker.
Abandon(w, p) ==
    /\ \/ p.pc = "select" /\ p.timedOut
       \/ p.pc = "await"
    /\ ReturnError(w, p)
    /\ UNCHANGED <<storeVars, run, stop, base, free, handlers, done, faults>>

\* A forced shutdown leaves the lease to expire; a lost lease leaves the job to
\* its new holder as soon as the handler returns.
LeaveLease(w, p) ==
    /\ \/ p.pc \in {"select", "await"} /\ base[w]
       \/ p.pc = "await" /\ p.result # "none"
    /\ Return(w, p)
    /\ UNCHANGED <<storeVars, run, stop, base, free, handlers, done, faults>>

\* The statement complete or fail sends for its verdict.
Statement(p) ==
    \E t \in Clocks :
       \/ p.pc = "ack" /\ Ack(p.lease, t)
       \/ p.pc = "retry" /\ \E delay \in Delays : Retry(p.lease, delay, t)
       \/ p.pc = "fail" /\ Fail(p.lease, t)

Settle(w, p) ==
    /\ p.pc \in {"ack", "retry", "fail"}
    /\ Statement(p) \/ \E t \in Clocks : NotOwned(p.lease, t)
    /\ Return(w, p)
    /\ UNCHANGED <<run, stop, base, free, handlers, done, faults>>

SettleFails(w, p) ==
    /\ p.pc \in {"ack", "retry", "fail"}
    /\ MaybeDone(Statement(p))
    /\ CallFails(base[w])
    /\ ReturnError(w, p)
    /\ UNCHANGED <<run, stop, base, free, handlers, done>>

-----------------------------------------------------------------------------
(* The system *)

RunStep(w) ==
    \/ StartRun(w) \/ LeaveLoop(w) \/ LoopTop(w) \/ ReadFree(w) \/ SweepStore(w)
    \/ ClaimStore(w) \/ PollTimer(w) \/ Drain(w) \/ ShutdownTimer(w)

ProcessStep(w) ==
    \E p \in procs[w] :
       \/ Begin(w, p) \/ DeadlinePasses(w, p) \/ NoticeDeadline(w, p)
       \/ TakeResult(w, p) \/ Beat(w, p) \/ BeatLost(w, p) \/ Abandon(w, p)
       \/ LeaveLease(w, p) \/ Settle(w, p)

HandlerStep(w) ==
    \E l \in handlers[w], r \in {"ok", "error", "permanent"} :
       HandlerReturns(w, l, r)

Failure(w) ==
    \/ Signal(w) \/ ClaimFails(w)
    \/ \E p \in procs[w] : BeatFails(w, p) \/ SettleFails(w, p)

Application == (Dispatch \/ EndTransaction \/ Operator) /\ UNCHANGED <<runVars, procVars, faults>>

\* Time passes; an instant in which no row can become available is skipped.
TimePasses ==
    /\ \E id \in Ids : Active(id) /\ jobs[id].available_at > now
    /\ Tick
    /\ UNCHANGED <<runVars, procVars, faults>>

WorkerNext ==
    \/ \E w \in Workers :
         RunStep(w) \/ ProcessStep(w) \/ HandlerStep(w) \/ Failure(w) \/ Exit(w)
    \/ Application
    \/ TimePasses

WorkerSpec == WorkerInit /\ [][WorkerNext]_workerVars

\* Goroutines are scheduled, timers fire, a stopped process ends and is started
\* again, time passes.  No handler is assumed to return.
RuntimeFairness ==
    /\ \A w \in Workers :
         /\ WF_workerVars(RunStep(w))
         /\ WF_workerVars(ProcessStep(w))
         /\ WF_workerVars(run[w] = "stopped" /\ Exit(w))
    /\ WF_workerVars(EndTransaction /\ UNCHANGED <<runVars, procVars, faults>>)
    /\ WF_workerVars(TimePasses)

-----------------------------------------------------------------------------
(* Properties *)

\* The worker uses the store only through its statements, with leases that
\* Claim returned: everything proved of JobStore holds of the running system.
UsesStore == Spec

\* The slots taken and the slots promised to the next Claim never exceed
\* Concurrency, whatever ends between the two store calls and the claim: Run
\* does not block when it spawns a delivery.  The errors not yet read fit in
\* their channel only because one that finds it full is dropped.
SlotsFit ==
    \A w \in Workers :
       /\ Cardinality(procs[w]) + free[w] <= Concurrency
       /\ errs[w] <= Concurrency

\* A row without a lease always has an attempt left.  Claim skips a row whose
\* attempts are spent and FailExhausted one that has no lease, so any other row
\* would stay in the queue for ever.
NoStrandedJob ==
    \A id \in Ids :
       Active(id) /\ jobs[id].lease_owner = NULL
         => jobs[id].attempts < jobs[id].max_attempts

\* A job leaves the queue without a failure record only if the handler of its
\* current lease returned nil before its deadline: no timeout, crash, lost
\* reply or late handler of an earlier attempt makes a job count as done.
DoneOnlyBySuccess ==
    [][\A id \in Ids :
         Active(id) /\ ~Active(id)' /\ failed'[id] = NULL
           => \E l \in done : l.job = id /\ Matches(l)]_workerVars

\* process gives up on a running handler only when Run is about to end: the
\* error reaches Run even when several processes fail at once and the channel
\* is full, so a worker with a handler it no longer watches stops claiming.
AbandonedHandlerStopsWorker ==
    \A w \in Workers : \A l \in handlers[w] :
       \/ \E p \in procs[w] : p.lease = l
       \/ errs[w] > 0
       \/ run[w] \in {"draining", "stopped"}

\* jobs.md says that a handler that passed its timeout keeps its worker slot
\* until it returns, as long as the worker is not forced to stop.
SlotRetained ==
    \A w \in Workers :
       ~base[w] => \A l \in handlers[w] : \E p \in procs[w] : p.lease = l

\* A worker that is told to stop stops, whatever its handlers do.
SignalStopsWorker ==
    \A w \in Workers : stop[w] ~> run[w] \in {"stopped", "off"}

\* Every committed job leaves the queue, finished or failed, even if no
\* handler ever returns, processes crash and replies are lost: retries are
\* bounded and a spent lease is swept.
EveryJobSettles ==
    \A id \in Ids : Active(id) ~> ~Active(id)

=============================================================================
