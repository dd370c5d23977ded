--------------------------- MODULE ManagedProcess ---------------------------
(***************************************************************************)
(* internal/cli/managed_process.go and process_unix.go, process_windows.go:*)
(* one child process with its descendants, stopChildProcessTree (ask, wait *)
(* for the grace period, kill, wait again), the goroutine that collects    *)
(* the child, and callers of Stop and Wait.  On Unix the tree is a process *)
(* group, on Windows a job object.                                         *)
(***************************************************************************)
EXTENDS Naturals

CONSTANT MaxHelpers    \* bound of the model: descendants alive at once

ASSUME TreeAssumption == MaxHelpers \in Nat

VARIABLES platform,  \* "unix" or "windows", which file the build takes
          piped,     \* whether output is copied, so that Wait also waits for descendants
          child,     \* "running", "zombie" (exited) or "reaped" (waited for)
          helpers,   \* number of live descendants
          doomed,    \* every live process of the tree has been killed
          stop       \* stopChildProcessTree: its step, directDone and result

tree == <<platform, piped, child, helpers, doomed>>

TreeInit ==
    /\ platform \in {"unix", "windows"} /\ piped \in BOOLEAN
    /\ child = "running" /\ helpers = 0 /\ doomed = FALSE
    /\ stop = [pc |-> "none", direct |-> FALSE, err |-> FALSE]

\* A child that has exited but has not been reaped still belongs to its group.
Alive == helpers > 0 \/ child = "running" \/ (platform = "unix" /\ child = "zombie")
Gone == helpers = 0 /\ child # "running"
GoneOrKilled == Gone \/ doomed

\* SIGKILL to the group; closing or terminating the job.
Kill == doomed' = TRUE /\ UNCHANGED <<platform, piped, child, helpers>>

\* What the processes do by themselves.  Any of them may exit at any time, with or
\* without a signal; one that has been killed starts no other.
Fork ==
    /\ ~doomed /\ helpers < MaxHelpers
    /\ child = "running" \/ helpers > 0
    /\ helpers' = helpers + 1
    /\ UNCHANGED <<platform, piped, child, doomed>>
ChildExit ==
    /\ child = "running"
    /\ child' = "zombie"
    /\ UNCHANGED <<platform, piped, helpers, doomed>>
HelperExit ==
    /\ helpers > 0
    /\ helpers' = helpers - 1
    /\ UNCHANGED <<platform, piped, child, doomed>>

\* command.Wait reaps the child, then waits for the copied output to end.
Reap ==
    /\ child = "zombie"
    /\ child' = "reaped"
    /\ UNCHANGED <<platform, piped, helpers, doomed>>
WaitReturns == child = "reaped" /\ (piped => helpers = 0)
-----------------------------------------------------------------------------
StopAt(pc) == stop.pc = pc
StopGoto(pc) == stop' = [stop EXCEPT !.pc = pc]
StopReturn(err) == stop' = [stop EXCEPT !.pc = "returned", !.err = err]

StopCall == StopAt("none") /\ StopGoto("ask") /\ UNCHANGED tree

\* SIGTERM, or a console break.  When it cannot be sent Unix gives up; Windows, which
\* may have no console, terminates at once.
Ask ==
    /\ StopAt("ask")
    /\ \/ StopGoto("grace")
       \/ IF platform = "unix" THEN StopReturn(TRUE) ELSE StopGoto("force")
    /\ UNCHANGED tree

Poll(waited) ==
    /\ stop.pc \in {"grace", "final"}
    /\ LET direct == stop.direct \/ waited IN
       \/ /\ direct /\ ~Alive
          /\ stop' = [stop EXCEPT !.direct = TRUE, !.pc = "returned"]
       \/ /\ ~(direct /\ ~Alive)
          /\ stop' = [stop EXCEPT !.direct = direct]
       \/ IF platform = "windows" /\ StopAt("grace")
            THEN stop' = [stop EXCEPT !.direct = direct, !.pc = "force"]
            ELSE stop' = [stop EXCEPT !.direct = direct, !.pc = "returned", !.err = TRUE]
    /\ UNCHANGED tree

Deadline ==
    /\ \/ StopAt("grace") /\ StopGoto("force")
       \/ StopAt("final") /\ StopReturn(TRUE)
    /\ UNCHANGED tree

KillTree ==
    /\ StopAt("force")
    /\ \/ StopGoto("final") /\ Kill
       \/ StopReturn(TRUE) /\ UNCHANGED tree

StopStep(waited) == Ask \/ Poll(waited) \/ Deadline \/ KillTree

Processes == Fork \/ ChildExit \/ HelperExit
\* A killed process does end.
Killed == doomed /\ (ChildExit \/ HelperExit)
-----------------------------------------------------------------------------
(* The managed process. *)

CONSTANT Callers   \* goroutines that call Stop

VARIABLES collector,   \* the step of collect
          finished, stopping, done, waited, treeClosed,   \* fields of managedProcess
          once,        \* stopOnce: "free", "running" or "done"
          caller,      \* each caller of Stop: "idle", "calling", "stopping", "returned"
          owner        \* who runs stopOnce, and at which step

fields == <<finished, stopping, done, waited, treeClosed>>
managedVars == <<tree, stop, collector, fields, once, caller, owner>>

ManagedInit ==
    /\ TreeInit
    /\ collector = "none"
    /\ finished = FALSE /\ stopping = FALSE /\ done = FALSE
    /\ waited = FALSE /\ treeClosed = FALSE
    /\ once = "free" /\ owner = "none"
    /\ caller = [c \in Callers |-> "idle"]

\* close releases the tree once, which kills what is left of it.
MutantClose == treeClosed' = TRUE /\ UNCHANGED tree
Close == treeClosed' = TRUE /\ IF treeClosed THEN UNCHANGED tree ELSE Kill
-----------------------------------------------------------------------------
\* startManagedProcess: the child runs, and a goroutine collects it.
StartManaged ==
    /\ collector = "none" /\ collector' = "waiting"
    /\ UNCHANGED <<tree, stop, fields, once, caller, owner>>

CollectReap ==
    /\ collector = "waiting" /\ Reap
    /\ UNCHANGED <<stop, collector, fields, once, caller, owner>>

\* command.Wait returns; under the lock, the exit is recorded and Stop asked for.
CollectExit ==
    /\ collector = "waiting" /\ WaitReturns
    /\ finished' = TRUE
    /\ collector' = IF stopping THEN "signal" ELSE "close"
    /\ UNCHANGED <<tree, stop, stopping, done, waited, treeClosed, once, caller, owner>>

CollectClose ==
    /\ collector = "close"
    /\ Close
    /\ collector' = "signal"
    /\ UNCHANGED <<stop, finished, stopping, done, waited, once, caller, owner>>

CollectSignal ==
    /\ collector = "signal"
    /\ done' = TRUE
    /\ collector' = "send"
    /\ UNCHANGED <<tree, stop, finished, stopping, waited, treeClosed, once, caller, owner>>

CollectSend ==
    /\ collector = "send"
    /\ waited' = TRUE
    /\ collector' = "ended"
    /\ UNCHANGED <<tree, stop, finished, stopping, done, treeClosed, once, caller, owner>>
-----------------------------------------------------------------------------
CallStop(c) ==
    /\ caller[c] = "idle" /\ collector # "none"
    /\ caller' = [caller EXCEPT ![c] = "calling"]
    /\ UNCHANGED <<tree, stop, collector, fields, once, owner>>

\* stopOnce.Do: the first caller runs stop, the others wait for its result.
EnterOnce(c) ==
    /\ caller[c] = "calling" /\ once = "free"
    /\ once' = "running" /\ owner' = "check"
    /\ caller' = [caller EXCEPT ![c] = "stopping"]
    /\ UNCHANGED <<tree, stop, collector, fields>>

CheckFinished ==
    /\ owner = "check"
    /\ IF finished
         THEN owner' = "close" /\ UNCHANGED <<tree, stop, stopping>>
         ELSE /\ stopping' = TRUE /\ owner' = "stop"
              /\ StopCall
    /\ UNCHANGED <<collector, finished, done, waited, treeClosed, once, caller>>

StopTree ==
    /\ owner = "stop"
    /\ StopStep(waited)
    /\ owner' = IF stop'.pc = "returned" THEN "close" ELSE "stop"
    /\ UNCHANGED <<collector, fields, once, caller>>

CloseTree ==
    /\ owner = "close"
    /\ Close
    /\ owner' = "return"
    /\ UNCHANGED <<stop, collector, finished, stopping, done, waited, once, caller>>

LeaveOnce(c) ==
    /\ caller[c] = "stopping" /\ owner = "return"
    /\ once' = "done" /\ owner' = "none"
    /\ caller' = [caller EXCEPT ![c] = "returned"]
    /\ UNCHANGED <<tree, stop, collector, fields>>

Shared(c) ==
    /\ caller[c] = "calling" /\ once = "done"
    /\ caller' = [caller EXCEPT ![c] = "returned"]
    /\ UNCHANGED <<tree, stop, collector, fields, once, owner>>

System ==
    \/ CollectReap \/ CollectExit \/ CollectClose \/ CollectSignal \/ CollectSend
    \/ CheckFinished \/ StopTree \/ CloseTree
    \/ \E c \in Callers : EnterOnce(c) \/ LeaveOnce(c) \/ Shared(c)

Environment ==
    \/ StartManaged
    \/ collector # "none" /\ Processes /\ UNCHANGED <<stop, collector, fields, once, caller, owner>>
    \/ \E c \in Callers : CallStop(c)

ManagedNext == System \/ Environment
\* Goroutines run, timers fire, and the kernel ends the processes it was told to kill.
ManagedFairness ==
    /\ WF_managedVars(CollectReap) /\ WF_managedVars(CollectExit)
    /\ WF_managedVars(CollectClose)
    /\ WF_managedVars(CollectSignal) /\ WF_managedVars(CollectSend)
    /\ WF_managedVars(CheckFinished) /\ WF_managedVars(CloseTree)
    /\ WF_managedVars(owner = "stop" /\ (Ask \/ Deadline \/ KillTree) /\ StopTree)
    /\ \A c \in Callers : WF_managedVars((EnterOnce(c) \/ LeaveOnce(c) \/ Shared(c)))
    /\ WF_managedVars(Killed /\ Environment)

ManagedSpec == ManagedInit /\ [][ManagedNext]_managedVars /\ ManagedFairness
-----------------------------------------------------------------------------
\* Whoever called Stop, and however it raced with the child's exit and with the
\* collector, once it has returned nothing of the tree lives on unkilled.
StopLeavesNothing == (\E c \in Callers : caller[c] = "returned") => GoneOrKilled

\* When Stop asked the tree to end and reports no error, the tree is gone, and not
\* merely told to go.
CleanStopMeansGone == StopAt("returned") /\ ~stop.err => Gone

\* "If the child exits without an explicit Stop, its process-tree handle has also been
\* released before Done is closed."
DoneReleasesTheTree == done /\ ~stopping => treeClosed

\* Stop leads to the end of the tree and of every Wait.
StopEndsTheTree == (\E c \in Callers : caller[c] = "calling") ~> (done /\ Gone)
=============================================================================
