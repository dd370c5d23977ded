----------------------------- MODULE DevServer -----------------------------
(***************************************************************************)
(* internal/cli/serve.go: forge serve builds a candidate whenever the      *)
(* source changes, starts it, publishes its compiled views, swaps the      *)
(* proxy to it and stops the previous server; anything that goes wrong     *)
(* leaves the last good server in place.                                   *)
(*                                                                         *)
(* Source contents are numbers.  The tracker polls the source: cur and gen *)
(* are what the supervisor sees.  A build reads the source twice, for the  *)
(* views and for the binary; if it changed in between the result is Mixed. *)
(* At most two candidates exist at a time and live in two slots.           *)
(***************************************************************************)
EXTENDS Naturals

CONSTANTS Sources,     \* contents the source can have
          Bad,         \* contents that do not compile
          MayCancel,   \* whether the context may end
          MaxEdits, MaxWrites, MaxFaults   \* bounds of the model

Slots == {1, 2}
Mixed == 0
Other == 0    \* views written by another generator
NoSlot == 0

ASSUME ServeAssumption ==
    Sources \subseteq Nat \ {0} /\ Bad \subseteq Sources /\ MayCancel \in BOOLEAN

VARIABLES
    src, cur, gen,          \* the source, and what the tracker last saw of it
    ctx,                    \* the context has ended
    pc,                     \* the supervisor's step
    active,                 \* the slot of the active candidate
    started,                \* the generation at the start of the build
    sample,                 \* the content from which the views were compiled
    input, result, base,    \* snapshots and generations the supervisor compares
    proc, binary, built,    \* per slot: process, binary on disk, content built from
    prevViews, newViews, published,   \* per slot: the view transaction
    views, lock,            \* the generated views and the project's generator lock
    proxy, target,          \* the public proxy and the slot it forwards to
    left,                   \* what failed cleanups have left behind, out of anyone's hands
    missed,                 \* the source changed and changed back unnoticed
    edits, writes, faults   \* counters behind the bounds

source == <<src, cur, gen>>
slots == <<proc, binary, built, prevViews, newViews, published, left>>
serverFiles == <<views, lock>>
public == <<proxy, target>>
memory == <<started, sample, input, result, base>>
counters == <<edits, writes, faults, missed>>
serverVars == <<source, ctx, pc, active, memory, slots, serverFiles, public, counters>>

Candidate == IF active = 1 THEN 2 ELSE 1
Initial == active = NoSlot

ServerInit ==
    /\ src \in Sources /\ cur = src /\ gen = 0 /\ ctx = FALSE
    /\ pc = "idle" /\ active = NoSlot
    /\ started = 0 /\ sample = src /\ input = src
    /\ result = [snapshot |-> src, gen |-> 0] /\ base = result
    /\ proc = [s \in Slots |-> "none"] /\ binary = [s \in Slots |-> FALSE]
    /\ built = [s \in Slots |-> Mixed] /\ published = [s \in Slots |-> FALSE]
    /\ prevViews = [s \in Slots |-> Other] /\ newViews = prevViews
    /\ views = Other /\ lock = "free"
    /\ proxy = "none" /\ target = NoSlot /\ left = {}
    /\ edits = 0 /\ writes = 0 /\ faults = 0 /\ missed = FALSE

Goto(step) == pc' = step
Fault == faults < MaxFaults /\ faults' = faults + 1
-----------------------------------------------------------------------------
(* cleanupDevelopmentCandidate: stop the process, roll back published views *)
(* (if they are still ours), release the lock, remove the binary.  Each of  *)
(* the three is tried even if one before it failed: a process may survive   *)
(* Stop, the rollback may fail three times, the binary may stay.            *)

\* The views change only if they are the expected ones.
CompareAndSwap(expected, replacement) == IF views = expected THEN replacement ELSE views

CleanedUp(s, failed) ==
    /\ proc' = [proc EXCEPT ![s] = "none"]
    /\ binary' = [binary EXCEPT ![s] = FALSE]
    /\ left' = left \cup failed
    /\ IF published[s] /\ "views" \notin failed
         THEN /\ published' = [published EXCEPT ![s] = FALSE]
              /\ views' = CompareAndSwap(newViews[s], prevViews[s]) /\ lock' = "free"
         ELSE UNCHANGED <<published, views, lock>>
    /\ UNCHANGED <<built, prevViews, newViews>>

MayFail(s) ==
    {x \in {"process"} : proc[s] = "running"} \cup {x \in {"binary"} : binary[s]}
      \cup {x \in {"views"} : published[s]}

Removed(s) == CleanedUp(s, {})
Kept(s) == Fault /\ \E failed \in SUBSET MayFail(s) \ {{}} : CleanedUp(s, failed)

Cleanup(s, then) ==
    \/ Removed(s) /\ Goto(then) /\ UNCHANGED faults
    \/ Kept(s) /\ Goto("close")

Unmoved == UNCHANGED <<source, ctx, edits, writes, missed>>
-----------------------------------------------------------------------------
(* buildStableDevelopmentCandidate. *)

\* The server is run, and the source that the tracker read first is built.
StartServe ==
    /\ pc = "idle" /\ Goto("begin") /\ input' = cur
    /\ Unmoved
    /\ UNCHANGED <<active, started, sample, result, base, slots, serverFiles, public, faults>>

MutantStale(snapshot, generation) == cur # snapshot
Stale(snapshot, generation) == cur # snapshot \/ gen # generation

Begin ==
    /\ pc = "begin" /\ Goto("views")
    /\ started' = gen
    /\ Unmoved /\ UNCHANGED <<active, sample, input, result, base, slots, serverFiles, public, faults>>

\* stageDevelopmentViews: what the view compiler makes of a copy of the view sources.
StagedViews == src

\* buildDevelopmentServer, under the generator lock: capture the views, compile new ones.
CompileViews ==
    /\ pc = "views" /\ lock = "free" /\ Goto("compile")
    /\ sample' = src
    /\ prevViews' = [prevViews EXCEPT ![Candidate] = views]
    /\ newViews' = [newViews EXCEPT ![Candidate] = StagedViews]
    /\ Unmoved
    /\ UNCHANGED <<active, started, input, result, base, proc, binary, built, published, left,
                   serverFiles, public, faults>>

\* go build with the candidate views as an overlay; a mixture may or may not compile.  If
\* the build fails for another reason too, what it wrote is removed, when that succeeds.
Compile ==
    /\ pc = "compile" /\ Goto("checkbuild")
    /\ built' = [built EXCEPT ![Candidate] = IF src = sample THEN src ELSE Mixed]
    /\ \E ok \in BOOLEAN :
         /\ binary' = [binary EXCEPT ![Candidate] = ok]
         /\ \/ (src = sample => ok = (src \notin Bad)) /\ UNCHANGED <<left, faults>>
            \/ ~ok /\ Fault /\ left' \in {left, left \cup {"binary"}}
    /\ Unmoved
    /\ UNCHANGED <<active, memory, proc, prevViews, newViews, published, serverFiles, public>>

\* An error of a build ends forge serve if it is the first one; later it is reported and
\* the next change is waited for.
BuildFailed(snapshot) ==
    /\ Goto(IF Initial \/ ctx THEN "close" ELSE "failed")
    /\ base' = [base EXCEPT !.snapshot = snapshot]

DiscardStale ==
    \/ Removed(Candidate) /\ Goto("settle") /\ UNCHANGED <<base, faults>>
    \/ Kept(Candidate) /\ BuildFailed(cur)

\* A build during which the source was seen to change is discarded, even a failed one.
CheckBuild ==
    /\ pc = "checkbuild" /\ ~ctx
    /\ \/ Stale(input, started) /\ DiscardStale
       \/ /\ ~Stale(input, started) /\ UNCHANGED <<slots, serverFiles, faults>>
          /\ \/ ~binary[Candidate] /\ BuildFailed(cur)
             \/ binary[Candidate] /\ Goto("start") /\ UNCHANGED base
    /\ Unmoved /\ UNCHANGED <<active, started, sample, input, result, public>>

\* dependencies.start: the candidate becomes healthy, or does not and is stopped; its build
\* is discarded then.  Both may fail, without more consequences.
Start ==
    /\ pc = "start"
    /\ \/ /\ proc' = [proc EXCEPT ![Candidate] = "running"]
          /\ Goto("checkstart") /\ UNCHANGED <<binary, left, base, faults>>
       \/ /\ Fault
          /\ binary' = [binary EXCEPT ![Candidate] = FALSE] /\ UNCHANGED proc
          /\ \E failed \in SUBSET {"process", "binary"} : left' = left \cup failed
          /\ IF Stale(input, started) /\ ~ctx THEN Goto("settle") /\ UNCHANGED base
             ELSE BuildFailed(cur)
    /\ Unmoved
    /\ UNCHANGED <<active, started, sample, input, result, built, prevViews, newViews, published,
                   serverFiles, public>>

CheckStart ==
    /\ pc = "checkstart"
    /\ \/ Stale(input, started) /\ DiscardStale
       \/ ~Stale(input, started) /\ Goto("result") /\ UNCHANGED <<slots, serverFiles, faults, base>>
    /\ Unmoved /\ UNCHANGED <<active, started, sample, input, result, public>>

\* The result's generation is read once more, after the comparison.
Result ==
    /\ pc = "result"
    /\ result' = [snapshot |-> input, gen |-> gen]
    /\ Goto(IF Initial THEN "first" ELSE "poll")
    /\ Unmoved
    /\ UNCHANGED <<active, started, sample, input, base, slots, serverFiles, public, faults>>

\* "reload failed": the baseline is the snapshot of the failure and the generation of now.
Failed ==
    /\ pc = "failed" /\ Goto("wait")
    /\ base' = [base EXCEPT !.gen = gen]
    /\ Unmoved
    /\ UNCHANGED <<active, started, sample, input, result, slots, serverFiles, public, faults>>

\* tracker.Stabilize: the source as it was last seen, once it has been quiet.
Stabilize ==
    /\ pc \in {"settle", "stabilize"}   \* inside and outside buildStableDevelopmentCandidate
    /\ input' = cur
    /\ Goto("begin")
    /\ Unmoved /\ UNCHANGED <<active, started, sample, result, base, slots, serverFiles, public, faults>>
-----------------------------------------------------------------------------
(* Publication, common to the first candidate and to later ones. *)

\* Another generator's views in between are an error, and so may be the write of ours
\* even if it took effect; both discard the candidate and build again.
Publish ==
    /\ pc = "publish" /\ lock = "free"
    /\ views' = CompareAndSwap(prevViews[Candidate], newViews[Candidate])
    /\ IF views = prevViews[Candidate]
         THEN /\ lock' = "serve"
              /\ published' = [published EXCEPT ![Candidate] = TRUE]
              /\ \/ Goto(IF Initial THEN "proxy" ELSE "poll2") /\ UNCHANGED faults
                 \/ Fault /\ Goto("discard")
         ELSE Goto("discard") /\ UNCHANGED <<lock, published, faults>>
    /\ Unmoved /\ UNCHANGED <<active, memory, proc, binary, built, prevViews, newViews, left, public>>

Discard ==
    /\ pc = "discard"
    /\ Cleanup(Candidate, "stabilize")
    /\ Unmoved /\ UNCHANGED <<active, memory, public>>

MutantCommitted(s) ==
    /\ published' = [published EXCEPT ![s] = FALSE]
    /\ UNCHANGED <<lock, views, prevViews, newViews, proc, binary, built, left>>
Committed(s) ==
    /\ published' = [published EXCEPT ![s] = FALSE]
    /\ lock' = IF published[s] THEN "free" ELSE lock
    /\ UNCHANGED <<views, prevViews, newViews, proc, binary, built, left>>

\* An error of the commit, that the lock's file could not be closed, ends forge serve.
CommitThen(s, then) ==
    /\ Committed(s)
    /\ (Goto(then) /\ UNCHANGED faults) \/ (Fault /\ Goto("close"))
-----------------------------------------------------------------------------
(* The first candidate. *)

FirstCheck ==
    /\ pc = "first"
    /\ IF Stale(result.snapshot, result.gen) THEN Cleanup(Candidate, "stabilize")
       ELSE IF proc[Candidate] = "exited" THEN Cleanup(Candidate, "close")
       ELSE Goto("publish") /\ UNCHANGED <<slots, serverFiles, faults>>
    /\ Unmoved /\ UNCHANGED <<active, memory, public>>

StartProxy ==
    /\ pc = "proxy"
    /\ \/ /\ proc[Candidate] = "running"
          /\ proxy' = "up" /\ target' = Candidate
          /\ Goto("firstagain") /\ UNCHANGED <<slots, serverFiles, faults>>
       \/ /\ proc[Candidate] = "exited"
          /\ Cleanup(Candidate, "close") /\ UNCHANGED public
    /\ Unmoved /\ UNCHANGED <<active, memory>>

\* The source may have changed while the proxy started: close it and build again.
FirstRecheck ==
    /\ pc = "firstagain"
    /\ IF proc[Candidate] = "exited" \/ Stale(result.snapshot, result.gen)
         THEN /\ proxy' = "none" /\ target' = NoSlot
              /\ Cleanup(Candidate, IF proc[Candidate] = "exited" THEN "close" ELSE "stabilize")
              /\ UNCHANGED <<active, base>>
         ELSE /\ active' = Candidate /\ base' = result
              /\ CommitThen(Candidate, "wait") /\ UNCHANGED public
    /\ Unmoved /\ UNCHANGED <<started, sample, input, result>>
-----------------------------------------------------------------------------
(* Later candidates. *)

\* The baseline generation, or waitForDevelopmentChange.
Wait ==
    /\ pc = "wait"
    /\ \/ (gen # base.gen \/ cur # base.snapshot) /\ input' = cur /\ Goto("begin")
       \/ (proc[active] = "exited" \/ proxy = "failed") /\ Goto("close") /\ UNCHANGED input
    /\ Unmoved
    /\ UNCHANGED <<active, started, sample, result, base, slots, serverFiles, public, faults>>

\* The candidate, the active server and the proxy are polled, before and after the
\* publication; before it, the generation too.
Poll ==
    /\ pc \in {"poll", "poll2"}
    /\ IF proc[Candidate] = "exited"
         THEN Cleanup(Candidate, "failed") /\ base' = [base EXCEPT !.snapshot = result.snapshot]
         ELSE /\ UNCHANGED base
              /\ IF proc[active] = "exited" \/ proxy = "failed" THEN Cleanup(Candidate, "close")
                 ELSE IF pc = "poll" /\ gen # result.gen THEN Cleanup(Candidate, "stabilize")
                 ELSE Goto(IF pc = "poll" THEN "publish" ELSE "swap") /\ UNCHANGED <<slots, serverFiles, faults>>
    /\ Unmoved /\ UNCHANGED <<active, started, sample, input, result, public>>

SwapTarget ==
    /\ pc = "swap"
    /\ target' = Candidate
    /\ Goto("recheck")
    /\ Unmoved /\ UNCHANGED <<active, memory, slots, serverFiles, proxy, faults>>

Recheck ==
    /\ pc = "recheck"
    /\ IF proc[Candidate] = "exited" \/ Stale(result.snapshot, result.gen)
         THEN /\ target' = active
              /\ Cleanup(Candidate, IF proc[Candidate] = "exited" THEN "failed" ELSE "stabilize")
              /\ base' = IF proc[Candidate] = "exited"
                           THEN [base EXCEPT !.snapshot = result.snapshot] ELSE base
              /\ UNCHANGED active
         ELSE /\ active' = Candidate /\ base' = result
              /\ Goto("replace") /\ UNCHANGED <<slots, serverFiles, faults, target>>
    /\ Unmoved /\ UNCHANGED <<started, sample, input, result, proxy>>

Replace ==
    /\ pc = "replace"
    /\ Cleanup(Candidate, "commit")
    /\ Unmoved /\ UNCHANGED <<active, memory, public>>

Commit ==
    /\ pc = "commit"
    /\ CommitThen(active, "notify")
    /\ Unmoved /\ UNCHANGED <<active, memory, public>>

Notify ==
    /\ pc = "notify" /\ Goto("wait")
    /\ Unmoved /\ UNCHANGED <<active, memory, slots, serverFiles, public, faults>>
-----------------------------------------------------------------------------
(* The ways out. *)

\* The context ends, or the source stays unreadable, or the proxy refuses: the proxy
\* is closed if it was the first candidate's, swapped back if it was swapped, and the
\* candidate is discarded.
GiveUp ==
    /\ pc \in {"proxy", "first", "firstagain", "stabilize", "poll", "swap", "recheck", "wait"}
    /\ ctx \/ faults < MaxFaults
    /\ Cleanup(Candidate, "close")
    /\ proxy' = IF pc = "firstagain" THEN "none" ELSE proxy
    /\ target' = CASE pc = "recheck" -> active [] pc = "firstagain" -> NoSlot [] OTHER -> target
    /\ Unmoved /\ UNCHANGED <<active, memory>>

\* The same inside buildStableDevelopmentCandidate, whose errors need not be final.
GiveUpBuild ==
    /\ pc \in {"checkbuild", "checkstart", "settle"}
    /\ \/ ctx /\ Removed(Candidate) /\ UNCHANGED faults
       \/ ~ctx /\ Removed(Candidate) /\ Fault
       \/ Kept(Candidate)
    /\ BuildFailed(input)
    /\ Unmoved /\ UNCHANGED <<active, started, sample, input, result, public>>

\* The deferred calls: close the proxy, then stop the active server.
Close ==
    /\ pc = "close"
    /\ proxy' = "none" /\ target' = NoSlot
    /\ Goto("cleanup")
    /\ Unmoved /\ UNCHANGED <<active, memory, slots, serverFiles, faults>>

CleanupActive ==
    /\ pc = "cleanup" /\ Goto("returned")
    /\ IF active = NoSlot THEN UNCHANGED <<slots, serverFiles, faults>>
       ELSE (Removed(active) /\ UNCHANGED faults) \/ Kept(active)
    /\ Unmoved /\ UNCHANGED <<active, memory, public>>
-----------------------------------------------------------------------------
(* The outside world. *)

supervisor == <<pc, active, memory>>

\* The tracker does not notice an edit that restores what it saw last.
Edit(c) ==
    /\ edits < MaxEdits /\ c # src
    /\ edits' = edits + 1 /\ src' = c
    /\ missed' = (missed \/ c = cur)
    /\ UNCHANGED <<cur, gen, ctx, supervisor, slots, serverFiles, public, writes, faults>>

\* Two polls between a comparison and the generation read after it, of a change and of its
\* reversal, are not noticed either.
Observe ==
    /\ cur # src
    /\ cur' = src /\ gen' = gen + 1
    /\ missed' = (missed \/ (pc = "result" /\ src = input) \/ (pc = "failed" /\ src = base.snapshot))
    /\ UNCHANGED <<src, ctx, supervisor, slots, serverFiles, public, edits, writes, faults>>

\* Another generator compiles the views, under the lock.
WriteViews ==
    /\ lock = "free" /\ writes < MaxWrites
    /\ writes' = writes + 1 /\ views' = Other
    /\ UNCHANGED <<source, ctx, supervisor, slots, lock, public, edits, faults, missed>>

Exit(s) ==
    /\ proc[s] = "running" /\ Fault
    /\ proc' = [proc EXCEPT ![s] = "exited"]
    /\ UNCHANGED <<source, ctx, supervisor, binary, built, prevViews, newViews, published, left,
                   serverFiles, public, edits, writes, missed>>

ProxyFails ==
    /\ proxy = "up" /\ Fault
    /\ proxy' = "failed"
    /\ UNCHANGED <<source, ctx, supervisor, slots, serverFiles, target, edits, writes, missed>>

Cancel ==
    /\ MayCancel /\ ~ctx /\ ctx' = TRUE
    /\ UNCHANGED <<source, supervisor, slots, serverFiles, public, counters>>

Supervise ==
    \/ Begin \/ CompileViews \/ Compile \/ CheckBuild \/ Start \/ CheckStart \/ Result
    \/ Failed \/ Stabilize \/ Publish \/ Discard \/ FirstCheck \/ StartProxy \/ FirstRecheck
    \/ Wait \/ Poll \/ SwapTarget \/ Recheck \/ Replace \/ Commit \/ Notify
    \/ Close \/ CleanupActive

World ==
    \/ \E c \in Sources : Edit(c)
    \/ Observe \/ WriteViews \/ ProxyFails \/ Cancel
    \/ \E s \in Slots : Exit(s)

ServerNext == StartServe \/ Supervise \/ GiveUp \/ GiveUpBuild \/ World
ServerFairness ==
    /\ WF_serverVars(Supervise) /\ WF_serverVars(Observe)
    /\ WF_serverVars(ctx /\ (GiveUp \/ GiveUpBuild))
ServerSpec == ServerInit /\ [][ServerNext]_serverVars /\ ServerFairness
-----------------------------------------------------------------------------
\* While forge serve waits for the next change, the proxy's target is the active server,
\* which has been started and not stopped and whose binary is there; every other candidate
\* has been stopped and removed, but for what a stop or a removal that failed left behind
\* (nothing, if nothing has failed yet); and forge serve does not hold the generator lock
\* that its next build will take.
LastGoodStands ==
    pc = "wait" =>
        /\ target = active /\ binary[active] /\ proc[active] # "none"
        /\ proc[Candidate] = "none" /\ ~binary[Candidate] /\ (faults = 0 => left = {})
        /\ lock = "free" /\ \A s \in Slots : ~published[s]

\* "a source generation observed during compile or build makes that candidate stale rather
\* than lost": once the edits end, the public server is one built from the final source,
\* also if an edit brought back an earlier content.  Excepted are a final source that does
\* not compile, a failed first build, faults, and a change that was taken back unnoticed:
\* before the next poll, or while a result's or a failure's generation was being read.
Converges ==
    <>[]\/ pc \in {"idle", "returned"} \/ faults > 0 \/ missed \/ src \in Bad
        \/ target = active /\ target # NoSlot /\ built[target] = src
=============================================================================
