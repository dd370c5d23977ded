---------------------------- MODULE JobLifecycle ----------------------------
(***************************************************************************)
(* What the durable queue promises about one job, without tables, clocks   *)
(* or leases.  A job that was submitted is either waiting, leased to some  *)
(* worker or buried among the terminal failures; it leaves only from       *)
(* "leased" (an acknowledgement) or from "failed" (an operator forgets     *)
(* it), and it is handed out at most budget times after it was submitted   *)
(* and after each time it was restored.  Several jobs may move in one step *)
(* (a claim takes a batch).                                                *)
(***************************************************************************)
EXTENDS Naturals

CONSTANTS Ids,       \* job identifiers
          MaxBudget  \* no delivery budget is larger than this

VARIABLES status,    \* where each job is
          tries,     \* deliveries since the job was submitted or restored
          budget     \* deliveries the job is allowed

lifecycleVars == <<status, tries, budget>>

Init ==
    /\ status = [id \in Ids |-> "new"]
    /\ tries = [id \in Ids |-> 0]
    /\ budget = [id \in Ids |-> 0]

Moves(id, from, to) == status[id] \in from /\ status'[id] = to

Counts(id, n, b) == tries'[id] = n /\ budget'[id] = b

Submit(id) ==
    /\ Moves(id, {"new"}, "waiting")
    /\ tries'[id] = 0
    /\ budget'[id] \in 1 .. MaxBudget

\* A waiting job, or a leased one whose lease ran out, is handed out again.
Take(id) ==
    /\ Moves(id, {"waiting", "leased"}, "leased")
    /\ tries[id] < budget[id]
    /\ Counts(id, tries[id] + 1, budget[id])

Requeue(id) == Moves(id, {"leased"}, "waiting") /\ Counts(id, tries[id], budget[id])

Finish(id) == Moves(id, {"leased"}, "gone") /\ Counts(id, 0, 0)

Bury(id) == Moves(id, {"leased"}, "failed") /\ Counts(id, tries[id], budget[id])

Restore(id) == Moves(id, {"failed"}, "waiting") /\ Counts(id, 0, budget[id])

Forget(id) == Moves(id, {"failed"}, "gone") /\ Counts(id, 0, 0)

Stay(id) == Moves(id, {status[id]}, status[id]) /\ Counts(id, tries[id], budget[id])

Step(id) ==
    \/ Submit(id) \/ Take(id) \/ Requeue(id) \/ Finish(id)
    \/ Bury(id) \/ Restore(id) \/ Forget(id) \/ Stay(id)

Next == \A id \in Ids : Step(id)

Spec == Init /\ [][Next]_lifecycleVars

=============================================================================
