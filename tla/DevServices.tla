---------------------------- MODULE DevServices ----------------------------
(***************************************************************************)
(* internal/cli/dev.go: forge dev runs the server, the worker and the      *)
(* scheduler, announces when all are ready, and stops all when one ends or *)
(* the parent context is cancelled.                                        *)
(*                                                                         *)
(* An error is "none", "cancelled" (context.Canceled, DeadlineExceeded),   *)
(* "failed", <<"wrap", e>> or <<"join", e, f>>.                            *)
(***************************************************************************)
EXTENDS Naturals, Sequences, FiniteSets

CONSTANTS Services,   \* the services; the code has three
          Errors      \* what a service's run can return

NoService == "nobody"
Is(e, kind) == e[1] = kind
None == <<"none">>
Cancelled == <<"cancelled">>
Failure == <<"failed">>
Wrap(e) == <<"wrap", e>>
Join(e, f) == IF e = None THEN f ELSE IF f = None THEN e ELSE <<"join", e, f>>

ASSUME DevAssumption == NoService \notin Services

VARIABLES parent,      \* the parent context is cancelled
          cancelled,   \* cancel() was called on the child context
          service,     \* each service goroutine: "running", "ended", "stopped", "sent"
          err,         \* what each service returned
          early,       \* history: the service ended before it was told to
          ready, stopped, complete,      \* developmentReadiness
          results,     \* the buffered channel
          root, parentCancelled, shutdownErr, completed,   \* the supervisor
          returned     \* what the supervisor returned, or "no"

readiness == <<ready, stopped, complete>>
supervisor == <<root, parentCancelled, shutdownErr, completed, returned>>
goroutines == <<service, err, early>>
devVars == <<parent, cancelled, goroutines, readiness, results, supervisor>>

DevInit ==
    /\ parent = FALSE /\ cancelled = FALSE
    /\ service = [s \in Services |-> "running"]
    /\ err = [s \in Services |-> None]
    /\ early = [s \in Services |-> FALSE]
    /\ ready = {} /\ stopped = {} /\ complete = FALSE
    /\ results = <<>>
    /\ root = NoService /\ parentCancelled = FALSE /\ shutdownErr = {} /\ completed = 0
    /\ returned = "no"

\* unexpectedDevelopmentShutdownError: what is left of an error without cancellations.
RECURSIVE Unexpected(_)
Unexpected(e) ==
    CASE e[1] \in {"none", "cancelled"} -> None
      [] Is(e, "join") -> Join(Unexpected(e[2]), Unexpected(e[3]))
      [] Is(e, "wrap") -> IF Unexpected(e[2]) = None THEN None ELSE e
      [] OTHER -> e
-----------------------------------------------------------------------------
(* The services and their output. *)

Told == parent \/ cancelled

MarkReady(s) ==
    /\ service[s] \in {"running", "stopped"}
    /\ s \notin ready /\ stopped = {} /\ ~complete
    /\ ready' = ready \cup {s}
    /\ complete' = (Cardinality(ready') = Cardinality(Services))
    /\ UNCHANGED <<parent, cancelled, goroutines, stopped, results, supervisor>>

\* run returns: by itself with any error, or because its context ended.
ServiceEnds(s) ==
    /\ service[s] = "running"
    /\ \E e \in Errors \cup {None} \cup (IF Told THEN {Cancelled} ELSE {}) :
         err' = [err EXCEPT ![s] = e]
    /\ service' = [service EXCEPT ![s] = "ended"]
    /\ early' = [early EXCEPT ![s] = ~Told]
    /\ UNCHANGED <<parent, cancelled, readiness, results, supervisor>>

StopReady(s) ==
    /\ service[s] = "ended"
    /\ stopped' = stopped \cup {s}
    /\ service' = [service EXCEPT ![s] = "stopped"]
    /\ UNCHANGED <<parent, cancelled, err, early, ready, complete, results, supervisor>>

\* The last lines are flushed, and the result is sent.
SendResult(s) ==
    /\ service[s] = "stopped"
    /\ results' = Append(results, s)
    /\ service' = [service EXCEPT ![s] = "sent"]
    /\ UNCHANGED <<parent, cancelled, err, early, readiness, supervisor>>

CancelParent ==
    /\ ~parent /\ parent' = TRUE
    /\ UNCHANGED <<cancelled, goroutines, readiness, results, supervisor>>
-----------------------------------------------------------------------------
(* superviseDevelopmentServices. *)

Waiting == returned = "no" /\ completed < Cardinality(Services)
Undecided == root = NoService /\ ~parentCancelled
Blame(s) == IF Unexpected(err[s]) # None THEN {s} ELSE {}

SelectCancel ==
    /\ Waiting /\ Undecided /\ parent
    /\ parentCancelled' = TRUE /\ cancelled' = TRUE
    /\ UNCHANGED <<parent, goroutines, readiness, results, root, shutdownErr, completed,
                   returned>>

\* The first result: a result that arrives with the parent already cancelled is part of
\* the shutdown, otherwise the service is the root cause and the others are cancelled.
MutantSelectResult ==
    /\ Waiting /\ Undecided /\ results # <<>>
    /\ results' = Tail(results) /\ completed' = completed + 1
    /\ cancelled' = TRUE
    /\ root' = Head(results) /\ UNCHANGED <<parentCancelled, shutdownErr>>
    /\ UNCHANGED <<parent, goroutines, readiness, returned>>
SelectResult ==
    /\ Waiting /\ Undecided /\ results # <<>>
    /\ results' = Tail(results) /\ completed' = completed + 1
    /\ cancelled' = TRUE
    /\ IF parent
         THEN /\ parentCancelled' = TRUE
              /\ shutdownErr' = shutdownErr \cup Blame(Head(results))
              /\ UNCHANGED root
         ELSE root' = Head(results) /\ UNCHANGED <<parentCancelled, shutdownErr>>
    /\ UNCHANGED <<parent, goroutines, readiness, returned>>

\* The remaining results.  Errors join shutdownErr, or the root cause's error.
Drain ==
    /\ Waiting /\ ~Undecided /\ results # <<>>
    /\ results' = Tail(results) /\ completed' = completed + 1
    /\ shutdownErr' = shutdownErr \cup Blame(Head(results))
    /\ UNCHANGED <<parent, cancelled, goroutines, readiness, root, parentCancelled, returned>>

Return ==
    /\ returned = "no" /\ completed = Cardinality(Services)
    /\ returned' = IF parentCancelled THEN IF shutdownErr = {} THEN "nil" ELSE "shutdown error"
                   ELSE IF complete THEN "exited after ready" ELSE "exited before ready"
    /\ UNCHANGED <<parent, cancelled, goroutines, readiness, results, root, parentCancelled,
                   shutdownErr, completed>>

Supervise == SelectCancel \/ SelectResult \/ Drain \/ Return
DevNext ==
    \/ CancelParent \/ Supervise
    \/ \E s \in Services : MarkReady(s) \/ ServiceEnds(s) \/ StopReady(s) \/ SendResult(s)

\* A service that is told to stop does (its process tree is killed in the end).
DevFairness ==
    /\ WF_devVars(Supervise)
    /\ \A s \in Services : /\ WF_devVars(StopReady(s)) /\ WF_devVars(SendResult(s))
                           /\ WF_devVars(Told /\ ServiceEnds(s))

DevSpec == DevInit /\ [][DevNext]_devVars /\ DevFairness
-----------------------------------------------------------------------------
\* The service blamed for the exit ended by itself: it was not one of those that ended
\* because the supervisor or the parent told them to.
RootEndedByItself == root # NoService => early[root]

=============================================================================
