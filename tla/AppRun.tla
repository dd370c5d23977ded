------------------------------- MODULE AppRun -------------------------------
(***************************************************************************)
(* app.go, Run: serve until the context ends, then shut down gracefully,   *)
(* by force when that takes too long.  The server (net/http) is modelled   *)
(* from how Run uses it.                                                   *)
(***************************************************************************)
EXTENDS Naturals

CONSTANTS MaxActive   \* bound of the model: requests in progress at once

ASSUME AppAssumption == MaxActive \in Nat

VARIABLES appCancelled,   \* the context has ended
          serve,       \* the goroutine: "starting", "serving", "closing", "sent"
          serveErr,    \* what ListenAndServe returned: "none", "closed" or "failed"
          listener,    \* whether the listener is open
          closing,     \* Shutdown or Close was called
          active,      \* requests in progress
          run,         \* Run: "select", "shutdown", "close", "await", "returned"
          appShutdownErr, closeErr,
          cut,         \* history: Close ended a request in progress
          appResult       \* what Run returned: "none", "nil" or "error"

server == <<serve, serveErr, listener, closing, active>>
appVars == <<appCancelled, server, run, appShutdownErr, closeErr, cut, appResult>>

AppInit ==
    /\ appCancelled = FALSE
    /\ serve = "none" /\ serveErr = "none"
    /\ listener = FALSE /\ closing = FALSE /\ active = 0
    /\ run = "none" /\ appShutdownErr = FALSE /\ closeErr = FALSE /\ cut = FALSE /\ appResult = "none"

CancelApp ==
    /\ ~appCancelled /\ appCancelled' = TRUE
    /\ UNCHANGED <<server, run, appShutdownErr, closeErr, cut, appResult>>
-----------------------------------------------------------------------------
\* Run is called: it starts the goroutine that serves.
StartServing ==
    /\ run = "none" /\ run' = "select" /\ serve' = "starting"
    /\ UNCHANGED <<appCancelled, serveErr, listener, closing, active, appShutdownErr, closeErr, cut, appResult>>

(* ListenAndServe, in its goroutine. *)

\* It does not start once the server is closing; the address may be in use.
Listen ==
    /\ serve = "starting"
    /\ \/ ~closing /\ listener' = TRUE /\ serve' = "serving" /\ UNCHANGED serveErr
       \/ closing /\ serve' = "ended" /\ serveErr' = "closed" /\ UNCHANGED listener
       \/ ~closing /\ serve' = "ended" /\ serveErr' = "failed" /\ UNCHANGED listener
    /\ UNCHANGED <<appCancelled, closing, active, run, appShutdownErr, closeErr, cut, appResult>>

\* Accepting fails: because the listener was closed, or by itself.
AcceptFails ==
    /\ serve = "serving"
    /\ serve' = "ended"
    /\ serveErr' = IF closing THEN "closed" ELSE "failed"
    /\ listener' = FALSE
    /\ UNCHANGED <<appCancelled, closing, active, run, appShutdownErr, closeErr, cut, appResult>>

Request ==
    /\ serve = "serving" /\ listener /\ active < MaxActive
    /\ active' = active + 1
    /\ UNCHANGED <<appCancelled, serve, serveErr, listener, closing, run, appShutdownErr, closeErr, cut, appResult>>

\* A handler may also never return.
Respond ==
    /\ active > 0 /\ active' = active - 1
    /\ UNCHANGED <<appCancelled, serve, serveErr, listener, closing, run, appShutdownErr, closeErr, cut, appResult>>

SendServed ==
    /\ serve = "ended" /\ serve' = "sent"
    /\ UNCHANGED <<appCancelled, serveErr, listener, closing, active, run, appShutdownErr, closeErr, cut, appResult>>
-----------------------------------------------------------------------------
\* The goroutine's result is received first.
Served ==
    /\ run = "select" /\ serve = "sent"
    /\ run' = "returned"
    /\ appResult' = IF serveErr = "closed" THEN "nil" ELSE "error"
    /\ UNCHANGED <<appCancelled, server, appShutdownErr, closeErr, cut>>

StartShutdown ==
    /\ run = "select" /\ appCancelled
    /\ closing' = TRUE /\ listener' = FALSE
    /\ run' = "shutdown"
    /\ UNCHANGED <<appCancelled, serve, serveErr, active, appShutdownErr, closeErr, cut, appResult>>

\* Shutdown returns when no connection is active, or with an error at the timeout.
MutantShutdown ==
    /\ run = "shutdown" /\ active = 0
    /\ run' = "await"
    /\ UNCHANGED <<appCancelled, server, appShutdownErr, closeErr, cut, appResult>>
Shutdown ==
    /\ run = "shutdown"
    /\ \/ active = 0 /\ run' = "await" /\ UNCHANGED appShutdownErr
       \/ run' = "close" /\ appShutdownErr' = TRUE
    /\ UNCHANGED <<appCancelled, server, closeErr, cut, appResult>>

\* Close ends the remaining connections, and may report an error.
CloseServer ==
    /\ run = "close"
    /\ active' = 0 /\ cut' = (active > 0)
    /\ closeErr' \in BOOLEAN
    /\ run' = "await"
    /\ UNCHANGED <<appCancelled, serve, serveErr, listener, closing, appShutdownErr, appResult>>

Await ==
    /\ run = "await" /\ serve = "sent"
    /\ run' = "returned"
    /\ appResult' = IF appShutdownErr \/ closeErr \/ serveErr = "failed" THEN "error" ELSE "nil"
    /\ UNCHANGED <<appCancelled, server, appShutdownErr, closeErr, cut>>

Run == Served \/ StartShutdown \/ Shutdown \/ CloseServer \/ Await
AppNext == CancelApp \/ StartServing \/ Listen \/ AcceptFails \/ Request \/ Respond \/ SendServed \/ Run

\* Run and the goroutine proceed, timers fire and closed listeners fail; handlers are
\* not assumed to return.
AppFairness ==
    /\ WF_appVars(Run) /\ WF_appVars(Listen)
    /\ WF_appVars(closing /\ AcceptFails) /\ WF_appVars(SendServed)

AppSpec == AppInit /\ [][AppNext]_appVars /\ AppFairness
-----------------------------------------------------------------------------
\* "Close ensures Run never leaves the listener and serve goroutine behind."
NothingLeftBehind == run = "returned" => ~listener /\ serve = "sent"

\* Run reports success only for a shutdown that waited for every request, and for a
\* server that did not fail, also when it failed while the context was ending.
NilMeansGraceful == appResult = "nil" => active = 0 /\ ~cut /\ serveErr = "closed"

\* Run returns once its context has ended, even if no handler ever returns.
RunReturns == (appCancelled /\ run # "none") ~> run = "returned"
=============================================================================
