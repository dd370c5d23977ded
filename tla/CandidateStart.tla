-------------------------- MODULE CandidateStart --------------------------
(***************************************************************************)
(* internal/cli/serve.go: startDevelopmentCandidateWith reserves a port,   *)
(* releases it, starts the candidate on it, waits for /health and checks   *)
(* that it is the candidate who listens there; it tries several times.     *)
(* Between release and bind anybody else may take the port and answer.     *)
(***************************************************************************)
EXTENDS Naturals

CONSTANTS Attempts,
          MaxStrangers   \* bound of the model: how often somebody else takes the port

ASSUME StartAssumption == Attempts \in Nat \ {0} /\ MaxStrangers \in Nat

VARIABLES startPc, attempt,
          holder,      \* who listens on the reserved address
          process,     \* the operating system's process of this attempt
          value,       \* the Go value of the variable process
          sockets,     \* the listener was among the descriptors read
          expired,     \* the startup context is done
          stopFailed, strangers
candidateVars == <<startPc, attempt, holder, process, value, sockets, expired, stopFailed, strangers>>

CandidateInit ==
    /\ startPc = "idle" /\ attempt = 1
    /\ holder = "nobody" /\ process = "none" /\ value = "nil" /\ sockets = FALSE
    /\ expired = FALSE /\ stopFailed = FALSE /\ strangers = 0

world == <<holder, process, expired, strangers>>
Alive == process \in {"starting", "listening"}

\* The next attempt, if any is left.
Retry == IF attempt < Attempts THEN /\ attempt' = attempt + 1 /\ startPc' = "reserve"
         ELSE startPc' = "failed" /\ UNCHANGED attempt

\* The call, which starts the startup timeout.
CallStart ==
    /\ startPc = "idle" /\ startPc' = "reserve"
    /\ UNCHANGED <<attempt, value, sockets, stopFailed, world>>

Reserve ==
    /\ startPc = "reserve"
    /\ value' = "nil"
    /\ \/ startPc' = "start" /\ holder' = "nobody" /\ process' = "none" /\ UNCHANGED attempt
       \/ Retry /\ UNCHANGED <<holder, process>>
    /\ UNCHANGED <<sockets, expired, stopFailed, strangers>>

\* The environment may be unreadable.  The start function converts the nil *managedProcess
\* of a failed start to its interface result, which is then not nil.
StartCandidate ==
    /\ startPc = "start"
    /\ \/ startPc' = "failed" /\ UNCHANGED <<process, value>>
       \/ startPc' = "probe" /\ process' = "starting" /\ value' = "process"
       \/ startPc' = "stop" /\ value' = "nil pointer" /\ UNCHANGED process
    /\ UNCHANGED <<attempt, holder, sockets, expired, stopFailed, strangers>>

\* waitForCandidateHealth: whoever listens may answer 200.
Probe ==
    /\ startPc = "probe"
    /\ \/ holder # "nobody" /\ startPc' = "owns"
       \/ (process = "exited" \/ expired) /\ startPc' = "stop"
    /\ UNCHANGED <<attempt, value, sockets, stopFailed, world>>

\* processOwnsDevelopmentAddress: the sockets among the candidate's descriptors, and then
\* the table of listeners.  Either may be unreadable.
Owns ==
    /\ startPc = "owns"
    /\ sockets' = (holder = "process")
    /\ startPc' \in {"table", "stop"}
    /\ UNCHANGED <<attempt, value, stopFailed, world>>

MutantListens ==
    /\ startPc = "table"
    /\ \/ holder # "nobody" /\ startPc' = "ready"
       \/ startPc' = "stop"
    /\ UNCHANGED <<attempt, value, sockets, stopFailed, world>>
Listens ==
    /\ startPc = "table"
    /\ \/ sockets /\ holder = "process" /\ startPc' = "ready"
       \/ startPc' = "stop"
    /\ UNCHANGED <<attempt, value, sockets, stopFailed, world>>

Stop ==
    /\ startPc = "stop"
    /\ IF value = "nil pointer" THEN startPc' = "panicked" /\ UNCHANGED <<attempt, process, holder, stopFailed>>
       ELSE \/ /\ process' = "stopped"
               /\ holder' = IF holder = "process" THEN "nobody" ELSE holder
               /\ IF expired THEN startPc' = "failed" /\ UNCHANGED attempt ELSE Retry
               /\ UNCHANGED stopFailed
            \/ startPc' = "failed" /\ stopFailed' = TRUE /\ UNCHANGED <<attempt, process, holder>>
    /\ UNCHANGED <<value, sockets, expired, strangers>>
-----------------------------------------------------------------------------
(* The process, the startup timeout, and other users of ports. *)

here == <<startPc, attempt, value, sockets, stopFailed>>

Bind ==
    /\ process = "starting"
    /\ IF holder = "nobody" THEN process' = "listening" /\ holder' = "process"
       ELSE process' = "exited" /\ UNCHANGED holder
    /\ UNCHANGED <<here, expired, strangers>>

CandidateExit ==
    /\ Alive /\ process' = "exited"
    /\ holder' = IF holder = "process" THEN "nobody" ELSE holder
    /\ UNCHANGED <<here, expired, strangers>>

Expire == startPc # "idle" /\ ~expired /\ expired' = TRUE /\ UNCHANGED <<here, holder, process, strangers>>

Stranger ==
    /\ strangers < MaxStrangers
    /\ \/ holder = "nobody" /\ holder' = "stranger" /\ strangers' = strangers + 1
       \/ holder = "stranger" /\ holder' = "nobody" /\ UNCHANGED strangers
    /\ UNCHANGED <<here, process, expired>>

Run == Reserve \/ StartCandidate \/ Probe \/ Owns \/ Listens \/ Stop
CandidateNext == CallStart \/ Run \/ Bind \/ CandidateExit \/ Expire \/ Stranger
CandidateFairness == WF_candidateVars(Run) /\ WF_candidateVars(Expire)
CandidateSpec == CandidateInit /\ [][CandidateNext]_candidateVars /\ CandidateFairness
-----------------------------------------------------------------------------
\* The candidate that is returned was, when the listeners were looked up last, a live
\* process listening on the address it was given, even if somebody else answered the
\* health probe.
ReadyIsOwn == [][startPc # "ready" /\ startPc' = "ready" => holder = "process" /\ process = "listening"]_candidateVars

\* A candidate that cannot be started is an error like any other.
StartFailureIsAnError == startPc # "panicked"
=============================================================================
