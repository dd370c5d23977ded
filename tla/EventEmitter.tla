---------------------------- MODULE EventEmitter ----------------------------
(***************************************************************************)
(* The observer queue of the job worker (job/types.go).  Any goroutine     *)
(* emits; one short-lived goroutine drains the queue and calls the         *)
(* observer outside the mutex; Run flushes before it returns.  Each        *)
(* critical section is one step.  The scheduler has the same queue without *)
(* flush (schedule/observer.go).                                           *)
(***************************************************************************)
EXTENDS Naturals, Sequences

CONSTANTS
    Capacity,   \* observerQueueCapacity
    Flushers,   \* goroutines that call flush
    MaxEvents   \* bound: events emitted

ASSUME EmitterAssumption == Capacity \in Nat \ {0} /\ MaxEvents \in Nat

VARIABLES
    pending,    \* the queue
    running,    \* a drain goroutine was started and has not ended
    idle,       \* the number of the current idle channel
    closed,     \* the idle channels that are closed
    starting,   \* idle channels whose emit has still to start its goroutine
    drains,     \* the drain goroutines, by the idle channel they began with
    emitted,    \* number of calls of emit; an event is its number
    accepted,   \* the events that were queued, in order
    observed,   \* the events whose Observe returned or panicked, in order
    flushers    \* what each call of flush is doing

emitterVars == <<pending, running, idle, closed, starting, drains, emitted, accepted,
          observed, flushers>>

Events == 1 .. MaxEvents

\* A drain goroutine holds the event it is observing; 0 when it is about to
\* lock the mutex.
DrainEvents == [channel : Nat, event : Events \cup {0}]

\* since: how many events were queued when flush read the channel.
Flush == [pc : {"none", "waiting", "true", "false"}, channel : Nat, since : Nat]

EmitterTypeOK ==
    /\ pending \in Seq(Events) /\ Len(pending) <= Capacity
    /\ running \in BOOLEAN
    /\ idle \in Nat
    /\ closed \subseteq 0 .. idle
    /\ starting \subseteq 0 .. idle
    /\ drains \subseteq DrainEvents
    /\ emitted \in 0 .. MaxEvents
    /\ accepted \in Seq(Events) /\ observed \in Seq(Events)
    /\ flushers \in [Flushers -> Flush]

EmitterInit ==
    /\ pending = <<>> /\ running = FALSE
    /\ idle = 0 /\ closed = {0}
    /\ starting = {} /\ drains = {}
    /\ emitted = 0 /\ accepted = <<>> /\ observed = <<>>
    /\ flushers = [f \in Flushers |-> [pc |-> "none", channel |-> 0, since |-> 0]]

-----------------------------------------------------------------------------
\* emit drops the event when the queue is full.  The emit that finds no drain
\* goroutine makes a new idle channel and will start one.
Emit ==
    /\ emitted < MaxEvents /\ emitted' = emitted + 1
    /\ IF Len(pending) >= Capacity
       THEN UNCHANGED <<pending, accepted, running, idle, starting>>
       ELSE /\ pending' = Append(pending, emitted + 1)
            /\ accepted' = Append(accepted, emitted + 1)
            /\ IF running
               THEN UNCHANGED <<running, idle, starting>>
               ELSE /\ running' = TRUE /\ idle' = idle + 1
                    /\ starting' = starting \cup {idle + 1}
    /\ UNCHANGED <<closed, drains, observed, flushers>>

\* go emitter.drain(), after emit has unlocked the mutex.
Start(c) ==
    /\ c \in starting
    /\ starting' = starting \ {c}
    /\ drains' = drains \cup {[channel |-> c, event |-> 0]}
    /\ UNCHANGED <<pending, running, idle, closed, emitted, accepted, observed, flushers>>

\* One critical section of drain: take the next event, or end.
Take(g) ==
    /\ g.event = 0 /\ pending # <<>>
    /\ pending' = Tail(pending)
    /\ drains' = (drains \ {g}) \cup {[g EXCEPT !.event = Head(pending)]}
    /\ UNCHANGED <<running, idle, closed, starting, emitted, accepted, observed, flushers>>

\* Mutant: the goroutine ends with the flag still set.
EndStillRunning(g) ==
    /\ g.event = 0 /\ pending = <<>>
    /\ closed' = closed \cup {idle}
    /\ drains' = drains \ {g}
    /\ UNCHANGED <<pending, running, idle, starting, emitted, accepted, observed, flushers>>

End(g) ==
    /\ g.event = 0 /\ pending = <<>>
    /\ running' = FALSE
    /\ closed' = closed \cup {idle}
    /\ drains' = drains \ {g}
    /\ UNCHANGED <<pending, idle, starting, emitted, accepted, observed, flushers>>

\* The observer returns, or panics and is recovered.
Observe(g) ==
    /\ g.event # 0
    /\ observed' = Append(observed, g.event)
    /\ drains' = (drains \ {g}) \cup {[g EXCEPT !.event = 0]}
    /\ UNCHANGED <<pending, running, idle, closed, starting, emitted, accepted, flushers>>

-----------------------------------------------------------------------------
\* flush reads the channel under the mutex, then waits for it or its deadline.
BeginFlush(f) ==
    /\ flushers[f].pc = "none"
    /\ flushers' = [flushers EXCEPT ![f] =
                      [pc |-> "waiting", channel |-> idle, since |-> Len(accepted)]]
    /\ UNCHANGED <<pending, running, idle, closed, starting, drains, emitted, accepted, observed>>

EndFlush(f) ==
    /\ flushers[f].pc = "waiting"
    /\ \/ flushers[f].channel \in closed
          /\ flushers' = [flushers EXCEPT ![f].pc = "true"]
       \/ flushers' = [flushers EXCEPT ![f].pc = "false"]
    /\ UNCHANGED <<pending, running, idle, closed, starting, drains, emitted, accepted, observed>>

\* Nothing is left to do: the last event was emitted and no goroutine runs.
Finished ==
    /\ emitted = MaxEvents /\ starting = {} /\ drains = {}
    /\ \A f \in Flushers : flushers[f].pc \in {"true", "false"}
    /\ UNCHANGED emitterVars

Runtime == \E c \in starting : Start(c)

Draining == \E g \in drains : Take(g) \/ End(g) \/ Observe(g)

EmitterNext ==
    \/ Emit \/ Runtime \/ Draining
    \/ \E f \in Flushers : BeginFlush(f) \/ EndFlush(f)
    \/ Finished

EmitterSpec == EmitterInit /\ [][EmitterNext]_emitterVars

\* Goroutines are scheduled and the observer returns from every call.
EmitterFairness == WF_emitterVars(Runtime) /\ WF_emitterVars(Draining)

-----------------------------------------------------------------------------
InFlight == {g.event : g \in drains} \ {0}

\* A blocked observer retains one goroutine: no second one is running or about
\* to be started, however emits race with a drain that is about to end.
OneDrain ==
    /\ \A d, e \in drains : d = e
    /\ \A c, d \in starting : c = d
    /\ drains = {} \/ starting = {}

\* Queued events are observed in the order they were queued, each one once:
\* what was observed, what is being observed and what is queued are together
\* exactly what was accepted.
OrderKept ==
    \E e \in {<<>>} \cup {<<x>> : x \in InFlight} :
       observed \o e \o pending = accepted

\* When flush returns true, every event queued before the call has been
\* observed, although other goroutines keep emitting.
FlushMeansObserved ==
    \A f \in Flushers :
       flushers[f].pc = "true" => Len(observed) >= flushers[f].since

\* Every queued event is observed in the end: the emit that sees the flag set
\* never relies on a goroutine that has already decided to end.  (The events are
\* bounded, so the observer catches up with all of them.)
EveryEventObserved == observed # accepted ~> observed = accepted

=============================================================================
