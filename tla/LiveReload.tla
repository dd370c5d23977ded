---------------------------- MODULE LiveReload ----------------------------
(***************************************************************************)
(* internal/cli/serve_proxy.go and serve_livereload.go: the development    *)
(* proxy forwards to a target that the supervisor swaps, marks each page   *)
(* with the generation its request saw, and serves an event stream that    *)
(* tells a browser to reload when a newer generation was published.  The   *)
(* supervisor swaps the target first and notifies only later, if at all.   *)
(***************************************************************************)
EXTENDS Naturals, FiniteSets

CONSTANTS Browsers,
          Streams,          \* requests for the event stream in flight: bound of the model
          MaxSubscribers,   \* serveLiveReloadMaxSubscribers
          MaxUint64,        \* where the generation saturates
          MaxBuilds,        \* bound of the model: candidates the supervisor promotes
          MaxLosses         \* bound of the model: broken connections

ASSUME LiveReloadAssumption == /\ {MaxSubscribers, MaxUint64, MaxBuilds, MaxLosses} \subseteq Nat
                               /\ MaxUint64 >= MaxBuilds

VARIABLES reloadTarget,        \* the build the proxy forwards to; builds count up
          promoted,      \* the build that was last notified
          builds,
          reloadGeneration, closed, subscribers,
          full,          \* the streams whose channel of one element holds a generation
          stream,        \* each stream's handler: step, the page's generation, its browser
          browser,       \* each browser: step, generation and build of its page
          losses
reloadVars == <<reloadTarget, promoted, builds, reloadGeneration, closed, subscribers, full, stream, browser, losses>>

server == <<reloadTarget, promoted, builds, reloadGeneration, closed>>
None == "none"
Idle == [at |-> "idle", since |-> 0, of |-> None]

ReloadInit ==
    /\ reloadTarget = 1 /\ promoted = 1 /\ builds = 1
    /\ reloadGeneration = 0 /\ closed = FALSE /\ subscribers = {} /\ full = {}
    /\ stream = [s \in Streams |-> Idle]
    /\ browser = [b \in Browsers |-> [at |-> "none", gen |-> 0, build |-> 0]]
    /\ losses = 0
-----------------------------------------------------------------------------
(* The supervisor. *)

SwapReload ==
    /\ ~closed /\ reloadTarget = promoted /\ builds < MaxBuilds
    /\ builds' = builds + 1 /\ reloadTarget' = builds'
    /\ UNCHANGED <<promoted, reloadGeneration, closed, subscribers, full, stream, browser, losses>>

\* The candidate is refused after the swap.
SwapBack ==
    /\ reloadTarget # promoted
    /\ reloadTarget' = promoted
    /\ UNCHANGED <<promoted, builds, reloadGeneration, closed, subscribers, full, stream, browser, losses>>

NotifyReload ==
    /\ ~closed /\ reloadTarget # promoted
    /\ promoted' = reloadTarget
    /\ reloadGeneration' = IF reloadGeneration < MaxUint64 THEN reloadGeneration + 1 ELSE reloadGeneration
    /\ full' = full \cup subscribers
    /\ UNCHANGED <<reloadTarget, builds, closed, subscribers, stream, browser, losses>>

CloseReload ==
    /\ ~closed /\ closed' = TRUE
    /\ UNCHANGED <<reloadTarget, promoted, builds, reloadGeneration, subscribers, full, stream, browser, losses>>
-----------------------------------------------------------------------------
(* A page: the generation is read before the target is chosen. *)

others == <<server, subscribers, full, stream, losses>>
Move(b, to) == browser' = [browser EXCEPT ![b].at = to]

\* Somebody opens a page; from then on the browser loads and reloads it by itself.
Navigate(b) ==
    /\ browser[b].at = "none" /\ Move(b, "away")
    /\ UNCHANGED others

Handler(b) ==
    /\ browser[b].at = "away" /\ ~closed
    /\ browser' = [browser EXCEPT ![b] = [at |-> "asked", gen |-> reloadGeneration, build |-> 0]]
    /\ UNCHANGED others

rewrite(b) ==
    /\ browser[b].at = "asked"
    /\ browser' = [browser EXCEPT ![b].at = "response", ![b].build = reloadTarget]
    /\ UNCHANGED others

InjectMark(b) ==
    /\ browser[b].at = "response"
    /\ \/ Move(b, "page")
       \/ Move(b, "plain")
    /\ UNCHANGED others
-----------------------------------------------------------------------------
(* The event stream.  The browser opens it again when it ends without an   *)
(* event, and gives up when it is refused.                                 *)

At(s, step) == stream[s].at = step
PageGoto(s, step) == stream' = [stream EXCEPT ![s].at = step]

Open(b, s) ==
    /\ browser[b].at = "page" /\ At(s, "idle") /\ ~closed
    /\ stream' = [stream EXCEPT ![s] = [at |-> "opened", since |-> browser[b].gen, of |-> b]]
    /\ Move(b, "listening")
    /\ UNCHANGED <<server, subscribers, full, losses>>

\* What the browser on the other end does, if there is one.
Ends(s, to) == IF stream[s].of = None THEN UNCHANGED browser ELSE Move(stream[s].of, to)

subscribeStatus(s) ==
    IF closed THEN "unavailable"
    ELSE IF stream[s].since > reloadGeneration THEN "bad request"
    ELSE IF stream[s].since < reloadGeneration THEN "missed"
    ELSE IF Cardinality(subscribers) >= MaxSubscribers THEN "unavailable"
    ELSE "subscribed"

MutantSubscribe(s) ==
    /\ At(s, "opened")
    /\ IF Cardinality(subscribers) >= MaxSubscribers
       THEN /\ stream' = [stream EXCEPT ![s] = Idle]
            /\ Ends(s, "refused") /\ UNCHANGED subscribers
       ELSE subscribers' = subscribers \cup {s} /\ PageGoto(s, "streaming") /\ UNCHANGED browser
    /\ UNCHANGED <<server, full, losses>>
subscribe(s) ==
    /\ At(s, "opened")
    /\ IF subscribeStatus(s) = "subscribed"
       THEN subscribers' = subscribers \cup {s} /\ PageGoto(s, "streaming") /\ UNCHANGED browser
       ELSE /\ stream' = [stream EXCEPT ![s] = Idle]
            /\ Ends(s, IF subscribeStatus(s) = "missed" THEN "away" ELSE "refused")
            /\ UNCHANGED subscribers
    /\ UNCHANGED <<server, full, losses>>

Deliver(s) ==
    /\ At(s, "streaming") /\ s \in full
    /\ Ends(s, "away")
    /\ stream' = [stream EXCEPT ![s].at = "leaving", ![s].of = None]
    /\ full' = full \ {s}
    /\ UNCHANGED <<server, subscribers, losses>>

\* A heartbeat cannot be written, or the request's context is done.
Gone(s) ==
    /\ At(s, "streaming") /\ stream[s].of = None
    /\ PageGoto(s, "leaving")
    /\ UNCHANGED <<server, subscribers, full, browser, losses>>

Done(s) ==
    /\ At(s, "streaming") /\ closed
    /\ Ends(s, "page")
    /\ stream' = [stream EXCEPT ![s].at = "leaving", ![s].of = None]
    /\ UNCHANGED <<server, subscribers, full, losses>>

unsubscribe(s) ==
    /\ At(s, "leaving")
    /\ subscribers' = subscribers \ {s} /\ full' = full \ {s}
    /\ stream' = [stream EXCEPT ![s] = Idle]
    /\ UNCHANGED <<server, browser, losses>>

\* The connection breaks; the handler does not notice yet.
Break(s) ==
    /\ losses < MaxLosses /\ stream[s].of # None
    /\ losses' = losses + 1
    /\ Ends(s, "page")
    /\ stream' = [stream EXCEPT ![s].of = None]
    /\ UNCHANGED <<server, subscribers, full>>

Supervisor == SwapReload \/ SwapBack \/ NotifyReload \/ CloseReload
Page(b) == Handler(b) \/ rewrite(b) \/ InjectMark(b) \/ \E s \in Streams : Open(b, s)
Serve(s) == subscribe(s) \/ Deliver(s) \/ Gone(s) \/ Done(s) \/ unsubscribe(s)
ReloadNext == \/ Supervisor
        \/ \E b \in Browsers : Navigate(b) \/ Page(b)
        \/ \E s \in Streams : Serve(s) \/ Break(s)
ReloadFairness == /\ \A b \in Browsers : WF_reloadVars(Page(b))
                  /\ \A s \in Streams : WF_reloadVars(Serve(s))
ReloadSpec == ReloadInit /\ [][ReloadNext]_reloadVars /\ ReloadFairness
-----------------------------------------------------------------------------
\* A registered stream whose page has been overtaken holds the notification, or has sent
\* it, or has lost its browser: no notification falls between subscription and reload.
NoMissedReload == \A s \in subscribers :
    stream[s].since < reloadGeneration => s \in full \/ At(s, "leaving")

\* Subscriber slots belong to running streams, and no more are taken than there are.
SlotsAreHeld == /\ Cardinality(subscribers) <= MaxSubscribers
                /\ \A s \in subscribers : stream[s].at \in {"streaming", "leaving"}

\* A page with the client that shows a replaced build is reloaded, whatever breaks in
\* between, unless its stream is refused or the proxy closes.
PagesCatchUp == \A b \in Browsers : browser[b].at \in {"page", "listening"} /\ browser[b].build < promoted
                   ~> closed \/ browser[b].at \in {"plain", "refused"} \/ browser[b].build >= promoted

=============================================================================
