--------------------------- MODULE ProcessProofs ---------------------------
(***************************************************************************)
(* The parts that run goroutines, processes or a conversation, for every   *)
(* instance: the event emitter's queue, a child process and those who stop *)
(* it, the run of the application's server, the SMTP conversation, and the *)
(* generators of resources.                                                *)
(***************************************************************************)
EXTENDS Integers, EventEmitter, ManagedProcess, AppRun, SMTPSender, ResourceGenerator, TLAPS

-----------------------------------------------------------------------------
(***************************************************************************)
(* The emitter for every capacity, number of events and number of flush    *)
(* calls: one drain goroutine, events in order, a flush that returns true  *)
(* has seen them all.                                                      *)
(***************************************************************************)


\* The queue is at rest, has a goroutine about to start, or has one running.
AtRest == ~running /\ drains = {} /\ starting = {} /\ pending = <<>> /\ idle \in closed

AboutToStart == running /\ drains = {} /\ starting = {idle} /\ idle \notin closed

DrainedBy(e) ==
    /\ running /\ starting = {} /\ idle \notin closed
    /\ drains = {[channel |-> idle, event |-> e]}

\* What of the accepted events is left, given the ones being observed.
Left(middle) == observed \o middle \o pending = accepted

Phase ==
    \/ AtRest /\ Left(<<>>)
    \/ AboutToStart /\ Left(<<>>)
    \/ DrainedBy(0) /\ Left(<<>>)
    \/ \E e \in Events : DrainedBy(e) /\ Left(<<e>>)

FlushSafe(f) ==
    /\ flushers[f].channel <= idle
    /\ flushers[f].since <= Len(accepted)
    /\ flushers[f].pc = "true" \/ flushers[f].channel \in closed
         => flushers[f].since <= Len(observed)

EmitterInv == EmitterTypeOK /\ Phase /\ \A f \in Flushers : FlushSafe(f)

-----------------------------------------------------------------------------
\* Concatenations of three sequences: queueing at the end, moving the head of
\* the queue into the middle, and the middle to the end of the front.
LEMMA Queueing ==
    ASSUME NEW S, NEW a \in Seq(S), NEW b \in Seq(S), NEW c \in Seq(S), NEW e \in S
    PROVE  /\ a \o b \o Append(c, e) = Append(a \o b \o c, e)
           /\ a \o <<>> \o <<>> = a
           /\ Len(a \o b \o c) = Len(a) + Len(b) + Len(c)
<1>1. a \o b \o Append(c, e) = Append(a \o b \o c, e)
  BY SMTT(30)
<1>2. a \o <<>> \o <<>> = a
  OBVIOUS
<1>3. Len(a \o b \o c) = Len(a) + Len(b) + Len(c)
  OBVIOUS
<1> QED
  BY Zenon, <1>1, <1>2, <1>3

\* The first pending event becomes the one in flight.
LEMMA Taking ==
    ASSUME NEW S, NEW a \in Seq(S), NEW c \in Seq(S), c # <<>>
    PROVE  a \o <<>> \o c = a \o <<Head(c)>> \o Tail(c)
  BY SMTT(30)

\* The event in flight becomes the last one observed.
LEMMA Observing ==
    ASSUME NEW S, NEW a \in Seq(S), NEW c \in Seq(S), NEW e \in S
    PROVE  Append(a, e) \o <<>> \o c = a \o <<e>> \o c
  BY SMTT(30)

-----------------------------------------------------------------------------
LEMMA InitEmitterInv == EmitterInit => EmitterInv
<1> SUFFICES ASSUME EmitterInit PROVE EmitterInv
  BY Zenon
<1>1. EmitterTypeOK
  <2>1. <<>> \in Seq(Events) /\ Len(<<>>) = 0
    OBVIOUS
  <2>2. flushers \in [Flushers -> Flush]
    BY Zenon DEF EmitterInit, Flush
  <2>3. 0 <= Capacity /\ 0 \in 0 .. MaxEvents /\ {0} \subseteq 0 .. 0 /\ {} \subseteq 0 .. 0
    BY EmitterAssumption
  <2> QED
    BY Zenon, <2>1, <2>2, <2>3 DEF EmitterInit, EmitterTypeOK
<1>2. Phase
  BY DEF EmitterInit, Phase, AtRest, Left
<1>3. ASSUME NEW f \in Flushers PROVE FlushSafe(f)
  BY DEF EmitterInit, FlushSafe
<1> QED
  BY Zenon, <1>1, <1>2, <1>3 DEF EmitterInv

LEMMA EmitInv == ASSUME EmitterInv, Emit PROVE EmitterInv'
<1> USE DEF EmitterInv
<1>1. CASE Len(pending) >= Capacity
  <2>1. UNCHANGED <<pending, running, idle, closed, starting, drains, accepted, observed, flushers>>
    BY Zenon, <1>1 DEF Emit
  <2>2. emitted' \in 0 .. MaxEvents
    BY EmitterAssumption DEF Emit, EmitterTypeOK
  <2>3. EmitterTypeOK'
    BY Zenon, <2>1, <2>2 DEF EmitterTypeOK
  <2>4. Phase'
    BY Zenon, <2>1 DEF Phase, AtRest, AboutToStart, DrainedBy, Left
  <2>5. \A f \in Flushers : FlushSafe(f)'
    BY Zenon, <2>1 DEF FlushSafe
  <2> QED
    BY Zenon, <2>3, <2>4, <2>5
<1>2. CASE ~(Len(pending) >= Capacity)
  <2> DEFINE e == emitted + 1
  <2>1. e \in Events /\ emitted' = e /\ e \in 0 .. MaxEvents
    BY EmitterAssumption DEF Emit, EmitterTypeOK, Events
  <2>2. /\ pending' = Append(pending, e) /\ accepted' = Append(accepted, e)
        /\ UNCHANGED <<closed, drains, observed, flushers>>
    BY Zenon, <1>2 DEF Emit
  <2> HIDE DEF e
  <2>3. /\ pending' \in Seq(Events) /\ Len(pending') <= Capacity
        /\ accepted' \in Seq(Events) /\ Len(accepted') = Len(accepted) + 1
    BY <1>2, <2>1, <2>2, EmitterAssumption DEF EmitterTypeOK
  <2>4. ASSUME NEW m \in Seq(Events), Left(m) PROVE Left(m)'
    <3>1. observed \in Seq(Events) /\ pending \in Seq(Events)
      BY Zenon DEF EmitterTypeOK
    <3>2. observed \o m \o Append(pending, e) = Append(observed \o m \o pending, e)
      BY <2>1, <3>1, Queueing
    <3> QED
      BY Zenon, <2>2, <2>4, <3>2 DEF Left
  <2>5. CASE running
    <3>1. UNCHANGED <<running, idle, starting>>
      BY Zenon, <1>2, <2>5 DEF Emit
    <3>2. EmitterTypeOK'
      BY Zenon, <2>1, <2>2, <2>3, <3>1 DEF EmitterTypeOK
    <3>3. Phase'
      <4>1. <<>> \in Seq(Events) /\ \A x \in Events : <<x>> \in Seq(Events)
        OBVIOUS
      <4> QED
        BY Zenon, <2>2, <2>4, <2>5, <3>1, <4>1 DEF Phase, AtRest, AboutToStart, DrainedBy
    <3>4. \A f \in Flushers : FlushSafe(f)'
      BY <2>2, <2>3, <3>1 DEF FlushSafe, EmitterTypeOK, Flush
    <3> QED
      BY Zenon, <3>2, <3>3, <3>4
  <2>6. CASE ~running
    <3>1. running' = TRUE /\ idle' = idle + 1 /\ starting' = starting \cup {idle + 1}
      BY Zenon, <1>2, <2>6 DEF Emit
    <3>2. AtRest /\ Left(<<>>)
      BY Zenon, <2>6 DEF Phase, AboutToStart, DrainedBy
    <3>3. closed \subseteq 0 .. idle /\ idle \in Nat
      BY Zenon DEF EmitterTypeOK
    <3>4. EmitterTypeOK'
      BY <2>1, <2>2, <2>3, <3>1, <3>2, <3>3 DEF EmitterTypeOK, AtRest
    <3>5. AboutToStart'
      BY <2>2, <3>1, <3>2, <3>3 DEF AboutToStart, AtRest
    <3>6. Left(<<>>)'
      <4>1. <<>> \in Seq(Events)
        OBVIOUS
      <4> QED
        BY Zenon, <2>4, <3>2, <4>1
    <3>7. \A f \in Flushers : FlushSafe(f)'
      BY <2>2, <2>3, <3>1, <3>3 DEF FlushSafe, EmitterTypeOK, Flush
    <3> QED
      BY Zenon, <3>4, <3>5, <3>6, <3>7 DEF Phase
  <2> QED
    BY Zenon, <2>5, <2>6 DEF EmitterTypeOK
<1> QED
  BY Zenon, <1>1, <1>2

LEMMA StartInv == ASSUME EmitterInv, NEW c \in starting, Start(c) PROVE EmitterInv'
<1> USE DEF EmitterInv
<1>1. AboutToStart /\ Left(<<>>) /\ c = idle
  BY Zenon DEF Phase, AtRest, AboutToStart, DrainedBy
<1>2. /\ starting' = {} /\ drains' = {[channel |-> idle, event |-> 0]}
      /\ UNCHANGED <<pending, running, idle, closed, emitted, accepted, observed, flushers>>
  BY Zenon, <1>1 DEF Start, AboutToStart
<1>3. EmitterTypeOK'
  BY <1>2 DEF EmitterTypeOK, DrainEvents
<1>4. DrainedBy(0)' /\ Left(<<>>)'
  BY Zenon, <1>1, <1>2 DEF DrainedBy, AboutToStart, Left
<1>5. \A f \in Flushers : FlushSafe(f)'
  BY Zenon, <1>2 DEF FlushSafe
<1> QED
  BY Zenon, <1>3, <1>4, <1>5 DEF Phase

\* Only one goroutine can take, observe or end.
LEMMA TheDrain ==
    ASSUME EmitterInv, NEW g \in drains
    PROVE  /\ g = [channel |-> idle, event |-> g.event] /\ drains = {g}
           /\ DrainedBy(g.event)
           /\ g.event = 0 => Left(<<>>)
           /\ g.event # 0 => g.event \in Events /\ Left(<<g.event>>)
<1>1. 0 \notin Events
  BY DEF Events
<1>2. CASE DrainedBy(0) /\ Left(<<>>)
  <2>1. g = [channel |-> idle, event |-> 0]
    BY Zenon, <1>2 DEF DrainedBy
  <2>2. g.event = 0
    BY Zenon, <2>1
  <2> QED
    BY Zenon, <1>2, <2>1, <2>2 DEF DrainedBy
<1>3. ASSUME NEW e \in Events, DrainedBy(e), Left(<<e>>)
      PROVE  /\ g = [channel |-> idle, event |-> g.event] /\ drains = {g}
             /\ DrainedBy(g.event)
             /\ g.event # 0 /\ g.event \in Events /\ Left(<<g.event>>)
  <2>1. g = [channel |-> idle, event |-> e]
    BY Zenon, <1>3 DEF DrainedBy
  <2>2. g.event = e /\ e # 0
    BY Zenon, <1>1, <2>1
  <2> QED
    BY Zenon, <1>3, <2>1, <2>2 DEF DrainedBy
<1>4. drains # {}
  BY Zenon
<1> QED
  BY Zenon, <1>2, <1>3, <1>4 DEF EmitterInv, Phase, AtRest, AboutToStart

LEMMA TakeInv == ASSUME EmitterInv, NEW g \in drains, Take(g) PROVE EmitterInv'
<1> USE DEF EmitterInv
<1>1. /\ g = [channel |-> idle, event |-> 0] /\ drains = {g} /\ DrainedBy(0) /\ Left(<<>>)
  BY Zenon, TheDrain DEF Take
<1>2. PICK e : e = Head(pending)
  BY Zenon
<1>3. pending \in Seq(Events) /\ observed \in Seq(Events) /\ pending # <<>>
  BY Zenon DEF EmitterTypeOK, Take
<1>4. e \in Events /\ pending' = Tail(pending) /\ pending' \in Seq(Events) /\ Len(pending') <= Capacity
  BY <1>2, <1>3, EmitterAssumption DEF Take, EmitterTypeOK
<1>5. /\ drains' = {[channel |-> idle, event |-> e]}
      /\ UNCHANGED <<running, idle, closed, starting, emitted, accepted, observed, flushers>>
  BY <1>1, <1>2 DEF Take
<1>6. Left(<<e>>)'
  <2>1. observed \o <<>> \o pending = observed \o <<Head(pending)>> \o Tail(pending)
    BY <1>3, Taking, Zenon
  <2> QED
    BY <1>1, <1>2, <1>4, <1>5, <2>1, Zenon DEF Left
<1>7. EmitterTypeOK'
  BY <1>4, <1>5 DEF EmitterTypeOK, DrainEvents
<1>8. DrainedBy(e)'
  BY Zenon, <1>1, <1>5 DEF DrainedBy
<1>9. \A f \in Flushers : FlushSafe(f)'
  BY Zenon, <1>5 DEF FlushSafe
<1> QED
  BY Zenon, <1>4, <1>6, <1>7, <1>8, <1>9 DEF Phase

LEMMA EndInv == ASSUME EmitterInv, NEW g \in drains, End(g) PROVE EmitterInv'
<1> USE DEF EmitterInv
<1>1. drains = {g} /\ DrainedBy(0) /\ Left(<<>>) /\ pending = <<>>
  BY Zenon, TheDrain DEF End
<1>2. /\ drains' = {} /\ running' = FALSE /\ closed' = closed \cup {idle}
      /\ UNCHANGED <<pending, idle, starting, emitted, accepted, observed, flushers>>
  BY Zenon, <1>1 DEF End
<1>3. observed = accepted
  <2>1. observed \in Seq(Events)
    BY Zenon DEF EmitterTypeOK
  <2>2. observed \o <<>> \o <<>> = observed
    BY <2>1
  <2> QED
    BY Zenon, <1>1, <2>2 DEF Left
<1>4. EmitterTypeOK'
  <2>1. closed' \subseteq 0 .. idle'
    BY <1>2 DEF EmitterTypeOK
  <2> QED
    BY Zenon, <1>2, <2>1 DEF EmitterTypeOK
<1>5. AtRest' /\ Left(<<>>)'
  BY Zenon, <1>1, <1>2 DEF AtRest, Left, DrainedBy
<1>6. \A f \in Flushers : FlushSafe(f)'
  BY Zenon, <1>2, <1>3 DEF FlushSafe
<1> QED
  BY Zenon, <1>4, <1>5, <1>6 DEF Phase

LEMMA ObserveInv == ASSUME EmitterInv, NEW g \in drains, Observe(g) PROVE EmitterInv'
<1> USE DEF EmitterInv
<1> DEFINE e == g.event
<1>1. /\ g = [channel |-> idle, event |-> e] /\ drains = {g} /\ DrainedBy(e)
      /\ e \in Events /\ Left(<<e>>)
  BY Zenon, TheDrain DEF Observe
<1>2. /\ drains' = {[channel |-> idle, event |-> 0]} /\ observed' = Append(observed, e)
      /\ UNCHANGED <<pending, running, idle, closed, starting, emitted, accepted, flushers>>
  BY <1>1 DEF Observe
<1> HIDE DEF e
<1>3. observed' \in Seq(Events) /\ Len(observed') = Len(observed) + 1
  BY <1>1, <1>2 DEF EmitterTypeOK
<1>4. EmitterTypeOK'
  BY <1>2, <1>3 DEF EmitterTypeOK, DrainEvents
<1>5. DrainedBy(0)'
  BY Zenon, <1>1, <1>2 DEF DrainedBy
<1>6. Left(<<>>)'
  <2>1. observed \in Seq(Events) /\ pending \in Seq(Events)
    BY Zenon DEF EmitterTypeOK
  <2>2. Append(observed, e) \o <<>> \o pending = observed \o <<e>> \o pending
    BY <1>1, <2>1, Observing, Zenon
  <2> QED
    BY <1>1, <1>2, <2>2, Zenon DEF Left
<1>7. \A f \in Flushers : FlushSafe(f)'
  BY <1>2, <1>3 DEF FlushSafe, EmitterTypeOK, Flush
<1> QED
  BY Zenon, <1>4, <1>5, <1>6, <1>7 DEF Phase

LEMMA FlushInv ==
    ASSUME EmitterInv, NEW f \in Flushers, BeginFlush(f) \/ EndFlush(f)
    PROVE  EmitterInv'
<1> USE DEF EmitterInv
<1>1. UNCHANGED <<pending, running, idle, closed, starting, drains, emitted, accepted, observed>>
  BY Zenon DEF BeginFlush, EndFlush
<1>2. Phase'
  BY Zenon, <1>1 DEF Phase, AtRest, AboutToStart, DrainedBy, Left
<1>3. /\ flushers \in [Flushers -> Flush] /\ accepted \in Seq(Events)
      /\ observed \in Seq(Events) /\ idle \in Nat /\ closed \subseteq 0 .. idle
  BY Zenon DEF EmitterTypeOK
<1>4. CASE BeginFlush(f)
  <2>1. flushers' = [flushers EXCEPT ![f] =
                       [pc |-> "waiting", channel |-> idle, since |-> Len(accepted)]]
    BY Zenon, <1>4 DEF BeginFlush
  <2>2. EmitterTypeOK'
    BY <1>1, <1>3, <2>1 DEF EmitterTypeOK, Flush
  <2>3. ASSUME idle \in closed PROVE observed = accepted
    <3>1. pending = <<>> /\ observed \o <<>> \o pending = accepted
      BY Zenon, <2>3 DEF Phase, AtRest, AboutToStart, DrainedBy, Left
    <3> QED
      BY <1>3, <3>1
  <2>4. ASSUME NEW h \in Flushers PROVE FlushSafe(h)'
    <3>1. CASE h = f
      BY <1>1, <1>3, <2>1, <2>3, <3>1 DEF FlushSafe
    <3>2. CASE h # f
      BY Zenon, <1>1, <1>3, <2>1, <3>2 DEF FlushSafe
    <3> QED
      BY Zenon, <3>1, <3>2
  <2> QED
    BY Zenon, <1>2, <2>2, <2>4
<1>5. CASE EndFlush(f)
  <2>1. PICK end \in {"true", "false"} :
          /\ flushers' = [flushers EXCEPT ![f].pc = end]
          /\ end = "true" => flushers[f].channel \in closed
    BY Zenon, <1>5 DEF EndFlush
  <2>2. flushers[f] \in Flush
    BY Zenon, <1>3
  <2>3. /\ flushers'[f] \in Flush /\ flushers'[f].pc = end
        /\ flushers'[f].channel = flushers[f].channel
        /\ flushers'[f].since = flushers[f].since
    BY Zenon, <1>3, <2>1, <2>2 DEF Flush
  <2>4. \A h \in Flushers : h # f => flushers'[h] = flushers[h]
    BY Zenon, <1>3, <2>1
  <2>5. EmitterTypeOK'
    <3>1. flushers' \in [Flushers -> Flush]
      BY Zenon, <1>3, <2>1, <2>3, <2>4
    <3> QED
      BY Zenon, <1>1, <3>1 DEF EmitterTypeOK
  <2>6. \A h \in Flushers : FlushSafe(h)'
    BY <1>1, <2>1, <2>3, <2>4 DEF FlushSafe
  <2> QED
    BY Zenon, <1>2, <2>5, <2>6
<1> QED
  BY Zenon, <1>4, <1>5

LEMMA NextEmitterInv == ASSUME EmitterInv, [EmitterNext]_emitterVars PROVE EmitterInv'
<1>1. CASE UNCHANGED emitterVars
  BY Zenon, <1>1 DEF emitterVars, EmitterInv, EmitterTypeOK, Phase, AtRest, AboutToStart, DrainedBy,
     Left, FlushSafe
<1>2. CASE Emit
  BY Zenon, <1>2, EmitInv
<1>3. CASE Runtime
  BY Zenon, <1>3, StartInv DEF Runtime
<1>4. CASE Draining
  BY Zenon, <1>4, TakeInv, EndInv, ObserveInv DEF Draining
<1>5. CASE \E f \in Flushers : BeginFlush(f) \/ EndFlush(f)
  BY Zenon, <1>5, FlushInv
<1>6. CASE Finished
  BY Zenon, <1>1, <1>6 DEF Finished
<1> QED
  BY Zenon, <1>1, <1>2, <1>3, <1>4, <1>5, <1>6 DEF EmitterNext

\* The queue is always in one of its phases.
THEOREM EmitterInvariant == EmitterSpec => []EmitterInv
  BY InitEmitterInv, NextEmitterInv, PTL DEF EmitterSpec

\* At most one goroutine drains the queue or is about to.
THEOREM OneDrainOnly == EmitterSpec => []OneDrain
<1>1. EmitterInv => OneDrain
  <2> SUFFICES ASSUME EmitterInv PROVE OneDrain
    BY Zenon
  <2>1. \/ drains = {} /\ starting = {}
        \/ drains = {} /\ starting = {idle}
        \/ \E g : drains = {g} /\ starting = {}
    BY Zenon DEF EmitterInv, Phase, AtRest, AboutToStart, DrainedBy
  <2> QED
    BY Zenon, <2>1 DEF OneDrain
<1> QED
  BY <1>1, EmitterInvariant, PTL

\* No queued event is lost, repeated or overtaken.
THEOREM OrderAlwaysKept == EmitterSpec => []OrderKept
<1>1. EmitterInv => OrderKept
  <2> SUFFICES ASSUME EmitterInv PROVE OrderKept
    BY Zenon
  <2>1. CASE Left(<<>>)
    BY Zenon, <2>1 DEF OrderKept, Left
  <2>2. ASSUME NEW e \in Events, DrainedBy(e), Left(<<e>>) PROVE OrderKept
    <3>1. e \in InFlight
      BY <2>2 DEF InFlight, DrainedBy, Events
    <3> QED
      BY Zenon, <2>2, <3>1 DEF OrderKept, Left
  <2> QED
    BY Zenon, <2>1, <2>2 DEF EmitterInv, Phase
<1> QED
  BY <1>1, EmitterInvariant, PTL

\* A flush that returned true saw every event queued before it was called.
THEOREM FlushAlwaysMeansObserved == EmitterSpec => []FlushMeansObserved
<1>1. EmitterInv => FlushMeansObserved
  BY Zenon DEF EmitterInv, FlushSafe, FlushMeansObserved, EmitterTypeOK, Flush
<1> QED
  BY <1>1, EmitterInvariant, PTL

-----------------------------------------------------------------------------
(* The SMTP conversation. *)

\* What the server has of the message at each stage.  A command that the server has
\* acted on is ahead of the stage until its answer is read.
Taken == waiting /\ reply = "yes"
SMTPInv ==
    /\ next \in Nat /\ envelope \in Nat /\ acceptedFor \in Nat
    /\ stage \notin {"body", "quit", "end"} => acceptedFor = 0
    /\ stage \notin {"recipient", "data", "body", "quit", "reset", "end"} => next = 1 /\ envelope = 0
    /\ stage = "recipient" => /\ next \in 1..Recipients
                              /\ envelope = IF Taken THEN next ELSE next - 1
    /\ stage \in {"data", "body", "quit"} => envelope = Recipients
    /\ stage = "body" => acceptedFor = IF Taken THEN Recipients ELSE 0
    /\ stage = "quit" => acceptedFor = Recipients
    /\ stage \notin {"reset", "end"} => result = "none"
    /\ stage = "reset" => result \in {"error"}
    /\ NilMeansAccepted /\ AllRecipientsOrNone

LEMMA SMTPStep ==
    ASSUME SMTPInv, [SMTPNext]_smtpVars
    PROVE  SMTPInv'
<1> USE SenderAssumption DEF SMTPInv, NilMeansAccepted, AllRecipientsOrNone, Taken
<1>1. CASE Begin
  BY Zenon, <1>1 DEF Begin, here, there
<1>2. CASE Call
  BY Zenon, <1>2 DEF Call, Failed, here, there
<1>3. CASE Succeed
  <2>1. CASE stage = "recipient"
    BY <1>3, <2>1 DEF Succeed, NextStage, here, there
  <2>2. CASE stage # "recipient"
    <3>1. /\ stage' \in {"tls", "greeting", "hello", "authentication", "sender", "recipient", "data", "body", "quit", "end"}
          /\ stage' = "recipient" => stage = "sender"
          /\ stage' = "data" => FALSE
          /\ stage' = "body" => stage = "data"
          /\ stage' = "quit" => stage = "body"
          /\ stage \in {"data", "body", "quit", "reset", "end"} => stage' \in {"body", "quit", "end"}
          /\ stage = "reset" => stage' = "end"
          /\ stage = "body" => stage' = "quit"
          /\ stage = "data" => stage' = "body"
          /\ stage = "quit" => stage' = "end"
          /\ stage' = "end" => stage \notin {"dial", "tls", "greeting", "hello", "authentication", "sender"}
      BY Zenon, <1>3, <2>2 DEF Succeed, NextStage, AfterTLS
    <3>2. /\ UNCHANGED <<next, envelope, acceptedFor, reply>> /\ waiting /\ reply = "yes" /\ ~waiting'
          /\ result' = IF stage = "quit" THEN "sent" ELSE result
      BY Zenon, <1>3, <2>2 DEF Succeed, there
    <3> QED BY <3>1, <3>2, <2>2
  <2> QED BY Zenon, <2>1, <2>2
<1>4. CASE Fail
  BY Zenon, <1>4 DEF Fail, Failed, here, there
<1>5. CASE Server
  BY <1>5 DEF Server, here
<1>6. CASE Break \/ CancelSend \/ UNCHANGED smtpVars
  BY <1>6 DEF Break, CancelSend, smtpVars, here
<1> QED BY Zenon, <1>1, <1>2, <1>3, <1>4, <1>5, <1>6 DEF SMTPNext, Send

LEMMA SMTPStart == SMTPInit => SMTPInv
BY SenderAssumption DEF SMTPInit, SMTPInv, Taken, NilMeansAccepted, AllRecipientsOrNone

\* Where the conversation stands and what the server has, in every state.
THEOREM SMTPInvariant == SMTPSpec => []SMTPInv
BY SMTPStart, SMTPStep, PTL DEF SMTPSpec

\* Send reports success only if the server has taken the message for all recipients,
\* for any number of them and wherever the connection broke (Sender.Send).
THEOREM SentMeansAccepted == SMTPSpec => []NilMeansAccepted
<1>1. SMTPInv => NilMeansAccepted
  BY Zenon DEF SMTPInv
<1> QED BY <1>1, SMTPInvariant, PTL

\* The server never has the message for some of the recipients only: a refused
\* recipient ends the transaction before the body.
THEOREM AllOrNoRecipients == SMTPSpec => []AllRecipientsOrNone
<1>1. SMTPInv => AllRecipientsOrNone
  BY Zenon DEF SMTPInv
<1> QED BY <1>1, SMTPInvariant, PTL

\* No failure after the server has accepted the message is reported as an error.
THEOREM FarewellIsNoError == SMTPSpec => AcceptedIsNotAnError
<1>1. SMTPInv /\ [SMTPNext]_smtpVars => [stage = "quit" => result' # "error"]_smtpVars
  <2> SUFFICES ASSUME SMTPInv, SMTPNext, stage = "quit" PROVE result' # "error"
    BY Zenon
  <2>1. result = "none"
    BY Zenon DEF SMTPInv
  <2> QED BY Zenon, <2>1 DEF SMTPNext, Send, Begin, Call, Succeed, Fail, Failed, Server, Break, CancelSend, here, there
<1> QED BY <1>1, SMTPInvariant, PTL DEF SMTPSpec, AcceptedIsNotAnError

-----------------------------------------------------------------------------
(* A child process and those who stop it. *)

Steps == {"none", "ask", "grace", "force", "final", "returned"}

\* The tree is closed by whoever ends first, and closing it kills what is left of it.
ManagedInv ==
    /\ helpers \in Nat /\ waited \in BOOLEAN
    /\ stop \in [pc : Steps, direct : BOOLEAN, err : BOOLEAN]
    /\ caller \in [Callers -> {"idle", "calling", "stopping", "returned"}]
    /\ treeClosed => doomed
    /\ owner = "return" \/ once = "done" => treeClosed
    /\ \A c \in Callers : caller[c] = "returned" => once = "done"
    /\ collector \in {"signal", "send", "ended"} => stopping \/ treeClosed
    /\ done => collector \in {"send", "ended"}
    /\ CleanStopMeansGone

LEMMA ManagedStart == ManagedInit => ManagedInv
<1> SUFFICES ASSUME ManagedInit PROVE ManagedInv
  BY Zenon
<1>1. /\ stop = [pc |-> "none", direct |-> FALSE, err |-> FALSE] /\ helpers = 0
      /\ waited = FALSE /\ treeClosed = FALSE /\ done = FALSE /\ collector = "none"
      /\ owner = "none" /\ once = "free" /\ caller = [c \in Callers |-> "idle"]
  BY Zenon DEF ManagedInit, TreeInit
<1>2. helpers \in Nat /\ waited \in BOOLEAN /\ stop \in [pc : Steps, direct : BOOLEAN, err : BOOLEAN]
  BY Zenon, <1>1 DEF Steps
<1>3. /\ caller \in [Callers -> {"idle", "calling", "stopping", "returned"}]
      /\ \A c \in Callers : caller[c] = "idle"
  BY Zenon, <1>1
<1>4. CleanStopMeansGone
  BY <1>1 DEF CleanStopMeansGone, StopAt
<1> QED BY <1>1, <1>2, <1>3, <1>4 DEF ManagedInv

\* A tree that is gone stays so.
LEMMA GoneStays ==
    ASSUME helpers \in Nat, Processes
    PROVE  helpers' \in Nat /\ (Gone => Gone') /\ doomed' = doomed
BY DEF Processes, Fork, ChildExit, HelperExit, Gone

\* What a step of stopChildProcessTree does to its record and to the tree.
LEMMA StopSteps ==
    ASSUME stop \in [pc : Steps, direct : BOOLEAN, err : BOOLEAN], waited \in BOOLEAN,
           stop.pc # "returned", helpers \in Nat, StopStep(waited)
    PROVE  /\ stop' \in [pc : Steps, direct : BOOLEAN, err : BOOLEAN]
           /\ helpers' = helpers /\ child' = child /\ (doomed => doomed')
           /\ stop'.pc = "returned" /\ ~stop'.err => Gone
<1>1. CASE Ask
  BY <1>1, Zenon DEF Ask, StopAt, StopGoto, StopReturn, tree, Steps
<1>2. CASE Poll(waited)
  <2> DEFINE direct == stop.direct \/ waited
  <2>1. direct \in BOOLEAN
    BY Zenon
  <2>2. /\ helpers' = helpers /\ child' = child /\ doomed' = doomed
        /\ ~Alive /\ helpers \in Nat => Gone
    BY <1>2 DEF Poll, tree, Alive, Gone
  <2>3. \/ ~Alive /\ stop' = [stop EXCEPT !.direct = TRUE, !.pc = "returned"]
        \/ stop.pc \in {"grace", "final"} /\ stop' = [stop EXCEPT !.direct = direct]
        \/ stop' = [stop EXCEPT !.direct = direct, !.pc = "force"]
        \/ stop' = [stop EXCEPT !.direct = direct, !.pc = "returned", !.err = TRUE]
    BY Zenon, <1>2 DEF Poll
  <2> HIDE DEF direct
  <2> QED BY <2>1, <2>2, <2>3, Zenon DEF Steps
<1>3. CASE Deadline
  BY <1>3, Zenon DEF Deadline, StopAt, StopGoto, StopReturn, tree, Steps
<1>4. CASE KillTree
  <2>1. /\ helpers' = helpers /\ child' = child /\ (doomed => doomed')
        /\ \/ stop' = [stop EXCEPT !.pc = "final"]
           \/ stop' = [stop EXCEPT !.pc = "returned", !.err = TRUE]
    BY <1>4 DEF KillTree, Kill, StopGoto, StopReturn, tree
  <2> QED BY <2>1, <1>4, Zenon DEF Steps
<1> QED BY Zenon, <1>1, <1>2, <1>3, <1>4 DEF StopStep


LEMMA ManagedStep ==
    ASSUME ManagedInv, [ManagedNext]_managedVars
    PROVE  ManagedInv'
<1> USE DEF ManagedInv, CleanStopMeansGone, StopAt, Gone
<1>1. CASE StartManaged
  BY Zenon, <1>1 DEF StartManaged, tree, fields
<1>2. CASE CollectReap
  BY Zenon, <1>2 DEF CollectReap, Reap, fields
<1>3. CASE CollectExit
  BY Zenon, <1>3 DEF CollectExit, tree
<1>4. CASE CollectClose
  BY Zenon, <1>4 DEF CollectClose, Close, Kill, tree
<1>5. CASE CollectSignal \/ CollectSend
  <2>1. /\ UNCHANGED <<tree, stop, stopping, treeClosed, once, caller, owner>>
        /\ waited' \in BOOLEAN /\ collector' \in {"send", "ended"}
        /\ collector \in {"signal", "send"}
    BY <1>5, Zenon DEF CollectSignal, CollectSend
  <2> QED BY Zenon, <2>1 DEF tree
<1>6. CASE CheckFinished
  <2>1. CASE finished
    BY Zenon, <1>6, <2>1 DEF CheckFinished, tree
  <2>2. CASE ~finished
    <3>1. stop' = [stop EXCEPT !.pc = "ask"]
      BY Zenon, <1>6, <2>2 DEF CheckFinished, StopCall, StopGoto
    <3>2. stop' \in [pc : Steps, direct : BOOLEAN, err : BOOLEAN] /\ stop'.pc = "ask"
      BY Zenon, <3>1 DEF Steps
    <3> QED BY Zenon, <1>6, <2>2, <3>2 DEF CheckFinished, StopCall, tree
  <2> QED BY Zenon, <2>1, <2>2
<1>7. CASE StopTree
  <2>1. stop.pc # "returned"
    BY <1>7, Zenon DEF StopTree, StopStep, Ask, Poll, Deadline, KillTree
  <2>2. /\ stop' \in [pc : Steps, direct : BOOLEAN, err : BOOLEAN]
        /\ helpers' = helpers /\ child' = child /\ (doomed => doomed')
        /\ stop'.pc = "returned" /\ ~stop'.err => Gone
    <3> HIDE DEF Gone
    <3> QED BY Zenon, <1>7, <2>1, StopSteps DEF StopTree
  <2> QED BY Zenon, <1>7, <2>2 DEF StopTree, fields
<1>8. CASE CloseTree
  BY Zenon, <1>8 DEF CloseTree, Close, Kill, tree
<1>9. ASSUME NEW c \in Callers, CallStop(c) \/ EnterOnce(c) \/ LeaveOnce(c) \/ Shared(c)
      PROVE  ManagedInv'
  <2>1. UNCHANGED <<tree, stop, collector, fields>>
    BY Zenon, <1>9 DEF CallStop, EnterOnce, LeaveOnce, Shared
  <2>2. PICK to \in {"calling", "stopping", "returned"} :
            /\ caller' = [caller EXCEPT ![c] = to]
            /\ to = "returned" => once' = "done"
    BY Zenon, <1>9 DEF CallStop, EnterOnce, LeaveOnce, Shared
  <2>3. /\ once = "done" => once' = "done"
        /\ owner' = "return" \/ once' = "done" => treeClosed
    BY Zenon, <1>9 DEF CallStop, EnterOnce, LeaveOnce, Shared
  <2> QED BY Zenon, <2>1, <2>2, <2>3 DEF tree, fields
<1>10. CASE Processes /\ UNCHANGED <<stop, collector, fields, once, caller, owner>>
  <2> HIDE DEF Gone
  <2> QED BY Zenon, <1>10, GoneStays DEF fields
<1>11. CASE UNCHANGED managedVars
  BY Zenon, <1>11 DEF managedVars, tree, fields
<1> QED BY <1>1, <1>2, <1>3, <1>4, <1>5, <1>6, <1>7, <1>8, <1>9, <1>10, <1>11, Zenon
        DEF ManagedNext, System, Environment

\* Who may close the tree, and what has ended once the collector signals.
THEOREM ManagedInvariant == ManagedSpec => []ManagedInv
BY ManagedStart, ManagedStep, PTL DEF ManagedSpec

\* However many callers race with the child's exit and with the collector, once Stop
\* has returned to one of them nothing of the tree lives on unkilled.
THEOREM StoppedMeansEnded == ManagedSpec => []StopLeavesNothing
<1>1. ManagedInv => StopLeavesNothing
  BY Zenon DEF ManagedInv, StopLeavesNothing, GoneOrKilled
<1> QED BY <1>1, ManagedInvariant, PTL

\* A stop that reports no error means that the tree is gone, not merely told to go.
THEOREM CleanStopIsTrue == ManagedSpec => []CleanStopMeansGone
<1>1. ManagedInv => CleanStopMeansGone
  BY Zenon DEF ManagedInv
<1> QED BY <1>1, ManagedInvariant, PTL

\* A child that exits by itself has had its tree released before Done is closed.
THEOREM DoneMeansReleased == ManagedSpec => []DoneReleasesTheTree
<1>1. ManagedInv => DoneReleasesTheTree
  BY Zenon DEF ManagedInv, DoneReleasesTheTree
<1> QED BY <1>1, ManagedInvariant, PTL

-----------------------------------------------------------------------------
(* The run of the application's server. *)

\* Where the goroutine that serves and Run stand together.
AppInv ==
    /\ active \in Nat
    /\ run = "none" => serve = "none"
    /\ listener => serve = "serving" /\ ~closing
    /\ closing => run \notin {"none", "select"}
    /\ run \in {"shutdown", "close", "await"} => closing
    /\ serve \in {"ended", "sent"} => serveErr \in {"closed", "failed"}
    /\ serveErr = "closed" => closing
    /\ cut => appShutdownErr
    /\ run = "await" /\ ~appShutdownErr => active = 0
    /\ run = "close" => appShutdownErr
    /\ run # "returned" => appResult = "none"
    /\ run = "returned" => serve = "sent"
    /\ appResult \in {"none", "nil", "error"}
    /\ NilMeansGraceful

LEMMA AppStart == AppInit => AppInv
BY DEF AppInit, AppInv, NilMeansGraceful

LEMMA AppStep ==
    ASSUME AppInv, [AppNext]_appVars
    PROVE  AppInv'
<1> USE DEF AppInv, NilMeansGraceful
<1>1. CASE CancelApp
  BY Zenon, <1>1 DEF CancelApp, server
<1>0. CASE StartServing
  BY Zenon, <1>0 DEF StartServing
<1>2. CASE Listen
  BY <1>2 DEF Listen
<1>3. CASE AcceptFails
  BY Zenon, <1>3 DEF AcceptFails
<1>4. CASE Request \/ Respond
  BY <1>4 DEF Request, Respond
<1>5. CASE SendServed
  BY Zenon, <1>5 DEF SendServed
<1>6. CASE Served
  BY Zenon, <1>6 DEF Served, server
<1>7. CASE StartShutdown
  BY Zenon, <1>7 DEF StartShutdown
<1>8. CASE Shutdown
  BY Zenon, <1>8 DEF Shutdown, server
<1>9. CASE CloseServer
  BY Zenon, <1>9 DEF CloseServer
<1>10. CASE Await
  BY Zenon, <1>10 DEF Await, server
<1>11. CASE UNCHANGED appVars
  BY Zenon, <1>11 DEF appVars, server
<1> QED BY <1>1, <1>2, <1>3, <1>4, <1>5, <1>6, <1>7, <1>8, <1>9, <1>10, <1>11, <1>0, Zenon DEF AppNext, Run

\* How the goroutine that serves, the listener and Run stand together.
THEOREM AppInvariant == AppSpec => []AppInv
BY AppStart, AppStep, PTL DEF AppSpec

\* Run leaves neither the listener nor the serving goroutine behind, however serving
\* failed, the context ended and the graceful shutdown timed out.
THEOREM RunLeavesNothing == AppSpec => []NothingLeftBehind
<1>1. AppInv => NothingLeftBehind
  BY Zenon DEF AppInv, NothingLeftBehind
<1> QED BY <1>1, AppInvariant, PTL

\* Run returns nil only for a shutdown that waited for every request and for a server
\* that did not fail.
THEOREM NilIsGraceful == AppSpec => []NilMeansGraceful
<1>1. AppInv => NilMeansGraceful
  BY Zenon DEF AppInv
<1> QED BY <1>1, AppInvariant, PTL

-----------------------------------------------------------------------------
(***************************************************************************)
(* Generators of resources, for every number of them: what is published is *)
(* taken back file by file, so that whoever has the lock next finds the    *)
(* project as it was or with the new resource in every file.               *)
(***************************************************************************)

StateFile == <<"state", "all">>
Placing == {"create", "compare", "replace", "verify", "check"}
Undoing == {"undo", "restore"}
AtWork == {"plan", "unlock"} \cup Placing \cup Undoing

\* Whole, of files F and directories D.
WholeIn(F, D) ==
    \A r \in Resources :
        LET listed == r \in F[StateFile].data
        IN  /\ \A i \in 1..4 : (r \in F[Managed[i]].data) = listed
            /\ \A i \in 1..3 : F[Created(r)[i]].exists = listed
            /\ D[r] = listed

\* The captured files O were whole but for w's directory, and w is not in them.
CapturedWhole(O, D, w) ==
    /\ \A r \in Resources :
         LET listed == r \in O[StateFile].data
         IN  /\ \A i \in 1..4 : (r \in O[Managed[i]].data) = listed
             /\ \A i \in 1..3 : O[Created(r)[i]].exists = listed
             /\ r # w => D[r] = listed
    /\ w \notin O[StateFile].data

\* The new files N are w's own, and managed files that list w as well.
AddsItsOwn(O, N, w) ==
    /\ \A i \in 1..3 : N[Created(w)[i]].exists = TRUE
    /\ \A i \in 1..4, r \in Resources :
         (r \in N[Managed[i]].data) = (r \in O[StateFile].data \/ r = w)

\* The first k files of the plan are the new ones, and all the others as captured.
Placed(F, O, N, w, k) ==
    /\ \A i \in 1..7 : F[Plan(w)[i]] = IF i <= k THEN N[Plan(w)[i]] ELSE O[Plan(w)[i]]
    /\ \A f \in Files : (\A i \in 1..7 : f # Plan(w)[i]) => F[f] = O[f]

\* Every file is as captured, and w's directory is gone.
TakenBack(F, D, O, w) == (\A f \in Files : F[f] = O[f]) /\ D[w] = FALSE

\* Where the holder of the lock stands.
HolderInv(g) ==
    /\ pc[g] \in {"plan", "unlock"} => WholeIn(file, dir)
    /\ pc[g] \in Placing =>
         /\ CapturedWhole(old[g], dir, Wants[g]) /\ AddsItsOwn(old[g], new[g], Wants[g])
         /\ Placed(file, old[g], new[g], Wants[g], IF pc[g] = "verify" THEN at[g] ELSE at[g] - 1)
         /\ at[g] > 1 => dir[Wants[g]] = TRUE
    /\ pc[g] \in Undoing =>
         /\ CapturedWhole(old[g], dir, Wants[g])
         /\ \A f \in Files : file[f] = old[g][f] \/ \E i \in 1..Len(todo[g]) : todo[g][i] = f

\* How far along its plan a generator is.
PlanStands(g) ==
    /\ pc[g] \in {"idle", "begin", "plan"} => at[g] = 1
    /\ pc[g] = "create" => at[g] \in 1..3
    /\ pc[g] \in {"compare", "replace", "verify"} => at[g] \in 4..7
    /\ pc[g] = "check" => at[g] = 8
    /\ pc[g] = "restore" => todo[g] # <<>>
    /\ pc[g] \in AtWork <=> lock = g

GeneratorTypes ==
    /\ file = [f \in Files |-> file[f]] /\ dir = [r \in Resources |-> dir[r]]
    /\ old = [g \in Generators |-> old[g]] /\ new = [g \in Generators |-> new[g]]
    /\ pc \in [Generators -> AtWork \cup {"idle", "begin", "failed", "returned", "crashed"}]
    /\ at \in [Generators -> 1..8] /\ todo \in [Generators -> Seq(Files)] /\ edits \in Nat

GeneratorInv ==
    /\ GeneratorTypes /\ \A g \in Generators : PlanStands(g)
    /\ damaged = {} /\ edits = 0 => /\ lock = Nobody => WholeIn(file, dir)
                                    /\ \A g \in Generators : lock = g => HolderInv(g)

\* The files of a plan are different, and other resources' files are not among them.
LEMMA PlanFacts ==
    ASSUME NEW w \in Resources
    PROVE  /\ \A i \in 1..7 : Plan(w)[i] \in Files
           /\ \A i \in 1..3 : Plan(w)[i] = Created(w)[i]
           /\ \A i \in 1..4 : Plan(w)[i + 3] = Managed[i] /\ i + 3 \in 1..7
           /\ \A i, j \in 1..7 : Plan(w)[i] = Plan(w)[j] => i = j
           /\ \A r \in Resources, i \in 1..3 : /\ Created(r)[i] \in Files
                                               /\ r # w => \A j \in 1..7 : Created(r)[i] # Plan(w)[j]
           /\ StateFile = Managed[4]
<1>1. \A i \in 1..7 : Plan(w)[i] = IF i <= 3 THEN Created(w)[i] ELSE Managed[i - 3]
  BY Zenon DEF Plan
<1>2. \A r \in Resources : /\ Created(r)[1] = <<"model", r>> /\ Created(r)[2] = <<"view", r>>
                           /\ Created(r)[3] = <<"migration", r>>
  BY DEF Created, Kinds
<1>3. /\ Managed[1] = <<"registry", "all">> /\ Managed[2] = <<"views", "all">>
      /\ Managed[3] = <<"orm", "all">> /\ Managed[4] = <<"state", "all">>
  BY Zenon DEF Managed
<1>4. /\ Plan(w)[1] = <<"model", w>> /\ Plan(w)[2] = <<"view", w>> /\ Plan(w)[3] = <<"migration", w>>
      /\ Plan(w)[4] = <<"registry", "all">> /\ Plan(w)[5] = <<"views", "all">>
      /\ Plan(w)[6] = <<"orm", "all">> /\ Plan(w)[7] = <<"state", "all">>
  BY <1>1, <1>2, <1>3
<1>5. \A i \in 1..7 : i \in {1, 2, 3, 4, 5, 6, 7}
  OBVIOUS
<1>6. \A i \in 1..3 : i \in {1, 2, 3} /\ i \in 1..7 /\ i <= 3
  OBVIOUS
<1>7. \A i \in 1..4 : i \in {1, 2, 3, 4} /\ i + 3 \in 1..7 /\ ~(i + 3 <= 3) /\ i + 3 - 3 = i
  OBVIOUS
<1>8. \A i \in 1..3 : Plan(w)[i] = Created(w)[i]
  BY Zenon, <1>1, <1>6
<1>9. \A i \in 1..4 : Plan(w)[i + 3] = Managed[i] /\ i + 3 \in 1..7
  BY <1>1, <1>7
<1>10. \A i, j \in 1..7 : Plan(w)[i] = Plan(w)[j] => i = j
  <2> SUFFICES ASSUME NEW i \in 1..7, NEW j \in 1..7, i # j PROVE Plan(w)[i] # Plan(w)[j]
    BY Zenon
  <2> QED BY <1>4, <1>5
<1>11. \A i \in 1..7 : Plan(w)[i] \in Files
  <2>1. \A i \in 1..3 : Created(w)[i] \in Files
    BY DEF Files
  <2>2. \A i \in 1..4 : Managed[i] \in Files
    BY DEF Files, ManagedFiles
  <2>3. \A i \in 1..7 : i \in 1..3 \/ (i - 3 \in 1..4 /\ ~(i <= 3))
    OBVIOUS
  <2> QED BY Zenon, <1>1, <1>6, <2>1, <2>2, <2>3
<1>12. ASSUME NEW r \in Resources, NEW i \in 1..3
       PROVE  Created(r)[i] \in Files /\ (r # w => \A j \in 1..7 : Created(r)[i] # Plan(w)[j])
  <2>1. Created(r)[i] \in Files
    BY DEF Files
  <2>2. ASSUME r # w, NEW j \in 1..7 PROVE Created(r)[i] # Plan(w)[j]
    BY <1>2, <1>4, <1>5, <1>6, <2>2
  <2> QED BY Zenon, <2>1, <2>2
<1> QED BY Zenon, <1>3, <1>8, <1>9, <1>10, <1>11, <1>12 DEF StateFile

\* With all seven files in place the project is whole, with the new resource in it.
LEMMA AllPlaced ==
    ASSUME NEW w \in Resources, NEW F, NEW D, NEW O, NEW N, CapturedWhole(O, D, w), AddsItsOwn(O, N, w),
           Placed(F, O, N, w, 7), D[w] = TRUE
    PROVE  WholeIn(F, D)
<1>0. /\ \A i \in 1..3 : Plan(w)[i] = Created(w)[i]
      /\ \A i \in 1..4 : Plan(w)[i + 3] = Managed[i] /\ i + 3 \in 1..7
      /\ \A r \in Resources, i \in 1..3 : /\ Created(r)[i] \in Files
                                          /\ r # w => \A j \in 1..7 : Created(r)[i] # Plan(w)[j]
      /\ StateFile = Managed[4]
  BY Zenon, PlanFacts
<1>1. \A i \in 1..3 : F[Created(w)[i]].exists = TRUE
  <2>1. \A i \in 1..3 : i \in 1..7 /\ i <= 7
    OBVIOUS
  <2>2. \A i \in 1..3 : F[Created(w)[i]] = N[Created(w)[i]]
    BY Zenon, <2>1, <1>0 DEF Placed
  <2> QED BY Zenon, <2>2 DEF AddsItsOwn
<1>2. \A i \in 1..4 : F[Managed[i]] = N[Managed[i]]
  <2>1. \A i \in 1..4 : i + 3 <= 7
    OBVIOUS
  <2> SUFFICES ASSUME NEW i \in 1..4 PROVE F[Plan(w)[i + 3]] = N[Plan(w)[i + 3]]
    BY Zenon, <1>0
  <2> QED BY Zenon, <2>1, <1>0 DEF Placed
<1>3. \A i \in 1..4, r \in Resources : (r \in F[Managed[i]].data) = (r \in O[StateFile].data \/ r = w)
  BY Zenon, <1>2 DEF AddsItsOwn
<1>4. \A r \in Resources : (r \in F[StateFile].data) = (r \in O[StateFile].data \/ r = w)
  <2>1. 4 \in 1..4
    OBVIOUS
  <2> QED BY Zenon, <1>3, <2>1, <1>0
<1>5. \A r \in Resources, i \in 1..3 : r # w => F[Created(r)[i]] = O[Created(r)[i]]
  BY Zenon, <1>0 DEF Placed
<1> SUFFICES ASSUME NEW r \in Resources
             PROVE  /\ \A i \in 1..4 : (r \in F[Managed[i]].data) = (r \in F[StateFile].data)
                    /\ \A i \in 1..3 : F[Created(r)[i]].exists = (r \in F[StateFile].data)
                    /\ D[r] = (r \in F[StateFile].data)
  BY Zenon DEF WholeIn
<1>6. CASE r = w
  BY Zenon, <1>1, <1>3, <1>4, <1>6
<1>7. CASE r # w
  BY <1>3, <1>4, <1>5, <1>7 DEF CapturedWhole
<1> QED BY Zenon, <1>6, <1>7

\* With every file as captured the project is whole, without it.
LEMMA AllTakenBack ==
    ASSUME NEW w \in Resources, NEW F, NEW D, NEW O, CapturedWhole(O, D, w),
           TakenBack(F, D, O, w)
    PROVE  WholeIn(F, D)
<1>0. \A f \in Files : F[f] = O[f]
  BY Zenon DEF TakenBack
<1>1. /\ \A i \in 1..4 : F[Managed[i]] = O[Managed[i]]
      /\ F[StateFile] = O[StateFile]
  <2>1. \A i \in 1..4 : Managed[i] \in Files
    BY Zenon, PlanFacts
  <2>2. 4 \in 1..4
    OBVIOUS
  <2> QED BY Zenon, <1>0, <2>1, <2>2, PlanFacts
<1>2. \A r \in Resources, i \in 1..3 : F[Created(r)[i]] = O[Created(r)[i]]
  BY Zenon, <1>0, PlanFacts
<1> SUFFICES ASSUME NEW r \in Resources
             PROVE  /\ \A i \in 1..4 : (r \in F[Managed[i]].data) = (r \in F[StateFile].data)
                    /\ \A i \in 1..3 : F[Created(r)[i]].exists = (r \in F[StateFile].data)
                    /\ D[r] = (r \in F[StateFile].data)
  BY Zenon DEF WholeIn
<1>3. CASE r = w
  <2>1. /\ \A i \in 1..4 : (r \in O[Managed[i]].data) = (r \in O[StateFile].data)
        /\ \A i \in 1..3 : O[Created(r)[i]].exists = (r \in O[StateFile].data)
    BY Zenon DEF CapturedWhole
  <2>2. D[r] = FALSE /\ r \notin O[StateFile].data
    <3>1. D[w] = FALSE /\ w \notin O[StateFile].data
      BY Zenon DEF TakenBack, CapturedWhole
    <3> QED BY Zenon, <1>3, <3>1
  <2>3. D[r] = (r \in O[StateFile].data)
    <3>1. (r \in O[StateFile].data) = FALSE
      BY <2>2
    <3> QED BY Zenon, <2>2, <3>1
  <2> QED BY Zenon, <1>1, <1>2, <2>1, <2>3
<1>4. CASE r # w
  BY <1>1, <1>2, <1>4 DEF CapturedWhole
<1> QED BY Zenon, <1>3, <1>4

Sound == damaged = {} /\ edits = 0

\* At first there are the four managed files, with nothing in them.
LEMMA GeneratorStart == GeneratorInit => GeneratorInv
<1> SUFFICES ASSUME GeneratorInit PROVE GeneratorInv
  OBVIOUS
<1>1. \A i \in 1..4 : Managed[i] \in Files /\ file[Managed[i]] = With({})
  <2>1. \A i \in 1..4 : Managed[i] \in Files /\ Managed[i] \in ManagedFiles
    BY DEF Files, ManagedFiles
  <2> QED BY Zenon, <2>1 DEF GeneratorInit
<1>2. \A r \in Resources, i \in 1..3 : Created(r)[i] \in Files /\ file[Created(r)[i]] = Absent
  <2> SUFFICES ASSUME NEW r \in Resources, NEW i \in 1..3
               PROVE  Created(r)[i] \in Files /\ file[Created(r)[i]] = Absent
    BY Zenon
  <2>1. Created(r)[i] \in Files
    BY DEF Files
  <2>2. Created(r)[i] \notin ManagedFiles
    <3>1. i \in {1, 2, 3}
      OBVIOUS
    <3>2. Created(r)[i] = <<Kinds[i], r>>
      BY Zenon DEF Created
    <3>3. Kinds[i] \notin {"registry", "views", "orm", "state"}
      BY <3>1 DEF Kinds
    <3>4. \A f \in ManagedFiles : f[1] \in {"registry", "views", "orm", "state"}
      BY DEF ManagedFiles, Managed
    <3> QED BY <3>2, <3>3, <3>4
  <2> QED BY Zenon, <2>1, <2>2 DEF GeneratorInit
<1>3. WholeIn(file, dir)
  <2>1. StateFile = Managed[4] /\ 4 \in 1..4
    BY DEF Managed, StateFile
  <2>2. With({}).data = {} /\ Absent.exists = FALSE
    BY Zenon DEF With, Absent
  <2>3. \A r \in Resources : dir[r] = FALSE
    BY Zenon DEF GeneratorInit
  <2> SUFFICES ASSUME NEW r \in Resources
               PROVE  /\ \A i \in 1..4 : (r \in file[Managed[i]].data) = (r \in file[StateFile].data)
                      /\ \A i \in 1..3 : file[Created(r)[i]].exists = (r \in file[StateFile].data)
                      /\ dir[r] = (r \in file[StateFile].data)
    BY Zenon DEF WholeIn
  <2>4. /\ (r \in file[StateFile].data) = FALSE
        /\ \A i \in 1..4 : (r \in file[Managed[i]].data) = FALSE
        /\ \A i \in 1..3 : file[Created(r)[i]].exists = FALSE
    <3>1. \A i \in 1..4 : (r \in file[Managed[i]].data) = FALSE
      BY <1>1, <2>2
    <3>2. \A i \in 1..3 : file[Created(r)[i]].exists = FALSE
      BY Zenon, <1>2, <2>2
    <3> QED BY Zenon, <3>1, <3>2, <2>1
  <2> QED BY Zenon, <2>3, <2>4
<1>4. GeneratorTypes
  <2>1. <<>> \in Seq(Files) /\ 0 \in Nat /\ 1 \in 1..8
    OBVIOUS
  <2>2. /\ pc \in [Generators -> AtWork \cup {"idle", "begin", "failed", "returned", "crashed"}]
        /\ at \in [Generators -> 1..8] /\ todo \in [Generators -> Seq(Files)] /\ edits \in Nat
    BY Zenon, <2>1 DEF GeneratorInit
  <2>3. /\ file = [f \in Files |-> file[f]] /\ dir = [r \in Resources |-> dir[r]]
        /\ old = [g \in Generators |-> old[g]] /\ new = [g \in Generators |-> new[g]]
    BY Zenon DEF GeneratorInit
  <2> QED BY Zenon, <2>2, <2>3 DEF GeneratorTypes
<1>5. ASSUME NEW g \in Generators PROVE PlanStands(g)
  <2>1. pc[g] = "idle" /\ at[g] = 1 /\ lock # g
    BY Zenon, GeneratorAssumption DEF GeneratorInit
  <2> QED BY Zenon, <2>1 DEF PlanStands, AtWork, Placing, Undoing
<1>6. \A g \in Generators : lock # g
  BY Zenon, GeneratorAssumption DEF GeneratorInit
<1> QED BY Zenon, <1>3, <1>4, <1>5, <1>6 DEF GeneratorInv

\* A step of the generator that has the lock, and keeps it.
LEMMA HolderMoves ==
    ASSUME GeneratorInv, NEW g \in Generators, lock = g, lock' = lock, GeneratorTypes', PlanStands(g)',
           pc' = [pc EXCEPT ![g] = pc'[g]], at' = [at EXCEPT ![g] = at'[g]], todo' = [todo EXCEPT ![g] = todo'[g]],
           Sound' => HolderInv(g)'
    PROVE  GeneratorInv'
<1>1. ASSUME NEW q \in Generators PROVE PlanStands(q)'
  <2>1. CASE q = g
    BY Zenon, <2>1
  <2>2. CASE q # g
    <3>1. pc'[q] = pc[q] /\ at'[q] = at[q] /\ todo'[q] = todo[q]
      BY Zenon, <2>2 DEF GeneratorInv, GeneratorTypes
    <3>2. PlanStands(q)
      BY Zenon DEF GeneratorInv
    <3> QED BY Zenon, <3>1, <3>2 DEF PlanStands
  <2> QED BY Zenon, <2>1, <2>2
<1>2. lock' # Nobody
  BY Zenon, GeneratorAssumption
<1>3. \A q \in Generators : lock' = q => q = g
  BY Zenon
<1>4. Sound' => \A q \in Generators : lock' = q => HolderInv(q)'
  BY Zenon, <1>3
<1> QED BY Zenon, <1>1, <1>2, <1>4 DEF GeneratorInv, Sound

\* The rollback has every file of the plan that is not as captured before it.
LEMMA Undone ==
    ASSUME GeneratorInv, NEW g \in Generators, lock = g, lock' = lock, NEW n \in 0..7, Undo(g, n),
           pc[g] \in Placing, (IF pc[g] = "verify" THEN at[g] ELSE at[g] - 1) <= n,
           old' = old, new' = new, at' = at, edits' = edits, Sound' => Sound /\ file' = file,
           file' = [f \in Files |-> file'[f]], dir' = [r \in Resources |-> dir'[r]],
           \A r \in Resources : r # Wants[g] => dir'[r] = dir[r]
    PROVE  GeneratorInv'
<1> DEFINE w == Wants[g]
           c == IF n < 3 THEN n ELSE 3
           S == [i \in 1..n |-> Plan(w)[IF i <= c THEN c + 1 - i ELSE i]]
           K == IF pc[g] = "verify" THEN at[g] ELSE at[g] - 1
<1>0. w \in Resources
  BY Zenon, GeneratorAssumption
<1>1. todo' = [todo EXCEPT ![g] = S] /\ pc' = [pc EXCEPT ![g] = "undo"]
  BY Zenon DEF Undo, Goto
<1>2. \A i \in 1..n : /\ (IF i <= c THEN c + 1 - i ELSE i) \in 1..n /\ (IF i <= c THEN c + 1 - i ELSE i) \in 1..7
                      /\ (IF (IF i <= c THEN c + 1 - i ELSE i) <= c THEN c + 1 - (IF i <= c THEN c + 1 - i ELSE i)
                          ELSE (IF i <= c THEN c + 1 - i ELSE i)) = i
  OBVIOUS
<1>3. \A i \in 1..n : S[i] \in Files
  BY Zenon, <1>0, <1>2, PlanFacts
<1>4. S \in Seq(Files) /\ Len(S) = n
  <2> HIDE DEF w, c
  <2>1. n \in Nat
    OBVIOUS
  <2> QED BY <1>3, <2>1
<1>5. \A j \in 1..n : \E i \in 1..n : S[i] = Plan(w)[j]
  <2> SUFFICES ASSUME NEW j \in 1..n PROVE \E i \in 1..n : S[i] = Plan(w)[j]
    BY Zenon
  <2> DEFINE i == IF j <= c THEN c + 1 - j ELSE j
  <2>1. i \in 1..n /\ (IF i <= c THEN c + 1 - i ELSE i) = j
    BY Zenon, <1>2
  <2> HIDE DEF i, c
  <2>2. S[i] = Plan(w)[j]
    BY Zenon, <2>1
  <2> QED BY Zenon, <2>1, <2>2
<1> HIDE DEF S, w, c
<1>6. pc \in [Generators -> AtWork \cup {"idle", "begin", "failed", "returned", "crashed"}] /\ todo \in [Generators -> Seq(Files)]
  BY Zenon DEF GeneratorInv, GeneratorTypes
<1>7. pc'[g] = "undo" /\ todo'[g] = S
  BY Zenon, <1>1, <1>6
<1>8. GeneratorTypes'
  <2>1. pc' \in [Generators -> AtWork \cup {"idle", "begin", "failed", "returned", "crashed"}]
    BY Zenon, <1>1, <1>6 DEF AtWork, Undoing
  <2>2. todo' \in [Generators -> Seq(Files)]
    BY Zenon, <1>1, <1>4, <1>6
  <2>3. GeneratorTypes
    BY Zenon DEF GeneratorInv
  <2> QED BY Zenon, <2>1, <2>2, <2>3 DEF GeneratorTypes
<1>9. PlanStands(g)'
  BY Zenon, <1>7 DEF PlanStands, AtWork, Placing, Undoing
<1>10. ASSUME Sound' PROVE HolderInv(g)'
  <2>1. Sound /\ file' = file
    BY Zenon, <1>10
  <2>2. CapturedWhole(old[g], dir, w) /\ Placed(file, old[g], new[g], w, K)
    BY Zenon, <2>1 DEF GeneratorInv, HolderInv, Sound, w
  <2>3. CapturedWhole(old'[g], dir', w)
    BY Zenon, <2>2 DEF CapturedWhole, w
  <2>4. ASSUME NEW f \in Files, file[f] # old[g][f] PROVE \E i \in 1..n : S[i] = f
    <3>1. PICK j \in 1..7 : f = Plan(w)[j]
      BY Zenon, <2>2, <2>4 DEF Placed
    <3>2. j <= K
      BY Zenon, <2>2, <2>4, <3>1 DEF Placed
    <3>3. j \in 1..n
      <4>1. at[g] \in 1..8
        BY Zenon DEF GeneratorInv, GeneratorTypes
      <4>2. K \in Int /\ K <= n
        BY <4>1
      <4> HIDE DEF K
      <4> QED BY <3>2, <4>2
    <3> QED BY Zenon, <1>5, <3>1, <3>3
  <2>5. \A f \in Files : file'[f] = old'[g][f] \/ \E i \in 1..Len(todo'[g]) : todo'[g][i] = f
    BY Zenon, <2>1, <2>4, <1>4, <1>7
  <2>6. pc'[g] \notin {"plan", "unlock"} /\ pc'[g] \notin Placing
    BY Zenon, <1>7 DEF Placing
  <2> QED BY Zenon, <2>3, <2>5, <2>6 DEF HolderInv, w
<1>11. at' = [at EXCEPT ![g] = at'[g]]
  BY Zenon DEF GeneratorInv, GeneratorTypes
<1> QED BY Zenon, <1>1, <1>7, <1>8, <1>9, <1>10, <1>11, HolderMoves

\* What the invariant says of the generator that has the lock.
LEMMA AtWorkHolds ==
    ASSUME GeneratorInv, NEW g \in Generators, pc[g] \in AtWork
    PROVE  /\ lock = g /\ PlanStands(g) /\ GeneratorTypes /\ (Sound => HolderInv(g))
           /\ Wants[g] \in Resources /\ at[g] \in 1..8
<1>1. GeneratorTypes /\ PlanStands(g)
  BY Zenon DEF GeneratorInv
<1>2. lock = g
  BY Zenon, <1>1 DEF PlanStands
<1>3. at[g] \in 1..8
  BY Zenon, <1>1 DEF GeneratorTypes
<1> QED BY Zenon, <1>1, <1>2, <1>3, GeneratorAssumption DEF GeneratorInv, Sound

\* Only the position of a generator that has no lock changes.
LEMMA OtherMoves ==
    ASSUME GeneratorInv, NEW g \in Generators, NEW step \in {"begin", "failed"}, Goto(g, step),
           pc[g] \in {"idle", "begin"},
           UNCHANGED <<project, lock, at, old, new, todo, damaged, edits>>
    PROVE  GeneratorInv'
<1>1. /\ pc' = [pc EXCEPT ![g] = step] /\ lock' = lock /\ at' = at /\ old' = old /\ new' = new /\ todo' = todo
      /\ damaged' = damaged /\ edits' = edits /\ file' = file /\ dir' = dir
  BY Zenon DEF Goto, project
<1>2. GeneratorTypes /\ \A q \in Generators : PlanStands(q)
  BY Zenon DEF GeneratorInv
<1>3. pc' \in [Generators -> AtWork \cup {"idle", "begin", "failed", "returned", "crashed"}]
  BY Zenon, <1>1, <1>2 DEF GeneratorTypes
<1>4. GeneratorTypes'
  BY Zenon, <1>1, <1>2, <1>3 DEF GeneratorTypes
<1>5. pc'[g] = step /\ \A q \in Generators : q # g => pc'[q] = pc[q]
  BY Zenon, <1>1, <1>2 DEF GeneratorTypes
<1>6. lock # g
  BY Zenon, <1>2 DEF PlanStands, AtWork, Placing, Undoing
<1>7. PlanStands(g)'
  <2>1. at[g] = 1
    BY Zenon, <1>2 DEF PlanStands
  <2>2. at'[g] = 1 /\ lock' # g /\ pc'[g] \in {"begin", "failed"}
    BY Zenon, <1>1, <1>5, <1>6, <2>1
  <2> QED BY Zenon, <2>2 DEF PlanStands, AtWork, Placing, Undoing
<1>8. ASSUME NEW q \in Generators, q # g PROVE PlanStands(q)'
  <2>1. PlanStands(q) /\ pc'[q] = pc[q]
    BY Zenon, <1>2, <1>5, <1>8
  <2> QED BY Zenon, <1>1, <2>1 DEF PlanStands
<1>9. ASSUME Sound', NEW q \in Generators, lock' = q PROVE HolderInv(q)'
  <2>1. HolderInv(q) /\ pc'[q] = pc[q]
    BY Zenon, <1>1, <1>5, <1>6, <1>9 DEF GeneratorInv, Sound
  <2> QED BY Zenon, <1>1, <2>1 DEF HolderInv
<1>10. ASSUME Sound', lock' = Nobody PROVE WholeIn(file', dir')
  BY Zenon, <1>1, <1>10 DEF GeneratorInv, Sound
<1> QED BY Zenon, <1>4, <1>7, <1>8, <1>9, <1>10 DEF GeneratorInv, Sound

\* acquireGeneratorLock: the project that the holder finds is whole.
LEMMA AcquireKeeps ==
    ASSUME GeneratorInv, NEW g \in Generators, Acquire(g)
    PROVE  GeneratorInv'
<1>1. CASE Fault /\ Goto(g, "failed") /\ UNCHANGED lock
  <2>1. pc[g] \in {"idle", "begin"} /\ UNCHANGED <<project, lock, at, old, new, todo, damaged, edits>>
    BY Zenon, <1>1 DEF Acquire, Fault
  <2> QED BY Zenon, <1>1, <2>1, OtherMoves
<1>2. CASE lock = Nobody /\ lock' = g /\ Goto(g, "plan") /\ UNCHANGED bounds
  <2>1. /\ pc' = [pc EXCEPT ![g] = "plan"] /\ lock' = g /\ at' = at /\ old' = old /\ new' = new /\ todo' = todo
        /\ damaged' = damaged /\ edits' = edits /\ file' = file /\ dir' = dir /\ pc[g] = "begin"
    BY Zenon, <1>2 DEF Goto, project, bounds, Acquire
  <2>2. GeneratorTypes /\ \A q \in Generators : PlanStands(q)
    BY Zenon DEF GeneratorInv
  <2>3. pc' \in [Generators -> AtWork \cup {"idle", "begin", "failed", "returned", "crashed"}]
    BY Zenon, <2>1, <2>2 DEF GeneratorTypes, AtWork
  <2>4. GeneratorTypes'
    BY Zenon, <2>1, <2>2, <2>3 DEF GeneratorTypes
  <2>5. pc'[g] = "plan" /\ \A q \in Generators : q # g => pc'[q] = pc[q]
    BY Zenon, <2>1, <2>2 DEF GeneratorTypes
  <2>6. PlanStands(g)'
    <3>1. at'[g] = 1
      BY Zenon, <2>1, <2>2 DEF PlanStands
    <3> QED BY Zenon, <2>1, <2>5, <3>1 DEF PlanStands, AtWork, Placing, Undoing
  <2>7. ASSUME NEW q \in Generators, q # g PROVE PlanStands(q)'
    <3>1. PlanStands(q) /\ pc'[q] = pc[q] /\ lock # q /\ lock' # q
      BY Zenon, <1>2, <2>1, <2>2, <2>5, <2>7, GeneratorAssumption
    <3> QED BY Zenon, <2>1, <3>1 DEF PlanStands
  <2>8. ASSUME Sound' PROVE HolderInv(g)'
    <3>1. WholeIn(file', dir')
      BY Zenon, <1>2, <2>1, <2>8 DEF GeneratorInv, Sound
    <3> QED BY Zenon, <2>5, <3>1 DEF HolderInv, Placing, Undoing
  <2>9. lock' # Nobody /\ \A q \in Generators : lock' = q => q = g
    BY Zenon, <2>1, GeneratorAssumption
  <2>10. \A q \in Generators : PlanStands(q)'
    BY Zenon, <2>6, <2>7
  <2> QED BY Zenon, <2>4, <2>8, <2>9, <2>10 DEF GeneratorInv, Sound
<1> QED BY Zenon, <1>1, <1>2 DEF Acquire

\* One more file of the plan is in place.
LEMMA PlacedNext ==
    ASSUME NEW w \in Resources, NEW F, NEW G, NEW O, NEW N, NEW k \in 1..7, Placed(F, O, N, w, k - 1),
           F = [f \in Files |-> F[f]], G = [F EXCEPT ![Plan(w)[k]] = N[Plan(w)[k]]]
    PROVE  Placed(G, O, N, w, k)
<1>1. /\ \A i \in 1..7 : Plan(w)[i] \in Files
      /\ \A i, j \in 1..7 : Plan(w)[i] = Plan(w)[j] => i = j
  BY Zenon, PlanFacts
<1>2. \A f \in Files : G[f] = IF f = Plan(w)[k] THEN N[Plan(w)[k]] ELSE F[f]
  BY Zenon
<1>3. ASSUME NEW i \in 1..7
      PROVE  G[Plan(w)[i]] = IF i <= k THEN N[Plan(w)[i]] ELSE O[Plan(w)[i]]
  <2>1. CASE i = k
    <3>1. i <= k
      BY <2>1
    <3> QED BY Zenon, <1>1, <1>2, <2>1, <3>1
  <2>2. CASE i # k
    <3>1. i <= k <=> i <= k - 1
      BY <2>2
    <3>2. G[Plan(w)[i]] = F[Plan(w)[i]]
      BY Zenon, <1>1, <1>2, <2>2
    <3> QED BY Zenon, <3>1, <3>2 DEF Placed
  <2> QED BY Zenon, <2>1, <2>2
<1>4. ASSUME NEW f \in Files, \A i \in 1..7 : f # Plan(w)[i] PROVE G[f] = O[f]
  <2>1. G[f] = F[f]
    BY Zenon, <1>2, <1>4
  <2> QED BY Zenon, <1>4, <2>1 DEF Placed
<1> QED BY Zenon, <1>3, <1>4 DEF Placed

\* The next file's turn, or the check's after the last.
LEMMA Advanced ==
    ASSUME GeneratorInv, NEW g \in Generators, pc[g] \in {"create", "verify"}, Advance(g),
           UNCHANGED <<lock, old, new, damaged, edits>>,
           file' = [f \in Files |-> file'[f]], dir' = [r \in Resources |-> dir'[r]],
           \A r \in Resources : r # Wants[g] => dir'[r] = dir[r],
           dir'[Wants[g]] = TRUE \/ (dir' = dir /\ at[g] > 1),
           Sound => Placed(file', old[g], new[g], Wants[g], at[g])
    PROVE  GeneratorInv'
<1>0. /\ lock = g /\ PlanStands(g) /\ GeneratorTypes /\ (Sound => HolderInv(g))
      /\ Wants[g] \in Resources /\ at[g] \in 1..8
  <2>1. pc[g] \in AtWork
    BY Zenon DEF AtWork, Placing
  <2> QED BY Zenon, <2>1, AtWorkHolds
<1>1. /\ at' = [at EXCEPT ![g] = at[g] + 1] /\ todo' = todo
      /\ pc' = [pc EXCEPT ![g] = IF at[g] < 3 THEN "create" ELSE IF at[g] < 7 THEN "compare" ELSE "check"]
      /\ lock' = lock /\ old' = old /\ new' = new /\ damaged' = damaged /\ edits' = edits
  BY Zenon DEF Advance, Goto
<1>2. /\ pc'[g] = IF at[g] < 3 THEN "create" ELSE IF at[g] < 7 THEN "compare" ELSE "check"
      /\ at'[g] = at[g] + 1
  BY Zenon, <1>0, <1>1 DEF GeneratorTypes
<1>3. at[g] \in 1..7
  BY <1>0 DEF PlanStands
<1>4. pc'[g] \in {"create", "compare", "check"} /\ at'[g] \in 1..8 /\ at'[g] - 1 = at[g] /\ at'[g] > 1
  BY <1>2, <1>3
<1>5. GeneratorTypes'
  <2>1. pc' \in [Generators -> AtWork \cup {"idle", "begin", "failed", "returned", "crashed"}]
    <3>1. pc'[g] \in AtWork
      BY Zenon, <1>4 DEF AtWork, Placing
    <3> QED BY Zenon, <1>0, <1>1, <1>2, <3>1 DEF GeneratorTypes
  <2>2. at' \in [Generators -> 1..8]
    BY Zenon, <1>0, <1>1, <1>2, <1>4 DEF GeneratorTypes
  <2> QED BY Zenon, <1>0, <1>1, <2>1, <2>2 DEF GeneratorTypes
<1>6. PlanStands(g)'
  <2>1. CASE at[g] < 3
    <3>1. pc'[g] = "create" /\ at'[g] \in 1..3
      BY <1>2, <1>3, <2>1
    <3> QED BY Zenon, <1>0, <1>1, <3>1 DEF PlanStands, AtWork, Placing
  <2>2. CASE ~(at[g] < 3) /\ at[g] < 7
    <3>1. pc'[g] = "compare" /\ at'[g] \in 4..7
      BY <1>2, <1>3, <2>2
    <3> QED BY Zenon, <1>0, <1>1, <3>1 DEF PlanStands, AtWork, Placing
  <2>3. CASE ~(at[g] < 3) /\ ~(at[g] < 7)
    <3>1. pc'[g] = "check" /\ at'[g] = 8
      BY <1>2, <1>3, <2>3
    <3> QED BY Zenon, <1>0, <1>1, <3>1 DEF PlanStands, AtWork, Placing
  <2> QED BY Zenon, <2>1, <2>2, <2>3
<1>7. ASSUME Sound' PROVE HolderInv(g)'
  <2>1. Sound /\ HolderInv(g)
    BY Zenon, <1>0, <1>1, <1>7 DEF Sound
  <2>2. /\ CapturedWhole(old[g], dir, Wants[g]) /\ AddsItsOwn(old[g], new[g], Wants[g])
        /\ at[g] > 1 => dir[Wants[g]] = TRUE
    BY Zenon, <2>1 DEF HolderInv, Placing
  <2>3. CapturedWhole(old'[g], dir', Wants[g]) /\ AddsItsOwn(old'[g], new'[g], Wants[g])
    <3>1. CapturedWhole(old[g], dir', Wants[g])
      BY Zenon, <2>2 DEF CapturedWhole
    <3> QED BY Zenon, <1>1, <2>2, <3>1
  <2>4. dir'[Wants[g]] = TRUE
    BY Zenon, <2>2
  <2>5. Placed(file', old'[g], new'[g], Wants[g], at'[g] - 1)
    BY Zenon, <1>1, <1>4, <2>1
  <2>6. pc'[g] \notin {"plan", "unlock"} /\ pc'[g] \notin Undoing /\ pc'[g] # "verify"
    BY Zenon, <1>4 DEF Undoing
  <2> QED BY Zenon, <2>3, <2>4, <2>5, <2>6 DEF HolderInv
<1>8. /\ pc' = [pc EXCEPT ![g] = pc'[g]] /\ at' = [at EXCEPT ![g] = at'[g]] /\ todo' = [todo EXCEPT ![g] = todo'[g]]
  <2>1. todo' = [todo EXCEPT ![g] = todo'[g]]
    BY Zenon, <1>0, <1>1 DEF GeneratorTypes
  <2> QED BY Zenon, <1>1, <1>2, <2>1
<1> QED BY Zenon, <1>0, <1>1, <1>5, <1>6, <1>7, <1>8, HolderMoves

\* os.OpenFile with O_EXCL, and the state read back.
LEMMA CreateKeeps ==
    ASSUME GeneratorInv, NEW g \in Generators, Create(g)
    PROVE  GeneratorInv'
<1>0. /\ lock = g /\ PlanStands(g) /\ GeneratorTypes /\ (Sound => HolderInv(g))
      /\ Wants[g] \in Resources /\ at[g] \in 1..8 /\ pc[g] = "create"
  <2>1. pc[g] = "create" /\ pc[g] \in AtWork
    BY Zenon DEF AtWork, Placing, Create
  <2> QED BY Zenon, <2>1, AtWorkHolds
<1>1. at[g] \in 1..3 /\ at[g] \in 1..7 /\ at[g] - 1 \in 0..7 /\ at[g] - 1 <= at[g] - 1
  <2>1. at[g] \in 1..3
    BY Zenon, <1>0 DEF PlanStands
  <2> QED BY <2>1
<1>2. dir' = [dir EXCEPT ![Wants[g]] = TRUE] /\ lock' = lock /\ old' = old /\ new' = new
  BY Zenon DEF Create
<1>3. /\ dir' = [r \in Resources |-> dir'[r]] /\ dir'[Wants[g]] = TRUE
      /\ \A r \in Resources : r # Wants[g] => dir'[r] = dir[r]
  <2>1. dir = [r \in Resources |-> dir[r]]
    BY Zenon, <1>0 DEF GeneratorTypes
  <2> QED BY Zenon, <1>0, <1>2, <2>1
<1>4. file = [f \in Files |-> file[f]]
  BY Zenon, <1>0 DEF GeneratorTypes
<1>5. ASSUME file' = [file EXCEPT ![Target(g)] = new[g][Target(g)]] PROVE file' = [f \in Files |-> file'[f]]
  BY Zenon, <1>4, <1>5
<1>6. pc[g] \in Placing /\ pc[g] \in {"create", "verify"} /\ (IF pc[g] = "verify" THEN at[g] ELSE at[g] - 1) = at[g] - 1
  BY Zenon, <1>0 DEF Placing
<1>7. CASE /\ file' = [file EXCEPT ![Target(g)] = new[g][Target(g)]]
           /\ Advance(g) /\ UNCHANGED <<damaged, bounds>>
  <2>1. UNCHANGED <<lock, old, new, damaged, edits>>
    BY Zenon, <1>2, <1>7 DEF bounds
  <2>2. ASSUME Sound PROVE Placed(file', old[g], new[g], Wants[g], at[g])
    <3>1. Placed(file, old[g], new[g], Wants[g], at[g] - 1)
      BY Zenon, <1>0, <1>6, <2>2 DEF HolderInv
    <3>2. file' = [file EXCEPT ![Plan(Wants[g])[at[g]]] = new[g][Plan(Wants[g])[at[g]]]]
      BY Zenon, <1>7 DEF Target
    <3>3. Wants[g] \in Resources /\ at[g] \in 1..7
      BY Zenon, <1>0, <1>1
    <3> QED BY Zenon, <1>4, <3>1, <3>2, <3>3, PlacedNext
  <2> QED BY Zenon, <1>3, <1>5, <1>6, <1>7, <2>1, <2>2, Advanced
<1>8. CASE /\ file' = [file EXCEPT ![Target(g)] = new[g][Target(g)]]
           /\ Fault /\ Undo(g, at[g] - 1) /\ damaged' = damaged \cup {"capture"} /\ UNCHANGED at
  <2>1. at' = at /\ edits' = edits /\ (Sound' => Sound /\ file' = file)
    BY Zenon, <1>8 DEF Fault, Sound
  <2>2. /\ file' = [f \in Files |-> file'[f]] /\ (IF pc[g] = "verify" THEN at[g] ELSE at[g] - 1) <= at[g] - 1
        /\ lock = g /\ at[g] - 1 \in 0..7 /\ pc[g] \in Placing /\ Undo(g, at[g] - 1)
    BY Zenon, <1>0, <1>1, <1>5, <1>6, <1>8
  <2> QED BY Zenon, <1>2, <1>3, <2>1, <2>2, Undone
<1>9. CASE Undo(g, at[g] - 1) /\ UNCHANGED <<file, at, damaged>> /\ edits' = edits
  <2>1. at' = at /\ edits' = edits /\ file' = file /\ (Sound' => Sound /\ file' = file)
    BY Zenon, <1>9 DEF Sound
  <2>2. file' = [f \in Files |-> file'[f]] /\ (IF pc[g] = "verify" THEN at[g] ELSE at[g] - 1) <= at[g] - 1
    BY Zenon, <1>1, <1>4, <1>6, <2>1
  <2> QED BY Zenon, <1>0, <1>1, <1>2, <1>3, <1>6, <1>9, <2>1, <2>2, Undone
<1>10. \/ /\ file' = [file EXCEPT ![Target(g)] = new[g][Target(g)]]
          /\ Advance(g) /\ UNCHANGED <<damaged, bounds>>
       \/ /\ file' = [file EXCEPT ![Target(g)] = new[g][Target(g)]]
          /\ Fault /\ Undo(g, at[g] - 1) /\ damaged' = damaged \cup {"capture"} /\ UNCHANGED at
       \/ Undo(g, at[g] - 1) /\ UNCHANGED <<file, at, damaged>> /\ edits' = edits
  BY Zenon DEF Create, Fault, bounds
<1> QED BY Zenon, <1>7, <1>8, <1>9, <1>10

\* Before the file is replaced, and after: nothing is written.
LEMMA CompareKeeps ==
    ASSUME GeneratorInv, NEW g \in Generators, Compare(g)
    PROVE  GeneratorInv'
<1>0. /\ lock = g /\ PlanStands(g) /\ GeneratorTypes /\ (Sound => HolderInv(g))
      /\ Wants[g] \in Resources /\ at[g] \in 1..8 /\ pc[g] = "compare"
  <2>1. pc[g] = "compare" /\ pc[g] \in AtWork
    BY Zenon DEF AtWork, Placing, Compare
  <2> QED BY Zenon, <2>1, AtWorkHolds
<1>1. at[g] \in 4..7 /\ at[g] \in 0..7 /\ at[g] - 1 <= at[g] /\ at[g] > 1
  <2>1. at[g] \in 4..7
    BY Zenon, <1>0 DEF PlanStands
  <2> QED BY <2>1
<1>2. /\ file' = file /\ dir' = dir /\ lock' = lock /\ at' = at /\ old' = old /\ new' = new /\ damaged' = damaged
      /\ edits' = edits
  BY Zenon DEF Compare, project, Fault, bounds
<1>3. pc[g] \in Placing /\ (IF pc[g] = "verify" THEN at[g] ELSE at[g] - 1) = at[g] - 1
  BY Zenon, <1>0 DEF Placing
<1>4. CASE Undo(g, at[g])
  <2>1. Sound' => Sound /\ file' = file
    BY Zenon, <1>2 DEF Sound
  <2>2. file' = [f \in Files |-> file'[f]] /\ dir' = [r \in Resources |-> dir'[r]]
    BY Zenon, <1>0, <1>2 DEF GeneratorTypes
  <2> QED BY Zenon, <1>0, <1>1, <1>2, <1>3, <1>4, <2>1, <2>2, Undone
<1>5. CASE Goto(g, "replace") /\ UNCHANGED todo
  <2>1. pc' = [pc EXCEPT ![g] = "replace"] /\ pc'[g] = "replace" /\ todo' = todo
    BY Zenon, <1>0, <1>5 DEF Goto, GeneratorTypes
  <2>2. pc' \in [Generators -> AtWork \cup {"idle", "begin", "failed", "returned", "crashed"}]
    BY Zenon, <1>0, <2>1 DEF GeneratorTypes, AtWork, Placing
  <2>3. GeneratorTypes'
    BY Zenon, <1>0, <1>2, <2>1, <2>2 DEF GeneratorTypes
  <2>4. PlanStands(g)'
    BY Zenon, <1>0, <1>1, <1>2, <2>1 DEF PlanStands, AtWork, Placing
  <2>5. ASSUME Sound' PROVE HolderInv(g)'
    <3>1. HolderInv(g)
      BY Zenon, <1>0, <1>2, <2>5 DEF Sound
    <3>2. /\ CapturedWhole(old[g], dir, Wants[g]) /\ AddsItsOwn(old[g], new[g], Wants[g])
          /\ Placed(file, old[g], new[g], Wants[g], at[g] - 1) /\ (at[g] > 1 => dir[Wants[g]] = TRUE)
      BY Zenon, <1>3, <3>1 DEF HolderInv
    <3>3. pc'[g] \notin {"plan", "unlock"} /\ pc'[g] \notin Undoing /\ pc'[g] # "verify"
      BY Zenon, <2>1 DEF Undoing
    <3> QED BY Zenon, <1>2, <3>2, <3>3 DEF HolderInv
  <2>6. at' = [at EXCEPT ![g] = at'[g]] /\ todo' = [todo EXCEPT ![g] = todo'[g]]
    BY Zenon, <1>0, <1>2, <2>1 DEF GeneratorTypes
  <2> QED BY Zenon, <1>0, <1>2, <2>1, <2>3, <2>4, <2>5, <2>6, HolderMoves
<1>6. Undo(g, at[g]) \/ (Goto(g, "replace") /\ UNCHANGED todo)
  BY Zenon DEF Compare
<1> QED BY Zenon, <1>4, <1>5, <1>6

\* The new file takes the old one's place.
LEMMA ReplaceKeeps ==
    ASSUME GeneratorInv, NEW g \in Generators, Replace(g)
    PROVE  GeneratorInv'
<1>0. /\ lock = g /\ PlanStands(g) /\ GeneratorTypes /\ (Sound => HolderInv(g))
      /\ Wants[g] \in Resources /\ at[g] \in 1..8 /\ pc[g] = "replace"
  <2>1. pc[g] = "replace" /\ pc[g] \in AtWork
    BY Zenon DEF AtWork, Placing, Replace
  <2> QED BY Zenon, <2>1, AtWorkHolds
<1>1. at[g] \in 4..7 /\ at[g] \in 1..7
  <2>1. at[g] \in 4..7
    BY Zenon, <1>0 DEF PlanStands
  <2> QED BY <2>1
<1>2. /\ file' = [file EXCEPT ![Target(g)] = new[g][Target(g)]] /\ pc' = [pc EXCEPT ![g] = "verify"]
      /\ dir' = dir /\ lock' = lock /\ at' = at /\ old' = old /\ new' = new /\ todo' = todo /\ damaged' = damaged
      /\ edits' = edits
  BY Zenon DEF Replace, bounds, Goto
<1>3. pc'[g] = "verify"
  BY Zenon, <1>0, <1>2 DEF GeneratorTypes
<1>4. file = [f \in Files |-> file[f]]
  BY Zenon, <1>0 DEF GeneratorTypes
<1>5. GeneratorTypes'
  <2>1. file' = [f \in Files |-> file'[f]]
    BY Zenon, <1>2, <1>4
  <2>2. pc' \in [Generators -> AtWork \cup {"idle", "begin", "failed", "returned", "crashed"}]
    BY Zenon, <1>0, <1>2 DEF GeneratorTypes, AtWork, Placing
  <2> QED BY Zenon, <1>0, <1>2, <2>1, <2>2 DEF GeneratorTypes
<1>6. PlanStands(g)'
  BY Zenon, <1>0, <1>1, <1>2, <1>3 DEF PlanStands, AtWork, Placing
<1>7. ASSUME Sound' PROVE HolderInv(g)'
  <2>1. HolderInv(g) /\ pc[g] \in Placing /\ pc[g] # "verify"
    BY Zenon, <1>0, <1>2, <1>7 DEF Sound, Placing
  <2>2. /\ CapturedWhole(old[g], dir, Wants[g]) /\ AddsItsOwn(old[g], new[g], Wants[g])
        /\ Placed(file, old[g], new[g], Wants[g], at[g] - 1) /\ (at[g] > 1 => dir[Wants[g]] = TRUE)
    BY Zenon, <2>1 DEF HolderInv
  <2>3. Placed(file', old[g], new[g], Wants[g], at[g])
    <3>1. file' = [file EXCEPT ![Plan(Wants[g])[at[g]]] = new[g][Plan(Wants[g])[at[g]]]]
      BY Zenon, <1>2 DEF Target
    <3>2. Wants[g] \in Resources /\ at[g] \in 1..7 /\ Placed(file, old[g], new[g], Wants[g], at[g] - 1)
      BY Zenon, <1>0, <1>1, <2>2
    <3> QED BY Zenon, <1>4, <3>1, <3>2, PlacedNext
  <2>4. pc'[g] \notin {"plan", "unlock"} /\ pc'[g] \notin Undoing
    BY Zenon, <1>3 DEF Undoing
  <2> QED BY Zenon, <1>2, <1>3, <2>2, <2>3, <2>4 DEF HolderInv
<1>8. at' = [at EXCEPT ![g] = at'[g]] /\ todo' = [todo EXCEPT ![g] = todo'[g]]
  BY Zenon, <1>0, <1>2 DEF GeneratorTypes
<1> QED BY Zenon, <1>0, <1>2, <1>3, <1>5, <1>6, <1>7, <1>8, HolderMoves

\* And it is looked at again.
LEMMA VerifyKeeps ==
    ASSUME GeneratorInv, NEW g \in Generators, Verify(g)
    PROVE  GeneratorInv'
<1>0. /\ lock = g /\ PlanStands(g) /\ GeneratorTypes /\ (Sound => HolderInv(g))
      /\ Wants[g] \in Resources /\ at[g] \in 1..8 /\ pc[g] = "verify"
  <2>1. pc[g] = "verify" /\ pc[g] \in AtWork
    BY Zenon DEF AtWork, Placing, Verify
  <2> QED BY Zenon, <2>1, AtWorkHolds
<1>1. at[g] \in 4..7 /\ at[g] \in 0..7 /\ at[g] <= at[g] /\ at[g] > 1
  <2>1. at[g] \in 4..7
    BY Zenon, <1>0 DEF PlanStands
  <2> QED BY <2>1
<1>2. /\ file' = file /\ dir' = dir /\ lock' = lock /\ old' = old /\ new' = new /\ damaged' = damaged
      /\ edits' = edits
  BY Zenon DEF Verify, project, Fault, bounds
<1>3. file' = [f \in Files |-> file'[f]] /\ dir' = [r \in Resources |-> dir'[r]]
  BY Zenon, <1>0, <1>2 DEF GeneratorTypes
<1>4. pc[g] \in Placing /\ pc[g] \in {"create", "verify"} /\ (IF pc[g] = "verify" THEN at[g] ELSE at[g] - 1) = at[g]
  BY Zenon, <1>0 DEF Placing
<1>5. CASE Undo(g, at[g]) /\ at' = at
  <2>1. Sound' => Sound /\ file' = file
    BY Zenon, <1>2 DEF Sound
  <2> QED BY Zenon, <1>0, <1>1, <1>2, <1>3, <1>4, <1>5, <2>1, Undone
<1>6. CASE Advance(g)
  <2>1. UNCHANGED <<lock, old, new, damaged, edits>>
    BY Zenon, <1>2
  <2>2. Sound => Placed(file', old[g], new[g], Wants[g], at[g])
    BY Zenon, <1>0, <1>2, <1>4 DEF HolderInv
  <2> QED BY Zenon, <1>1, <1>2, <1>3, <1>4, <1>6, <2>1, <2>2, Advanced
<1>7. Advance(g) \/ (Undo(g, at[g]) /\ at' = at)
  BY Zenon DEF Verify
<1> QED BY Zenon, <1>5, <1>6, <1>7

\* The plan of a whole project without w is for one with it.
LEMMA PlansItsOwn ==
    ASSUME NEW w \in Resources, WholeIn(file, dir), w \notin file[StateFile].data
    PROVE  CapturedWhole(file, dir, w) /\ AddsItsOwn(file, Planned(w), w)
<1>0. /\ \A i \in 1..4 : Managed[i] \in Files
      /\ \A i \in 1..3 : Created(w)[i] \in Files
      /\ StateFile = Managed[4] /\ StateFile = <<"state", "all">>
  BY Zenon, PlanFacts DEF StateFile
<1>1. CapturedWhole(file, dir, w)
  BY Zenon DEF WholeIn, CapturedWhole
<1>2. \A i \in 1..3 : Planned(w)[Created(w)[i]].exists = TRUE
  <2> SUFFICES ASSUME NEW i \in 1..3 PROVE Planned(w)[Created(w)[i]].exists = TRUE
    BY Zenon
  <2>1. i \in {1, 2, 3}
    OBVIOUS
  <2>2. Created(w)[i][1] = Kinds[i]
    BY Zenon DEF Created
  <2>3. Created(w)[i][1] \in {"model", "view", "migration"}
    BY <2>1, <2>2 DEF Kinds
  <2>4. Planned(w)[Created(w)[i]] \in {[With({w}) EXCEPT !.version = NextVersion], With({w})}
    BY Zenon, <1>0, <2>3 DEF Planned
  <2> QED BY <2>4 DEF With
<1>3. \A r \in Resources : /\ r \in Has("model") <=> r \in file[StateFile].data
                           /\ r \in Has("view") <=> r \in file[StateFile].data
  <2> SUFFICES ASSUME NEW r \in Resources
               PROVE  /\ r \in Has("model") <=> r \in file[StateFile].data
                      /\ r \in Has("view") <=> r \in file[StateFile].data
    BY Zenon
  <2>1. Created(r)[1] = <<"model", r>> /\ Created(r)[2] = <<"view", r>>
    BY DEF Created, Kinds
  <2>2. 1 \in 1..3 /\ 2 \in 1..3
    OBVIOUS
  <2>3. /\ file[Created(r)[1]].exists = (r \in file[StateFile].data)
        /\ file[Created(r)[2]].exists = (r \in file[StateFile].data)
    BY Zenon, <2>2 DEF WholeIn
  <2> QED BY Zenon, <2>1, <2>3 DEF Has
<1>4. ASSUME NEW i \in 1..4, NEW r \in Resources
      PROVE  (r \in Planned(w)[Managed[i]].data) = (r \in file[StateFile].data \/ r = w)
  <2>1. i \in {1, 2, 3, 4}
    OBVIOUS
  <2>2. /\ Managed[1][1] = "registry" /\ Managed[2][1] = "views" /\ Managed[3][1] = "orm" /\ Managed[4][1] = "state"
    BY Zenon DEF Managed
  <2>3. \A data : With(data).data = data
    BY Zenon DEF With
  <2>4. CASE i \in {1, 4}
    <3>1. Planned(w)[Managed[i]] = With((file[<<"state", "all">>].data \cap Resources) \cup {w})
      <4>1. Managed[i][1] \in {"registry", "state"} /\ Managed[i] \in Files
        BY Zenon, <1>0, <2>2, <2>4
      <4> QED BY Zenon, <4>1 DEF Planned
    <3>2. Planned(w)[Managed[i]].data = (file[StateFile].data \cap Resources) \cup {w}
      BY Zenon, <1>0, <2>3, <3>1
    <3> QED BY <3>2
  <2>5. CASE i = 2
    <3>1. Planned(w)[Managed[i]] = With(Has("view") \cup {w})
      BY Zenon, <1>0, <2>2, <2>5 DEF Planned
    <3>2. Planned(w)[Managed[i]].data = Has("view") \cup {w}
      BY Zenon, <2>3, <3>1
    <3> QED BY <1>3, <3>2
  <2>6. CASE i = 3
    <3>1. Planned(w)[Managed[i]] = With(Has("model") \cup {w})
      BY Zenon, <1>0, <2>2, <2>6 DEF Planned
    <3>2. Planned(w)[Managed[i]].data = Has("model") \cup {w}
      BY Zenon, <2>3, <3>1
    <3> QED BY <1>3, <3>2
  <2> QED BY Zenon, <2>1, <2>4, <2>5, <2>6
<1> QED BY Zenon, <1>1, <1>2, <1>4 DEF AddsItsOwn

\* loadResourceState and the plan.
LEMMA LoadKeeps ==
    ASSUME GeneratorInv, NEW g \in Generators, Load(g)
    PROVE  GeneratorInv'
<1>0. /\ lock = g /\ PlanStands(g) /\ GeneratorTypes /\ (Sound => HolderInv(g))
      /\ Wants[g] \in Resources /\ at[g] \in 1..8 /\ pc[g] = "plan"
  <2>1. pc[g] = "plan" /\ pc[g] \in AtWork
    BY Zenon DEF AtWork, Load
  <2> QED BY Zenon, <2>1, AtWorkHolds
<1>1. /\ file' = file /\ dir' = dir /\ lock' = lock /\ at' = at /\ todo' = todo /\ damaged' = damaged
      /\ edits' = edits
  BY Zenon DEF Load, project, bounds
<1>2. at' = [at EXCEPT ![g] = at'[g]] /\ todo' = [todo EXCEPT ![g] = todo'[g]]
  BY Zenon, <1>0, <1>1 DEF GeneratorTypes
<1>3. ASSUME Sound' PROVE WholeIn(file, dir)
  <2>1. Sound
    BY Zenon, <1>1, <1>3 DEF Sound
  <2> QED BY Zenon, <1>0, <2>1 DEF HolderInv
<1>4. CASE /\ Wants[g] \in file[<<"state", "all">>].data \/ \E i \in 1..3 : file[Created(Wants[g])[i]].exists
           /\ Goto(g, "unlock") /\ UNCHANGED <<old, new>>
  <2>1. pc' = [pc EXCEPT ![g] = "unlock"] /\ old' = old /\ new' = new
    BY Zenon, <1>4 DEF Goto
  <2>2. pc'[g] = "unlock"
    BY Zenon, <1>0, <2>1 DEF GeneratorTypes
  <2>3. pc' \in [Generators -> AtWork \cup {"idle", "begin", "failed", "returned", "crashed"}]
    BY Zenon, <1>0, <2>1 DEF GeneratorTypes, AtWork
  <2>4. GeneratorTypes'
    BY Zenon, <1>0, <1>1, <2>1, <2>3 DEF GeneratorTypes
  <2>5. PlanStands(g)'
    BY Zenon, <1>0, <1>1, <2>2 DEF PlanStands, AtWork
  <2>6. ASSUME Sound' PROVE HolderInv(g)'
    <3>1. WholeIn(file', dir')
      BY Zenon, <1>1, <1>3, <2>6
    <3> QED BY Zenon, <2>2, <3>1 DEF HolderInv, Placing, Undoing
  <2> QED BY Zenon, <1>0, <1>1, <1>2, <2>1, <2>2, <2>4, <2>5, <2>6, HolderMoves
<1>5. CASE /\ Wants[g] \notin file[StateFile].data
           /\ new' = [new EXCEPT ![g] = Planned(Wants[g])] /\ old' = [old EXCEPT ![g] = file] /\ Goto(g, "create")
  <2>1. pc' = [pc EXCEPT ![g] = "create"]
    BY Zenon, <1>5 DEF Goto
  <2>2. pc'[g] = "create"
    BY Zenon, <1>0, <2>1 DEF GeneratorTypes
  <2>3. new'[g] = Planned(Wants[g]) /\ old'[g] = file
    BY Zenon, <1>0, <1>5 DEF GeneratorTypes
  <2>4. GeneratorTypes'
    <3>1. pc' \in [Generators -> AtWork \cup {"idle", "begin", "failed", "returned", "crashed"}]
      BY Zenon, <1>0, <2>1 DEF GeneratorTypes, AtWork, Placing
    <3>2. old' = [q \in Generators |-> old'[q]] /\ new' = [q \in Generators |-> new'[q]]
      BY Zenon, <1>0, <1>5 DEF GeneratorTypes
    <3> QED BY Zenon, <1>0, <1>1, <3>1, <3>2 DEF GeneratorTypes
  <2>5. at'[g] = 1
    BY Zenon, <1>0, <1>1 DEF PlanStands
  <2>6. PlanStands(g)'
    BY <1>0, <1>1, <2>2, <2>5 DEF PlanStands, AtWork, Placing
  <2>7. ASSUME Sound' PROVE HolderInv(g)'
    <3>1. CapturedWhole(file, dir, Wants[g]) /\ AddsItsOwn(file, Planned(Wants[g]), Wants[g])
      BY Zenon, <1>0, <1>3, <1>5, <2>7, PlansItsOwn
    <3>2. Placed(file, file, new'[g], Wants[g], at'[g] - 1)
      <4>1. \A i \in 1..7 : ~(i <= at'[g] - 1)
        BY <2>5
      <4> QED BY Zenon, <4>1 DEF Placed
    <3>3. CapturedWhole(old'[g], dir', Wants[g]) /\ AddsItsOwn(old'[g], new'[g], Wants[g])
      BY Zenon, <1>1, <2>3, <3>1
    <3>4. Placed(file', old'[g], new'[g], Wants[g], at'[g] - 1)
      BY Zenon, <1>1, <2>3, <3>2
    <3>5. ~(at'[g] > 1)
      BY <2>5
    <3>6. pc'[g] \notin {"plan", "unlock"} /\ pc'[g] \notin Undoing /\ pc'[g] # "verify"
      BY Zenon, <2>2 DEF Undoing
    <3> QED BY Zenon, <3>3, <3>4, <3>5, <3>6 DEF HolderInv
  <2> QED BY Zenon, <1>0, <1>1, <1>2, <2>1, <2>2, <2>4, <2>6, <2>7, HolderMoves
<1> QED BY Zenon, <1>4, <1>5 DEF Load, StateFile

\* The last check.
LEMMA CheckKeeps ==
    ASSUME GeneratorInv, NEW g \in Generators, Check(g)
    PROVE  GeneratorInv'
<1>0. /\ lock = g /\ PlanStands(g) /\ GeneratorTypes /\ (Sound => HolderInv(g))
      /\ Wants[g] \in Resources /\ at[g] \in 1..8 /\ pc[g] = "check"
  <2>1. pc[g] = "check" /\ pc[g] \in AtWork
    BY Zenon DEF AtWork, Placing, Check
  <2> QED BY Zenon, <2>1, AtWorkHolds
<1>1. at[g] = 8
  BY Zenon, <1>0 DEF PlanStands
<1>2. 7 \in 0..7 /\ at[g] - 1 = 7 /\ at[g] - 1 <= 7 /\ at[g] > 1
  BY <1>1
<1>3. /\ file' = file /\ dir' = dir /\ lock' = lock /\ at' = at /\ old' = old /\ new' = new /\ damaged' = damaged
      /\ edits' = edits
  BY Zenon DEF Check, project, Fault, bounds
<1>4. pc[g] \in Placing /\ pc[g] # "verify" /\ (IF pc[g] = "verify" THEN at[g] ELSE at[g] - 1) = at[g] - 1
  BY Zenon, <1>0 DEF Placing
<1>5. CASE Undo(g, 7)
  <2>1. Sound' => Sound /\ file' = file
    BY Zenon, <1>3 DEF Sound
  <2>2. file' = [f \in Files |-> file'[f]] /\ dir' = [r \in Resources |-> dir'[r]]
    BY Zenon, <1>0, <1>3 DEF GeneratorTypes
  <2>3. (IF pc[g] = "verify" THEN at[g] ELSE at[g] - 1) <= 7
    BY Zenon, <1>2, <1>4
  <2> QED BY Zenon, <1>0, <1>2, <1>3, <1>4, <1>5, <2>1, <2>2, <2>3, Undone
<1>6. CASE Goto(g, "unlock") /\ UNCHANGED todo
  <2>1. pc' = [pc EXCEPT ![g] = "unlock"] /\ pc'[g] = "unlock" /\ todo' = todo
    BY Zenon, <1>0, <1>6 DEF Goto, GeneratorTypes
  <2>2. pc' \in [Generators -> AtWork \cup {"idle", "begin", "failed", "returned", "crashed"}]
    BY Zenon, <1>0, <2>1 DEF GeneratorTypes, AtWork
  <2>3. GeneratorTypes'
    BY Zenon, <1>0, <1>3, <2>1, <2>2 DEF GeneratorTypes
  <2>4. PlanStands(g)'
    BY Zenon, <1>0, <1>3, <2>1 DEF PlanStands, AtWork
  <2>5. ASSUME Sound' PROVE HolderInv(g)'
    <3>1. HolderInv(g)
      BY Zenon, <1>0, <1>3, <2>5 DEF Sound
    <3>2. /\ CapturedWhole(old[g], dir, Wants[g]) /\ AddsItsOwn(old[g], new[g], Wants[g])
          /\ Placed(file, old[g], new[g], Wants[g], 7) /\ dir[Wants[g]] = TRUE
      BY Zenon, <1>2, <1>4, <3>1 DEF HolderInv
    <3>3. WholeIn(file, dir)
      BY Zenon, <1>0, <3>2, AllPlaced
    <3>4. WholeIn(file', dir')
      BY Zenon, <1>3, <3>3
    <3> QED BY Zenon, <2>1, <3>4 DEF HolderInv, Placing, Undoing
  <2>6. at' = [at EXCEPT ![g] = at'[g]] /\ todo' = [todo EXCEPT ![g] = todo'[g]]
    BY Zenon, <1>0, <1>3, <2>1 DEF GeneratorTypes
  <2> QED BY Zenon, <1>0, <1>3, <2>1, <2>3, <2>4, <2>5, <2>6, HolderMoves
<1>7. Undo(g, 7) \/ (Goto(g, "unlock") /\ UNCHANGED todo)
  BY Zenon DEF Check
<1> QED BY Zenon, <1>5, <1>6, <1>7

\* What is left of a rollback's list without its head.
LEMMA HeadDone ==
    ASSUME NEW s \in Seq(Files), s # <<>>
    PROVE  /\ Tail(s) \in Seq(Files) /\ Head(s) \in Files
           /\ \A i \in 1..Len(s) : s[i] # Head(s) => \E j \in 1..Len(Tail(s)) : Tail(s)[j] = s[i]
<1>1. /\ Len(s) \in Nat /\ Len(s) > 0 /\ Head(s) = s[1] /\ Tail(s) \in Seq(Files) /\ Len(Tail(s)) = Len(s) - 1
      /\ \A j \in 1..Len(Tail(s)) : Tail(s)[j] = s[j + 1]
  OBVIOUS
<1>2. Head(s) \in Files
  BY <1>1
<1>3. ASSUME NEW i \in 1..Len(s), s[i] # Head(s) PROVE \E j \in 1..Len(Tail(s)) : Tail(s)[j] = s[i]
  <2>1. i # 1
    BY Zenon, <1>1, <1>3
  <2>2. i - 1 \in 1..Len(Tail(s)) /\ i - 1 + 1 = i
    BY <1>1, <2>1
  <2>3. Tail(s)[i - 1] = s[i]
    BY Zenon, <1>1, <2>2
  <2> QED BY Zenon, <2>2, <2>3
<1> QED BY Zenon, <1>1, <1>2, <1>3

\* A step of the rollback that is done with the head of its list.
LEMMA HeadLeaves ==
    ASSUME GeneratorInv, NEW g \in Generators, pc[g] \in Undoing, todo[g] # <<>>,
           lock' = lock, dir' = dir, at' = at, old' = old, new' = new, edits' = edits,
           todo' = [todo EXCEPT ![g] = Tail(@)], pc' = [pc EXCEPT ![g] = "undo"],
           file' = [f \in Files |-> file'[f]],
           Sound' => /\ Sound /\ file'[Head(todo[g])] = old[g][Head(todo[g])]
                     /\ \A f \in Files : f # Head(todo[g]) => file'[f] = file[f]
    PROVE  GeneratorInv'
<1>0. /\ lock = g /\ PlanStands(g) /\ GeneratorTypes /\ (Sound => HolderInv(g))
      /\ Wants[g] \in Resources /\ at[g] \in 1..8
  <2>1. pc[g] \in AtWork
    BY Zenon DEF AtWork
  <2> QED BY Zenon, <2>1, AtWorkHolds
<1>1. todo[g] \in Seq(Files)
  BY Zenon, <1>0 DEF GeneratorTypes
<1>2. pc'[g] = "undo" /\ todo'[g] = Tail(todo[g]) /\ todo' = [todo EXCEPT ![g] = Tail(todo[g])]
  BY Zenon, <1>0 DEF GeneratorTypes
<1>3. GeneratorTypes'
  <2>1. pc' \in [Generators -> AtWork \cup {"idle", "begin", "failed", "returned", "crashed"}]
    BY Zenon, <1>0 DEF GeneratorTypes, AtWork, Undoing
  <2>2. todo' \in [Generators -> Seq(Files)]
    <3>1. Tail(todo[g]) \in Seq(Files)
      BY Zenon, <1>1, HeadDone
    <3> QED BY Zenon, <1>0, <1>2, <3>1 DEF GeneratorTypes
  <2> QED BY Zenon, <1>0, <2>1, <2>2 DEF GeneratorTypes
<1>4. PlanStands(g)'
  BY Zenon, <1>0, <1>2 DEF PlanStands, AtWork, Placing, Undoing
<1>5. ASSUME Sound' PROVE HolderInv(g)'
  <2>1. /\ HolderInv(g) /\ file'[Head(todo[g])] = old[g][Head(todo[g])]
        /\ \A f \in Files : f # Head(todo[g]) => file'[f] = file[f]
    BY Zenon, <1>0, <1>5
  <2>2. /\ CapturedWhole(old[g], dir, Wants[g])
        /\ \A f \in Files : file[f] = old[g][f] \/ \E i \in 1..Len(todo[g]) : todo[g][i] = f
    BY Zenon, <2>1 DEF HolderInv
  <2>3. ASSUME NEW f \in Files PROVE file'[f] = old'[g][f] \/ \E i \in 1..Len(todo'[g]) : todo'[g][i] = f
    <3>1. CASE f = Head(todo[g])
      BY Zenon, <2>1, <3>1
    <3>2. CASE f # Head(todo[g]) /\ file[f] = old[g][f]
      BY Zenon, <2>1, <3>2
    <3>3. CASE f # Head(todo[g]) /\ \E i \in 1..Len(todo[g]) : todo[g][i] = f
      <4>1. \E i \in 1..Len(Tail(todo[g])) : Tail(todo[g])[i] = f
        <5>1. PICK i \in 1..Len(todo[g]) : todo[g][i] = f
          BY Zenon, <3>3
        <5>2. \E j \in 1..Len(Tail(todo[g])) : Tail(todo[g])[j] = todo[g][i]
          BY Zenon, <1>1, <3>3, <5>1, HeadDone
        <5> QED BY Zenon, <5>1, <5>2
      <4> QED BY Zenon, <1>2, <4>1
    <3> QED BY Zenon, <2>2, <3>1, <3>2, <3>3
  <2>4. pc'[g] \notin {"plan", "unlock"} /\ pc'[g] \notin Placing
    BY Zenon, <1>2 DEF Placing
  <2> QED BY Zenon, <2>2, <2>3, <2>4 DEF HolderInv
<1>6. at' = [at EXCEPT ![g] = at'[g]]
  BY Zenon, <1>0 DEF GeneratorTypes
<1> QED BY Zenon, <1>0, <1>2, <1>3, <1>4, <1>5, <1>6, HolderMoves

\* A file that is still the generator's is to be restored; what is not is left.
LEMMA UndoCompareKeeps ==
    ASSUME GeneratorInv, NEW g \in Generators, UndoCompare(g)
    PROVE  GeneratorInv'
<1>0. /\ lock = g /\ PlanStands(g) /\ GeneratorTypes /\ (Sound => HolderInv(g))
      /\ Wants[g] \in Resources /\ at[g] \in 1..8 /\ pc[g] = "undo" /\ todo[g] # <<>> /\ pc[g] \in Undoing
  <2>1. pc[g] = "undo" /\ pc[g] \in AtWork /\ todo[g] # <<>> /\ pc[g] \in Undoing
    BY Zenon DEF AtWork, Undoing, UndoCompare
  <2> QED BY Zenon, <2>1, AtWorkHolds
<1>1. /\ file' = file /\ dir' = dir /\ lock' = lock /\ at' = at /\ old' = old /\ new' = new /\ edits' = edits
  BY Zenon DEF UndoCompare, project, bounds
<1>2. CASE Goto(g, "restore") /\ UNCHANGED <<todo, damaged>>
  <2>1. pc' = [pc EXCEPT ![g] = "restore"] /\ todo' = todo /\ damaged' = damaged
    BY Zenon, <1>2 DEF Goto
  <2>2. pc'[g] = "restore"
    BY Zenon, <1>0, <2>1 DEF GeneratorTypes
  <2>3. pc' \in [Generators -> AtWork \cup {"idle", "begin", "failed", "returned", "crashed"}]
    BY Zenon, <1>0, <2>1 DEF GeneratorTypes, AtWork, Undoing
  <2>4. GeneratorTypes'
    BY Zenon, <1>0, <1>1, <2>1, <2>3 DEF GeneratorTypes
  <2>5. PlanStands(g)'
    BY Zenon, <1>0, <1>1, <2>1, <2>2 DEF PlanStands, AtWork, Undoing
  <2>6. ASSUME Sound' PROVE HolderInv(g)'
    <3>1. /\ CapturedWhole(old[g], dir, Wants[g])
          /\ \A f \in Files : file[f] = old[g][f] \/ \E i \in 1..Len(todo[g]) : todo[g][i] = f
      BY Zenon, <1>0, <1>1, <2>1, <2>6 DEF HolderInv, Sound
    <3>2. pc'[g] \notin {"plan", "unlock"} /\ pc'[g] \notin Placing
      BY Zenon, <2>2 DEF Placing
    <3> QED BY Zenon, <1>1, <2>1, <3>1, <3>2 DEF HolderInv
  <2>7. at' = [at EXCEPT ![g] = at'[g]] /\ todo' = [todo EXCEPT ![g] = todo'[g]]
    BY Zenon, <1>0, <1>1, <2>1 DEF GeneratorTypes
  <2> QED BY Zenon, <1>0, <1>1, <2>1, <2>2, <2>4, <2>5, <2>6, <2>7, HolderMoves
<1>3. CASE /\ todo' = [todo EXCEPT ![g] = Tail(@)] /\ UNCHANGED pc
           /\ damaged' = IF file[Head(todo[g])] # old[g][Head(todo[g])] THEN damaged \cup {"rollback"} ELSE damaged
  <2>1. pc' = [pc EXCEPT ![g] = "undo"]
    BY Zenon, <1>0, <1>3 DEF GeneratorTypes
  <2>2. file' = [f \in Files |-> file'[f]]
    BY Zenon, <1>0, <1>1 DEF GeneratorTypes
  <2>3. ASSUME Sound' PROVE Sound /\ file[Head(todo[g])] = old[g][Head(todo[g])]
    <3>1. damaged' = {} /\ edits' = 0
      BY Zenon, <2>3 DEF Sound
    <3>2. file[Head(todo[g])] = old[g][Head(todo[g])]
      BY Zenon, <1>3, <3>1
    <3> QED BY Zenon, <1>1, <1>3, <3>1, <3>2 DEF Sound
  <2>4. todo' = [todo EXCEPT ![g] = Tail(@)]
    BY Zenon, <1>3
  <2> QED BY Zenon, <1>0, <1>1, <2>1, <2>2, <2>3, <2>4, HeadLeaves
<1> QED BY Zenon, <1>2, <1>3 DEF UndoCompare

\* The captured file takes the new one's place, or the rollback has failed.
LEMMA RestoreKeeps ==
    ASSUME GeneratorInv, NEW g \in Generators, Restore(g)
    PROVE  GeneratorInv'
<1>0. /\ lock = g /\ PlanStands(g) /\ GeneratorTypes /\ pc[g] = "restore" /\ pc[g] \in Undoing
  <2>1. pc[g] = "restore" /\ pc[g] \in AtWork /\ pc[g] \in Undoing
    BY Zenon DEF AtWork, Undoing, Restore
  <2> QED BY Zenon, <2>1, AtWorkHolds
<1>1. todo[g] # <<>> /\ todo[g] \in Seq(Files) /\ file = [f \in Files |-> file[f]]
  BY Zenon, <1>0 DEF PlanStands, GeneratorTypes
<1>2. /\ todo' = [todo EXCEPT ![g] = Tail(@)] /\ pc' = [pc EXCEPT ![g] = "undo"]
      /\ dir' = dir /\ lock' = lock /\ at' = at /\ old' = old /\ new' = new
  BY Zenon DEF Restore, Goto
<1>3. CASE file' = [file EXCEPT ![Head(todo[g])] = old[g][Head(todo[g])]] /\ UNCHANGED <<damaged, bounds>>
  <2>1. damaged' = damaged /\ edits' = edits
    BY Zenon, <1>3 DEF bounds
  <2>2. Head(todo[g]) \in Files
    BY Zenon, <1>1, HeadDone
  <2>3. /\ file' = [f \in Files |-> file'[f]] /\ file'[Head(todo[g])] = old[g][Head(todo[g])]
        /\ \A f \in Files : f # Head(todo[g]) => file'[f] = file[f]
    BY Zenon, <1>1, <1>3, <2>2
  <2>4. Sound' => Sound
    BY Zenon, <2>1 DEF Sound
  <2> QED BY Zenon, <1>0, <1>1, <1>2, <2>1, <2>3, <2>4, HeadLeaves
<1>4. CASE Fault /\ damaged' = damaged \cup {"rollback"} /\ UNCHANGED file
  <2>1. ~Sound' /\ edits' = edits /\ file' = [f \in Files |-> file'[f]]
    BY Zenon, <1>1, <1>4 DEF Fault, Sound
  <2> QED BY Zenon, <1>0, <1>1, <1>2, <2>1, HeadLeaves
<1> QED BY Zenon, <1>3, <1>4 DEF Restore

\* With the list empty every file is as captured, and the directory goes.
LEMMA RemoveDirectoryKeeps ==
    ASSUME GeneratorInv, NEW g \in Generators, RemoveDirectory(g)
    PROVE  GeneratorInv'
<1>0. /\ lock = g /\ PlanStands(g) /\ GeneratorTypes /\ (Sound => HolderInv(g))
      /\ Wants[g] \in Resources /\ at[g] \in 1..8 /\ pc[g] \in Undoing /\ todo[g] = <<>>
  <2>1. pc[g] \in AtWork /\ todo[g] = <<>> /\ pc[g] \in Undoing
    BY Zenon DEF AtWork, Undoing, RemoveDirectory
  <2> QED BY Zenon, <2>1, AtWorkHolds
<1>1. /\ pc' = [pc EXCEPT ![g] = "unlock"]
      /\ file' = file /\ lock' = lock /\ at' = at /\ old' = old /\ new' = new /\ todo' = todo
      /\ edits' = edits
  BY Zenon DEF RemoveDirectory, Goto, bounds, Fault
<1>2. pc'[g] = "unlock"
  BY Zenon, <1>0, <1>1 DEF GeneratorTypes
<1>3. dir = [r \in Resources |-> dir[r]]
  BY Zenon, <1>0 DEF GeneratorTypes
<1>4. /\ dir' = [r \in Resources |-> dir'[r]] /\ (Sound' => Sound)
      /\ Sound' => /\ dir'[Wants[g]] = \E i \in 1..3 : file[Created(Wants[g])[i]].exists
                   /\ \A r \in Resources : r # Wants[g] => dir'[r] = dir[r]
  <2> DEFINE left == \E i \in 1..3 : file[Created(Wants[g])[i]].exists
  <2>1. \/ dir' = [dir EXCEPT ![Wants[g]] = left] /\ damaged' = damaged
        \/ dir' = dir /\ damaged' = damaged \cup {"rollback"}
    BY Zenon DEF RemoveDirectory
  <2> HIDE DEF left
  <2>2. CASE dir' = [dir EXCEPT ![Wants[g]] = left] /\ damaged' = damaged
    <3>1. /\ dir' = [r \in Resources |-> dir'[r]] /\ dir'[Wants[g]] = left
          /\ \A r \in Resources : r # Wants[g] => dir'[r] = dir[r]
      BY Zenon, <1>0, <1>3, <2>2
    <3>2. Sound' => Sound
      BY Zenon, <1>1, <2>2 DEF Sound
    <3> QED BY Zenon, <3>1, <3>2 DEF left
  <2>3. CASE dir' = dir /\ damaged' = damaged \cup {"rollback"}
    <3>1. ~Sound'
      BY Zenon, <2>3 DEF Sound
    <3> QED BY Zenon, <1>3, <2>3, <3>1
  <2> QED BY Zenon, <2>1, <2>2, <2>3
<1>5. GeneratorTypes'
  <2>1. pc' \in [Generators -> AtWork \cup {"idle", "begin", "failed", "returned", "crashed"}]
    BY Zenon, <1>0, <1>1 DEF GeneratorTypes, AtWork
  <2> QED BY Zenon, <1>0, <1>1, <1>4, <2>1 DEF GeneratorTypes
<1>6. PlanStands(g)'
  BY Zenon, <1>0, <1>1, <1>2 DEF PlanStands, AtWork
<1>7. ASSUME Sound' PROVE HolderInv(g)'
  <2>1. /\ CapturedWhole(old[g], dir, Wants[g])
        /\ \A f \in Files : file[f] = old[g][f] \/ \E i \in 1..Len(todo[g]) : todo[g][i] = f
    BY Zenon, <1>0, <1>4, <1>7 DEF HolderInv
  <2>2. \A f \in Files : file[f] = old[g][f]
    <3>1. \A i \in 1..Len(todo[g]) : FALSE
      BY <1>0
    <3> QED BY Zenon, <2>1, <3>1
  <2>3. \A i \in 1..3 : file[Created(Wants[g])[i]].exists = FALSE
    <3> SUFFICES ASSUME NEW i \in 1..3 PROVE file[Created(Wants[g])[i]].exists = FALSE
      BY Zenon
    <3>1. Created(Wants[g])[i] \in Files
      BY Zenon, <1>0, PlanFacts
    <3>2. old[g][Created(Wants[g])[i]].exists = (Wants[g] \in old[g][StateFile].data)
      BY Zenon, <1>0, <2>1 DEF CapturedWhole
    <3>3. (Wants[g] \in old[g][StateFile].data) = FALSE
      <4>1. Wants[g] \notin old[g][StateFile].data
        BY Zenon, <2>1 DEF CapturedWhole
      <4> QED BY <4>1
    <3> QED BY Zenon, <2>2, <3>1, <3>2, <3>3
  <2>4. TakenBack(file, dir', old[g], Wants[g])
    <3>1. dir'[Wants[g]] = FALSE
      BY Zenon, <1>4, <1>7, <2>3
    <3> QED BY Zenon, <2>2, <3>1 DEF TakenBack
  <2>5. CapturedWhole(old[g], dir', Wants[g])
    BY Zenon, <1>4, <1>7, <2>1 DEF CapturedWhole
  <2>6. WholeIn(file, dir')
    <3>1. Wants[g] \in Resources
      BY Zenon, <1>0
    <3> QED BY Zenon, <2>4, <2>5, <3>1, AllTakenBack
  <2>7. WholeIn(file', dir')
    BY Zenon, <1>1, <2>6
  <2> QED BY Zenon, <1>2, <2>7 DEF HolderInv, Placing, Undoing
<1>8. at' = [at EXCEPT ![g] = at'[g]] /\ todo' = [todo EXCEPT ![g] = todo'[g]]
  BY Zenon, <1>0, <1>1 DEF GeneratorTypes
<1> QED BY Zenon, <1>0, <1>1, <1>2, <1>5, <1>6, <1>7, <1>8, HolderMoves

\* The lock is given up, by its holder or for one that died.
LEMMA LockLeaves ==
    ASSUME GeneratorInv, NEW g \in Generators, lock = g, lock' = Nobody, NEW step \in {"returned", "crashed"},
           Goto(g, step), at' = at, old' = old, new' = new, todo' = todo, file' = file, dir' = dir, edits' = edits,
           Sound' => WholeIn(file, dir)
    PROVE  GeneratorInv'
<1>1. GeneratorTypes /\ \A q \in Generators : PlanStands(q)
  BY Zenon DEF GeneratorInv
<1>2. pc' = [pc EXCEPT ![g] = step]
  BY Zenon DEF Goto
<1>3. pc'[g] = step /\ \A q \in Generators : q # g => pc'[q] = pc[q]
  BY Zenon, <1>1, <1>2 DEF GeneratorTypes
<1>4. GeneratorTypes'
  <2>1. pc' \in [Generators -> AtWork \cup {"idle", "begin", "failed", "returned", "crashed"}]
    BY Zenon, <1>1, <1>2 DEF GeneratorTypes
  <2> QED BY Zenon, <1>1, <2>1 DEF GeneratorTypes
<1>5. PlanStands(g)'
  <2>1. pc'[g] \in {"returned", "crashed"} /\ lock' # g
    BY Zenon, <1>3, GeneratorAssumption
  <2> QED BY Zenon, <2>1 DEF PlanStands, AtWork, Placing, Undoing
<1>6. ASSUME NEW q \in Generators, q # g PROVE PlanStands(q)'
  <2>1. PlanStands(q) /\ pc'[q] = pc[q] /\ lock # q /\ lock' # q
    BY Zenon, <1>1, <1>3, <1>6, GeneratorAssumption
  <2> QED BY Zenon, <2>1 DEF PlanStands
<1>7. \A q \in Generators : lock' # q
  BY Zenon, GeneratorAssumption
<1>8. Sound' => WholeIn(file', dir')
  BY Zenon
<1> QED BY Zenon, <1>4, <1>5, <1>6, <1>7, <1>8 DEF GeneratorInv, Sound

\* An edit: nothing is promised any more, and nobody's position changes.
LEMMA EditKeeps ==
    ASSUME GeneratorInv, edits' = edits + 1, UNCHANGED <<lock, work>>,
           file' = [f \in Files |-> file'[f]], dir' = [r \in Resources |-> dir'[r]]
    PROVE  GeneratorInv'
<1>1. lock' = lock /\ pc' = pc /\ at' = at /\ old' = old /\ new' = new /\ todo' = todo
  BY Zenon DEF work
<1>2. GeneratorTypes /\ \A q \in Generators : PlanStands(q)
  BY Zenon DEF GeneratorInv
<1>3. edits' \in Nat /\ edits' # 0
  <2>1. edits \in Nat
    BY Zenon, <1>2 DEF GeneratorTypes
  <2> QED BY <2>1
<1>4. GeneratorTypes'
  BY Zenon, <1>1, <1>2, <1>3 DEF GeneratorTypes
<1>5. \A q \in Generators : PlanStands(q)'
  BY Zenon, <1>1, <1>2 DEF PlanStands
<1> QED BY Zenon, <1>3, <1>4, <1>5 DEF GeneratorInv

\* Every step keeps the invariant.
LEMMA GeneratorKeeps == GeneratorInv /\ [GeneratorNext]_generatorVars => GeneratorInv'
<1> SUFFICES ASSUME GeneratorInv, [GeneratorNext]_generatorVars PROVE GeneratorInv'
  OBVIOUS
<1>0. GeneratorTypes
  BY Zenon DEF GeneratorInv
<1>1. ASSUME NEW g \in Generators, CallGenerator(g) PROVE GeneratorInv'
  <2>1. pc[g] \in {"idle", "begin"} /\ UNCHANGED <<project, lock, at, old, new, todo, damaged, edits>> /\ Goto(g, "begin")
    BY Zenon, <1>1 DEF CallGenerator, bounds
  <2> QED BY Zenon, <2>1, OtherMoves
<1>2. ASSUME NEW g \in Generators, Unlock(g) PROVE GeneratorInv'
  <2>1. /\ pc[g] = "unlock" /\ lock' = Nobody /\ Goto(g, "returned") /\ at' = at /\ old' = old /\ new' = new /\ todo' = todo
        /\ file' = file /\ dir' = dir /\ edits' = edits /\ damaged' = damaged
    BY Zenon, <1>2 DEF Unlock, project, bounds
  <2>2. lock = g /\ (Sound => HolderInv(g))
    <3>1. pc[g] \in AtWork
      BY Zenon, <2>1 DEF AtWork
    <3> QED BY Zenon, <3>1, AtWorkHolds
  <2>3. ASSUME Sound' PROVE WholeIn(file, dir)
    BY Zenon, <2>1, <2>2, <2>3 DEF Sound, HolderInv
  <2> QED BY Zenon, <2>1, <2>2, <2>3, LockLeaves
<1>3. ASSUME NEW g \in Generators, Crash(g) PROVE GeneratorInv'
  <2>1. /\ lock = g /\ lock' = Nobody /\ Goto(g, "crashed") /\ at' = at /\ old' = old /\ new' = new /\ todo' = todo
        /\ file' = file /\ dir' = dir /\ edits' = edits /\ ~Sound'
    BY Zenon, <1>3 DEF Crash, project, Sound
  <2> QED BY Zenon, <2>1, LockLeaves
<1>4. file = [f \in Files |-> file[f]] /\ dir = [r \in Resources |-> dir[r]]
  BY Zenon, <1>0 DEF GeneratorTypes
<1>5. ASSUME NEW f \in Files, Editor(f) PROVE GeneratorInv'
  <2>1. /\ edits' = edits + 1 /\ UNCHANGED <<lock, work>> /\ dir' = dir
        /\ file' = [file EXCEPT ![f].data = @ \cup {Mark}]
    BY Zenon, <1>5 DEF Editor
  <2>2. file' = [h \in Files |-> file'[h]]
    BY Zenon, <1>4, <2>1
  <2> QED BY Zenon, <1>4, <2>1, <2>2, EditKeeps
<1>6. ASSUME NEW r \in Resources, EditorRemovesModel(r) PROVE GeneratorInv'
  <2>1. /\ edits' = edits + 1 /\ UNCHANGED <<lock, work>> /\ dir' = dir
        /\ file' = [file EXCEPT ![<<"model", r>>] = Absent]
    BY Zenon, <1>6 DEF EditorRemovesModel
  <2>2. file' = [h \in Files |-> file'[h]]
    BY Zenon, <1>4, <2>1
  <2> QED BY Zenon, <1>4, <2>1, <2>2, EditKeeps
<1>7. ASSUME NEW r \in Resources, EditorAddsModel(r) PROVE GeneratorInv'
  <2>1. /\ edits' = edits + 1 /\ UNCHANGED <<lock, work>> /\ dir' = [dir EXCEPT ![r] = TRUE]
        /\ file' = [file EXCEPT ![<<"model", r>>] = With({Mark})]
    BY Zenon, <1>7 DEF EditorAddsModel
  <2>2. file' = [h \in Files |-> file'[h]]
    BY Zenon, <1>4, <2>1
  <2>3. dir' = [q \in Resources |-> dir'[q]]
    BY Zenon, <1>4, <2>1
  <2> QED BY Zenon, <2>1, <2>2, <2>3, EditKeeps
<1>8. CASE UNCHANGED generatorVars
  <2>1. /\ lock' = lock /\ pc' = pc /\ at' = at /\ old' = old /\ new' = new /\ todo' = todo
        /\ file' = file /\ dir' = dir /\ damaged' = damaged /\ edits' = edits
    BY Zenon, <1>8 DEF generatorVars, project, work, bounds
  <2>2. GeneratorTypes'
    BY Zenon, <1>0, <2>1 DEF GeneratorTypes
  <2>3. \A g \in Generators : PlanStands(g)'
    BY Zenon, <2>1 DEF PlanStands, GeneratorInv
  <2>4. ASSUME Sound', NEW g \in Generators, lock' = g PROVE HolderInv(g)'
    <3>1. HolderInv(g)
      BY Zenon, <2>1, <2>4 DEF GeneratorInv, Sound
    <3> QED BY Zenon, <2>1, <3>1 DEF HolderInv
  <2>5. ASSUME Sound', lock' = Nobody PROVE WholeIn(file', dir')
    BY Zenon, <2>1, <2>5 DEF GeneratorInv, Sound
  <2> QED BY Zenon, <2>2, <2>3, <2>4, <2>5 DEF GeneratorInv, Sound
<1> QED BY Zenon, <1>1, <1>2, <1>3, <1>5, <1>6, <1>7, <1>8, AcquireKeeps, LoadKeeps, CreateKeeps, CompareKeeps,
           ReplaceKeeps, VerifyKeeps, CheckKeeps, UndoCompareKeeps, RestoreKeeps, RemoveDirectoryKeeps
        DEF GeneratorNext, Step

\* make:resource, for every number of generators and faults: whenever no generator has the
\* lock the project is whole, if every written file could be read back, every rollback
\* succeeded, nobody died at work and no editor has saved a file.
THEOREM GeneratorAllOrNothing == GeneratorSpec => []AllOrNothing
<1>1. GeneratorInit => GeneratorInv
  BY Zenon, GeneratorStart
<1>2. GeneratorInv /\ [GeneratorNext]_generatorVars => GeneratorInv'
  BY Zenon, GeneratorKeeps
<1>3. GeneratorInv => AllOrNothing
  BY Zenon DEF GeneratorInv, AllOrNothing, Whole, WholeIn, StateFile
<1> QED BY <1>1, <1>2, <1>3, PTL DEF GeneratorSpec

=============================================================================
