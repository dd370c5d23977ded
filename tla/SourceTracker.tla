--------------------------- MODULE SourceTracker ---------------------------
(***************************************************************************)
(* internal/cli/watch.go: sourceGenerationTracker polls the source, counts *)
(* the changes it sees, and wakes its waiters by closing a channel.        *)
(*                                                                         *)
(* woken[w] says that the channel which waiter w captured last is closed.  *)
(* Time is counted in ticks, as the rest of a debounce timer and as the    *)
(* age of an error.                                                        *)
(***************************************************************************)
EXTENDS Naturals

CONSTANTS TrackerSources, Waiters,
          Debounce, Tolerance,   \* in ticks
          MaxTrackerEdits               \* bound of the model

Unreadable == "unreadable"
Nothing == "nothing"
Off == "off"         \* the goroutine has not been started
Min2(a, b) == IF a < b THEN a ELSE b

ASSUME TrackerAssumption == {Unreadable, Nothing, Off} \cap TrackerSources = {} /\ {Debounce, Tolerance} \subseteq Nat \ {0}

VARIABLES trackerSrc, trackerEdits,            \* the source: a content, or Unreadable
          polled,                \* what the tracker's goroutine read and has yet to record
          current, generation, failing, age,   \* the tracker, and how long it has failed
          trackerPc, trackerBase, candidate, cgen, got, timer, woken,   \* per waiter
          quiet                  \* ticks since current last changed

tracker == <<current, generation, failing>>
waiter == <<trackerPc, trackerBase, candidate, cgen, got>>
trackerVars == <<trackerSrc, trackerEdits, polled, tracker, age, waiter, timer, woken, quiet>>

TrackerInit ==
    /\ trackerSrc \in TrackerSources /\ trackerEdits = 0 /\ polled = Off
    /\ current = trackerSrc /\ generation = 0 /\ failing = FALSE /\ age = 0
    /\ trackerPc = [w \in Waiters |-> "idle"]
    /\ trackerBase = [w \in Waiters |-> [snapshot |-> trackerSrc, gen |-> 0]]
    /\ candidate = [w \in Waiters |-> trackerSrc] /\ got = candidate
    /\ cgen = [w \in Waiters |-> 0]
    /\ timer = [w \in Waiters |-> 0] /\ woken = [w \in Waiters |-> FALSE]
    /\ quiet = Debounce

EditSource(c) ==
    /\ trackerEdits < MaxTrackerEdits /\ c # trackerSrc
    /\ trackerSrc' = c /\ trackerEdits' = trackerEdits + 1
    /\ UNCHANGED <<polled, tracker, age, waiter, timer, woken, quiet>>

Tick ==
    /\ polled # Off
    /\ timer' = [w \in Waiters |-> IF timer[w] = 0 THEN 0 ELSE timer[w] - 1]
    /\ age' = IF failing THEN Min2(age + 1, Tolerance) ELSE 0
    /\ quiet' = Min2(quiet + 1, Debounce)
    /\ UNCHANGED <<trackerSrc, trackerEdits, polled, tracker, waiter, woken>>
-----------------------------------------------------------------------------
(* The tracker's goroutine, started when a first snapshot has been read. *)

StartTracker ==
    /\ polled = Off /\ polled' = Nothing
    /\ UNCHANGED <<trackerSrc, trackerEdits, tracker, age, waiter, timer, woken, quiet>>

PollSource ==
    /\ polled = Nothing
    /\ polled' = trackerSrc
    /\ UNCHANGED <<trackerSrc, trackerEdits, tracker, age, waiter, timer, woken, quiet>>

CloseChanged == woken' = [w \in Waiters |-> TRUE]

RecordSnapshot ==
    /\ polled \in TrackerSources
    /\ failing' = FALSE /\ age' = 0
    /\ current' = polled
    /\ generation' = IF polled = current THEN generation ELSE generation + 1
    /\ quiet' = IF polled = current THEN quiet ELSE 0
    /\ IF polled = current /\ ~failing THEN UNCHANGED woken ELSE CloseChanged
    /\ polled' = Nothing
    /\ UNCHANGED <<trackerSrc, trackerEdits, waiter, timer>>

RecordError ==
    /\ polled = Unreadable
    /\ failing' = TRUE
    /\ CloseChanged
    /\ polled' = Nothing
    /\ UNCHANGED <<trackerSrc, trackerEdits, current, generation, age, waiter, timer, quiet>>
-----------------------------------------------------------------------------
(* WaitForChange, Stabilize and Read, as called by the supervisor of forge serve. *)

Outside == UNCHANGED <<trackerSrc, trackerEdits, polled, tracker, age, quiet>>
TrackerAt(w, step) == trackerPc[w] = step
TrackerGoto(w, step) == trackerPc' = [trackerPc EXCEPT ![w] = step]
Capture(w) == woken' = [woken EXCEPT ![w] = FALSE]
Unreadably == failing /\ age >= Tolerance

Call(w) ==
    /\ TrackerAt(w, "idle") /\ polled # Off
    /\ trackerBase' = [trackerBase EXCEPT ![w] = [snapshot |-> current, gen |-> generation]]
    /\ TrackerGoto(w, "check")
    /\ Outside /\ UNCHANGED <<candidate, cgen, got, timer, woken>>

Check(w) ==
    /\ TrackerAt(w, "check")
    /\ Capture(w)
    /\ \/ Unreadably /\ TrackerGoto(w, "failed") /\ UNCHANGED candidate
       \/ /\ ~failing /\ (current # trackerBase[w].snapshot \/ generation # trackerBase[w].gen)
          /\ candidate' = [candidate EXCEPT ![w] = current]
          /\ TrackerGoto(w, "stabilize")
       \/ /\ ~Unreadably
          /\ failing \/ (current = trackerBase[w].snapshot /\ generation = trackerBase[w].gen)
          /\ TrackerGoto(w, "sleep") /\ UNCHANGED candidate
    /\ Outside /\ UNCHANGED <<trackerBase, cgen, got, timer>>

Wake(w) ==
    /\ TrackerAt(w, "sleep") /\ woken[w]
    /\ TrackerGoto(w, "check")
    /\ Outside /\ UNCHANGED <<trackerBase, candidate, cgen, got, timer, woken>>

\* The generation is read after the candidate, and the timer set after both.
Adopt(w) ==
    /\ trackerPc[w] \in {"stabilize", "adopt"}
    /\ candidate' = [candidate EXCEPT ![w] = IF TrackerAt(w, "adopt") THEN got[w] ELSE @]
    /\ cgen' = [cgen EXCEPT ![w] = generation]
    /\ timer' = [timer EXCEPT ![w] = Debounce]
    /\ TrackerGoto(w, "capture")
    /\ Outside /\ UNCHANGED <<trackerBase, got, woken>>

CaptureChanged(w) ==
    /\ TrackerAt(w, "capture")
    /\ Capture(w)
    /\ TrackerGoto(w, "select")
    /\ Outside /\ UNCHANGED <<trackerBase, candidate, cgen, got, timer>>

Select(w) ==
    /\ TrackerAt(w, "select")
    /\ \/ timer[w] = 0 /\ TrackerGoto(w, "readquiet")
       \/ woken[w] /\ TrackerGoto(w, "readchanged")
    /\ Outside /\ UNCHANGED <<trackerBase, candidate, cgen, got, timer, woken>>

\* Read waits while the source is unreadable, for as long as that is tolerated.
ReadTree(w) ==
    /\ trackerPc[w] \in {"readquiet", "readchanged"}
    /\ \/ /\ ~failing /\ got' = [got EXCEPT ![w] = current]
          /\ TrackerGoto(w, IF TrackerAt(w, "readquiet") THEN "compare" ELSE "adopt") /\ UNCHANGED woken
       \/ Unreadably /\ TrackerGoto(w, "failed") /\ UNCHANGED <<got, woken>>
       \/ /\ failing /\ ~Unreadably
          /\ Capture(w)
          /\ TrackerGoto(w, IF TrackerAt(w, "readquiet") THEN "sleepquiet" ELSE "sleepchanged")
          /\ UNCHANGED got
    /\ Outside /\ UNCHANGED <<trackerBase, candidate, cgen, timer>>

WakeRead(w) ==
    /\ woken[w]
    /\ \/ TrackerAt(w, "sleepquiet") /\ TrackerGoto(w, "readquiet")
       \/ TrackerAt(w, "sleepchanged") /\ TrackerGoto(w, "readchanged")
    /\ Outside /\ UNCHANGED <<trackerBase, candidate, cgen, got, timer, woken>>

MutantCompare(w) ==
    /\ TrackerAt(w, "compare")
    /\ TrackerGoto(w, IF got[w] = candidate[w] THEN "done" ELSE "adopt")
    /\ Outside /\ UNCHANGED <<trackerBase, candidate, cgen, got, timer, woken>>
Compare(w) ==
    /\ TrackerAt(w, "compare")
    /\ TrackerGoto(w, IF got[w] = candidate[w] /\ generation = cgen[w] THEN "done" ELSE "adopt")
    /\ Outside /\ UNCHANGED <<trackerBase, candidate, cgen, got, timer, woken>>

WaitChange(w) ==
    \/ Check(w) \/ Wake(w) \/ Adopt(w) \/ CaptureChanged(w) \/ Select(w)
    \/ ReadTree(w) \/ WakeRead(w) \/ Compare(w)

Track == PollSource \/ RecordSnapshot \/ RecordError

TrackerNext ==
    \/ \E c \in TrackerSources \cup {Unreadable} : EditSource(c)
    \/ StartTracker \/ Tick \/ Track
    \/ \E w \in Waiters : Call(w) \/ WaitChange(w)

TrackerFairness ==
    /\ WF_trackerVars(Tick) /\ WF_trackerVars(Track)
    /\ \A w \in Waiters : WF_trackerVars(WaitChange(w))
TrackerSpec == TrackerInit /\ [][TrackerNext]_trackerVars /\ TrackerFairness
-----------------------------------------------------------------------------
\* A snapshot is returned only if it is still the tracker's and has been for a whole
\* debounce period, whatever changes and errors raced with the timer.
StableWhenReturned ==
    [][\A w \in Waiters : trackerPc[w] # "done" /\ trackerPc'[w] = "done" =>
          got[w] = current /\ quiet >= Debounce]_trackerVars

=============================================================================
