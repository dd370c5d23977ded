------------------------------ MODULE MCServe ------------------------------
(* forge serve for TLC: its supervisor, the source tracker and the snapshots it reads,
   the start of a candidate, and the live reload of browsers.  Each is modelled with its
   own view of the others and they share no state here: a behaviour of this module is a
   behaviour of one part, with the others where they start.                           *)
EXTENDS DevServer, SourceTracker, SourceSnapshot, CandidateStart, LiveReload

CONSTANT Parts   \* the parts this run explores

VARIABLE part

MCContents == {[size |-> 1, data |-> "a"], [size |-> 1, data |-> "b"], [size |-> 2, data |-> "c"]}

Init ==
  /\ part \in Parts
  /\ ServerInit /\ TrackerInit /\ SnapshotInit /\ CandidateInit /\ ReloadInit
  /\ src \in IF part = "server" THEN {1} \cup Bad ELSE {1}
  /\ part # "tracker" => trackerSrc = "a"

Next ==
  /\ UNCHANGED part
  /\ \/ /\ part = "server" /\ ServerNext
        /\ faults' + writes' <= 1   \* a fault or another generator, not both
        /\ UNCHANGED <<trackerVars, snapshotVars, candidateVars, reloadVars>>
     \/ /\ part = "tracker" /\ TrackerNext
        /\ UNCHANGED <<serverVars, snapshotVars, candidateVars, reloadVars>>
     \/ /\ part = "snapshot" /\ SnapshotNext
        /\ UNCHANGED <<serverVars, trackerVars, candidateVars, reloadVars>>
     \/ /\ part = "candidate" /\ CandidateNext
        /\ UNCHANGED <<serverVars, trackerVars, snapshotVars, reloadVars>>
     \/ /\ part = "reload" /\ ReloadNext
        /\ UNCHANGED <<serverVars, trackerVars, snapshotVars, candidateVars>>

allVars == <<part, serverVars, trackerVars, snapshotVars, candidateVars, reloadVars>>

Spec ==
  /\ Init /\ [][Next]_allVars
  /\ ServerFairness /\ TrackerFairness /\ CandidateFairness /\ ReloadFairness
=============================================================================
