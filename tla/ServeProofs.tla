---------------------------- MODULE ServeProofs ----------------------------
(***************************************************************************)
(* What serves for long, for every instance.  forge serve, with any number *)
(* of sources, edits, faults, attempts, browsers and streams: the last     *)
(* good server stands while the next one is made, a candidate that is      *)
(* taken for ready is the one listening, a snapshot says what is in the    *)
(* files, and no notification is lost between a subscription and a reload. *)
(* The in-memory rate limiter, with any number of keys: it implements      *)
(* FixedWindow in a bounded table, and the wait it announces suffices.     *)
(***************************************************************************)
EXTENDS DevServer, SourceTracker, SourceSnapshot, CandidateStart, LiveReload, RateLimit,
        FiniteSetTheorems, TLAPS

-----------------------------------------------------------------------------
(* The supervisor. *)

Over == {"close", "cleanup", "returned"}
\* Steps of the first candidate, and of later ones.
Starting == {"idle", "first", "proxy", "firstagain"}
Later == {"failed", "wait", "poll", "poll2", "swap", "recheck", "replace", "commit", "notify"}
\* The candidate is not started yet; it has no binary yet; it was started.
Unbuilt == {"idle", "begin", "views", "compile", "settle", "stabilize", "failed", "wait", "commit", "notify"}
Unstarted == Unbuilt \cup {"checkbuild", "start"}
Launched == {"checkstart", "result", "first", "proxy", "firstagain", "publish", "poll", "poll2", "swap", "recheck"}
\* The candidate may have published its views, or is the active server by now.
Publishing == {"discard", "proxy", "firstagain", "poll2", "swap", "recheck"}
Replacing == {"replace", "commit"}

\* The slot that is not the candidate's.
Rest == IF active = 1 THEN 1 ELSE 2

\* The candidate's slot, the other slot, and the generator lock, at each step.
ServerTyped ==
    /\ active \in {0, 1, 2} /\ faults \in Nat /\ (faults = 0 => left = {})
    /\ proc \in [Slots -> {"none", "running", "exited"}]
    /\ binary \in [Slots -> BOOLEAN] /\ published \in [Slots -> BOOLEAN]
SlotsHeld ==
    /\ pc \in Starting => active = 0
    /\ pc \in Later => active # 0
    /\ pc \in Unstarted => proc[Candidate] = "none"
    /\ pc \in Unbuilt => ~binary[Candidate]
    /\ pc \in Launched => proc[Candidate] # "none"
    /\ pc \in Launched \cup {"start"} => binary[Candidate]
    /\ pc = "firstagain" => target = Candidate
    /\ pc \notin Over /\ active = 0 => proc[2] = "none" /\ ~binary[2]
    /\ pc \notin Over /\ active # 0 =>
           /\ proc[active] # "none" /\ binary[active]
           /\ target = IF pc = "recheck" THEN Candidate ELSE active
LockHeld ==
    /\ pc \notin Over => ~published[IF pc \in Replacing THEN Candidate ELSE Rest]
    /\ pc \notin Over \cup Publishing \cup Replacing => ~published[Candidate]
    /\ pc \notin Over /\ (\A s \in Slots : ~published[s]) => lock = "free"
ServerInv == ServerTyped /\ SlotsHeld /\ LockHeld

LEMMA ServerStart == ServerInit => ServerInv
BY DEF ServerInit, ServerInv, ServerTyped, SlotsHeld, LockHeld, Candidate, Rest, Slots, NoSlot, Over,
       Starting, Later, Unbuilt, Unstarted, Launched, Publishing, Replacing

\* What cleanupDevelopmentCandidate leaves of slot s, whether or not it succeeds.
LEMMA Tidied ==
    ASSUME ServerTyped, NEW s \in Slots, Removed(s) \/ Kept(s),
           faults' = faults \/ faults' = faults + 1
    PROVE  /\ proc' = [proc EXCEPT ![s] = "none"]
           /\ proc' \in [Slots -> {"none", "running", "exited"}]
           /\ binary' \in [Slots -> BOOLEAN] /\ published' \in [Slots -> BOOLEAN]
           /\ faults' \in Nat /\ (faults' = 0 => left' = {})
           /\ \A x \in Slots \ {s} : binary'[x] = binary[x] /\ published'[x] = published[x]
           /\ ~binary'[s] /\ (Removed(s) => ~published'[s])
           /\ ~published[s] => ~published'[s] /\ lock' = lock
           /\ lock = "free" => lock' = "free"
           /\ published[s] /\ Removed(s) => lock' = "free"
<1>1. PICK failed : CleanedUp(s, failed) /\ (Removed(s) => CleanedUp(s, {}))
  BY Zenon DEF Removed, Kept
<1>2. /\ proc' = [proc EXCEPT ![s] = "none"] /\ binary' = [binary EXCEPT ![s] = FALSE]
      /\ \/ published' = [published EXCEPT ![s] = FALSE] /\ lock' = "free" /\ published[s]
         \/ UNCHANGED <<published, lock>>
  BY Zenon, <1>1 DEF CleanedUp
<1>3. Removed(s) => left' = left /\ (published[s] => published' = [published EXCEPT ![s] = FALSE] /\ lock' = "free")
  BY <1>1 DEF CleanedUp
<1>4. Kept(s) => faults' = faults + 1
  BY Zenon DEF Kept, Fault
<1>5. faults' \in Nat /\ (faults' = 0 => left' = {})
  BY <1>3, <1>4 DEF ServerTyped
<1>6. /\ proc' \in [Slots -> {"none", "running", "exited"}]
      /\ binary' \in [Slots -> BOOLEAN] /\ published' \in [Slots -> BOOLEAN]
  BY Zenon, <1>2 DEF ServerTyped
<1>7. /\ \A x \in Slots \ {s} : binary'[x] = binary[x] /\ published'[x] = published[x]
      /\ ~binary'[s] /\ (Removed(s) => ~published'[s])
      /\ ~published[s] => ~published'[s] /\ lock' = lock
      /\ lock = "free" => lock' = "free"
      /\ published[s] /\ Removed(s) => lock' = "free"
  BY Zenon, <1>2, <1>3 DEF ServerTyped
<1> QED BY Zenon, <1>2, <1>5, <1>6, <1>7

\* A step that only moves the supervisor's program counter.
LEMMA ServerMoves ==
    ASSUME ServerInv, UNCHANGED <<slots, serverFiles, public, active, faults>>,
           \/ StartServe \/ Begin \/ Result \/ Failed \/ Stabilize \/ Wait \/ Notify
    PROVE  ServerInv'
BY ZenonT(30) DEF ServerInv, ServerTyped, SlotsHeld, LockHeld, Candidate, Rest, slots, serverFiles, public, Slots, NoSlot, Over, Initial,
       Starting, Later, Unbuilt, Unstarted, Launched, Publishing, Replacing, Goto,
       StartServe, Begin, Result, Failed, Stabilize, Wait, Notify


LEMMA ServerBuilds ==
    ASSUME ServerInv, CompileViews \/ Compile \/ SwapTarget \/ Close
    PROVE  ServerInv'
<1> USE DEF ServerInv, ServerTyped, SlotsHeld, LockHeld, Candidate, Rest, Slots, NoSlot, Over,
            Starting, Later, Unbuilt, Unstarted, Launched, Publishing, Replacing, Goto
<1>1. CASE CompileViews
  BY Zenon, <1>1 DEF CompileViews, serverFiles, public
<1>2. CASE Compile
  <2>1. PICK ok \in BOOLEAN :
           /\ binary' = [binary EXCEPT ![Candidate] = ok]
           /\ UNCHANGED <<left, faults>> \/ faults' = faults + 1
    BY <1>2, Zenon DEF Compile, Fault
  <2> QED BY <1>2, <2>1 DEF Compile, serverFiles, public
<1>3. CASE SwapTarget
  BY Zenon, <1>3 DEF SwapTarget, slots, serverFiles
<1>4. CASE Close
  BY Zenon, <1>4 DEF Close, slots, serverFiles
<1> QED BY Zenon, <1>1, <1>2, <1>3, <1>4

\* The supervisor cleans up the candidate's slot and goes on, or ends.
LEMMA ServerDiscards ==
    ASSUME ServerInv, pc \notin Over, Removed(Candidate) \/ Kept(Candidate),
           faults' = faults \/ faults' = faults + 1, active' = active,
           \/ pc' = "close"
           \/ /\ active # 0 => target' = IF pc = "recheck" THEN active ELSE target
              /\ pc \notin Replacing
              /\ Removed(Candidate) \/ pc \in {"checkbuild", "checkstart", "settle"}
              /\ \/ pc' \in {"settle", "stabilize"}
                 \/ pc' = "failed" /\ active # 0
    PROVE  ServerInv'
<1>1. Candidate' = Candidate /\ Candidate \in Slots /\ Rest' = Rest /\ Rest \in Slots \ {Candidate}
  BY DEF Candidate, Rest, Slots, ServerInv, ServerTyped
<1>2. /\ proc' = [proc EXCEPT ![Candidate] = "none"]
      /\ proc' \in [Slots -> {"none", "running", "exited"}]
      /\ binary' \in [Slots -> BOOLEAN] /\ published' \in [Slots -> BOOLEAN]
      /\ faults' \in Nat /\ (faults' = 0 => left' = {})
      /\ \A x \in Slots \ {Candidate} : binary'[x] = binary[x] /\ published'[x] = published[x]
      /\ ~binary'[Candidate] /\ (Removed(Candidate) => ~published'[Candidate])
      /\ ~published[Candidate] => ~published'[Candidate] /\ lock' = lock
      /\ lock = "free" => lock' = "free"
      /\ published[Candidate] /\ Removed(Candidate) => lock' = "free"
  BY Zenon, <1>1, Tidied DEF ServerInv
<1>3. ServerTyped'
  BY Zenon, <1>2 DEF ServerTyped, ServerInv
<1>4. CASE pc' = "close"
  BY Zenon, <1>3, <1>4 DEF ServerInv, SlotsHeld, LockHeld, Over, Starting, Later, Unbuilt, Unstarted, Launched
<1>5. CASE pc' # "close"
  <2>1. SlotsHeld'
    BY <1>1, <1>2, <1>5 DEF ServerInv, ServerTyped, SlotsHeld, Candidate, Rest, Slots, Over, Replacing,
       Starting, Later, Unbuilt, Unstarted, Launched
  <2>2. LockHeld'
    BY Zenon, <1>1, <1>2, <1>5 DEF ServerInv, ServerTyped, LockHeld, Slots, Over, Replacing, Publishing, Rest, Candidate
  <2> QED BY Zenon, <1>3, <2>1, <2>2 DEF ServerInv
<1> QED BY Zenon, <1>4, <1>5


\* buildStableDevelopmentCandidate after the compiler.
LEMMA ServerChecks ==
    ASSUME ServerInv, CheckBuild \/ CheckStart \/ GiveUpBuild
    PROVE  ServerInv'
<1>1. /\ pc \in {"checkbuild", "checkstart", "settle"} /\ pc \notin Over \cup Replacing
      /\ active' = active /\ target' = target
      /\ pc = "checkbuild" => pc \in Unstarted
      /\ pc = "checkstart" => pc \in Launched
  BY Zenon DEF CheckBuild, CheckStart, GiveUpBuild, public, Over, Replacing, Unstarted, Launched
<1>2. CASE (Removed(Candidate) \/ Kept(Candidate)) /\ ((DiscardStale /\ (CheckBuild \/ CheckStart)) \/ GiveUpBuild)
  <2>1. faults' = faults \/ faults' = faults + 1
    BY <1>2, Zenon DEF CheckBuild, CheckStart, GiveUpBuild, DiscardStale, Fault, Kept
  <2>2. pc' \in {"settle", "close"} \/ (pc' = "failed" /\ active # 0)
    BY Zenon, <1>2 DEF CheckBuild, CheckStart, GiveUpBuild, DiscardStale, BuildFailed, Initial, Goto, NoSlot
  <2> QED BY Zenon, <1>1, <1>2, <2>1, <2>2, ServerDiscards
<1>3. CASE /\ UNCHANGED <<slots, serverFiles, faults>>
           /\ \/ pc = "checkbuild" /\ ~binary[Candidate] /\ (pc' = "close" \/ (pc' = "failed" /\ active # 0))
              \/ pc = "checkbuild" /\ binary[Candidate] /\ pc' = "start"
              \/ pc = "checkstart" /\ pc' = "result"
  BY Zenon, <1>1, <1>3 DEF ServerInv, ServerTyped, SlotsHeld, LockHeld, Candidate, Rest, Slots, Over, slots, serverFiles,
       Starting, Later, Unbuilt, Unstarted, Launched, Publishing, Replacing
<1>4. \/ DiscardStale /\ (CheckBuild \/ CheckStart)
      \/ GiveUpBuild
      \/ /\ UNCHANGED <<slots, serverFiles, faults>>
         /\ \/ pc = "checkbuild" /\ ~binary[Candidate] /\ (pc' = "close" \/ (pc' = "failed" /\ active # 0))
            \/ pc = "checkbuild" /\ binary[Candidate] /\ pc' = "start"
            \/ pc = "checkstart" /\ pc' = "result"
  BY Zenon DEF CheckBuild, CheckStart, BuildFailed, Initial, Goto, NoSlot
<1>5. (DiscardStale \/ GiveUpBuild) => Removed(Candidate) \/ Kept(Candidate)
  BY Zenon DEF DiscardStale, GiveUpBuild
<1> QED BY Zenon, <1>2, <1>3, <1>4, <1>5

LEMMA ServerStarts ==
    ASSUME ServerInv, Start
    PROVE  ServerInv'
<1> USE DEF ServerInv, ServerTyped, SlotsHeld, LockHeld, Candidate, Rest, Slots, Over, Initial, NoSlot,
       Starting, Later, Unbuilt, Unstarted, Launched, Publishing, Replacing
<1>0. pc = "start" /\ UNCHANGED <<active, published, lock, target>>
  BY Zenon DEF Start, serverFiles, public
<1>1. CASE /\ proc' = [proc EXCEPT ![Candidate] = "running"] /\ pc' = "checkstart"
           /\ UNCHANGED <<binary, left, faults>>
  BY Zenon, <1>0, <1>1
<1>2. CASE /\ faults' = faults + 1 /\ binary' = [binary EXCEPT ![Candidate] = FALSE] /\ UNCHANGED proc
           /\ pc' \in {"settle", "close"} \/ (pc' = "failed" /\ active # 0)
  BY <1>0, <1>2
<1> QED BY Zenon, <1>1, <1>2 DEF Start, Fault, BuildFailed, Goto

LEMMA ServerPublishes ==
    ASSUME ServerInv, Publish
    PROVE  ServerInv'
<1> USE DEF ServerInv, ServerTyped, SlotsHeld, LockHeld, Candidate, Rest, Slots, Over, Initial, NoSlot,
       Starting, Later, Unbuilt, Unstarted, Launched, Publishing, Replacing
<1>1. /\ pc' \in {"discard", "proxy", "poll2"} /\ (pc' = "proxy" => active = 0) /\ (pc' = "poll2" => active # 0)
      /\ \/ published' = [published EXCEPT ![Candidate] = TRUE]
         \/ UNCHANGED <<lock, published>>
      /\ faults' = faults \/ faults' = faults + 1
      /\ pc = "publish" /\ lock = "free" /\ UNCHANGED <<active, proc, binary, left, target>>
  BY Zenon DEF Publish, Goto, Fault, public
<1>2. ServerTyped'
  <2>1. Candidate \in Slots
    BY Zenon
  <2>2. published \in [Slots -> BOOLEAN] /\ faults' \in Nat /\ (faults' = 0 => left' = {})
    BY <1>1
  <2> HIDE DEF Candidate, Slots, SlotsHeld, LockHeld, ServerInv, ServerTyped
  <2>3. published' \in [Slots -> BOOLEAN]
    BY <1>1, <2>1, <2>2, Zenon
  <2> QED BY Zenon, <1>1, <2>2, <2>3 DEF ServerInv, ServerTyped
<1>3. SlotsHeld'
  BY Zenon, <1>1
<1>4. LockHeld'
  BY <1>1, <1>2
<1> QED BY Zenon, <1>2, <1>3, <1>4

\* Cleanup of the candidate by the steps that use it.
LEMMA ServerCleans ==
    ASSUME ServerInv, NEW then, Cleanup(Candidate, then), pc \notin Over \cup Replacing, active' = active,
           \/ then = "stabilize"
           \/ then = "failed" /\ active # 0
           \/ then = "close",
           then # "close" /\ active # 0 => target' = (IF pc = "recheck" THEN active ELSE target)
    PROVE  ServerInv'
<1>1. /\ faults' = faults \/ faults' = faults + 1
      /\ (Removed(Candidate) /\ pc' = then) \/ (Kept(Candidate) /\ pc' = "close")
  BY Zenon DEF Cleanup, Kept, Fault, Goto
<1> QED BY Zenon, <1>1, ServerDiscards DEF Replacing


\* The steps that clean up the candidate or promote it.
LEMMA ServerDecides ==
    ASSUME ServerInv, Discard \/ FirstCheck \/ StartProxy \/ FirstRecheck \/ Poll \/ Recheck \/ GiveUp
    PROVE  ServerInv'
<1> USE DEF ServerInv, ServerTyped, SlotsHeld, LockHeld, Candidate, Rest, Slots, Over, Initial, NoSlot,
       Starting, Later, Unbuilt, Unstarted, Launched, Publishing, Replacing
<1>1. CASE Discard
  <2> HIDE DEF ServerInv, Candidate
  <2> QED BY Zenon, <1>1, ServerCleans DEF Discard, public
<1>2. CASE FirstCheck
  <2>1. CASE UNCHANGED <<slots, serverFiles, faults>> /\ pc' = "publish"
    BY Zenon, <1>2, <2>1 DEF FirstCheck, public, slots, serverFiles
  <2>2. CASE ~(UNCHANGED <<slots, serverFiles, faults>> /\ pc' = "publish")
    <3>1. pc = "first" /\ active' = active /\ target' = target
      BY Zenon, <1>2 DEF FirstCheck, public
    <3>2. PICK then \in {"stabilize", "close"} : Cleanup(Candidate, then)
      BY Zenon, <1>2, <2>2 DEF FirstCheck, Goto
    <3> HIDE DEF ServerInv, Candidate
    <3> QED BY Zenon, <3>1, <3>2, ServerCleans
  <2> QED BY Zenon, <2>1, <2>2
<1>3. CASE StartProxy
  <2>1. CASE UNCHANGED <<slots, serverFiles, faults>> /\ pc' = "firstagain" /\ target' = Candidate
    BY Zenon, <1>3, <2>1 DEF StartProxy, slots, serverFiles
  <2>2. CASE Cleanup(Candidate, "close") /\ UNCHANGED public
    <3>1. pc = "proxy" /\ active' = active /\ target' = target
      BY Zenon, <1>3, <2>2 DEF StartProxy, public
    <3> HIDE DEF ServerInv, Candidate
    <3> QED BY Zenon, <3>1, <2>2, ServerCleans
  <2> QED BY Zenon, <1>3, <2>1, <2>2 DEF StartProxy, Goto
<1>4. CASE FirstRecheck
  <2>1. pc = "firstagain" /\ active = 0 /\ Candidate = 1
    BY Zenon, <1>4 DEF FirstRecheck
  <2>2. CASE proc[Candidate] = "exited" \/ Stale(result.snapshot, result.gen)
    <3>1. PICK then \in {"close", "stabilize"} : active' = active /\ Cleanup(Candidate, then)
      BY Zenon, <1>4, <2>2 DEF FirstRecheck
    <3> HIDE DEF ServerInv, Candidate
    <3> QED BY Zenon, <2>1, <3>1, ServerCleans
  <2>3. CASE ~(proc[Candidate] = "exited" \/ Stale(result.snapshot, result.gen))
    <3>1. /\ active' = 1 /\ pc' \in {"wait", "close"} /\ UNCHANGED <<target, proc, binary, left>>
          /\ faults' = faults \/ faults' = faults + 1
          /\ published' = [published EXCEPT ![1] = FALSE]
          /\ lock' = IF published[1] THEN "free" ELSE lock
      BY Zenon, <1>4, <2>1, <2>3 DEF FirstRecheck, CommitThen, Committed, Goto, Fault, public
    <3>2. ServerTyped'
      BY <2>1, <3>1
    <3> QED BY Zenon, <2>1, <3>1, <3>2
  <2> QED BY Zenon, <2>2, <2>3
<1>5. CASE Poll
  <2>1. pc \in {"poll", "poll2"} /\ active' = active /\ target' = target /\ active # 0
    BY Zenon, <1>5 DEF Poll, public
  <2>2. CASE UNCHANGED <<slots, serverFiles, faults>> /\ pc' = IF pc = "poll" THEN "publish" ELSE "swap"
    BY Zenon, <2>1, <2>2 DEF slots, serverFiles
  <2>3. ASSUME NEW then \in {"failed", "close", "stabilize"}, Cleanup(Candidate, then)
        PROVE  ServerInv'
    <3> HIDE DEF ServerInv, Candidate
    <3> QED BY Zenon, <2>1, <2>3, ServerCleans
  <2> QED BY <1>5, <2>2, <2>3, Zenon DEF Poll, Goto
<1>6. CASE Recheck
  <2>1. pc = "recheck" /\ active # 0
    BY Zenon, <1>6 DEF Recheck
  <2>2. CASE proc[Candidate] = "exited" \/ Stale(result.snapshot, result.gen)
    <3>1. PICK then \in {"failed", "stabilize"} : active' = active /\ target' = active /\ Cleanup(Candidate, then)
      BY Zenon, <1>6, <2>2 DEF Recheck
    <3> HIDE DEF ServerInv, Candidate
    <3> QED BY Zenon, <2>1, <3>1, ServerCleans
  <2>3. CASE ~(proc[Candidate] = "exited" \/ Stale(result.snapshot, result.gen))
    <3>1. active' = Candidate /\ pc' = "replace" /\ UNCHANGED <<target, faults, slots, serverFiles>>
      BY Zenon, <1>6, <2>1, <2>3 DEF Recheck, Goto
    <3> QED BY <2>1, <3>1 DEF slots, serverFiles
  <2> QED BY Zenon, <2>2, <2>3
<1>7. CASE GiveUp
  <2>1. /\ Cleanup(Candidate, "close") /\ active' = active
        /\ pc \in {"proxy", "first", "firstagain", "stabilize", "poll", "swap", "recheck", "wait"}
    BY Zenon, <1>7 DEF GiveUp
  <2> HIDE DEF ServerInv, Candidate
  <2> QED BY Zenon, <2>1, ServerCleans
<1> QED BY <1>1, <1>2, <1>3, <1>4, <1>5, <1>6, <1>7, Zenon


LEMMA ServerEnds ==
    ASSUME ServerInv, Replace \/ Commit \/ CleanupActive
    PROVE  ServerInv'
<1>1. CASE Replace
  <2>1. /\ pc = "replace" /\ UNCHANGED <<active, target>>
        /\ (Removed(Candidate) /\ pc' = "commit") \/ (Kept(Candidate) /\ pc' = "close")
        /\ faults' = faults \/ faults' = faults + 1
    BY Zenon, <1>1 DEF Replace, Cleanup, Kept, Fault, Goto, public
  <2>2. CASE pc' = "close"
    BY Zenon, <2>1, <2>2, ServerDiscards DEF Over
  <2>3. CASE pc' # "close"
    <3>1. /\ Removed(Candidate) /\ Candidate \in Slots /\ active # 0
          /\ Candidate' = Candidate /\ active \in Slots \ {Candidate} /\ ~published[Candidate]
      BY <2>1, <2>3 DEF ServerInv, ServerTyped, SlotsHeld, LockHeld, Later, Candidate, Slots, Over, Replacing
    <3>2. /\ proc' = [proc EXCEPT ![Candidate] = "none"]
          /\ proc' \in [Slots -> {"none", "running", "exited"}]
          /\ binary' \in [Slots -> BOOLEAN] /\ published' \in [Slots -> BOOLEAN]
          /\ faults' \in Nat /\ (faults' = 0 => left' = {})
          /\ \A x \in Slots \ {Candidate} : binary'[x] = binary[x] /\ published'[x] = published[x]
          /\ ~binary'[Candidate] /\ ~published'[Candidate] /\ lock' = lock
      BY Zenon, <2>1, <3>1, Tidied DEF ServerInv
    <3>3. ServerTyped'
      BY Zenon, <2>1, <3>2 DEF ServerInv, ServerTyped
    <3>4. SlotsHeld'
      BY Zenon, <2>1, <2>3, <3>1, <3>2 DEF ServerInv, ServerTyped, SlotsHeld, Candidate, Slots, Over,
         Starting, Later, Unbuilt, Unstarted, Launched
    <3>5. LockHeld'
      BY Zenon, <2>1, <2>3, <3>1, <3>2 DEF ServerInv, LockHeld, Slots, Over, Replacing, Publishing, Candidate
    <3> QED BY Zenon, <3>3, <3>4, <3>5 DEF ServerInv
  <2> QED BY Zenon, <2>2, <2>3
<1>2. CASE Commit
  <2>1. /\ pc = "commit" /\ pc' \in {"notify", "close"} /\ active # 0 /\ active \in Slots
        /\ UNCHANGED <<active, target, proc, binary, left>>
        /\ faults' = faults \/ faults' = faults + 1
        /\ published' = [published EXCEPT ![active] = FALSE]
        /\ lock' = IF published[active] THEN "free" ELSE lock
    BY Zenon, <1>2 DEF Commit, CommitThen, Committed, Goto, Fault, public, ServerInv, SlotsHeld, ServerTyped, Later, Slots
  <2>2. faults' \in Nat /\ (faults' = 0 => left' = {})
    BY <2>1 DEF ServerInv, ServerTyped
  <2> QED BY Zenon, <2>1, <2>2 DEF ServerInv, ServerTyped, SlotsHeld, LockHeld, Candidate, Rest, Slots, Over,
       Starting, Later, Unbuilt, Unstarted, Launched, Publishing, Replacing
<1>3. CASE CleanupActive
  <2>1. pc' = "returned" /\ active' = active
    BY Zenon, <1>3 DEF CleanupActive, Goto
  <2>2. ServerTyped'
    <3>1. CASE active = 0
      BY Zenon, <1>3, <3>1 DEF CleanupActive, NoSlot, slots, ServerInv, ServerTyped
    <3>2. CASE active # 0
      <4>1. active \in Slots /\ (Removed(active) \/ Kept(active)) /\ (faults' = faults \/ faults' = faults + 1)
        BY Zenon, <1>3, <3>2 DEF CleanupActive, NoSlot, ServerInv, ServerTyped, Slots, Kept, Fault
      <4> QED BY Zenon, <2>1, <4>1, Tidied DEF ServerInv, ServerTyped
    <3> QED BY Zenon, <3>1, <3>2
  <2> QED BY Zenon, <2>1, <2>2 DEF ServerInv, SlotsHeld, LockHeld, Over, Starting, Later, Unbuilt, Unstarted, Launched
<1> QED BY Zenon, <1>1, <1>2, <1>3

\* The source, other generators, and processes and the proxy that fail.
LEMMA ServerWorld ==
    ASSUME ServerInv, World
    PROVE  ServerInv'
<1>1. ASSUME NEW s \in Slots, Exit(s) PROVE ServerInv'
  <2>1. /\ proc[s] = "running" /\ proc' = [proc EXCEPT ![s] = "exited"] /\ faults' = faults + 1
        /\ UNCHANGED <<pc, active, binary, published, left, lock, target>>
    BY Zenon, <1>1 DEF Exit, Fault, supervisor, serverFiles, public
  <2>2. proc' \in [Slots -> {"none", "running", "exited"}] /\ \A x \in Slots : proc[x] = "none" <=> proc'[x] = "none"
    BY Zenon, <2>1 DEF ServerInv, ServerTyped
  <2>3. Candidate' = Candidate /\ Candidate \in Slots /\ Rest' = Rest /\ 2 \in Slots
        /\ (active # 0 => active \in Slots)
    BY Zenon, <2>1 DEF Candidate, Rest, Slots, ServerInv, ServerTyped
  <2>4. ServerTyped' /\ faults' # 0
    BY <2>1, <2>2 DEF ServerInv, ServerTyped
  <2>5. SlotsHeld'
    BY Zenon, <2>1, <2>2, <2>3, <2>4 DEF ServerInv, SlotsHeld
  <2>6. LockHeld'
    BY Zenon, <2>1, <2>3 DEF ServerInv, LockHeld
  <2> QED BY Zenon, <2>4, <2>5, <2>6 DEF ServerInv
<1>2. CASE (\E c \in Sources : Edit(c)) \/ Observe \/ WriteViews \/ ProxyFails \/ Cancel
  <2>1. /\ UNCHANGED <<pc, active, proc, binary, published, left, lock, target>>
        /\ faults' = faults \/ faults' = faults + 1
    BY Zenon, <1>2 DEF Edit, Observe, WriteViews, ProxyFails, Cancel, Fault, supervisor, slots, serverFiles, public, counters
  <2>2. Candidate' = Candidate /\ Rest' = Rest
    BY Zenon, <2>1 DEF Candidate, Rest
  <2> QED BY <2>1, <2>2 DEF ServerInv, ServerTyped, SlotsHeld, LockHeld
<1> QED BY Zenon, <1>1, <1>2 DEF World

LEMMA ServerStep ==
    ASSUME ServerInv, [ServerNext]_serverVars
    PROVE  ServerInv'
<1>1. CASE StartServe \/ Begin \/ Result \/ Failed \/ Stabilize \/ Wait \/ Notify
  <2>1. UNCHANGED <<slots, serverFiles, public, active, faults>>
    BY ZenonT(30), <1>1 DEF StartServe, Begin, Result, Failed, Stabilize, Wait, Notify
  <2> QED BY Zenon, <1>1, <2>1, ServerMoves
<1>2. CASE UNCHANGED serverVars
  BY <1>2 DEF serverVars, slots, serverFiles, public, counters, ServerInv, ServerTyped, SlotsHeld, LockHeld, Candidate, Rest
<1> QED BY Zenon, <1>1, <1>2, ServerBuilds, ServerChecks, ServerStarts, ServerPublishes, ServerDecides, ServerEnds,
           ServerWorld DEF ServerNext, Supervise

\* Which slot is whose, and who holds the generator lock, at every step of forge serve.
THEOREM ServerInvariant == ServerSpec => []ServerInv
BY ServerStart, ServerStep, PTL DEF ServerSpec

\* While forge serve waits for the next change the proxy's target is the active server,
\* every other candidate is stopped and removed but for what a failed stop or removal left
\* behind, and the generator lock is free, whatever was edited, failed or exited before,
\* and however often.
THEOREM LastGoodServerStands == ServerSpec => []LastGoodStands
<1>1. ServerInv => LastGoodStands
  BY Zenon DEF ServerInv, ServerTyped, SlotsHeld, LockHeld, LastGoodStands, Candidate, Rest, Slots, Over,
     Starting, Later, Unbuilt, Unstarted, Launched, Publishing, Replacing
<1> QED BY <1>1, ServerInvariant, PTL

-----------------------------------------------------------------------------
(* The start of a candidate. *)

\* Who listens as the process, is the process.
CandidateInv ==
    /\ holder = "process" => process = "listening"
    /\ startPc = "start" => process = "none"

\* Each attempt begins with a fresh process, and only that one is ever taken for ready:
\* the candidate returned was listening on its address when it was found to be the owner,
\* for any number of attempts and of strangers on the port.
THEOREM ReadyCandidateListens == CandidateSpec => ReadyIsOwn
<1>1. CandidateInit => CandidateInv
  BY Zenon DEF CandidateInit, CandidateInv
<1>2. CandidateInv /\ [CandidateNext]_candidateVars => CandidateInv'
  <2> SUFFICES ASSUME CandidateInv, [CandidateNext]_candidateVars PROVE CandidateInv'
    BY Zenon
  <2> USE DEF CandidateInv, world, here
  <2>1. CASE CallStart \/ Probe \/ Owns \/ Listens \/ Expire \/ UNCHANGED candidateVars
    BY Zenon, <2>1 DEF CallStart, Probe, Owns, Listens, Expire, candidateVars
  <2>2. CASE Reserve
    BY Zenon, <2>2 DEF Reserve, Retry
  <2>3. CASE StartCandidate
    BY <2>3, Zenon DEF StartCandidate
  <2>4. CASE Stop
    BY <2>4, Zenon DEF Stop, Retry
  <2>5. CASE Bind \/ CandidateExit \/ Stranger
    BY Zenon, <2>5 DEF Bind, CandidateExit, Stranger, Alive
  <2> QED BY Zenon, <2>1, <2>2, <2>3, <2>4, <2>5 DEF CandidateNext, Run
<1>3. CandidateInv /\ [CandidateNext]_candidateVars
        => [startPc # "ready" /\ startPc' = "ready" => holder = "process" /\ process = "listening"]_candidateVars
  <2> SUFFICES ASSUME CandidateInv, CandidateNext, startPc # "ready", startPc' = "ready"
               PROVE  holder = "process" /\ process = "listening"
    BY Zenon
  <2>1. Listens
    BY Zenon DEF CandidateNext, Run, CallStart, Reserve, StartCandidate, Probe, Owns, Stop, Retry, Bind, CandidateExit,
           Expire, Stranger, here
  <2> QED BY Zenon, <2>1 DEF Listens, CandidateInv
<1> QED BY <1>1, <1>2, <1>3, PTL DEF CandidateSpec, ReadyIsOwn
-----------------------------------------------------------------------------
(* Live reload. *)

StreamSteps == {"idle", "opened", "streaming", "leaving"}
\* A stream that is registered saw a generation that was current then.
ReloadInv ==
    /\ reloadGeneration \in Nat
    /\ stream \in [Streams -> [at : StreamSteps, since : Nat, of : Browsers \cup {None}]]
    /\ browser \in [Browsers -> [at : {"none", "away", "asked", "response", "page", "plain", "listening", "refused"},
                                 gen : Nat, build : Nat]]
    /\ reloadTarget \in Nat /\ promoted \in Nat /\ builds \in Nat
    /\ subscribers \subseteq Streams /\ IsFiniteSet(subscribers)
    /\ \A s \in subscribers : stream[s].since <= reloadGeneration
    /\ NoMissedReload /\ SlotsAreHeld

LEMMA ReloadStart == ReloadInit => ReloadInv
BY LiveReloadAssumption, FS_EmptySet DEF ReloadInit, ReloadInv, Idle, None, StreamSteps, NoMissedReload, SlotsAreHeld

\* What a step of a browser or of the other end of a stream does to the browsers.
LEMMA BrowserMoves ==
    ASSUME ReloadInv, NEW b, b \in Browsers, NEW to \in {"away", "page", "plain", "listening", "refused", "asked", "response"},
           Move(b, to)
    PROVE  browser' \in [Browsers -> [at : {"none", "away", "asked", "response", "page", "plain", "listening", "refused"},
                                      gen : Nat, build : Nat]]
BY DEF ReloadInv, Move

LEMMA StreamEnds ==
    ASSUME ReloadInv, NEW s \in Streams, NEW to \in {"away", "page", "refused"}, Ends(s, to)
    PROVE  browser' \in [Browsers -> [at : {"none", "away", "asked", "response", "page", "plain", "listening", "refused"},
                                      gen : Nat, build : Nat]]
<1>1. stream[s].of \in Browsers \cup {None}
  BY Zenon DEF ReloadInv
<1>2. CASE stream[s].of = None
  BY Zenon, <1>2 DEF Ends, ReloadInv
<1>3. CASE stream[s].of # None
  BY Zenon, <1>1, <1>3, BrowserMoves DEF Ends
<1> QED BY Zenon, <1>2, <1>3


\* The supervisor and the pages leave the streams and the subscribers alone.
LEMMA ReloadPublishes ==
    ASSUME ReloadInv, Supervisor
    PROVE  ReloadInv'
<1>1. UNCHANGED <<subscribers, stream, browser>> /\ {reloadTarget', promoted', builds'} \subseteq Nat
  BY DEF ReloadInv, Supervisor, SwapReload, SwapBack, NotifyReload, CloseReload
<1>2. \/ UNCHANGED <<reloadGeneration, full>>
      \/ /\ reloadGeneration' \in Nat /\ reloadGeneration <= reloadGeneration'
         /\ full' = full \cup subscribers
  BY DEF ReloadInv, Supervisor, SwapReload, SwapBack, NotifyReload, CloseReload
<1>3. \A s \in subscribers' : stream'[s].since <= reloadGeneration'
  BY <1>1, <1>2 DEF ReloadInv
<1>4. NoMissedReload'
  BY Zenon, <1>1, <1>2 DEF ReloadInv, NoMissedReload, At
<1>5. SlotsAreHeld'
  BY Zenon, <1>1 DEF ReloadInv, SlotsAreHeld
<1> QED BY Zenon, <1>1, <1>2, <1>3, <1>4, <1>5 DEF ReloadInv

LEMMA ReloadPages ==
    ASSUME ReloadInv, NEW b \in Browsers, Navigate(b) \/ Handler(b) \/ rewrite(b) \/ InjectMark(b)
    PROVE  ReloadInv'
<1>1. UNCHANGED <<server, subscribers, full, stream>>
  BY Zenon DEF Navigate, Handler, rewrite, InjectMark, others
<1>2. browser' \in [Browsers -> [at : {"none", "away", "asked", "response", "page", "plain", "listening", "refused"},
                                 gen : Nat, build : Nat]]
  <2>1. CASE Navigate(b) \/ InjectMark(b)
    BY Zenon, <2>1, BrowserMoves DEF Navigate, InjectMark
  <2>2. CASE Handler(b)
    BY Zenon, <2>2 DEF Handler, ReloadInv
  <2>3. CASE rewrite(b)
    BY <2>3, Zenon DEF rewrite, ReloadInv
  <2> QED BY Zenon, <2>1, <2>2, <2>3
<1> QED BY Zenon, <1>1, <1>2 DEF ReloadInv, server, NoMissedReload, SlotsAreHeld, At

\* A stream is opened, sends, or loses its browser; the subscribers stay as they are.
LEMMA ReloadStreams ==
    ASSUME ReloadInv, NEW s \in Streams,
           (\E b \in Browsers : Open(b, s)) \/ Deliver(s) \/ Gone(s) \/ Done(s) \/ Break(s)
    PROVE  ReloadInv'
<1>1. UNCHANGED <<server, subscribers>>
  BY Zenon DEF Open, Deliver, Gone, Done, Break
<1>2. browser' \in [Browsers -> [at : {"none", "away", "asked", "response", "page", "plain", "listening", "refused"},
                                 gen : Nat, build : Nat]]
  <2>1. CASE \E b \in Browsers : Open(b, s)
    BY Zenon, <2>1, BrowserMoves DEF Open
  <2>2. CASE Gone(s)
    BY Zenon, <2>2 DEF Gone, ReloadInv
  <2>3. CASE Deliver(s) \/ Done(s) \/ Break(s)
    BY Zenon, <2>3, StreamEnds DEF Deliver, Done, Break
  <2> QED BY Zenon, <2>1, <2>2, <2>3
<1>3. /\ stream' \in [Streams -> [at : StreamSteps, since : Nat, of : Browsers \cup {None}]]
      /\ \A x \in Streams : x # s => stream'[x] = stream[x]
      /\ \/ stream[s].at = "idle"
         \/ /\ stream'[s].since = stream[s].since
            /\ stream'[s].at = stream[s].at \/ stream'[s].at = "leaving"
      /\ \/ full' = full
         \/ full' = full \ {s} /\ stream'[s].at = "leaving"
  <2>0. stream \in [Streams -> [at : StreamSteps, since : Nat, of : Browsers \cup {None}]]
    BY Zenon DEF ReloadInv
  <2>1. ASSUME NEW b \in Browsers, Open(b, s) PROVE <1>3
    <3>1. browser[b].gen \in Nat
      BY Zenon DEF ReloadInv
    <3> DEFINE r == [at |-> "opened", since |-> browser[b].gen, of |-> b]
    <3>2. r \in [at : StreamSteps, since : Nat, of : Browsers \cup {None}]
      BY Zenon, <3>1 DEF StreamSteps
    <3>3. stream' = [stream EXCEPT ![s] = r] /\ stream[s].at = "idle" /\ full' = full
      BY Zenon, <2>1 DEF Open, At
    <3> HIDE DEF r
    <3> QED BY Zenon, <2>0, <3>2, <3>3
  <2>2. CASE Gone(s)
    BY <2>0, <2>2 DEF Gone, PageGoto, StreamSteps
  <2>3. CASE Deliver(s) \/ Done(s)
    <3>1. /\ stream' = [stream EXCEPT ![s].at = "leaving", ![s].of = None]
          /\ full' = full \/ full' = full \ {s}
      BY Zenon, <2>3 DEF Deliver, Done
    <3> QED BY <2>0, <3>1, Zenon DEF StreamSteps
  <2>4. CASE Break(s)
    BY Zenon, <2>0, <2>4 DEF Break
  <2> QED BY Zenon, <2>1, <2>2, <2>3, <2>4
<1>4. \A x \in subscribers :
          stream'[x].since = stream[x].since /\ (stream'[x].at = stream[x].at \/ stream'[x].at = "leaving")
  BY Zenon, <1>3 DEF ReloadInv, SlotsAreHeld
<1>5. NoMissedReload'
  <2> SUFFICES ASSUME NEW x \in subscribers, stream[x].since < reloadGeneration
               PROVE  x \in full' \/ stream'[x].at = "leaving"
    BY Zenon, <1>1, <1>4 DEF NoMissedReload, At, server
  <2>1. x \in full \/ stream[x].at = "leaving"
    BY Zenon DEF ReloadInv, NoMissedReload, At
  <2> QED BY Zenon, <2>1, <1>3, <1>4
<1>6. SlotsAreHeld'
  BY Zenon, <1>1, <1>4 DEF ReloadInv, SlotsAreHeld
<1>7. \A x \in subscribers' : stream'[x].since <= reloadGeneration'
  BY Zenon, <1>1, <1>4 DEF ReloadInv, server
<1> QED BY Zenon, <1>1, <1>2, <1>3, <1>5, <1>6, <1>7 DEF ReloadInv, server

\* A stream takes a slot only while one is free and its page is current.
LEMMA ReloadSubscribes ==
    ASSUME ReloadInv, NEW s \in Streams, subscribe(s) \/ unsubscribe(s)
    PROVE  ReloadInv'
<1>0. stream \in [Streams -> [at : StreamSteps, since : Nat, of : Browsers \cup {None}]]
  BY Zenon DEF ReloadInv
<1>1. CASE subscribe(s) /\ subscribeStatus(s) = "subscribed"
  <2>1. /\ subscribers' = subscribers \cup {s} /\ stream' = [stream EXCEPT ![s].at = "streaming"]
        /\ UNCHANGED <<server, full, browser>>
    BY Zenon, <1>1 DEF subscribe, PageGoto
  <2>2. stream[s].since = reloadGeneration /\ ~(Cardinality(subscribers) >= MaxSubscribers)
    BY <1>0, <1>1 DEF subscribeStatus, ReloadInv
  <2>3. /\ stream' \in [Streams -> [at : StreamSteps, since : Nat, of : Browsers \cup {None}]]
        /\ \A x \in Streams : x # s => stream'[x] = stream[x]
        /\ stream'[s].since = stream[s].since /\ stream'[s].at = "streaming"
    BY Zenon, <1>0, <2>1 DEF StreamSteps
  <2>4. IsFiniteSet(subscribers') /\ Cardinality(subscribers') <= MaxSubscribers
    <3>1. Cardinality(subscribers) \in Nat /\ MaxSubscribers \in Nat
      BY Zenon, FS_CardinalityType, LiveReloadAssumption DEF ReloadInv
    <3>2. IsFiniteSet(subscribers) /\ IsFiniteSet(subscribers \cup {s})
      BY Zenon, FS_AddElement DEF ReloadInv
    <3>3. Cardinality(subscribers \cup {s}) \in {Cardinality(subscribers), Cardinality(subscribers) + 1}
      BY FS_AddElement, Zenon DEF ReloadInv
    <3> QED BY <2>1, <2>2, <3>1, <3>2, <3>3
  <2>5. \A x \in subscribers' : stream'[x].since <= reloadGeneration'
    BY <2>1, <2>2, <2>3 DEF ReloadInv, server
  <2>6. NoMissedReload'
    BY <2>1, <2>2, <2>3 DEF ReloadInv, server, NoMissedReload, At
  <2>7. SlotsAreHeld'
    BY Zenon, <2>1, <2>3, <2>4 DEF ReloadInv, SlotsAreHeld
  <2> QED BY Zenon, <2>1, <2>3, <2>4, <2>5, <2>6, <2>7 DEF ReloadInv, server
<1>2. CASE ~(subscribe(s) /\ subscribeStatus(s) = "subscribed")
  <2>1. Idle \in [at : StreamSteps, since : Nat, of : Browsers \cup {None}]
    BY Zenon DEF Idle, StreamSteps
  <2>2. stream' = [stream EXCEPT ![s] = Idle] /\ UNCHANGED server
    BY Zenon, <1>2 DEF subscribe, unsubscribe
  <2>3. /\ s \notin subscribers'
        /\ \/ subscribers' = subscribers /\ full' = full
           \/ subscribers' = subscribers \ {s} /\ full' = full \ {s}
    BY Zenon, <1>2 DEF subscribe, unsubscribe, At, ReloadInv, SlotsAreHeld
  <2>4. browser' \in [Browsers -> [at : {"none", "away", "asked", "response", "page", "plain", "listening", "refused"},
                                   gen : Nat, build : Nat]]
    BY Zenon, <1>2, StreamEnds DEF subscribe, unsubscribe, ReloadInv
  <2>5. /\ stream' \in [Streams -> [at : StreamSteps, since : Nat, of : Browsers \cup {None}]]
        /\ \A x \in subscribers' : x \in subscribers /\ stream'[x] = stream[x] /\ (x \in full => x \in full')
    BY Zenon, <1>0, <2>1, <2>2, <2>3 DEF ReloadInv
  <2>6. IsFiniteSet(subscribers') /\ Cardinality(subscribers') <= Cardinality(subscribers)
    <3>1. IsFiniteSet(subscribers) /\ subscribers' \subseteq subscribers
      BY Zenon, <2>3 DEF ReloadInv
    <3> QED BY Zenon, <3>1, FS_Subset
  <2>7. Cardinality(subscribers') <= MaxSubscribers
    <3>1. Cardinality(subscribers) \in Nat /\ Cardinality(subscribers') \in Nat /\ MaxSubscribers \in Nat
      BY Zenon, <2>6, FS_CardinalityType, LiveReloadAssumption DEF ReloadInv
    <3>2. Cardinality(subscribers) <= MaxSubscribers
      BY Zenon DEF ReloadInv, SlotsAreHeld
    <3> QED BY <2>6, <3>1, <3>2
  <2>8. NoMissedReload' /\ SlotsAreHeld' /\ \A x \in subscribers' : stream'[x].since <= reloadGeneration'
    BY Zenon, <2>2, <2>5, <2>7 DEF ReloadInv, NoMissedReload, SlotsAreHeld, At, server
  <2> QED BY Zenon, <2>2, <2>3, <2>4, <2>5, <2>6, <2>8 DEF ReloadInv, server
<1> QED BY Zenon, <1>1, <1>2

\* Which streams are registered and what they hold, in every state.
THEOREM ReloadInvariant == ReloadSpec => []ReloadInv
<1>1. ReloadInv /\ [ReloadNext]_reloadVars => ReloadInv'
  <2>1. CASE UNCHANGED reloadVars
    BY Zenon, <2>1 DEF reloadVars, ReloadInv, NoMissedReload, SlotsAreHeld, At
  <2> QED BY Zenon, <2>1, ReloadPublishes, ReloadPages, ReloadStreams, ReloadSubscribes DEF ReloadNext, Page, Serve
<1> QED BY <1>1, ReloadStart, PTL DEF ReloadSpec

\* No notification falls between a subscription and the reload it asks for, for any
\* number of browsers, streams and broken connections.
THEOREM NotificationsAreKept == ReloadSpec => []NoMissedReload
<1>1. ReloadInv => NoMissedReload
  BY Zenon DEF ReloadInv
<1> QED BY <1>1, ReloadInvariant, PTL

\* Slots are held by running streams only, and never more than the limit.
THEOREM SlotsStayBounded == ReloadSpec => []SlotsAreHeld
<1>1. ReloadInv => SlotsAreHeld
  BY Zenon DEF ReloadInv
<1> QED BY <1>1, ReloadInvariant, PTL

-----------------------------------------------------------------------------
(* The source tracker. *)

Timing == {"capture", "select", "readquiet", "sleepquiet", "compare"}
Quiet == {"readquiet", "sleepquiet", "compare"}
\* While the generation that a waiter adopted is current, the source has been quiet for
\* as long as the waiter's timer has run.
TrackerInv ==
    /\ generation \in Nat /\ quiet \in Nat
    /\ timer \in [Waiters -> Nat] /\ cgen \in [Waiters -> Nat]
    /\ DOMAIN trackerPc = Waiters /\ DOMAIN got = Waiters
    /\ \A w \in Waiters :
        /\ cgen[w] <= generation
        /\ generation = cgen[w] =>
            /\ trackerPc[w] \in Timing => quiet + timer[w] >= Debounce
            /\ trackerPc[w] \in Quiet => quiet >= Debounce
            /\ trackerPc[w] = "compare" => got[w] = current

LEMMA TrackerStart == TrackerInit => TrackerInv
BY TrackerAssumption DEF TrackerInit, TrackerInv, Timing, Quiet

\* Time passes, and the tracker reads the source.
LEMMA TrackerTicks ==
    ASSUME TrackerInv, Tick
    PROVE  TrackerInv'
<1>1. /\ timer' = [w \in Waiters |-> IF timer[w] = 0 THEN 0 ELSE timer[w] - 1]
      /\ quiet' = IF quiet + 1 < Debounce THEN quiet + 1 ELSE Debounce
      /\ UNCHANGED <<current, generation, trackerPc, got, cgen>>
  BY Zenon DEF Tick, Min2, tracker, waiter
<1>2. Debounce \in Nat
  BY Zenon, TrackerAssumption
<1>3. timer' \in [Waiters -> Nat] /\ quiet' \in Nat
  BY <1>1, <1>2 DEF TrackerInv
<1>4. \A w \in Waiters : (quiet + timer[w] >= Debounce => quiet' + timer'[w] >= Debounce)
  BY <1>1, <1>2 DEF TrackerInv
<1>5. quiet >= Debounce => quiet' >= Debounce
  BY <1>1, <1>2 DEF TrackerInv
<1> QED BY Zenon, <1>1, <1>3, <1>4, <1>5 DEF TrackerInv

LEMMA TrackerRecords ==
    ASSUME TrackerInv, Track \/ StartTracker \/ \E c \in TrackerSources \cup {Unreadable} : EditSource(c)
    PROVE  TrackerInv'
<1>1. /\ UNCHANGED <<trackerPc, got, cgen, timer>>
      /\ \/ UNCHANGED <<current, generation, quiet>>
         \/ generation' = generation + 1 /\ quiet' = 0
  BY Zenon DEF Track, PollSource, RecordSnapshot, RecordError, StartTracker, EditSource, tracker, waiter
<1> QED BY <1>1 DEF TrackerInv

\* A waiter's step changes its own entries only.
LEMMA TrackerWaits ==
    ASSUME TrackerInv, NEW w \in Waiters, Call(w) \/ WaitChange(w)
    PROVE  TrackerInv'
<1>1. /\ UNCHANGED <<current, generation, quiet>>
      /\ \E step : trackerPc' = [trackerPc EXCEPT ![w] = step]
  BY Zenon DEF Call, WaitChange, Check, Wake, Adopt, CaptureChanged, Select, ReadTree, WakeRead, Compare, Outside,
         TrackerGoto, tracker
<1>2. /\ \A x \in Waiters : x # w => trackerPc'[x] = trackerPc[x]
      /\ DOMAIN trackerPc' = Waiters
  BY Zenon, <1>1 DEF TrackerInv
<1>3. CASE Adopt(w)
  <2>1. /\ timer' = [timer EXCEPT ![w] = Debounce] /\ cgen' = [cgen EXCEPT ![w] = generation] /\ got' = got
        /\ trackerPc'[w] = "capture"
    BY Zenon, <1>3 DEF Adopt, TrackerGoto, TrackerInv
  <2> QED BY <1>1, <1>2, <2>1, TrackerAssumption DEF TrackerInv, Timing, Quiet
<1>4. CASE ReadTree(w)
  <2>1. /\ UNCHANGED <<timer, cgen>>
        /\ trackerPc[w] \in {"readquiet", "readchanged"}
        /\ \/ got' = [got EXCEPT ![w] = current] /\ trackerPc'[w] = IF trackerPc[w] = "readquiet" THEN "compare" ELSE "adopt"
           \/ got' = got /\ trackerPc'[w] = "failed"
           \/ got' = got /\ trackerPc'[w] = IF trackerPc[w] = "readquiet" THEN "sleepquiet" ELSE "sleepchanged"
    BY Zenon, <1>4 DEF ReadTree, TrackerGoto, TrackerAt, TrackerInv
  <2> QED BY <1>1, <1>2, <2>1 DEF TrackerInv, Timing, Quiet
<1>5. CASE Call(w) \/ Check(w) \/ Wake(w) \/ CaptureChanged(w) \/ Select(w) \/ WakeRead(w) \/ Compare(w)
  <2>1. /\ UNCHANGED <<timer, cgen, got>>
        /\ \/ trackerPc'[w] \in {"check", "failed", "stabilize", "sleep", "readchanged", "done", "adopt"}
           \/ trackerPc[w] = "capture" /\ trackerPc'[w] = "select"
           \/ trackerPc[w] = "select" /\ timer[w] = 0 /\ trackerPc'[w] = "readquiet"
           \/ trackerPc[w] = "sleepquiet" /\ trackerPc'[w] = "readquiet"
    BY Zenon, <1>5 DEF Call, Check, Wake, CaptureChanged, Select, WakeRead, Compare, TrackerGoto, TrackerAt, TrackerInv
  <2> QED BY <1>1, <1>2, <2>1, TrackerAssumption DEF TrackerInv, Timing, Quiet
<1> QED BY Zenon, <1>3, <1>4, <1>5 DEF WaitChange

\* How far each waiter's timer has run since the source last changed.
THEOREM TrackerInvariant == TrackerSpec => []TrackerInv
<1>1. TrackerInv /\ [TrackerNext]_trackerVars => TrackerInv'
  <2>1. CASE UNCHANGED trackerVars
    BY Zenon, <2>1 DEF trackerVars, tracker, waiter, TrackerInv
  <2> QED BY Zenon, <2>1, TrackerTicks, TrackerRecords, TrackerWaits DEF TrackerNext
<1> QED BY <1>1, TrackerStart, PTL DEF TrackerSpec

\* Stabilize returns a snapshot only if it is still the tracker's and has been for a
\* whole debounce period, for any number of waiters and any periods.
THEOREM ReturnedIsStable == TrackerSpec => StableWhenReturned
<1>1. TrackerInv /\ [TrackerNext]_trackerVars
        => [\A w \in Waiters : trackerPc[w] # "done" /\ trackerPc'[w] = "done" =>
              got[w] = current /\ quiet >= Debounce]_trackerVars
  <2> SUFFICES ASSUME TrackerInv, TrackerNext, NEW w \in Waiters, trackerPc[w] # "done", trackerPc'[w] = "done"
               PROVE  got[w] = current /\ quiet >= Debounce
    BY Zenon
  <2>1. PICK x \in Waiters : Call(x) \/ WaitChange(x)
    BY Zenon DEF TrackerNext, EditSource, StartTracker, Tick, Track, PollSource, RecordSnapshot, RecordError, waiter
  <2>2. PICK step : trackerPc' = [trackerPc EXCEPT ![x] = step]
    BY Zenon, <2>1 DEF Call, WaitChange, Check, Wake, Adopt, CaptureChanged, Select, ReadTree, WakeRead, Compare, TrackerGoto
  <2>3. x = w /\ step = "done"
    BY Zenon, <2>2 DEF TrackerInv
  <2>4. Compare(w)
    BY Zenon, <2>1, <2>3 DEF Call, WaitChange, Check, Wake, Adopt, CaptureChanged, Select, ReadTree, WakeRead, TrackerGoto, TrackerInv
  <2>5. trackerPc[w] = "compare" /\ generation = cgen[w]
    BY Zenon, <2>4, <2>3 DEF Compare, TrackerGoto, TrackerAt, TrackerInv
  <2> QED BY Zenon, <2>5 DEF TrackerInv, Quiet
<1> QED BY <1>1, TrackerInvariant, PTL DEF TrackerSpec, StableWhenReturned

-----------------------------------------------------------------------------
(* SourceSnapshot: a digest that is not of the content was taken before the content. *)

\* The cached digest of p is of p's content, unless that was written since, and none of it
\* is from the future.
DigestStands(p) ==
    /\ cache[p].checked \in Nat /\ cache[p].checked <= now
    /\ \/ p \notin Present
       \/ cache[p].digest.meta
       \/ cache[p].digest.of = files[p].content
       \/ cache[p].checked <= written[p]

SnapshotInv ==
    /\ now \in Nat /\ written \in [Paths -> Nat] /\ \A p \in Paths : written[p] <= now
    /\ Present \subseteq Paths
    /\ DOMAIN cache \subseteq Paths /\ \A p \in DOMAIN cache : DigestStands(p)

\* Nothing is cached at first.
LEMMA SnapshotStart == SnapshotInit => SnapshotInv
<1> SUFFICES ASSUME SnapshotInit PROVE SnapshotInv
  OBVIOUS
<1>1. DOMAIN cache = {} /\ Present = {}
  BY Zenon DEF SnapshotInit, Empty, Present
<1>2. now = 0 /\ written = [p \in Paths |-> 0]
  BY Zenon DEF SnapshotInit
<1>3. now \in Nat /\ written \in [Paths -> Nat] /\ \A p \in Paths : written[p] <= now
  BY <1>2
<1> QED BY Zenon, <1>1, <1>3 DEF SnapshotInv

\* A step that leaves the cache alone: time passes, and content changes by a write only.
LEMMA EditStands ==
    ASSUME SnapshotInv, cache' = cache, now' \in Nat, now <= now', written' \in [Paths -> Nat],
           \A p \in Paths : written'[p] <= now' /\ written[p] <= written'[p],
           Present' \subseteq Paths,
           \A p \in Paths : \/ p \notin Present' \/ written'[p] = now'
                            \/ p \in Present /\ files'[p].content = files[p].content
    PROVE  SnapshotInv'
<1>1. ASSUME NEW p \in DOMAIN cache PROVE DigestStands(p)'
  <2>1. p \in Paths /\ DigestStands(p) /\ now \in Nat /\ written[p] \in Nat /\ written'[p] \in Nat
    BY Zenon, <1>1 DEF SnapshotInv
  <2>2. cache[p].checked \in Nat /\ cache[p].checked <= now'
    <3>1. cache[p].checked \in Nat /\ cache[p].checked <= now
      BY Zenon, <2>1 DEF DigestStands
    <3> QED BY <2>1, <3>1
  <2>3. CASE p \notin Present'
    BY Zenon, <2>2, <2>3 DEF DigestStands
  <2>4. CASE written'[p] = now'
    <3>1. cache[p].checked <= written'[p]
      BY Zenon, <2>2, <2>4
    <3> QED BY Zenon, <2>2, <3>1 DEF DigestStands
  <2>5. CASE p \in Present /\ files'[p].content = files[p].content
    <3>1. CASE cache[p].digest.meta \/ cache[p].digest.of = files[p].content
      BY Zenon, <2>2, <2>5, <3>1 DEF DigestStands
    <3>2. CASE cache[p].checked <= written[p]
      <4>1. cache[p].checked <= written'[p]
        <5>1. written[p] <= written'[p]
          BY Zenon, <2>1
        <5> QED BY <2>1, <2>2, <3>2, <5>1
      <4> QED BY Zenon, <2>2, <4>1 DEF DigestStands
    <3> QED BY Zenon, <2>1, <2>5, <3>1, <3>2 DEF DigestStands
  <2> QED BY Zenon, <2>1, <2>3, <2>4, <2>5
<1> QED BY Zenon, <1>1 DEF SnapshotInv

\* What a Read makes of a file: the content, the size and time, or what it had cached.
LEMMA EntryOf ==
    ASSUME NEW p, NEW meta
    PROVE  \/ p \in Assets /\ Cached(p) /\ Entry(p, meta) = cache[p]
           \/ /\ Entry(p, meta).checked = now
              /\ IF Entry(p, meta).digest.meta THEN p \in meta ELSE Entry(p, meta).digest.of = files[p].content
<1>1. CASE p \notin meta /\ Cached(p)
  BY Zenon, <1>1 DEF Entry, Cached
<1>2. CASE ~(p \notin meta /\ Cached(p))
  <2>1. Entry(p, meta) = [size |-> Size(p), modified |-> files[p].modified, checked |-> now,
                          digest |-> IF p \in meta THEN Metadata(p) ELSE Hash(p)]
    BY Zenon, <1>2 DEF Entry
  <2>2. Entry(p, meta).checked = now /\ Entry(p, meta).digest = IF p \in meta THEN Metadata(p) ELSE Hash(p)
    BY <2>1
  <2>3. Metadata(p).meta = TRUE /\ Hash(p).meta = FALSE /\ Hash(p).of = files[p].content
    BY Zenon DEF Metadata, Hash
  <2> QED BY Zenon, <2>2, <2>3
<1> QED BY Zenon, <1>1, <1>2

\* What a Read finds is the content but for a write within the interval.
LEMMA ReadTells ==
    ASSUME SnapshotInv, ReadFile
    PROVE  /\ SnapshotInv'
           /\ \A p \in Present :
                \/ IF snapshot'[p].meta THEN p \in MetadataOnly ELSE snapshot'[p].of = files[p].content
                \/ p \in Assets /\ now - written[p] < Revalidation
                \/ snapshot'[p].meta /\ p \in Assets \cap DOMAIN cache /\ now - cache[p].checked < Revalidation
<1> DEFINE E(p) == Entry(p, MetadataOnly)
<1>1. /\ snapshot' = [p \in Present |-> [q \in Present |-> E(q)][p].digest]
      /\ cache' = [p \in Present \cap Assets |-> [q \in Present |-> E(q)][p]]
      /\ files' = files /\ now' = now /\ written' = written
  BY Zenon DEF ReadFile
<1>2. \A p \in Present : \/ p \in Assets /\ Cached(p) /\ E(p) = cache[p]
                         \/ /\ E(p).checked = now
                            /\ IF E(p).digest.meta THEN p \in MetadataOnly ELSE E(p).digest.of = files[p].content
  BY Zenon, EntryOf
<1> HIDE DEF E
<1>3. /\ \A p \in Present : snapshot'[p] = E(p).digest
      /\ DOMAIN cache' = Present \cap Assets /\ \A p \in Present \cap Assets : cache'[p] = E(p)
  BY Zenon, <1>1
<1>4. \A p \in Present : p \in Paths /\ now \in Nat /\ written[p] \in Nat
  BY Zenon DEF SnapshotInv
<1>5. ASSUME NEW p \in Present \cap Assets PROVE DigestStands(p)'
  <2>1. CASE Cached(p) /\ E(p) = cache[p]
    <3>1. DigestStands(p) /\ cache'[p] = cache[p]
      BY Zenon, <1>3, <2>1 DEF SnapshotInv, Cached
    <3> QED BY Zenon, <1>1, <3>1 DEF DigestStands, Present
  <2>2. CASE E(p).checked = now /\ (E(p).digest.meta \/ E(p).digest.of = files[p].content)
    <3>1. cache'[p] = E(p) /\ now \in Nat
      BY Zenon, <1>3, <1>4
    <3>2. now <= now
      BY <3>1
    <3> QED BY Zenon, <1>1, <2>2, <3>1, <3>2 DEF DigestStands
  <2> QED BY Zenon, <1>2, <2>1, <2>2
<1>6. SnapshotInv'
  <2>1. Present' = Present
    BY Zenon, <1>1 DEF Present
  <2> QED BY Zenon, <1>1, <1>3, <1>5, <2>1 DEF SnapshotInv
<1>7. ASSUME NEW p \in Present
      PROVE  \/ IF snapshot'[p].meta THEN p \in MetadataOnly ELSE snapshot'[p].of = files[p].content
             \/ p \in Assets /\ now - written[p] < Revalidation
             \/ snapshot'[p].meta /\ p \in Assets \cap DOMAIN cache /\ now - cache[p].checked < Revalidation
  <2>1. CASE p \in Assets /\ Cached(p) /\ E(p) = cache[p]
    <3>1. DigestStands(p) /\ p \in Assets \cap DOMAIN cache /\ now - cache[p].checked < Revalidation
      BY Zenon, <2>1 DEF SnapshotInv, Cached
    <3>2. CASE cache[p].checked <= written[p]
      <4>1. cache[p].checked \in Nat
        BY Zenon, <3>1 DEF DigestStands
      <4>2. now - written[p] < Revalidation
        BY <1>4, <3>1, <3>2, <4>1, SnapshotAssumption
      <4> QED BY Zenon, <2>1, <4>2
    <3>3. CASE cache[p].digest.meta
      BY Zenon, <1>3, <2>1, <3>1, <3>3
    <3>4. CASE ~cache[p].digest.meta /\ cache[p].digest.of = files[p].content
      BY Zenon, <1>3, <2>1, <3>4
    <3> QED BY Zenon, <3>1, <3>2, <3>3, <3>4 DEF DigestStands
  <2>2. CASE IF E(p).digest.meta THEN p \in MetadataOnly ELSE E(p).digest.of = files[p].content
    BY Zenon, <1>3, <2>2
  <2> QED BY Zenon, <1>2, <2>1, <2>2
<1> QED BY Zenon, <1>6, <1>7

\* Every step keeps the invariant.
LEMMA SnapshotKeeps == SnapshotInv /\ [SnapshotNext]_snapshotVars => SnapshotInv'
<1> SUFFICES ASSUME SnapshotInv, [SnapshotNext]_snapshotVars PROVE SnapshotInv'
  OBVIOUS
<1>0. now \in Nat /\ now <= now /\ written \in [Paths -> Nat] /\ Present \subseteq Paths
  <2>1. now \in Nat
    BY Zenon DEF SnapshotInv
  <2>2. now <= now
    BY <2>1
  <2> QED BY Zenon, <2>1, <2>2 DEF SnapshotInv
<1>1. \A p \in Paths : written[p] \in Nat /\ written[p] <= now /\ written[p] <= written[p]
  <2> SUFFICES ASSUME NEW p \in Paths PROVE written[p] \in Nat /\ written[p] <= now /\ written[p] <= written[p]
    BY Zenon
  <2>1. written[p] \in Nat /\ written[p] <= now
    BY Zenon DEF SnapshotInv
  <2> QED BY <2>1
<1>2. ASSUME NEW p \in Paths, NEW c, NEW time, Write(p, c, time) PROVE SnapshotInv'
  <2>1. /\ files' = [q \in Present \cup {p} |-> IF q = p THEN [content |-> c, modified |-> time] ELSE files[q]]
        /\ written' = [written EXCEPT ![p] = now] /\ now' = now /\ cache' = cache
    BY <1>2 DEF Write
  <2>2. Present' = Present \cup {p} /\ \A q \in Present : q # p => files'[q] = files[q]
    BY Zenon, <2>1 DEF Present
  <2>3. Present' \subseteq Paths
    BY Zenon, <1>0, <2>2
  <2>4. written' \in [Paths -> Nat] /\ written'[p] = now /\ \A q \in Paths : q # p => written'[q] = written[q]
    BY Zenon, <1>0, <2>1
  <2>5. \A q \in Paths : written'[q] <= now' /\ written[q] <= written'[q]
    BY Zenon, <1>0, <1>1, <2>1, <2>4
  <2>6. \A q \in Paths : \/ q \notin Present' \/ written'[q] = now'
                         \/ q \in Present /\ files'[q].content = files[q].content
    BY Zenon, <2>1, <2>2, <2>4
  <2> QED BY Zenon, <1>0, <2>1, <2>3, <2>4, <2>5, <2>6, EditStands
<1>3. ASSUME NEW p \in Present, Touch(p) PROVE SnapshotInv'
  <2>1. files' = [files EXCEPT ![p].modified = now] /\ now' = now /\ cache' = cache /\ written' = written
    BY <1>3 DEF Touch
  <2>2. Present' = Present /\ \A q \in Present : files'[q].content = files[q].content
    BY <2>1 DEF Present
  <2> QED BY Zenon, <1>0, <1>1, <2>1, <2>2, EditStands
<1>4. ASSUME NEW p \in Present, Delete(p) PROVE SnapshotInv'
  <2>1. files' = [q \in Present \ {p} |-> files[q]] /\ now' = now /\ cache' = cache /\ written' = written
    BY <1>4 DEF Delete
  <2>2. Present' = Present \ {p} /\ \A q \in Present' : q \in Present /\ files'[q] = files[q]
    BY Zenon, <2>1 DEF Present
  <2>3. Present' \subseteq Paths
    BY Zenon, <1>0, <2>2
  <2>4. \A q \in Paths : \/ q \notin Present' \/ written'[q] = now'
                         \/ q \in Present /\ files'[q].content = files[q].content
    BY Zenon, <2>2
  <2> QED BY Zenon, <1>0, <1>1, <2>1, <2>3, <2>4, EditStands
<1>5. ASSUME SnapshotTick PROVE SnapshotInv'
  <2>1. files' = files /\ now' = now + 1 /\ cache' = cache /\ written' = written
    BY <1>5 DEF SnapshotTick
  <2>2. now' \in Nat /\ now <= now' /\ \A q \in Paths : written[q] <= now' /\ written[q] <= written[q]
    BY <1>0, <1>1, <2>1
  <2>3. Present' = Present
    BY Zenon, <2>1 DEF Present
  <2> QED BY Zenon, <1>0, <2>1, <2>2, <2>3, EditStands
<1>6. CASE UNCHANGED snapshotVars
  <2>1. files' = files /\ now' = now /\ cache' = cache /\ written' = written
    BY <1>6 DEF snapshotVars
  <2>2. Present' = Present
    BY Zenon, <2>1 DEF Present
  <2> QED BY Zenon, <1>0, <1>1, <2>1, <2>2, EditStands
<1>7. ASSUME ReadFile PROVE SnapshotInv'
  BY Zenon, <1>7, ReadTells
<1> QED BY Zenon, <1>2, <1>3, <1>4, <1>5, <1>6, <1>7 DEF SnapshotNext

\* sourceSnapshotReader.Read, for every set of files, bounds and interval: what a snapshot
\* says of a file within the bounds is the content of the file, unless, less than the
\* revalidation interval ago, the content was written at the same size and time or the
\* file was checked while it was beyond the bounds.
THEOREM SnapshotTellsContent == SnapshotSpec => SnapshotIsContent
<1>1. SnapshotInv /\ [SnapshotNext]_snapshotVars =>
        [ReadFile => \A p \in Present :
            \/ IF snapshot'[p].meta THEN p \in MetadataOnly ELSE snapshot'[p].of = files[p].content
            \/ p \in Assets /\ now - written[p] < Revalidation
            \/ snapshot'[p].meta /\ p \in Assets \cap DOMAIN cache /\ now - cache[p].checked < Revalidation
        ]_snapshotVars
  BY Zenon, ReadTells
<1> QED BY <1>1, SnapshotStart, SnapshotKeeps, PTL DEF SnapshotSpec, SnapshotIsContent

-----------------------------------------------------------------------------
(* The in-memory rate limiter *)

Counter == [count : 1 .. Limit, resetAt : Nat \ {0}]
CounterTable == [LimiterKeys -> Counter \cup {Absent}]
LimiterCall == [pc : {"idle", "take"}, key : LimiterKeys \cup {LimiterIdle.key}, stamp : Nat]

\* The table is bounded, and a stamp is in the past.
LimiterInv ==
    /\ limiterNow \in Nat \ {0}
    /\ entries \in CounterTable
    /\ IsFiniteSet(Known(entries)) /\ Cardinality(Known(entries)) <= Capacity
    /\ limiterCaller \in [LimiterCallers -> LimiterCall]
    /\ \A c \in LimiterCallers :
          /\ limiterCaller[c].stamp <= limiterNow
          /\ limiterCaller[c].pc = "take" => limiterCaller[c].key \in LimiterKeys

LEMMA CounterNumbers ==
    /\ Limit \in Nat \ {0} /\ Window \in Nat \ {0} /\ Capacity \in Nat \ {0}
    /\ Absent.count = 0 /\ Absent.resetAt = 0 /\ Absent \notin Counter
    /\ LimiterIdle \in LimiterCall /\ LimiterIdle.pc = "idle" /\ LimiterIdle.stamp = 0
    /\ \A t \in Nat : /\ Opened(t) \in Counter
                      /\ Opened(t).count = 1 /\ Opened(t).resetAt = t + Window
    /\ \A e \in Counter : e # Absent /\ e.count \in 1 .. Limit /\ e.resetAt \in Nat \ {0}
<1>1. Limit \in Nat \ {0} /\ Window \in Nat \ {0} /\ Capacity \in Nat \ {0}
  BY Zenon, LimiterAssumption
<1>2. Absent.count = 0 /\ Absent.resetAt = 0 /\ Absent \notin Counter
  BY Zenon, <1>1 DEF Absent, Counter
<1>3. LimiterIdle \in LimiterCall /\ LimiterIdle.pc = "idle" /\ LimiterIdle.stamp = 0
  BY Zenon DEF LimiterIdle, LimiterCall
<1>4. \A t \in Nat : /\ Opened(t) \in Counter
                     /\ Opened(t).count = 1 /\ Opened(t).resetAt = t + Window
  BY <1>1 DEF Opened, Counter
<1>5. \A e \in Counter : e # Absent /\ e.count \in 1 .. Limit /\ e.resetAt \in Nat \ {0}
  BY Zenon, <1>2 DEF Counter
<1> QED BY Zenon, <1>1, <1>2, <1>3, <1>4, <1>5

\* The sweep leaves a part of the table.
LEMMA SweptTable ==
    ASSUME NEW e \in CounterTable, NEW t \in Nat, IsFiniteSet(Known(e)),
           Cardinality(Known(e)) <= Capacity
    PROVE  /\ Swept(e, t) \in CounterTable /\ Known(Swept(e, t)) \subseteq Known(e)
           /\ IsFiniteSet(Known(Swept(e, t))) /\ Cardinality(Known(Swept(e, t))) \in Nat
           /\ Cardinality(Known(Swept(e, t))) <= Cardinality(Known(e))
           /\ Cardinality(Known(Swept(e, t))) <= Capacity
<1>1. Swept(e, t) \in CounterTable
  BY Zenon DEF Swept, CounterTable
<1>2. Known(Swept(e, t)) \subseteq Known(e)
  BY Zenon DEF Swept, Known, CounterTable
<1>3. /\ IsFiniteSet(Known(Swept(e, t))) /\ Cardinality(Known(Swept(e, t))) \in Nat
      /\ Cardinality(Known(Swept(e, t))) <= Cardinality(Known(e)) /\ Cardinality(Known(e)) \in Nat
  BY Zenon, <1>2, FS_Subset, FS_CardinalityType
<1> QED BY <1>1, <1>2, <1>3, CounterNumbers

\* A new window in a table with room.
LEMMA OpenedTable ==
    ASSUME NEW e \in CounterTable, NEW t \in Nat, NEW k \in LimiterKeys, IsFiniteSet(Known(e)),
           Cardinality(Known(e)) <= Capacity, e[k] # Absent \/ ~Full(e)
    PROVE  LET table == [e EXCEPT ![k] = Opened(t)]
           IN /\ table \in CounterTable /\ IsFiniteSet(Known(table))
              /\ Cardinality(Known(table)) <= Capacity
<1> DEFINE table == [e EXCEPT ![k] = Opened(t)]
<1>1. table \in CounterTable
  BY Zenon, CounterNumbers DEF CounterTable
<1>2. Known(table) = Known(e) \cup {k}
  BY Zenon, CounterNumbers DEF Known, CounterTable
<1>3. Cardinality(Known(e)) \in Nat
  BY Zenon, FS_CardinalityType
<1>4. IsFiniteSet(Known(e) \cup {k}) /\
      Cardinality(Known(e) \cup {k}) = IF k \in Known(e) THEN Cardinality(Known(e)) ELSE Cardinality(Known(e)) + 1
  BY Zenon, FS_AddElement
<1>5. k \in Known(e) \/ Cardinality(Known(e)) + 1 <= Capacity
  BY <1>3, CounterNumbers DEF Known, Full
<1> HIDE DEF table
<1>6. IsFiniteSet(Known(table)) /\ Cardinality(Known(table)) <= Capacity
  BY Zenon, <1>2, <1>3, <1>4, <1>5
<1> QED BY Zenon, <1>1, <1>6 DEF table

\* The ways MemoryStore.Take ends.
LEMMA TakeCases ==
    ASSUME NEW e \in CounterTable, NEW k \in LimiterKeys, NEW t \in Nat
    PROVE  LET d == Take(e, k, t)
               table == IF Full(e) THEN Swept(e, t) ELSE e
           IN \/ e[k] = Absent /\ Full(table) /\ d = Deny(table, Earliest(table) - t)
              \/ e[k] = Absent /\ ~Full(table) /\ d = Allow([table EXCEPT ![k] = Opened(t)])
              \/ e[k] \in Counter /\ t >= e[k].resetAt /\ d = Allow([e EXCEPT ![k] = Opened(t)])
              \/ /\ e[k] \in Counter /\ t < e[k].resetAt /\ e[k].count >= Limit
                 /\ d = Deny(e, e[k].resetAt - t)
              \/ /\ e[k] \in Counter /\ t < e[k].resetAt /\ e[k].count < Limit
                 /\ d = Allow([e EXCEPT ![k].count = @ + 1])
<1>1. e[k] \in Counter \cup {Absent}
  BY Zenon DEF CounterTable
<1>2. CASE e[k] = Absent
  <2>1. Take(e, k, t) = TakeUnseen(e, k, t)
    BY Zenon, <1>2, CounterNumbers DEF Take
  <2> QED BY <1>2, <2>1, Zenon DEF TakeUnseen
<1>3. CASE e[k] \in Counter
  <2>1. e[k] # Absent /\ e[k].count \in Nat /\ e[k].resetAt \in Nat /\ Limit \in Nat
    BY <1>3, CounterNumbers
  <2>2. CASE t >= e[k].resetAt
    <3>1. Take(e, k, t) = Allow([e EXCEPT ![k] = Opened(t)])
      BY <2>1, <2>2 DEF Take
    <3> QED BY <1>3, <2>2, <3>1, Zenon
  <2>3. CASE t < e[k].resetAt
    <3>1. ~(t >= e[k].resetAt)
      BY <2>1, <2>3
    <3>2. Take(e, k, t) = IF e[k].count >= Limit THEN Deny(e, e[k].resetAt - t)
                          ELSE Allow([e EXCEPT ![k].count = @ + 1])
      BY <2>1, <2>3, <3>1, Zenon DEF Take
    <3>3. e[k].count < Limit \/ e[k].count >= Limit
      BY <2>1
    <3>4. e[k].count < Limit => ~(e[k].count >= Limit)
      BY <2>1
    <3> QED BY <1>3, <2>3, <3>2, <3>3, <3>4, Zenon
  <2> QED BY <2>1, <2>2, <2>3
<1> QED BY <1>1, <1>2, <1>3, Zenon

LEMMA TakeTable ==
    ASSUME NEW e \in CounterTable, NEW k \in LimiterKeys, NEW t \in Nat, IsFiniteSet(Known(e)),
           Cardinality(Known(e)) <= Capacity
    PROVE  LET table == Take(e, k, t).entries
           IN /\ table \in CounterTable /\ IsFiniteSet(Known(table))
              /\ Cardinality(Known(table)) <= Capacity
<1> DEFINE Good(x) == x \in CounterTable /\ IsFiniteSet(Known(x)) /\ Cardinality(Known(x)) <= Capacity
           swept == IF Full(e) THEN Swept(e, t) ELSE e
           d == Take(e, k, t)
<1>1. Good(swept)
  BY Zenon, SweptTable
<1>2. e[k] = Absent => swept[k] = Absent
  BY Zenon DEF Swept, CounterTable
<1> HIDE DEF swept
<1>3. \A x, r : Deny(x, r).entries = x /\ Allow(x).entries = x
  BY Zenon DEF Deny, Allow
<1>4. ~Full(swept) => Good([swept EXCEPT ![k] = Opened(t)])
  BY Zenon, <1>1, OpenedTable
<1>5. e[k] \in Counter => Good([e EXCEPT ![k] = Opened(t)])
  BY CounterNumbers, OpenedTable, Zenon
<1>6. ASSUME e[k] \in Counter, e[k].count < Limit PROVE Good([e EXCEPT ![k].count = @ + 1])
  <2> DEFINE x == [e EXCEPT ![k].count = @ + 1]
  <2>1. [e[k] EXCEPT !.count = e[k].count + 1] \in Counter
    BY <1>6, CounterNumbers DEF Counter
  <2>2. x \in CounterTable
    BY Zenon, <2>1 DEF CounterTable
  <2>3. Known(x) = Known(e)
    BY Zenon, <1>6, <2>1, CounterNumbers DEF Known, CounterTable
  <2> QED BY Zenon, <2>2, <2>3
<1> HIDE DEF Good
<1>7. \/ d = Deny(swept, Earliest(swept) - t) \/ (~Full(swept) /\ d = Allow([swept EXCEPT ![k] = Opened(t)]))
      \/ e[k] \in Counter /\ d = Allow([e EXCEPT ![k] = Opened(t)])
      \/ d = Deny(e, e[k].resetAt - t)
      \/ e[k] \in Counter /\ e[k].count < Limit /\ d = Allow([e EXCEPT ![k].count = @ + 1])
  BY TakeCases, Zenon DEF swept
<1>8. Good(e)
  BY Zenon DEF Good
<1> HIDE DEF d
<1>9. Good(d.entries)
  <2>1. ASSUME NEW x, NEW r, Good(x), d = Deny(x, r) \/ d = Allow(x) PROVE Good(d.entries)
    BY <1>3, <2>1, Zenon
  <2>2. CASE d = Deny(swept, Earliest(swept) - t) \/ d = Deny(e, e[k].resetAt - t)
    BY <1>1, <1>8, <2>1, <2>2, Zenon
  <2>3. CASE ~Full(swept) /\ d = Allow([swept EXCEPT ![k] = Opened(t)])
    BY <1>4, <2>1, <2>3, Zenon
  <2>4. CASE e[k] \in Counter /\ d = Allow([e EXCEPT ![k] = Opened(t)])
    BY <1>5, <2>1, <2>4, Zenon
  <2>5. CASE e[k] \in Counter /\ e[k].count < Limit /\ d = Allow([e EXCEPT ![k].count = @ + 1])
    BY <1>6, <2>1, <2>5, Zenon
  <2> QED BY <1>7, <2>2, <2>3, <2>4, <2>5, Zenon
<1> QED BY Zenon, <1>9 DEF Good, d

LEMMA LimiterInitInv == LimiterInit => LimiterInv
<1> SUFFICES ASSUME LimiterInit PROVE LimiterInv
  BY Zenon
<1>1. entries \in CounterTable /\ Known(entries) = {}
  BY Zenon DEF LimiterInit, CounterTable, Known
<1>2. IsFiniteSet(Known(entries)) /\ Cardinality(Known(entries)) <= Capacity
  BY <1>1, FS_EmptySet, CounterNumbers
<1> QED BY <1>1, <1>2, CounterNumbers DEF LimiterInit, LimiterInv

LEMMA LimiterNextInv == ASSUME LimiterInv, [LimiterNext]_limiterVars PROVE LimiterInv'
<1>1. ASSUME NEW c \in LimiterCallers, NEW k \in LimiterKeys, Stamp(c, k) PROVE LimiterInv'
  <2> DEFINE q == [pc |-> "take", key |-> k, stamp |-> limiterNow]
  <2>1. q \in LimiterCall /\ q.stamp <= limiterNow /\ q.key \in LimiterKeys
    BY DEF LimiterCall, LimiterInv
  <2>2. limiterCaller' = [limiterCaller EXCEPT ![c] = q] /\ UNCHANGED <<limiterNow, entries, resets>>
    BY Zenon, <1>1 DEF Stamp
  <2> HIDE DEF q
  <2> QED BY Zenon, <2>1, <2>2 DEF LimiterInv
<1>2. ASSUME NEW c \in LimiterCallers, Decide(c) PROVE LimiterInv'
  <2>1. limiterCaller[c].key \in LimiterKeys /\ limiterCaller[c].stamp \in Nat
    BY Zenon, <1>2 DEF Decide, LimiterInv, LimiterCall
  <2>2. entries' \in CounterTable /\ IsFiniteSet(Known(entries')) /\ Cardinality(Known(entries')) <= Capacity
    <3>1. /\ entries \in CounterTable /\ IsFiniteSet(Known(entries))
          /\ Cardinality(Known(entries)) <= Capacity
      BY Zenon DEF LimiterInv
    <3>2. entries' = Take(entries, limiterCaller[c].key, limiterCaller[c].stamp).entries
      BY <1>2, Zenon DEF Decide
    <3> QED BY Zenon, <2>1, <3>1, <3>2, TakeTable
  <2>3. limiterCaller' = [limiterCaller EXCEPT ![c] = LimiterIdle] /\ limiterNow' = limiterNow
    BY Zenon, <1>2 DEF Decide
  <2>4. Known(entries') = Known(entries)'
    BY Zenon DEF Known
  <2> QED BY <2>2, <2>3, <2>4, CounterNumbers DEF LimiterInv
<1>3. ASSUME NEW k \in LimiterKeys, Reset(k) PROVE LimiterInv'
  <2>1. entries' \in CounterTable /\ Known(entries)' \subseteq Known(entries)
    BY Zenon, <1>3 DEF LimiterInv, Reset, CounterTable, Known
  <2>2. IsFiniteSet(Known(entries)') /\ Cardinality(Known(entries)') <= Cardinality(Known(entries))
        /\ Cardinality(Known(entries)') \in Nat /\ Cardinality(Known(entries)) \in Nat
    BY Zenon, <2>1, FS_Subset, FS_CardinalityType DEF LimiterInv
  <2> QED BY <1>3, <2>1, <2>2, CounterNumbers DEF LimiterInv, Reset
<1>4. CASE LimiterTick
  <2>1. limiterNow' = limiterNow + 1 /\ entries' = entries /\ limiterCaller' = limiterCaller
    BY Zenon, <1>4 DEF LimiterTick
  <2>2. limiterNow \in Nat \ {0}
    BY Zenon DEF LimiterInv
  <2>3. limiterNow' \in Nat \ {0}
    BY ONLY <2>1, <2>2
  <2>4. ASSUME NEW c \in LimiterCallers PROVE limiterCaller[c].stamp <= limiterNow'
    <3>1. limiterCaller[c].stamp \in Nat /\ limiterCaller[c].stamp <= limiterNow
      BY Zenon, <2>4 DEF LimiterInv, LimiterCall
    <3> QED BY ONLY <2>1, <2>2, <3>1
  <2> QED BY Zenon, <2>1, <2>3, <2>4 DEF LimiterInv, Known
<1>5. CASE UNCHANGED limiterVars
  BY Zenon, <1>5 DEF LimiterInv, limiterVars, Known
<1> QED BY Zenon, <1>1, <1>2, <1>3, <1>4, <1>5 DEF LimiterNext

\* The invariant of the limiter in memory holds whatever order the stamps arrive in.
THEOREM LimiterInvariant == LimiterSpec => []LimiterInv
  BY LimiterInitInv, LimiterNextInv, PTL DEF LimiterSpec

\* A decision of the store is a step of FixedWindow.
LEMMA DecideIsGrant ==
    ASSUME LimiterInv, NEW k \in LimiterKeys, NEW t \in Nat, t <= limiterNow,
           entries' = Take(entries, k, t).entries, UNCHANGED <<limiterNow, resets>>
    PROVE  [Promise!Next]_(Promise!vars)
<1> DEFINE e == entries
           used == [j \in LimiterKeys |-> e[j].count]
           end == [j \in LimiterKeys |-> e[j].resetAt]
           swept == IF Full(e) THEN Swept(e, t) ELSE e
<1>0. /\ e \in CounterTable /\ limiterNow \in Nat \ {0}
      /\ \A j \in LimiterKeys : e[j] \in Counter \/ e[j] = Absent
      /\ \A j \in LimiterKeys : e[j].count \in Nat /\ e[j].resetAt \in Nat
  BY CounterNumbers DEF LimiterInv, CounterTable
<1>1. ASSUME NEW S \in SUBSET {j \in LimiterKeys : t >= e[j].resetAt}
      PROVE  S \in SUBSET {j \in LimiterKeys : limiterNow >= end[j]}
  BY <1>0, <1>1
<1>2. ASSUME NEW S \in SUBSET {j \in LimiterKeys : t >= e[j].resetAt},
             entries' = [j \in LimiterKeys |-> IF j \in S THEN Absent ELSE e[j]]
      PROVE  Promise!Expire
  <2>1. [j \in LimiterKeys |-> entries'[j].count] = [j \in LimiterKeys |-> IF j \in S THEN 0 ELSE used[j]]
    BY Zenon, <1>2, CounterNumbers
  <2>2. [j \in LimiterKeys |-> entries'[j].resetAt] = [j \in LimiterKeys |-> IF j \in S THEN 0 ELSE end[j]]
    BY Zenon, <1>2, CounterNumbers
  <2> QED BY <1>1, <2>1, <2>2, Zenon DEF Promise!Expire, Promise!Over, Promise!Without, Promise!UsedWithout
<1>3. ASSUME NEW S \in SUBSET {j \in LimiterKeys \ {k} : t >= e[j].resetAt}, t >= e[k].resetAt,
             \A j \in LimiterKeys :
                entries'[j] = IF j = k THEN Opened(t) ELSE IF j \in S THEN Absent ELSE e[j]
      PROVE  Promise!Grant(k)
  <2> DEFINE gone == [j \in LimiterKeys |-> IF j \in S THEN 0 ELSE end[j]]
             spent == [j \in LimiterKeys |-> IF j \in S THEN 0 ELSE used[j]]
  <2>1. [j \in LimiterKeys |-> entries'[j].count] = [spent EXCEPT ![k] = 1]
    BY <1>3, CounterNumbers, Zenon
  <2>2. [j \in LimiterKeys |-> entries'[j].resetAt] = [gone EXCEPT ![k] = t + Window]
    BY <1>3, CounterNumbers, Zenon
  <2>3. t + Window \in 1 .. limiterNow + Window /\ limiterNow >= end[k]
    BY <1>0, <1>3, CounterNumbers
  <2>4. S \in SUBSET {j \in LimiterKeys \ {k} : limiterNow >= end[j]}
    BY <1>0, <1>3
  <2> QED BY <2>1, <2>2, <2>3, <2>4, Zenon DEF Promise!Grant, Promise!Over, Promise!Without, Promise!UsedWithout
<1>4. ASSUME e[k] \in Counter, e[k].count < Limit, entries' = [e EXCEPT ![k].count = @ + 1]
      PROVE  Promise!Grant(k)
  <2>1. [j \in LimiterKeys |-> entries'[j].count] = [used EXCEPT ![k] = used[k] + 1]
    BY <1>0, <1>4, Zenon DEF Counter, CounterTable
  <2>2. [j \in LimiterKeys |-> entries'[j].resetAt] = end
    BY <1>0, <1>4 DEF Counter, CounterTable
  <2>3. end[k] # 0 /\ used[k] < Limit
    BY Zenon, <1>4, CounterNumbers
  <2>4. /\ [j \in LimiterKeys |-> IF j \in {} THEN 0 ELSE used[j]] = used
        /\ [j \in LimiterKeys |-> IF j \in {} THEN 0 ELSE end[j]] = end
    BY Zenon
  <2>5. {} \in SUBSET {j \in LimiterKeys \ {k} : limiterNow >= end[j]}
    BY Zenon
  <2> QED BY <2>1, <2>2, <2>3, <2>4, <2>5, Zenon DEF Promise!Grant, Promise!Over, Promise!Without, Promise!UsedWithout
<1>5. \A x, r : Deny(x, r).entries = x /\ Allow(x).entries = x
  BY Zenon DEF Deny, Allow
<1>6. swept = Swept(e, t) \/ swept = e
  BY Zenon
<1>7. e[k] = Absent => t >= e[k].resetAt
  BY CounterNumbers
<1> HIDE DEF swept
<1>8. ASSUME e[k] = Absent, entries' = swept PROVE Promise!Expire
  <2> DEFINE S == IF swept = e THEN {} ELSE {j \in LimiterKeys : t >= e[j].resetAt}
  <2>1. S \in SUBSET {j \in LimiterKeys : t >= e[j].resetAt}
    BY Zenon
  <2>2. swept = [j \in LimiterKeys |-> IF j \in S THEN Absent ELSE e[j]]
    BY Zenon, <1>0, <1>6 DEF Swept, CounterTable
  <2> HIDE DEF S
  <2> QED BY Zenon, <1>2, <1>8, <2>1, <2>2
<1>9. ASSUME e[k] = Absent, entries' = [swept EXCEPT ![k] = Opened(t)] PROVE Promise!Grant(k)
  <2> DEFINE S == IF swept = e THEN {} ELSE {j \in LimiterKeys \ {k} : t >= e[j].resetAt}
  <2>1. S \in SUBSET {j \in LimiterKeys \ {k} : t >= e[j].resetAt}
    BY Zenon
  <2>2. \A j \in LimiterKeys :
           entries'[j] = IF j = k THEN Opened(t) ELSE IF j \in S THEN Absent ELSE e[j]
    BY Zenon, <1>0, <1>6, <1>9 DEF Swept, CounterTable
  <2> HIDE DEF S
  <2> QED BY <1>3, <1>7, <1>9, <2>1, <2>2, Zenon
<1>10. ASSUME e[k] \in Counter, t >= e[k].resetAt, entries' = [e EXCEPT ![k] = Opened(t)]
       PROVE  Promise!Grant(k)
  <2>1. {} \in SUBSET {j \in LimiterKeys \ {k} : t >= e[j].resetAt}
    BY Zenon
  <2>2. \A j \in LimiterKeys :
           entries'[j] = IF j = k THEN Opened(t) ELSE IF j \in {} THEN Absent ELSE e[j]
    BY Zenon, <1>0, <1>10 DEF CounterTable
  <2> QED BY <1>3, <1>10, <2>1, <2>2, Zenon
<1>11. entries' = e => Promise!vars' = Promise!vars
  BY Zenon DEF Promise!vars
<1>12. \/ e[k] = Absent /\ entries' = swept
       \/ e[k] = Absent /\ entries' = [swept EXCEPT ![k] = Opened(t)]
       \/ e[k] \in Counter /\ t >= e[k].resetAt /\ entries' = [e EXCEPT ![k] = Opened(t)]
       \/ entries' = e
       \/ e[k] \in Counter /\ e[k].count < Limit /\ entries' = [e EXCEPT ![k].count = @ + 1]
  <2> DEFINE d == Take(e, k, t)
  <2>1. ASSUME NEW x, NEW r, d = Deny(x, r) \/ d = Allow(x) PROVE entries' = x
    BY <1>5, <2>1, Zenon
  <2>2. \/ e[k] = Absent /\ d = Deny(swept, Earliest(swept) - t)
        \/ e[k] = Absent /\ d = Allow([swept EXCEPT ![k] = Opened(t)])
        \/ e[k] \in Counter /\ t >= e[k].resetAt /\ d = Allow([e EXCEPT ![k] = Opened(t)])
        \/ d = Deny(e, e[k].resetAt - t)
        \/ e[k] \in Counter /\ e[k].count < Limit /\ d = Allow([e EXCEPT ![k].count = @ + 1])
    BY <1>0, TakeCases, Zenon DEF swept
  <2> HIDE DEF d, e
  <2> QED BY <2>1, <2>2, Zenon
<1> HIDE DEF e
<1> QED BY <1>4, <1>8, <1>9, <1>10, <1>11, <1>12, Zenon DEF Promise!Next

LEMMA LimiterStepPromised ==
    ASSUME LimiterInv, [LimiterNext]_limiterVars
    PROVE  [Promise!Next]_(Promise!vars)
<1>1. ASSUME NEW c \in LimiterCallers, Decide(c) PROVE [Promise!Next]_(Promise!vars)
  <2>1. /\ limiterCaller[c].key \in LimiterKeys /\ limiterCaller[c].stamp \in Nat
        /\ limiterCaller[c].stamp <= limiterNow
    BY Zenon, <1>1 DEF Decide, LimiterInv, LimiterCall
  <2> QED BY <1>1, <2>1, DecideIsGrant, Zenon DEF Decide
<1>2. CASE UNCHANGED <<limiterNow, entries, resets>>
  BY Zenon, <1>2 DEF Promise!vars
<1>3. ASSUME NEW k \in LimiterKeys, Reset(k) PROVE Promise!Reset(k)
  <2>1. [j \in LimiterKeys |-> entries'[j].count] = [[j \in LimiterKeys |-> entries[j].count] EXCEPT ![k] = 0]
    BY <1>3, CounterNumbers, Zenon DEF Reset, LimiterInv, CounterTable
  <2>2. [j \in LimiterKeys |-> entries'[j].resetAt] = [[j \in LimiterKeys |-> entries[j].resetAt] EXCEPT ![k] = 0]
    BY <1>3, CounterNumbers, Zenon DEF Reset, LimiterInv, CounterTable
  <2> QED BY Zenon, <1>3, <2>1, <2>2 DEF Reset, Promise!Reset
<1>4. CASE LimiterTick
  BY <1>4, Zenon DEF LimiterTick, Promise!Next, Promise!Tick
<1>5. ASSUME NEW c \in LimiterCallers, NEW k \in LimiterKeys, Stamp(c, k)
      PROVE  UNCHANGED <<limiterNow, entries, resets>>
  BY <1>5, Zenon DEF Stamp
<1> QED BY <1>1, <1>2, <1>3, <1>4, <1>5, Zenon DEF LimiterNext, limiterVars, Promise!Next

\* MemoryStore forgets no running window and grants no key more than Limit attempts
\* in one, for every capacity and every order in which stamps reach the mutex.
THEOREM MemoryStoreIsFixedWindow == LimiterSpec => ImplementsFixedWindow
<1>1. LimiterInit => Promise!Init
  BY CounterNumbers DEF LimiterInit, Promise!Init
<1>2. LimiterInv /\ [LimiterNext]_limiterVars => [Promise!Next]_(Promise!vars)
  BY Zenon, LimiterStepPromised
<1> QED BY <1>1, <1>2, LimiterInvariant, PTL DEF LimiterSpec, ImplementsFixedWindow, Promise!Spec

\* A set of times has an earliest one.
LEMMA EarliestExists ==
    ASSUME NEW S \in SUBSET Nat, S # {}
    PROVE  First(S) \in S /\ \A y \in S : First(S) <= y
<1>1. \E x \in S : \A y \in S : ~(<<y, x>> \in OpToRel(<, Nat))
  BY WFMin, NatLessThanWellFounded, Zenon
<1>2. \E x \in S : \A y \in S : x <= y
  <2>1. PICK x \in S : \A y \in S : ~(<<y, x>> \in OpToRel(<, Nat))
    BY <1>1, Zenon
  <2>2. ASSUME NEW y \in S, y < x PROVE FALSE
    <3>1. <<y, x>> \in Nat \X Nat /\ <<y, x>>[1] < <<y, x>>[2]
      BY Zenon, <2>2
    <3> QED BY <2>1, <3>1, Zenon DEF OpToRel
  <2>3. \A y \in S : x <= y
    BY <2>2
  <2> QED BY Zenon, <2>3
<1> QED BY <1>2, Zenon DEF First

\* Whole seconds, rounded up, are not shorter than the wait.
LEMMA RetryCovers ==
    ASSUME NEW r \in Nat
    PROVE  RetryAfter(r) \in Nat /\ RetryAfter(r) >= r
<1> DEFINE s == LimiterSecond
           q == (r + s - 1) \div s
<1>1. s \in Nat \ {0}
  BY Zenon, LimiterAssumption
<1>2. q \in Nat /\ s * q \in Nat /\ s * q >= r
  BY <1>1
<1>3. q < 1 => r = 0
  BY <1>1, <1>2
<1>4. RetryAfter(r) = s * (IF q < 1 THEN 1 ELSE q)
  BY Zenon DEF RetryAfter
<1> HIDE DEF q
<1>5. CASE q < 1
  BY <1>1, <1>3, <1>4, <1>5
<1>6. CASE ~(q < 1)
  BY Zenon, <1>1, <1>2, <1>4, <1>6
<1> QED BY Zenon, <1>5, <1>6

LEMMA Decisions ==
    \A x, r : /\ Allow(x).allowed = TRUE
              /\ Deny(x, r).allowed = FALSE /\ Deny(x, r).retry = r /\ Deny(x, r).entries = x
  BY Zenon DEF Allow, Deny

\* When a counter is used up its window has to end.
LEMMA UsedUpWaits ==
    ASSUME NEW e \in CounterTable, NEW k \in LimiterKeys, NEW u \in Nat, e[k] \in Counter,
           e[k].count >= Limit
    PROVE  Take(e, k, u).allowed <=> u >= e[k].resetAt
<1>1. e[k] # Absent /\ e[k].count \in 1 .. Limit /\ e[k].resetAt \in Nat /\ Limit \in Nat
  BY Zenon, CounterNumbers
<1>2. ~(e[k].count < Limit) /\ ~(u < e[k].resetAt /\ u >= e[k].resetAt)
  BY <1>1
<1>3. \/ u >= e[k].resetAt /\ Take(e, k, u) = Allow([e EXCEPT ![k] = Opened(u)])
      \/ u < e[k].resetAt /\ Take(e, k, u) = Deny(e, e[k].resetAt - u)
  BY <1>1, <1>2, TakeCases, Zenon
<1>4. CASE u >= e[k].resetAt /\ Take(e, k, u) = Allow([e EXCEPT ![k] = Opened(u)])
  BY <1>4, Decisions, Zenon
<1>5. CASE u < e[k].resetAt /\ Take(e, k, u) = Deny(e, e[k].resetAt - u)
  BY <1>2, <1>5, Decisions, Zenon
<1> QED BY Zenon, <1>3, <1>4, <1>5

\* When the table is full its first window has to end.
LEMMA FullWaits ==
    ASSUME NEW e \in CounterTable, NEW k \in LimiterKeys, NEW u \in Nat, e[k] = Absent, Full(e),
           IsFiniteSet(Known(e)), Cardinality(Known(e)) <= Capacity
    PROVE  Earliest(e) \in Nat /\ (Take(e, k, u).allowed <=> u >= Earliest(e))
<1> DEFINE S == {e[j].resetAt : j \in Known(e)}
           m == Earliest(e)
<1>1. Cardinality(Known(e)) \in Nat /\ Capacity \in Nat \ {0}
  BY Zenon, FS_CardinalityType, CounterNumbers
<1>2. Known(e) # {}
  BY <1>1, FS_EmptySet DEF Full
<1>3. S \in SUBSET Nat /\ S # {}
  <2>1. \A j \in Known(e) : e[j].resetAt \in Nat
    BY Zenon, CounterNumbers DEF Known, CounterTable
  <2> QED BY Zenon, <1>2, <2>1
<1>4. m \in S /\ \A y \in S : m <= y
  BY <1>3, EarliestExists, Zenon DEF Earliest
<1>5. /\ m \in Nat /\ \A j \in Known(e) : m <= e[j].resetAt
      /\ \E j \in Known(e) : e[j].resetAt = m
  BY Zenon, <1>3, <1>4
<1> HIDE DEF S, m
<1>6. CASE u >= m
  <2>1. PICK j \in Known(e) : e[j].resetAt = m
    BY Zenon, <1>5
  <2>2. Known(Swept(e, u)) \subseteq Known(e) \ {j}
    BY Zenon, <1>6, <2>1 DEF Known, Swept, CounterTable
  <2>3. IsFiniteSet(Known(e) \ {j}) /\ Cardinality(Known(e) \ {j}) = Cardinality(Known(e)) - 1
    BY FS_RemoveElement, <2>1, Zenon
  <2>4. Cardinality(Known(Swept(e, u))) \in Nat
        /\ Cardinality(Known(Swept(e, u))) <= Cardinality(Known(e)) - 1
    BY <2>2, <2>3, FS_Subset, FS_CardinalityType
  <2>5. ~Full(Swept(e, u))
    BY <1>1, <2>4 DEF Full
  <2>6. Take(e, k, u) = Allow([Swept(e, u) EXCEPT ![k] = Opened(u)])
    BY <2>5, TakeCases, CounterNumbers, Zenon
  <2> QED BY <1>5, <1>6, <2>6, Decisions, Zenon DEF m
<1>7. CASE ~(u >= m)
  <2>1. ASSUME NEW j \in LimiterKeys PROVE Swept(e, u)[j] = e[j]
    <3>1. CASE j \in Known(e)
      BY <1>5, <1>7, <3>1, CounterNumbers DEF Known, Swept, CounterTable
    <3>2. CASE e[j] = Absent
      BY Zenon, <3>2 DEF Swept
    <3> QED BY Zenon, <3>1, <3>2 DEF Known
  <2>2. Swept(e, u) = e
    BY Zenon, <2>1 DEF Swept, CounterTable
  <2>3. Take(e, k, u) = Deny(e, Earliest(e) - u)
    BY <2>2, TakeCases, CounterNumbers, Zenon
  <2> QED BY <1>5, <1>7, <2>3, Decisions, Zenon DEF m
<1> QED BY Zenon, <1>6, <1>7

\* Retry-After is right: a caller that waits it out, and is not overtaken, is
\* granted, and it is not told to wait a tick longer than the store needs.
THEOREM RetryAfterSuffices == LimiterSpec => []WaitSuffices
<1>1. LimiterInv => WaitSuffices
  <2> SUFFICES ASSUME LimiterInv, NEW k \in LimiterKeys, ~Take(entries, k, limiterNow).allowed
               PROVE  LET d == Take(entries, k, limiterNow) IN
                      /\ Take(d.entries, k, limiterNow + RetryAfter(d.retry)).allowed
                      /\ Take(d.entries, k, limiterNow + d.retry).allowed
                      /\ \A t \in limiterNow .. limiterNow + d.retry - 1 : ~Take(d.entries, k, t).allowed
    BY Zenon DEF WaitSuffices
  <2> DEFINE e == entries
             t == limiterNow
             d == Take(e, k, t)
             table == IF Full(e) THEN Swept(e, t) ELSE e
  <2>0. e \in CounterTable /\ t \in Nat /\ IsFiniteSet(Known(e)) /\ Cardinality(Known(e)) <= Capacity
    BY Zenon DEF LimiterInv
  <2>1. ASSUME NEW x, NEW m \in Nat, d = Deny(x, m - t), m > t,
               \A u \in Nat : Take(x, k, u).allowed <=> u >= m
        PROVE  /\ Take(d.entries, k, t + RetryAfter(d.retry)).allowed
               /\ Take(d.entries, k, t + d.retry).allowed
               /\ \A u \in t .. t + d.retry - 1 : ~Take(d.entries, k, u).allowed
    <3>1. d.entries = x /\ d.retry = m - t /\ m - t \in Nat
      BY <2>0, <2>1, Decisions
    <3>2. RetryAfter(m - t) \in Nat /\ RetryAfter(m - t) >= m - t
      BY Zenon, <3>1, RetryCovers
    <3>3. t + RetryAfter(m - t) \in Nat /\ t + RetryAfter(m - t) >= m
      BY <2>0, <3>1, <3>2
    <3>4. t + (m - t) \in Nat /\ t + (m - t) >= m
      BY <2>0
    <3>5. \A u \in t .. t + (m - t) - 1 : u \in Nat /\ ~(u >= m)
      BY <2>0
    <3> HIDE DEF d, t
    <3> QED BY <2>1, <3>1, <3>3, <3>4, <3>5, Zenon
  <2>2. CASE e[k] = Absent /\ Full(table) /\ d = Deny(table, Earliest(table) - t)
    <3>1. Full(e) /\ table = Swept(e, t)
      BY Zenon, <2>2
    <3>2. /\ table \in CounterTable /\ IsFiniteSet(Known(table)) /\ Cardinality(Known(table)) <= Capacity
          /\ table[k] = Absent
      BY Zenon, <2>0, <2>2, <3>1, SweptTable DEF Swept
    <3> HIDE DEF table
    <3>3. Earliest(table) \in Nat /\ \A u \in Nat : Take(table, k, u).allowed <=> u >= Earliest(table)
      BY Zenon, <2>0, <2>2, <3>2, FullWaits
    <3>4. Earliest(table) > t
      <4>1. Swept(table, t) = table
        BY Zenon, <2>0, <3>1 DEF Swept
      <4>2. Take(table, k, t) = Deny(table, Earliest(table) - t)
        BY <2>0, <2>2, <3>2, <4>1, TakeCases, CounterNumbers, Zenon
      <4>3. ~Take(table, k, t).allowed
        BY <4>2, Decisions
      <4> QED BY <2>0, <3>3, <4>3
    <3> QED BY <2>1, <2>2, <3>3, <3>4, Zenon
  <2>3. CASE e[k] \in Counter /\ t < e[k].resetAt /\ e[k].count >= Limit /\ d = Deny(e, e[k].resetAt - t)
    <3>1. e[k].resetAt \in Nat /\ e[k].resetAt > t
      BY Zenon, <2>0, <2>3, CounterNumbers
    <3>2. \A u \in Nat : Take(e, k, u).allowed <=> u >= e[k].resetAt
      BY Zenon, <2>0, <2>3, UsedUpWaits
    <3>3. d = Deny(e, e[k].resetAt - t)
      BY Zenon, <2>3
    <3> HIDE DEF d
    <3>4. PICK m \in Nat : m = e[k].resetAt
      BY Zenon, <3>1
    <3>5. m > t /\ d = Deny(e, m - t) /\ \A u \in Nat : Take(e, k, u).allowed <=> u >= m
      BY <3>1, <3>2, <3>3, <3>4, Zenon
    <3>6. /\ Take(d.entries, k, t + RetryAfter(d.retry)).allowed
          /\ Take(d.entries, k, t + d.retry).allowed
          /\ \A u \in t .. t + d.retry - 1 : ~Take(d.entries, k, u).allowed
      BY <2>1, <3>5, Zenon
    <3> QED BY Zenon, <3>6 DEF d
  <2>4. \A x : d # Allow(x)
    BY Zenon, Decisions
  <2>5. \/ e[k] = Absent /\ Full(table) /\ d = Deny(table, Earliest(table) - t)
        \/ d = Allow([table EXCEPT ![k] = Opened(t)]) \/ d = Allow([e EXCEPT ![k] = Opened(t)])
        \/ d = Allow([e EXCEPT ![k].count = @ + 1])
        \/ /\ e[k] \in Counter /\ t < e[k].resetAt /\ e[k].count >= Limit
           /\ d = Deny(e, e[k].resetAt - t)
    BY <2>0, TakeCases, Zenon
  <2>6. \/ e[k] = Absent /\ Full(table) /\ d = Deny(table, Earliest(table) - t)
        \/ /\ e[k] \in Counter /\ t < e[k].resetAt /\ e[k].count >= Limit
           /\ d = Deny(e, e[k].resetAt - t)
    BY <2>4, <2>5, Zenon
  <2> QED BY Zenon, <2>2, <2>3, <2>6
<1> QED BY <1>1, LimiterInvariant, PTL

\* The table never holds more than Capacity keys, however many are attempted.
THEOREM TableStaysBounded == LimiterSpec => []RateLimitTypeOK
<1>1. LimiterInv => RateLimitTypeOK
  BY Zenon DEF LimiterInv, RateLimitTypeOK, CounterTable, Counter
<1> QED BY <1>1, LimiterInvariant, PTL

=============================================================================
