------------------------- MODULE ResourceGenerator -------------------------
(***************************************************************************)
(* internal/cli/resource.go, make.go, generator_lock.go, files.go: forge   *)
(* make:resource writes the files of a resource and then the four managed  *)
(* files, under a lock of the project; when anything fails it takes its    *)
(* publications back, except those that an editor has changed since.       *)
(*                                                                         *)
(* A file is a pair; its content is the set of resources (or the migration *)
(* version) in it.  An editor adds a mark of its own.                      *)
(***************************************************************************)
EXTENDS Naturals, Sequences

CONSTANTS Generators, Resources,
          Wants,            \* the resource that each generator makes
          Now,              \* the time as a migration version
          MaxTrouble        \* bound of the model: faults, edits and crashes together

Nobody == "nobody"
Mark == "edit"
Kinds == <<"model", "view", "migration">>
Managed == <<<<"registry", "all">>, <<"views", "all">>, <<"orm", "all">>, <<"state", "all">>>>
Created(r) == [i \in 1..3 |-> <<Kinds[i], r>>]
Plan(r) == [i \in 1..7 |-> IF i <= 3 THEN Created(r)[i] ELSE Managed[i - 3]]
ManagedFiles == {Managed[i] : i \in 1..4}
Files == {Created(r)[i] : r \in Resources, i \in 1..3} \cup ManagedFiles

Absent == [exists |-> FALSE, data |-> {}, version |-> 0]
With(data) == [exists |-> TRUE, data |-> data, version |-> 0]

ASSUME GeneratorAssumption ==
    /\ Wants \in [Generators -> Resources] /\ Now \in Nat \ {0}
    /\ Nobody \notin Generators /\ Mark \notin Resources

VARIABLES file, dir,          \* the project: files, and the directory of each resource
          lock,
          pc, at, old, new,   \* per generator: position in the plan, captured and new content
          todo,               \* publications still to be rolled back
          damaged,            \* what no rollback repairs: "capture", "rollback", "crash"
          faults, edits, crashes
project == <<file, dir>>
work == <<pc, at, old, new, todo>>
bounds == <<faults, edits, crashes>>
generatorVars == <<project, lock, work, damaged, bounds>>

GeneratorInit ==
    /\ file = [f \in Files |-> IF f \in ManagedFiles THEN With({}) ELSE Absent]
    /\ dir = [r \in Resources |-> FALSE]
    /\ lock = Nobody
    /\ pc = [g \in Generators |-> "idle"] /\ at = [g \in Generators |-> 1]
    /\ old = [g \in Generators |-> file] /\ new = old
    /\ todo = [g \in Generators |-> <<>>]
    /\ damaged = {}
    /\ faults = 0 /\ edits = 0 /\ crashes = 0

Goto(g, step) == pc' = [pc EXCEPT ![g] = step]
\* Bounds: a fault or two, at most one edit and one crash.
Trouble == faults + edits + crashes
Fault == Trouble < MaxTrouble /\ faults' = faults + 1 /\ UNCHANGED <<edits, crashes>>
Target(g) == Plan(Wants[g])[at[g]]
-----------------------------------------------------------------------------
CallGenerator(g) ==
    /\ pc[g] = "idle" /\ Goto(g, "begin")
    /\ UNCHANGED <<project, lock, at, old, new, todo, damaged, bounds>>

Acquire(g) ==
    /\ pc[g] = "begin"
    /\ \/ lock = Nobody /\ lock' = g /\ Goto(g, "plan") /\ UNCHANGED bounds
       \/ Fault /\ Goto(g, "failed") /\ UNCHANGED lock
    /\ UNCHANGED <<project, at, old, new, todo, damaged>>

\* nextMigrationVersion: after every version in use, and not before the time.
NextVersion ==
    LET used == {file[<<"migration", r>>].version : r \in Resources}
        last == CHOOSE v \in used : \A u \in used : u <= v
    IN  IF last >= Now THEN last + 1 ELSE Now

Has(kind) == {r \in Resources : file[<<kind, r>>].exists}

\* The contents to be: the managed files list what there is and the new resource.
Planned(r) ==
    [f \in Files |->
        CASE f[1] \in {"registry", "state"} -> With((file[<<"state", "all">>].data \cap Resources) \cup {r})
          [] f[1] = "views" -> With(Has("view") \cup {r})
          [] f[1] = "orm" -> With(Has("model") \cup {r})
          [] f[1] = "migration" -> [With({r}) EXCEPT !.version = NextVersion]
          [] OTHER -> With({r})]

Load(g) ==
    /\ pc[g] = "plan"
    /\ IF Wants[g] \in file[<<"state", "all">>].data \/ \E i \in 1..3 : file[Created(Wants[g])[i]].exists
         THEN Goto(g, "unlock") /\ UNCHANGED <<old, new>>
         ELSE /\ new' = [new EXCEPT ![g] = Planned(Wants[g])]
              /\ old' = [old EXCEPT ![g] = file]
              /\ Goto(g, "create")
    /\ UNCHANGED <<project, lock, at, todo, damaged, bounds>>

\* The rollback takes back what was created, last first, then the managed files.
MutantUndo(g, files) ==
    LET created == IF files < 3 THEN files ELSE 3
    IN  /\ todo' = [todo EXCEPT ![g] = [i \in 1..created |-> Plan(Wants[g])[created + 1 - i]]]
        /\ Goto(g, "undo")
Undo(g, files) ==
    LET created == IF files < 3 THEN files ELSE 3
    IN  /\ todo' = [todo EXCEPT ![g] = [i \in 1..files |->
                       Plan(Wants[g])[IF i <= created THEN created + 1 - i ELSE i]]]
        /\ Goto(g, "undo")

Advance(g) ==
    /\ at' = [at EXCEPT ![g] = @ + 1]
    /\ Goto(g, IF at[g] < 3 THEN "create" ELSE IF at[g] < 7 THEN "compare" ELSE "check")
    /\ UNCHANGED todo

\* writeExclusive, then captureDevelopmentFile, whose failure leaves the file out of
\* the rollback; cancellation counts as a fault.
Create(g) ==
    /\ pc[g] = "create"
    /\ \/ /\ ~file[Target(g)].exists
          /\ file' = [file EXCEPT ![Target(g)] = new[g][Target(g)]]
          /\ \/ Advance(g) /\ UNCHANGED <<damaged, bounds>>
             \/ Fault /\ Undo(g, at[g] - 1) /\ damaged' = damaged \cup {"capture"} /\ UNCHANGED at
       \/ /\ file[Target(g)].exists
          /\ Undo(g, at[g] - 1) /\ UNCHANGED <<file, at, damaged, bounds>>
       \/ Fault /\ Undo(g, at[g] - 1) /\ UNCHANGED <<file, at, damaged>>
    /\ dir' = [dir EXCEPT ![Wants[g]] = TRUE]
    /\ UNCHANGED <<lock, old, new>>

\* publishResourceManagedFile compares with the captured state, ...
Compare(g) ==
    /\ pc[g] = "compare"
    /\ \/ file[Target(g)] = old[g][Target(g)] /\ Goto(g, "replace") /\ UNCHANGED <<todo, bounds>>
       \/ file[Target(g)] # old[g][Target(g)] /\ Undo(g, at[g]) /\ UNCHANGED bounds
       \/ Fault /\ Undo(g, at[g])
    /\ UNCHANGED <<project, lock, at, old, new, damaged>>

\* ... renames the new file into place, ...
Replace(g) ==
    /\ pc[g] = "replace"
    /\ file' = [file EXCEPT ![Target(g)] = new[g][Target(g)]]
    /\ Goto(g, "verify")
    /\ UNCHANGED <<dir, lock, at, old, new, todo, damaged, bounds>>

\* ... and looks at it again.
Verify(g) ==
    /\ pc[g] = "verify"
    /\ \/ file[Target(g)] = new[g][Target(g)] /\ Advance(g) /\ UNCHANGED bounds
       \/ file[Target(g)] # new[g][Target(g)] /\ Undo(g, at[g]) /\ UNCHANGED <<at, bounds>>
       \/ Fault /\ Undo(g, at[g]) /\ UNCHANGED at
    /\ UNCHANGED <<project, lock, old, new, damaged>>

\* The view compiler and the models are consulted once more.
Check(g) ==
    /\ pc[g] = "check"
    /\ \/ Has("model") = new[g][<<"orm", "all">>].data /\ Goto(g, "unlock") /\ UNCHANGED <<todo, bounds>>
       \/ Has("model") # new[g][<<"orm", "all">>].data /\ Undo(g, 7) /\ UNCHANGED bounds
       \/ Fault /\ Undo(g, 7)
    /\ UNCHANGED <<project, lock, at, old, new, damaged>>
-----------------------------------------------------------------------------
(* rollbackResourcePublication, file by file; then the directories. *)

UndoCompare(g) ==
    /\ pc[g] = "undo" /\ todo[g] # <<>>
    /\ LET f == Head(todo[g])
       IN  IF file[f] # old[g][f] /\ file[f] = new[g][f]
             THEN Goto(g, "restore") /\ UNCHANGED <<todo, damaged>>
             ELSE /\ todo' = [todo EXCEPT ![g] = Tail(@)]
                  /\ damaged' = IF file[f] # old[g][f] THEN damaged \cup {"rollback"} ELSE damaged
                  /\ UNCHANGED pc
    /\ UNCHANGED <<project, lock, at, old, new, bounds>>

Restore(g) ==
    /\ pc[g] = "restore"
    /\ \/ /\ file' = [file EXCEPT ![Head(todo[g])] = old[g][Head(todo[g])]]
          /\ UNCHANGED <<damaged, bounds>>
       \/ Fault /\ damaged' = damaged \cup {"rollback"} /\ UNCHANGED file
    /\ todo' = [todo EXCEPT ![g] = Tail(@)]
    /\ Goto(g, "undo")
    /\ UNCHANGED <<dir, lock, at, old, new>>

\* removeEmptyGeneratedDirectory: only a directory that is still empty.
RemoveDirectory(g) ==
    /\ pc[g] = "undo" /\ todo[g] = <<>>
    /\ \/ /\ dir' = [dir EXCEPT ![Wants[g]] = \E i \in 1..3 : file[Created(Wants[g])[i]].exists]
          /\ UNCHANGED <<damaged, bounds>>
       \/ Fault /\ damaged' = damaged \cup {"rollback"} /\ UNCHANGED dir
    /\ Goto(g, "unlock")
    /\ UNCHANGED <<file, lock, at, old, new, todo>>

Unlock(g) ==
    /\ pc[g] = "unlock"
    /\ lock' = Nobody
    /\ Goto(g, "returned")
    /\ UNCHANGED <<project, at, old, new, todo, damaged, bounds>>
-----------------------------------------------------------------------------
\* An editor saves a file.
Editor(f) ==
    /\ Trouble < MaxTrouble /\ edits = 0 /\ file[f].exists /\ Mark \notin file[f].data
    /\ edits' = edits + 1
    /\ file' = [file EXCEPT ![f].data = @ \cup {Mark}]
    /\ UNCHANGED <<dir, lock, work, damaged, faults, crashes>>

EditorRemovesModel(r) ==
    /\ Trouble < MaxTrouble /\ edits = 0 /\ file[<<"model", r>>].exists
    /\ edits' = edits + 1
    /\ file' = [file EXCEPT ![<<"model", r>>] = Absent]
    /\ UNCHANGED <<dir, lock, work, damaged, faults, crashes>>

EditorAddsModel(r) ==
    /\ Trouble < MaxTrouble /\ edits = 0 /\ ~file[<<"model", r>>].exists
    /\ edits' = edits + 1
    /\ file' = [file EXCEPT ![<<"model", r>>] = With({Mark})]
    /\ dir' = [dir EXCEPT ![r] = TRUE]
    /\ UNCHANGED <<lock, work, damaged, faults, crashes>>

\* The operating system releases the lock of a process that dies.
Crash(g) ==
    /\ Trouble < MaxTrouble /\ crashes = 0 /\ lock = g
    /\ crashes' = crashes + 1 /\ damaged' = damaged \cup {"crash"}
    /\ lock' = Nobody /\ Goto(g, "crashed")
    /\ UNCHANGED <<project, at, old, new, todo, faults, edits>>

Step(g) ==
    \/ Acquire(g) \/ Load(g) \/ Create(g) \/ Compare(g) \/ Replace(g) \/ Verify(g) \/ Check(g)
    \/ UndoCompare(g) \/ Restore(g) \/ RemoveDirectory(g) \/ Unlock(g)

GeneratorNext ==
    \/ \E g \in Generators : CallGenerator(g) \/ Step(g) \/ Crash(g)
    \/ \E f \in Files : Editor(f)
    \/ \E r \in Resources : EditorRemovesModel(r) \/ EditorAddsModel(r)

GeneratorFairness == \A g \in Generators : WF_generatorVars(Step(g))
GeneratorSpec == GeneratorInit /\ [][GeneratorNext]_generatorVars /\ GeneratorFairness
-----------------------------------------------------------------------------
\* The four managed files list the same resources, and these are the ones whose files
\* exist.
Whole ==
    \A r \in Resources :
        LET listed == r \in file[<<"state", "all">>].data
        IN  /\ \A i \in 1..4 : (r \in file[Managed[i]].data) = listed
            /\ \A i \in 1..3 : file[Created(r)[i]].exists = listed
            /\ dir[r] = listed

\* "the generator's all-or-nothing contract": whenever no generator is at work the project
\* is whole, if every written file could be read back and every rollback succeeded.
AllOrNothing == lock = Nobody /\ damaged = {} /\ edits = 0 => Whole

\* The contract without that reservation (docs/DECISIONS.md): one failed step, whichever
\* it is, leaves the project whole.
FailureLeavesNothing == lock = Nobody /\ damaged \subseteq {"capture"} /\ edits = 0 => Whole

=============================================================================
