------------------------------ MODULE Migrate ------------------------------
(***************************************************************************)
(* database/migrate: runners (processes holding a Migrator) apply and      *)
(* reverse versioned scripts and keep a ledger of what is applied.         *)
(*                                                                         *)
(* A script pair is a number, its content: Missing when there is no pair,  *)
(* Broken when half of it is missing.  The checksum of a script is its     *)
(* content.  A ledger from before checksums has no checksum column and is  *)
(* upgraded by the first run: in one transaction on PostgreSQL and SQLite, *)
(* statement by statement, guarded by a marker row, on MySQL.              *)
(***************************************************************************)
EXTENDS Integers, FiniteSets

CONSTANTS Versions,      \* migration versions: a set of naturals
          Runners,       \* processes that run migrations
          Counts,        \* limits and step counts operations are called with
          Installations  \* records, described below

Missing == 0
Broken == -1
NoRow == -1
Null == 0
Nobody == "nobody"   \* the advisory lock is free

ASSUME MigrateAssumption ==
    /\ Versions \subseteq Nat /\ Counts \subseteq Nat /\ IsFiniteSet(Versions) /\ Nobody \notin Runners
    /\ \A i \in Installations :
         /\ i.dialect \in {"postgres", "mysql", "sqlite"}
         /\ i.contents \subseteq Nat \ {0} /\ i.legacy \subseteq Versions
         /\ i.columns \subseteq {"none", "absent", "nullable"}
         /\ i.ops \subseteq {"up", "down", "status", "verify"}

VARIABLES site,       \* the installation
          files,      \* the migration directory
          column,     \* the ledger's checksum column; "none": there is no table
          rows,       \* the ledger: the checksum of each version's row
          marker,     \* the MySQL upgrade marker row: "no", "null" or "set"
          effect,     \* the content whose effect the schema shows
          lock,       \* who holds the PostgreSQL advisory lock
          run,        \* what each runner is doing
          edits, interrupts   \* counters behind the bounds

dialect == site.dialect          \* "postgres", "mysql" or "sqlite"
Contents == site.contents        \* contents a script pair can have
Ops == site.ops                  \* operations that are called: up, down, status, verify
Columns == site.columns          \* states the checksum column starts in
LegacyApplied == site.legacy     \* versions that a legacy ledger records
MaxEdits == site.edits           \* bounds of the model
MaxInterrupts == site.interrupts

migrateTables == <<column, rows, marker, effect>>
counters == <<edits, interrupts>>
migrateVars == <<site, files, migrateTables, lock, run, counters>>

Idle == [pc |-> "idle", op |-> "none", n |-> 0, files |-> <<>>, has |-> FALSE,
         todo |-> {}, found |-> {}, seen |-> <<>>]

MigrateStart ==
    /\ files \in [Versions -> Contents]
    /\ column \in Columns
    /\ rows = [v \in Versions |->
                 IF column # "none" /\ v \in LegacyApplied THEN Null ELSE NoRow]
    /\ marker = "no"
    /\ effect = [v \in Versions |-> IF rows[v] = Null THEN files[v] ELSE Missing]
    /\ lock = Nobody
    /\ run = [r \in Runners |-> Idle]
    /\ edits = 0 /\ interrupts = 0
MigrateInit == site \in Installations /\ MigrateStart
-----------------------------------------------------------------------------
(* The pure parts: ordering, drift and pending work. *)

Recorded == {v \in Versions : rows[v] # NoRow}

\* The first n of a set of versions, lowest or highest first; all of them when n is 0.
Lowest(S, n) == {v \in S : n > 0 => Cardinality({w \in S : w < v}) < n}
Highest(S, n) == {v \in S : n > 0 => Cardinality({w \in S : w > v}) < n}

Drifts(loaded, v, backfill) ==
    /\ rows[v] # NoRow
    /\ \/ loaded[v] = Missing
       \/ rows[v] # Null /\ rows[v] # loaded[v]
       \/ rows[v] = Null /\ ~backfill

Drift(loaded, backfill) == \E v \in Versions : Drifts(loaded, v, backfill)

\* What Up has left to do once the ledger has been verified.
Pending(r) ==
    Lowest({v \in Versions : run[r].files[v] # Missing /\ rows[v] = NoRow}, run[r].n)
-----------------------------------------------------------------------------
(* The common part of every operation. *)

At(r, pc) == run[r].pc = pc
Goto(r, pc) == run' = [run EXCEPT ![r].pc = pc]

\* The operation returns; the deferred unlock releases the advisory lock.
Finish(r) ==
    /\ run' = [run EXCEPT ![r] = Idle]
    /\ lock' = IF lock = r THEN Nobody ELSE lock

Begin(r, op, n) ==
    /\ At(r, "idle")
    /\ run' = [run EXCEPT ![r].pc = IF dialect = "postgres" /\ op # "verify"
                                      THEN "lock" ELSE "load",
                          ![r].op = op,
                          ![r].n = IF op = "down" /\ n = 0 THEN 1 ELSE n]
    /\ UNCHANGED <<files, migrateTables, lock, counters>>

WithRunLock(r) ==
    /\ At(r, "lock") /\ lock = Nobody
    /\ lock' = r
    /\ Goto(r, "load")
    /\ UNCHANGED <<files, migrateTables, counters>>

\* load refuses a directory in which some pair is incomplete.
Load(r) ==
    /\ At(r, "load")
    /\ IF \E v \in Versions : files[v] = Broken
         THEN Finish(r)
         ELSE /\ run' = [run EXCEPT ![r].files = files,
                           ![r].pc = IF run[r].op = "verify" THEN "inspect" ELSE "create"]
              /\ UNCHANGED lock
    /\ UNCHANGED <<files, migrateTables, counters>>

\* prepare creates the ledger when there is none.
CreateTable(r) ==
    /\ At(r, "create")
    /\ column' = IF column = "none" THEN "notnull" ELSE column
    /\ Goto(r, "inspect")
    /\ UNCHANGED <<files, rows, marker, effect, lock, counters>>

\* columnState, and what prepare and Verify test it for.
HasChecksum == column \in {"nullable", "notnull"}
NeedsUpgrade == column # "notnull"

\* Verify reports a ledger that needs an upgrade, the others upgrade it.
MutantInspect(r) ==
    /\ At(r, "inspect")
    /\ \/ /\ ~NeedsUpgrade
          /\ Goto(r, "read")
          /\ UNCHANGED lock
       \/ /\ NeedsUpgrade /\ run[r].op # "verify"
          /\ run' = [run EXCEPT ![r].has = HasChecksum,
                       ![r].pc = IF dialect = "mysql" THEN "seek" ELSE "upgrade"]
          /\ UNCHANGED lock
       \/ /\ NeedsUpgrade /\ run[r].op = "verify"
          /\ Finish(r)
    /\ UNCHANGED <<files, migrateTables, counters>>
Inspect(r) ==
    /\ At(r, "inspect")
    /\ \/ /\ ~NeedsUpgrade
          /\ Goto(r, IF dialect = "mysql" /\ run[r].op # "verify" THEN "unmark" ELSE "read")
          /\ UNCHANGED lock
       \/ /\ NeedsUpgrade /\ run[r].op # "verify"
          /\ run' = [run EXCEPT ![r].has = HasChecksum,
                       ![r].pc = IF dialect = "mysql" THEN "seek" ELSE "upgrade"]
          /\ UNCHANGED lock
       \/ /\ NeedsUpgrade /\ run[r].op = "verify"
          /\ Finish(r)
    /\ UNCHANGED <<files, migrateTables, counters>>

\* applied and verifyApplied, then what each operation does with the result.
Verified(r, op) == At(r, "read") /\ run[r].op = op /\ ~Drift(run[r].files, FALSE)

Rejected(r) ==
    /\ At(r, "read") /\ Drift(run[r].files, FALSE)
    /\ Finish(r)
    /\ UNCHANGED <<files, migrateTables, counters>>

ReadUp(r) ==
    /\ Verified(r, "up")
    /\ run' = [run EXCEPT ![r].pc = "apply", ![r].todo = Pending(r)]
    /\ UNCHANGED <<files, migrateTables, lock, counters>>

ReadDown(r) ==
    /\ Verified(r, "down")
    /\ Goto(r, "list")
    /\ UNCHANGED <<files, migrateTables, lock, counters>>

\* Status reports which versions are applied.
ReadStatus(r) ==
    /\ Verified(r, "status")
    /\ Finish(r)
    /\ UNCHANGED <<files, migrateTables, counters>>

\* Verify, without any write, fails unless nothing is pending.
ReadVerify(r) ==
    /\ Verified(r, "verify")
    /\ run' = [run EXCEPT ![r] = Idle]
    /\ UNCHANGED <<files, migrateTables, lock, counters>>

\* Down's own query.  A marker row would sort before every version, and has no script.
ListDown(r) ==
    /\ At(r, "list")
    /\ IF marker # "no"
         THEN Finish(r)
         ELSE /\ run' = [run EXCEPT ![r].pc = "apply",
                                    ![r].todo = Highest(Recorded, run[r].n)]
              /\ UNCHANGED lock
    /\ UNCHANGED <<files, migrateTables, counters>>
-----------------------------------------------------------------------------
(* PostgreSQL and SQLite: script and ledger row commit together. *)

\* load sorts by version, and Down's query in the opposite order.
Turn(r, v) == \A w \in run[r].todo : IF run[r].op = "up" THEN v <= w ELSE v >= w

Executed(r, v) == IF run[r].op = "up" THEN run[r].files[v] ELSE Missing
Ledger(r, v) == IF run[r].op = "up" THEN run[r].files[v] ELSE NoRow

Refused(r, v) ==
    \/ run[r].op = "up" /\ rows[v] # NoRow
    \/ run[r].op = "down" /\ run[r].files[v] = Missing

Apply(r) ==
    /\ dialect # "mysql" /\ At(r, "apply")
    /\ \E v \in run[r].todo :
         /\ Turn(r, v)
         /\ IF Refused(r, v)
              THEN Finish(r) /\ UNCHANGED <<effect, rows>>
              ELSE /\ effect' = [effect EXCEPT ![v] = Executed(r, v)]
                   /\ rows' = [rows EXCEPT ![v] = Ledger(r, v)]
                   /\ run' = [run EXCEPT ![r].todo = @ \ {v}]
                   /\ UNCHANGED lock
    /\ UNCHANGED <<files, column, marker, counters>>

\* upgradeLegacyChecksums: add the column, backfill, forbid NULL, in one transaction.
\* Adding a column that has appeared since the inspection fails.
Upgrade(r) ==
    /\ At(r, "upgrade")
    /\ IF (~run[r].has /\ column # "absent") \/ Drift(run[r].files, TRUE)
         THEN Finish(r) /\ UNCHANGED <<rows, column>>
         ELSE /\ rows' = [v \in Versions |->
                            IF rows[v] = Null THEN run[r].files[v] ELSE rows[v]]
              /\ column' = "notnull"
              /\ Goto(r, "read")
              /\ UNCHANGED lock
    /\ UNCHANGED <<files, marker, effect, counters>>
-----------------------------------------------------------------------------
(* MySQL: every statement commits by itself. *)

\* A script's DDL commits before its ledger row is written.
Script(r) ==
    /\ dialect = "mysql" /\ At(r, "apply")
    /\ \E v \in run[r].todo :
         /\ Turn(r, v)
         /\ IF run[r].op = "down" /\ run[r].files[v] = Missing
              THEN Finish(r) /\ UNCHANGED effect
              ELSE /\ effect' = [effect EXCEPT ![v] = Executed(r, v)]
                   /\ Goto(r, "record")
                   /\ UNCHANGED lock
    /\ UNCHANGED <<files, column, rows, marker, counters>>

Record(r) ==
    /\ At(r, "record")
    /\ \E v \in run[r].todo :
         /\ Turn(r, v)
         /\ IF Refused(r, v)
              THEN Finish(r) /\ UNCHANGED rows
              ELSE /\ rows' = [rows EXCEPT ![v] = Ledger(r, v)]
                   /\ run' = [run EXCEPT ![r].pc = "apply", ![r].todo = @ \ {v}]
                   /\ UNCHANGED lock
    /\ UNCHANGED <<files, column, marker, effect, counters>>

SeekMarker(r) ==
    /\ At(r, "seek")
    /\ Goto(r, IF marker = "no" THEN "mark"
               ELSE IF run[r].has THEN "collect" ELSE "addcolumn")
    /\ UNCHANGED <<files, migrateTables, lock, counters>>

\* The marker row has no checksum: a second one, or a NOT NULL column, is an error.
InsertMarker(r) ==
    /\ At(r, "mark")
    /\ IF marker # "no" \/ column = "notnull"
         THEN Finish(r) /\ UNCHANGED marker
         ELSE /\ marker' = "null"
              /\ Goto(r, IF run[r].has THEN "collect" ELSE "addcolumn")
              /\ UNCHANGED lock
    /\ UNCHANGED <<files, column, rows, effect, counters>>

AddNullableChecksum(r) ==
    /\ At(r, "addcolumn")
    /\ IF column # "absent"
         THEN Finish(r) /\ UNCHANGED column
         ELSE column' = "nullable" /\ Goto(r, "collect") /\ UNCHANGED lock
    /\ UNCHANGED <<files, rows, marker, effect, counters>>

\* applied: the rows that verifyApplied is going to walk, as they are now.
Collect(r) ==
    /\ At(r, "collect")
    /\ run' = [run EXCEPT ![r].pc = "backfill", ![r].found = Recorded, ![r].seen = rows]
    /\ UNCHANGED <<files, migrateTables, lock, counters>>

\* verifyApplied walks the rows in map order.  One that somebody else has filled in
\* meanwhile is not updated, which is an error, as is one that drifts.
Backfill(r) ==
    /\ At(r, "backfill")
    /\ \/ \E v \in run[r].found :
          LET seen == run[r].seen[v]
              fill == seen = Null /\ rows[v] = Null /\ run[r].files[v] # Missing IN
          IF fill \/ (seen # Null /\ seen = run[r].files[v])
            THEN /\ rows' = IF fill THEN [rows EXCEPT ![v] = run[r].files[v]] ELSE rows
                 /\ run' = [run EXCEPT ![r].found = @ \ {v}]
                 /\ UNCHANGED lock
            ELSE Finish(r) /\ UNCHANGED rows
       \/ run[r].found = {} /\ Goto(r, "advance") /\ UNCHANGED <<rows, lock>>
    /\ UNCHANGED <<files, column, marker, effect, counters>>

AdvanceMarker(r) ==
    /\ At(r, "advance")
    /\ marker' = IF marker = "no" THEN "no" ELSE "set"
    /\ Goto(r, "enforce")
    /\ UNCHANGED <<files, column, rows, effect, lock, counters>>

EnforceChecksumNotNull(r) ==
    /\ At(r, "enforce")
    /\ IF marker = "null" \/ \E v \in Versions : rows[v] = Null
         THEN Finish(r) /\ UNCHANGED column
         ELSE column' = "notnull" /\ Goto(r, "unmark") /\ UNCHANGED lock
    /\ UNCHANGED <<files, rows, marker, effect, counters>>

RemoveMarker(r) ==
    /\ At(r, "unmark")
    /\ marker' = "no"
    /\ Goto(r, "read")
    /\ UNCHANGED <<files, column, rows, effect, lock, counters>>
-----------------------------------------------------------------------------
(* Faults and the outside world. *)

End(r) ==
    /\ At(r, "apply") /\ run[r].todo = {}
    /\ Finish(r)
    /\ UNCHANGED <<files, migrateTables, counters>>

\* The process dies, its context ends or a statement fails: the open transaction is
\* rolled back and the session's lock goes.  MySQL keeps what it has committed.
Interrupt(r) ==
    /\ run[r].pc # "idle" /\ interrupts < MaxInterrupts
    /\ interrupts' = interrupts + 1
    /\ Finish(r)
    /\ UNCHANGED <<files, migrateTables, edits>>

\* Somebody edits, adds, removes or half removes a script pair.
Edit(v, c) ==
    /\ edits < MaxEdits /\ files[v] # c
    /\ edits' = edits + 1
    /\ files' = [files EXCEPT ![v] = c]
    /\ UNCHANGED <<migrateTables, lock, run, interrupts>>

Step(r) ==
    \/ \E op \in Ops, n \in Counts : Begin(r, op, n)
    \/ WithRunLock(r) \/ Load(r) \/ CreateTable(r) \/ Inspect(r)
    \/ Rejected(r) \/ ReadUp(r) \/ ReadDown(r) \/ ReadStatus(r) \/ ReadVerify(r)
    \/ ListDown(r) \/ Apply(r) \/ Upgrade(r) \/ End(r)
    \/ Script(r) \/ Record(r) \/ SeekMarker(r) \/ InsertMarker(r)
    \/ AddNullableChecksum(r) \/ Collect(r) \/ Backfill(r) \/ AdvanceMarker(r)
    \/ EnforceChecksumNotNull(r) \/ RemoveMarker(r)

MigrateStep ==
    \/ \E r \in Runners : Step(r) \/ Interrupt(r)
    \/ \E v \in Versions, c \in Contents \cup {Missing, Broken} : Edit(v, c)

MigrateNext == MigrateStep /\ UNCHANGED site

\* In a MySQL installation with a ledger every runner's command is run again and again,
\* and proceeds when it can.
MigrateFairness ==
    \A r \in Runners : WF_migrateVars(dialect = "mysql" /\ column # "none" /\ Step(r) /\ UNCHANGED site)
MigrateSpec == MigrateInit /\ [][MigrateNext]_migrateVars /\ MigrateFairness
-----------------------------------------------------------------------------
(* Properties. *)

\* PostgreSQL and SQLite: a version is in the ledger exactly when its script is in
\* effect, whatever was interrupted and whoever else was running, because Up and Down
\* change both in one transaction.
LedgerMatchesSchema ==
    dialect # "mysql" => \A v \in Versions : rows[v] # NoRow <=> effect[v] # Missing

\* PostgreSQL and SQLite: a checksum written when the version was applied is the checksum of the script that
\* was executed, even if the file has been edited since.  Versions of a legacy ledger
\* are exempt: their checksum is trust on first use.
ChecksumIsOfAppliedScript ==
    dialect # "mysql" =>
        \A v \in Versions \ LegacyApplied : rows[v] # NoRow => rows[v] = effect[v]

\* No operation rebaselines: a recorded checksum stays until the version is reversed.
ChecksumNeverChanges ==
    [][\A v \in Versions : rows[v] \notin {NoRow, Null} => rows'[v] \in {rows[v], NoRow}]_migrateVars

\* PostgreSQL: a version is recorded only after every lower version the run knows, and
\* only the highest is reversed, although the run works from what it read at the start.
InVersionOrder ==
    [][dialect = "postgres" => \A r \in Runners, v \in Versions : run'[r] # run[r] =>
        /\ rows[v] = NoRow /\ rows'[v] # NoRow =>
             \A w \in Versions : w < v /\ run[r].files[w] # Missing => rows[w] # NoRow
        /\ rows[v] # NoRow /\ rows'[v] = NoRow =>
             \A w \in Versions : w > v => rows[w] = NoRow]_migrateVars

\* PostgreSQL: the schema changes only while the scripts the run loaded agree with
\* every recorded checksum ("rejects filesystem drift before any migration operation").
DriftStopsTheRun ==
    [][\A r \in Runners : dialect = "postgres" /\ run'[r] # run[r] /\ effect' # effect =>
        \A v \in Versions : rows[v] \in {NoRow, run[r].files[v]}]_migrateVars

\* MySQL: the upgrade is finished and the marker removed by some later run, however
\* often earlier ones were interrupted between two statements.
UpgradeCompletes ==
    (dialect = "mysql" /\ marker # "no") ~> (column = "notnull" /\ marker = "no")
=============================================================================
