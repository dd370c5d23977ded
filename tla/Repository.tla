---------------------------- MODULE Repository ----------------------------
(***************************************************************************)
(* The repository that forge generates for a resource, on the statements   *)
(* of orm/mutation.go and orm/select.go: clients find, edit under an       *)
(* optimistic version or without one, delete, create and list the rows of  *)
(* their owner.  A statement is atomic; an operation of several is not,    *)
(* and the answer to a statement that took effect may be lost.             *)
(***************************************************************************)
EXTENDS Integers, Sequences, FiniteSets

CONSTANTS Clients, Owners, OwnerOf,   \* the owner each client works for
          First,                      \* the rows that exist at first: their owners, by id
          MaxId, PageSize,            \* PageSize: maximumPageSize
          MaxRepositoryWrites                   \* bound of the model: statements that write

ASSUME RepositoryAssumption == /\ OwnerOf \in [Clients -> Owners] /\ First \in Seq(Owners) /\ "nobody" \notin Owners
                               /\ PageSize \in Nat \ {0} /\ MaxRepositoryWrites \in Nat /\ MaxId \in Nat
                               /\ Len(First) <= MaxId

VARIABLES table,     \* the rows, by id: owner, version, value; ids are never reused
          nextId, repositoryWrites,
          clientPc, id, seen,   \* each client's step, the row it works on and what it read of it
          items, beforeID, result
repositoryVars == <<table, nextId, repositoryWrites, clientPc, id, seen, items, beforeID, result>>
database == <<table, nextId, repositoryWrites>>

Gone == [owner |-> "nobody", version |-> 0, value |-> 0]
Row(owner, version, value) == [owner |-> owner, version |-> version, value |-> value]
Visible(c, i) == table[i].owner = OwnerOf[c]

RepositoryInit ==
    /\ table = [i \in 1..MaxId |-> IF i \in DOMAIN First THEN Row(First[i], 1, 0) ELSE Gone]
    /\ nextId = Len(First) + 1 /\ repositoryWrites = 0
    /\ clientPc = [c \in Clients |-> "idle"] /\ id = [c \in Clients |-> 0]
    /\ seen = [c \in Clients |-> Gone] /\ items = [c \in Clients |-> {}]
    /\ beforeID = [c \in Clients |-> 0] /\ result = [c \in Clients |-> "none"]

listing == <<items, beforeID>>
ClientReturn(c, r) == clientPc' = [clientPc EXCEPT ![c] = "idle"] /\ result' = [result EXCEPT ![c] = r]
ClientGoto(c, step) == clientPc' = [clientPc EXCEPT ![c] = step] /\ UNCHANGED result
\* A statement that writes; its answer may be lost.
Store(c, i, row, r) ==
    /\ repositoryWrites < MaxRepositoryWrites /\ repositoryWrites' = repositoryWrites + 1
    /\ table' = [table EXCEPT ![i] = row]
    /\ \/ ClientReturn(c, r)
       \/ ClientReturn(c, "error")
-----------------------------------------------------------------------------
Find(c, i) ==
    /\ clientPc[c] = "idle"
    /\ IF Visible(c, i)
       THEN /\ id' = [id EXCEPT ![c] = i] /\ seen' = [seen EXCEPT ![c] = table[i]]
            /\ clientPc' = [clientPc EXCEPT ![c] = "editing"] /\ result' = [result EXCEPT ![c] = "found"]
       ELSE ClientReturn(c, "not found") /\ UNCHANGED <<id, seen>>
    /\ UNCHANGED <<database, listing>>

\* ExpectVersion: the old version in the condition, the new one in the assignment.
ExpectVersion(row, version) == row.version = version
MutantIncrement(row) == row.version
Increment(row) == row.version + 1

Update(c) ==
    /\ clientPc[c] = "editing"
    /\ IF Visible(c, id[c]) /\ ExpectVersion(table[id[c]], seen[c].version)
       THEN Store(c, id[c], Row(OwnerOf[c], table[id[c]].version + 1, repositoryWrites + 1), "updated") /\ UNCHANGED nextId
       ELSE ClientGoto(c, "exists") /\ UNCHANGED database
    /\ UNCHANGED <<id, seen, items, beforeID>>

\* No row was updated: find out why.
Exists(c) ==
    /\ clientPc[c] = "exists"
    /\ \/ ClientReturn(c, IF Visible(c, id[c]) THEN "stale" ELSE "not found")
       \/ ClientReturn(c, "error")
    /\ UNCHANGED <<database, id, seen, listing>>

UpdateUnguarded(c, i) ==
    /\ clientPc[c] = "idle"
    /\ IF Visible(c, i)
       THEN Store(c, i, Row(OwnerOf[c], Increment(table[i]), repositoryWrites + 1), "updated") /\ UNCHANGED nextId
       ELSE ClientReturn(c, "not found") /\ UNCHANGED database
    /\ UNCHANGED <<id, seen, items, beforeID>>

Delete(c, i) ==
    /\ clientPc[c] = "idle"
    /\ IF Visible(c, i)
       THEN Store(c, i, Gone, "deleted") /\ UNCHANGED nextId
       ELSE ClientReturn(c, "not found") /\ UNCHANGED database
    /\ UNCHANGED <<id, seen, items, beforeID>>

Create(c) ==
    /\ clientPc[c] = "idle" /\ nextId <= MaxId
    /\ Store(c, nextId, Row(OwnerOf[c], 1, repositoryWrites + 1), "created")
    /\ nextId' = nextId + 1
    /\ UNCHANGED <<id, seen, items, beforeID>>

List(c) ==
    /\ clientPc[c] = "idle"
    /\ ClientGoto(c, "listing")
    /\ items' = [items EXCEPT ![c] = {}] /\ beforeID' = [beforeID EXCEPT ![c] = 0]
    /\ UNCHANGED <<database, id, seen>>

\* The newest of the owner's rows below the last id that was read.
Batch(c) ==
    LET ids == {i \in 1..MaxId : Visible(c, i) /\ (beforeID[c] # 0 => i < beforeID[c])}
    IN {i \in ids : Cardinality({j \in ids : j > i}) < PageSize}
ListBatch(c) ==
    /\ clientPc[c] = "listing"
    /\ LET batch == Batch(c)
       IN /\ items' = [items EXCEPT ![c] = @ \cup batch]
          /\ IF Cardinality(batch) < PageSize THEN ClientReturn(c, "listed") /\ UNCHANGED beforeID
             ELSE ClientGoto(c, "listing") /\ beforeID' = [beforeID EXCEPT ![c] = CHOOSE i \in batch : \A j \in batch : i <= j]
    /\ UNCHANGED <<database, id, seen>>

ClientStep(c) == Update(c) \/ Exists(c) \/ ListBatch(c)
RepositoryNext == \E c \in Clients :
            \/ ClientStep(c) \/ Create(c) \/ List(c)
            \/ \E i \in 1..MaxId : Find(c, i) \/ UpdateUnguarded(c, i) \/ Delete(c, i)
RepositorySpec == RepositoryInit /\ [][RepositoryNext]_repositoryVars
-----------------------------------------------------------------------------
\* No update is lost: an edit that is stored replaces exactly the value its client had
\* read, whatever guarded and unguarded updates came in between.
NoLostUpdate == [][\A c \in Clients : clientPc[c] = "editing" /\ table'[id[c]] # table[id[c]] /\ clientPc'[c] = "idle"
                      => table[id[c]] = seen[c]]_repositoryVars

=============================================================================
