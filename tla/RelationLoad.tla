--------------------------- MODULE RelationLoad ---------------------------
(***************************************************************************)
(* orm/relation.go: loading the targets of a page of parents.  The unique  *)
(* keys of the parents are asked for in statements that stay below the     *)
(* parameter limit, one after the other, while others write; the rows are  *)
(* collected by key and handed to the parents.  Attach and Detach change   *)
(* a many-to-many relation.                                                *)
(***************************************************************************)
EXTENDS Integers, Sequences, SequencesExt, FiniteSetsExt, TLC

CONSTANTS Keys, Targets,      \* Targets are numbers: the scope orders by them
          Pages,              \* the sequences of parents, each its key or None
          Limits, ScopeArgs,  \* parameter limits; arguments of the caller's scope
          MaxWrites           \* bound of the model

NoKey == "no key"
RelationKinds == {"belongsTo", "hasOne", "hasMany", "manyToMany"}

ASSUME RelationAssumption == Targets \subseteq Nat /\ Limits \subseteq Nat \ {0} /\ ScopeArgs \subseteq Nat

VARIABLES kind, parents, limit, baseArgs, scope, repeats,
          usable,        \* the scope is the target's, builds, and neither pages nor locks
          loadStart,         \* the relation at first
          db,            \* which target carries, or is joined to, which key
          loadPc, statements, byKey, loadResult,
          seenAt,        \* for each key asked for, the relation when its statement ran
          writes, attached, detached
relationVars == <<kind, parents, limit, baseArgs, scope, repeats, usable, loadStart, db, loadPc, statements, byKey, loadResult, seenAt,
          writes, attached, detached>>
relationInputs == <<kind, parents, limit, baseArgs, scope, repeats, usable, loadStart>>

\* A target has one key, except through a join table; a join may repeat rows.
OneKey(d) == \A p, q \in d : p[2] = q[2] => p = q
RelationInputs ==
    /\ kind \in RelationKinds /\ parents \in Pages /\ limit \in Limits /\ baseArgs \in ScopeArgs
    /\ db \in SUBSET (Keys \X Targets) /\ (kind # "manyToMany" => OneKey(db))
    /\ scope \in {Targets, {Min(Targets)}} /\ repeats \in BOOLEAN /\ (repeats => kind = "manyToMany")
    /\ usable \in BOOLEAN
RelationStart ==
    /\ loadStart = db /\ loadPc = "build" /\ statements = <<>> /\ byKey = [k \in Keys |-> <<>>] /\ loadResult = <<>>
    /\ seenAt = <<>> /\ writes = 0
    /\ attached = [p \in Keys \X Targets |-> 0] /\ detached = attached
RelationInit == RelationInputs /\ RelationStart
-----------------------------------------------------------------------------
uniqueKeys(page) ==
    FoldLeft(LAMBDA keys, k : IF k = NoKey \/ Contains(keys, k) THEN keys ELSE Append(keys, k), <<>>, page)

Batches(keys, batchSize) ==
    [i \in 1..((Len(keys) + batchSize - 1) \div batchSize) |->
        SubSeq(keys, (i - 1) * batchSize + 1, Min({i * batchSize, Len(keys)}))]

BuildRelation ==
    /\ loadPc = "build"
    /\ LET keys == uniqueKeys(parents)
       IN IF ~usable THEN loadPc' = "failed" /\ UNCHANGED statements
          ELSE IF keys = <<>> THEN statements' = <<>> /\ loadPc' = "assign"
          ELSE IF limit - baseArgs < 1 THEN loadPc' = "failed" /\ UNCHANGED statements
          ELSE statements' = Batches(keys, limit - baseArgs) /\ loadPc' = "query"
    /\ UNCHANGED <<relationInputs, db, byKey, loadResult, seenAt, writes, attached, detached>>

\* What the database returns for a key, in the scope's order.
RelationRows(k) ==
    LET found == SetToSortSeq({t \in scope : <<k, t>> \in db}, <)
    IN IF repeats THEN FlattenSeq([i \in DOMAIN found |-> <<found[i], found[i]>>]) ELSE found
MutantCollect(rows) == rows
CollectRelation(rows) ==
    IF kind # "manyToMany" THEN rows
    ELSE FoldLeft(LAMBDA got, t : IF Contains(got, t) THEN got ELSE Append(got, t), <<>>, rows)

\* A singular relation refuses a second target for a key.
TooMany(keys) == kind \in {"belongsTo", "hasOne"} /\ \E k \in keys : Len(RelationRows(k)) > 1

Query ==
    /\ loadPc = "query"
    /\ LET keys == Range(Head(statements))
       IN \/ loadPc' = "failed" /\ UNCHANGED <<statements, byKey, seenAt>>   \* cancelled or a database error
          \/ /\ IF TooMany(keys) THEN loadPc' = "failed" /\ UNCHANGED <<byKey, statements>>
                ELSE /\ byKey' = [k \in Keys |-> IF k \in keys THEN byKey[k] \o CollectRelation(RelationRows(k)) ELSE byKey[k]]
                     /\ statements' = Tail(statements)
                     /\ loadPc' = IF Len(statements) = 1 THEN "assign" ELSE "query"
             /\ seenAt' = [k \in keys |-> db] @@ seenAt
    /\ UNCHANGED <<relationInputs, db, loadResult, writes, attached, detached>>

Assign ==
    /\ loadPc = "assign"
    /\ loadResult' = [i \in DOMAIN parents |-> IF parents[i] = NoKey THEN <<>> ELSE byKey[parents[i]]]
    /\ loadPc' = "done"
    /\ UNCHANGED <<relationInputs, db, statements, byKey, seenAt, writes, attached, detached>>
-----------------------------------------------------------------------------
(* Other users of the relation. *)

LoadRelation == <<relationInputs, loadPc, statements, byKey, loadResult, seenAt>>
Write(d) == writes < MaxWrites /\ writes' = writes + 1 /\ db' = d /\ UNCHANGED LoadRelation

Attach(p) ==
    /\ kind = "manyToMany"
    /\ Write(db \cup {p})
    /\ attached' = IF p \in db THEN attached ELSE [attached EXCEPT ![p] = @ + 1]
    /\ UNCHANGED detached
Detach(p) ==
    /\ kind = "manyToMany"
    /\ Write(db \ {p})
    /\ detached' = IF p \in db THEN [detached EXCEPT ![p] = @ + 1] ELSE detached
    /\ UNCHANGED attached
Change(p) ==
    /\ kind # "manyToMany"
    /\ \/ Write(db \ {p})
       \/ OneKey(db \cup {p}) /\ Write(db \cup {p})
    /\ UNCHANGED <<attached, detached>>

RelationNext == BuildRelation \/ Query \/ Assign \/ \E p \in Keys \X Targets : Attach(p) \/ Detach(p) \/ Change(p)
RelationSpec == RelationInit /\ [][RelationNext]_relationVars
-----------------------------------------------------------------------------
\* Every parent of a loaded page has the targets of its key, each once and in the order of
\* the scope, as they were at one moment: never a mixture of two moments, never those of
\* another key, and nothing if it has no key.
LoadedIsJoin == loadPc = "done" =>
    \A i \in DOMAIN parents :
        /\ \A j \in 1..(Len(loadResult[i]) - 1) : loadResult[i][j] < loadResult[i][j + 1]
        /\ Range(loadResult[i]) = {t \in scope : parents[i] # NoKey /\ <<parents[i], t>> \in seenAt[parents[i]]}

=============================================================================
