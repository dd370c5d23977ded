------------------------------- MODULE MCData -------------------------------
(* The parts of goforge that work on data, for TLC: the query and insert builders,
   relation loading, a generated repository, the migrator, cron expressions and the
   search over them, mail messages, and the page the development server rewrites.
   They share no state: a behaviour of this module is a behaviour of one part, with
   the others where they start.                                                     *)
EXTENDS RelationLoad, SQLPredicate, Repository, BulkInsert, QueryBuilder, Cron,
        OccurrenceSearch, MailMessage, LiveReloadInject, Migrate

CONSTANTS Parts,        \* the parts this run explores
          LastMinute,   \* of the cron expressions that are searched
          MaxText       \* length of the texts to send

VARIABLE part
-----------------------------------------------------------------------------
MCPages == {<<NoKey>>, <<"k1", "k2", "k1">>, <<"k3", NoKey, "k1", "k2">>}

Leaf(op, kindOf, table_, column_, args) ==
  [kind |-> kindOf, table |-> table_, op |-> op, column |-> column_, args |-> args]
MCLeaves == {Leaf("=", "compare", "own", "a", <<"1">>), Leaf("<>", "compare", "own", "b", <<"2">>),
             Leaf("IN", "in", "own", "b", <<"1", "2">>), Leaf("IS NULL", "null", "own", "a", <<>>),
             Leaf("=", "compare", "other", "a", <<"1">>), containsFold("a", <<"%">>)}
MCAssignments == <<"2", "1">>

MCOwnerOf == [c \in Clients |-> "ann"]
MCFirst == <<"ann", "bob">>

MCCells ==
  [column : {"a", "b"}, kind : {"value", "omitted", "null", "now"}, value : {"1"}]
    \cup {[column |-> "a", kind |-> "value", value |-> "2"],
          [column |-> "b", kind |-> "default", value |-> "1"],
          [column |-> "a", kind |-> "increment", value |-> "1"],
          [column |-> "b", kind |-> "value", value |-> "nil"],
          [column |-> "foreign", kind |-> "value", value |-> "1"]}
MCRows == {<<>>} \cup {<<x>> : x \in MCCells} \cup {<<x, y>> : x, y \in MCCells}
MCRowSets == {<<>>} \cup {<<x>> : x \in MCRows} \cup {<<x, y>> : x, y \in MCRows}
-----------------------------------------------------------------------------
MCDigits == "0" :> 0 @@ "1" :> 1 @@ "2" :> 2 @@ "5" :> 5 @@ "7" :> 7 @@ "9" :> 9
MCKinds ==
  {[name |-> "weekday", minimum |-> 0, maximum |-> 7, numbers |-> MCDigits,
    names |-> "sun" :> 0 @@ "fri" :> 5, sundaySeven |-> TRUE],
   [name |-> "month", minimum |-> 1, maximum |-> 8, numbers |-> MCDigits,
    names |-> "jan" :> 1, sundaySeven |-> FALSE]}
MCAtoms == (DOMAIN MCDigits) \cup {"sun", "fri", "jan"}
MCBases ==
  [t : {"star", "malformed"}, a : {"0"}, b : {"0"}]
    \cup [t : {"one"}, a : MCAtoms, b : {"0"}]
    \cup [t : {"range"}, a : MCAtoms, b : MCAtoms]
MCFieldParts == {[t |-> x.t, a |-> x.a, b |-> x.b, step |-> s] : x \in MCBases, s \in {-1, 0, 1, 2, 3}}
MCSecond == {p \in MCFieldParts : p.t = "star" \/ (p.t = "range" /\ p.a = "fri" /\ p.step = 2)}
MCFields == {<<p>> : p \in MCFieldParts} \cup {<<p, q>> : p \in MCFieldParts, q \in MCSecond}
MCYears == 0..30

AllCrons == SUBSET (0 .. LastMinute)
AllInstants == 0 .. (LastMinute * Minute)
-----------------------------------------------------------------------------
MCMailTexts == UNION {[1..n -> {"a", "CR", "LF"}] : n \in 0..MaxText}
MCHTMLs == {<<>>, <<"a", "CR">>}
MCRecipients == {<<>>, <<"x">>, <<"x", "y">>, <<"bad">>, <<"x", "x", "x">>}
MCLength == [a \in {"x", "y", "bad"} |-> IF a = "y" THEN 9 ELSE 5]

\* PostgreSQL, whose runs a lock keeps apart, with every operation; SQLite, where two
\* runs race, and scripts are rewritten; MySQL with two crashes during the upgrade of the
\* ledger.
MCInstallations == {
  [dialect |-> "postgres", contents |-> {1}, ops |-> {"up", "down", "verify", "status"},
   columns |-> {"none"}, legacy |-> {1}, edits |-> 1, interrupts |-> 1],
  [dialect |-> "sqlite", contents |-> {1}, ops |-> {"up", "down"},
   columns |-> {"absent", "nullable"}, legacy |-> {1}, edits |-> 1, interrupts |-> 0],
  [dialect |-> "sqlite", contents |-> {1, 2}, ops |-> {"up"},
   columns |-> {"none", "absent"}, legacy |-> {1}, edits |-> 1, interrupts |-> 0],
  [dialect |-> "mysql", contents |-> {1}, ops |-> {"up"},
   columns |-> {"absent"}, legacy |-> {1, 2}, edits |-> 0, interrupts |-> 2],
  [dialect |-> "mysql", contents |-> {1}, ops |-> {"up", "down"},
   columns |-> {"none"}, legacy |-> {1}, edits |-> 0, interrupts |-> 0]}
NewInstallation == [dialect |-> "postgres", contents |-> {1}, ops |-> {}, columns |-> {"none"},
                    legacy |-> {}, edits |-> 0, interrupts |-> 0]
-----------------------------------------------------------------------------
\* A part that is not explored has one initial state.
Init ==
  /\ part \in Parts
  /\ \/ part = "relation" /\ RelationInputs
     \/ /\ part # "relation" /\ kind = "hasOne" /\ parents = <<NoKey>> /\ limit = 3 /\ baseArgs = 0
        /\ db = {} /\ scope = Targets /\ repeats = FALSE /\ usable = TRUE
  /\ RelationStart
  /\ \/ part = "predicate" /\ predicates \in Lists
     \/ part # "predicate" /\ predicates = <<>>
  /\ statement = Unbuilt
  /\ RepositoryInit
  /\ (part = "insert" /\ BulkInputs) \/ (part # "insert" /\ insertRows = <<>>)
  /\ BulkStart
  /\ BuilderInit /\ (part = "builder" \/ bytes[1] = CHOOSE c \in BuilderContents : TRUE)
  /\ \/ part = "cron" /\ CronInputs
     \/ /\ part # "cron" /\ cronState = "done" /\ cronKind = (CHOOSE k \in Kinds : TRUE)
        /\ field = <<>> /\ occurrences = {} /\ after = 0
  /\ CronStart
  /\ (part = "search" /\ SearchInputs) \/ (part # "search" /\ cron = {} /\ start = 0 /\ end = 0)
  /\ SearchStart
  /\ \/ part = "mail" /\ MessageInputs
     \/ part # "mail" /\ options = ZeroMessage
  /\ MessageStart
  /\ \/ part = "inject" /\ InjectInputs
     \/ part # "inject" /\ original = Sample /\ breaks = -1 /\ request = InjectedPage /\ response = Document(Sample)
  /\ done = FALSE
  /\ (part = "migrate" /\ site \in Installations) \/ (part # "migrate" /\ site = NewInstallation)
  /\ MigrateStart

allVars == <<part, relationVars, predicateVars, repositoryVars, bulkVars, builderVars, cronVars,
             searchVars, messageVars, injectVars, migrateVars>>

Next ==
  /\ UNCHANGED part
  /\ \/ /\ part = "relation" /\ RelationNext
        /\ UNCHANGED <<predicateVars, repositoryVars, bulkVars, builderVars, cronVars,
                       searchVars, messageVars, injectVars, migrateVars>>
     \/ /\ part = "predicate" /\ PredicateNext
        /\ UNCHANGED <<relationVars, repositoryVars, bulkVars, builderVars, cronVars, searchVars,
                       messageVars, injectVars, migrateVars>>
     \/ /\ part = "repository" /\ RepositoryNext
        /\ UNCHANGED <<relationVars, predicateVars, bulkVars, builderVars, cronVars, searchVars,
                       messageVars, injectVars, migrateVars>>
     \/ /\ part = "insert" /\ BulkNext
        /\ UNCHANGED <<relationVars, predicateVars, repositoryVars, builderVars, cronVars,
                       searchVars, messageVars, injectVars, migrateVars>>
     \/ /\ part = "builder" /\ BuilderNext
        /\ UNCHANGED <<relationVars, predicateVars, repositoryVars, bulkVars, cronVars,
                       searchVars, messageVars, injectVars, migrateVars>>
     \/ /\ part = "cron" /\ CronNext
        /\ UNCHANGED <<relationVars, predicateVars, repositoryVars, bulkVars, builderVars,
                       searchVars, messageVars, injectVars, migrateVars>>
     \/ /\ part = "search" /\ SearchNext
        /\ UNCHANGED <<relationVars, predicateVars, repositoryVars, bulkVars, builderVars,
                       cronVars, messageVars, injectVars, migrateVars>>
     \/ /\ part = "mail" /\ MessageNext
        /\ UNCHANGED <<relationVars, predicateVars, repositoryVars, bulkVars, builderVars,
                       cronVars, searchVars, injectVars, migrateVars>>
     \/ /\ part = "inject" /\ InjectNext
        /\ UNCHANGED <<relationVars, predicateVars, repositoryVars, bulkVars, builderVars,
                       cronVars, searchVars, messageVars, migrateVars>>
     \/ /\ part = "migrate" /\ MigrateNext
        /\ UNCHANGED <<relationVars, predicateVars, repositoryVars, bulkVars, builderVars,
                       cronVars, searchVars, messageVars, injectVars>>

Spec == Init /\ [][Next]_allVars /\ MigrateFairness
=============================================================================
