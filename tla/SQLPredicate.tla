--------------------------- MODULE SQLPredicate ---------------------------
(***************************************************************************)
(* orm/predicate.go: predicates are trees over the columns of one table    *)
(* and are compiled to SQL text with numbered parameters.  The text is     *)
(* modelled as a sequence of tokens and read back with SQL's precedences   *)
(* and its three truth values.                                             *)
(***************************************************************************)
EXTENDS Naturals, Sequences, SequencesExt, FiniteSets

CONSTANTS Leaves,      \* comparisons, IN lists, null tests and constants to build trees from
          Depth,       \* of the trees
          Values,      \* of a column, besides NULL
          Assignments  \* of an UPDATE: bound before its predicates

NullValue == "null"
PredicateColumns == {"a", "b"}
Rows == [PredicateColumns -> Values \cup {NullValue}]

VARIABLES predicates, statement
predicateVars == <<predicates, statement>>
-----------------------------------------------------------------------------
(* Trees.  A group belongs to the table of its first member. *)

TableOf(children) == IF children = <<>> THEN "" ELSE children[1].table
Group(kind, children) == [kind |-> kind, table |-> TableOf(children), children |-> children]
Not(child) == [kind |-> "not", table |-> child.table, children |-> <<child>>]

\* The literal is sought as it stands: what a pattern would read as syntax is escaped.
Escaped(literal) ==
    FlattenSeq([i \in DOMAIN literal |-> IF literal[i] \in {"!", "%", "_"} THEN <<"!", literal[i]>> ELSE <<literal[i]>>])
containsFold(column, literal) ==
    [kind |-> "contains", table |-> "own", op |-> "ILIKE", column |-> column, literal |-> literal,
     args |-> <<<<"%">> \o Escaped(literal) \o <<"%">>>>]

RECURSIVE Trees(_)
Trees(n) == IF n = 0 THEN Leaves
            ELSE LET below == Trees(n - 1)
                 IN below \cup {Not(p) : p \in below}
                          \cup {Group(k, <<p, q>>) : k \in {"and", "or"}, p \in below, q \in below}

IsNil(value) == value = NullValue

\* The compiler's arguments so far go in; tokens, arguments and success come out.
Compiled(tokens, args, ok) == [tokens |-> tokens, args |-> args, ok |-> ok]
RefusedPredicate(args) == Compiled(<<>>, args, FALSE)

RECURSIVE compile(_, _), compileAll(_, _)
compileAll(children, args) ==
    IF children = <<>> THEN <<>>
    ELSE LET first == compile(Head(children), args)
         IN <<first>> \o compileAll(Tail(children), first.args)
Joined(parts, separator) ==
    FoldLeft(LAMBDA tokens, part : IF tokens = <<>> THEN part.tokens ELSE tokens \o <<<<separator>>>> \o part.tokens,
             <<>>, parts)
\* One token per column test; a parameter is the number of its argument.
compileLeaf(p, args) ==
    LET n == Len(args)
    IN CASE p.kind = "constant" -> Compiled(<<<<p.op>>>>, args, TRUE)
         [] p.kind = "null" -> Compiled(<<<<p.op, p.column>>>>, args, TRUE)
         [] p.kind = "contains" -> Compiled(<<<<"ILIKE", p.column, <<n + 1>>>>>>, args \o p.args, TRUE)
         [] p.kind = "compare" -> Compiled(<<<<p.op, p.column, <<n + 1>>>>>>, args \o p.args, ~IsNil(p.args[1]))
         [] p.kind = "in" -> Compiled(<<<<"IN", p.column, [i \in DOMAIN p.args |-> n + i]>>>>, args \o p.args,
                                      \A i \in DOMAIN p.args : ~IsNil(p.args[i]))
MutantCompileGroup(p, parts, args) ==
    LET all == IF parts = <<>> THEN args ELSE Last(parts).args
        body == Joined(parts, IF p.kind = "or" THEN "OR" ELSE "AND")
    IN IF parts = <<>> \/ \E i \in DOMAIN parts : ~parts[i].ok THEN RefusedPredicate(all)
       ELSE Compiled((IF p.kind = "not" THEN <<<<"NOT">>>> ELSE <<>>) \o body, all, TRUE)
compileGroup(p, parts, args) ==
    LET all == IF parts = <<>> THEN args ELSE Last(parts).args
        body == Joined(parts, IF p.kind = "or" THEN "OR" ELSE "AND")
    IN IF parts = <<>> \/ \E i \in DOMAIN parts : ~parts[i].ok THEN RefusedPredicate(all)
       ELSE Compiled((IF p.kind = "not" THEN <<<<"NOT">>>> ELSE <<>>) \o <<<<"(">>>> \o body \o <<<<")">>>>, all, TRUE)
compile(p, args) ==
    IF p.table # "own" THEN RefusedPredicate(args)
    ELSE IF p.kind \in {"and", "or", "not"} THEN compileGroup(p, compileAll(p.children, args), args)
    ELSE compileLeaf(p, args)

\* writePredicates after the assignments of an UPDATE have bound their values.
writePredicates(list) ==
    LET parts == compileAll(list, Assignments)
    IN IF \E i \in DOMAIN parts : ~parts[i].ok THEN RefusedPredicate(Assignments)
       ELSE Compiled(Joined(parts, "AND"), Last(parts).args, TRUE)

-----------------------------------------------------------------------------
Lists == {<<p>> : p \in Trees(Depth)}
         \cup {<<p, q>> : p \in Trees(Depth - 1), q \in Trees(Depth - 1)}
         \cup {<<Group("or", <<>>)>>}
Unbuilt == Compiled(<<>>, <<>>, FALSE)
PredicateInit == predicates \in Lists /\ statement = Unbuilt
BuildPredicate == /\ predicates # <<>> /\ statement = Unbuilt
                  /\ statement' = writePredicates(predicates)
                  /\ UNCHANGED predicates
PredicateNext == BuildPredicate
PredicateSpec == PredicateInit /\ [][PredicateNext]_predicateVars
-----------------------------------------------------------------------------
(* Three truth values. *)

And(x, y) == IF "F" \in {x, y} THEN "F" ELSE IF "U" \in {x, y} THEN "U" ELSE "T"
Or(x, y) == IF "T" \in {x, y} THEN "T" ELSE IF "U" \in {x, y} THEN "U" ELSE "F"
Negation(x) == CASE x = "T" -> "F" [] x = "F" -> "T" [] OTHER -> "U"
Truth(b) == IF b THEN "T" ELSE "F"
Test(op, value, args) ==
    CASE op = "IS NULL" -> Truth(IsNil(value))
      [] op = "IS NOT NULL" -> Truth(~IsNil(value))
      [] IsNil(value) -> "U"
      [] op \in {"=", "IN"} -> Truth(value \in args)
      [] op = "<>" -> Truth(value \notin args)

\* Whether a text matches a pattern in which "!" escapes.
RECURSIVE Matches(_, _)
Matches(text, pattern) ==
    CASE pattern = <<>> -> text = <<>>
      [] pattern # <<>> /\ Head(pattern) = "%" ->
            \E i \in 0..Len(text) : Matches(SubSeq(text, i + 1, Len(text)), Tail(pattern))
      [] OTHER -> LET escaped == Head(pattern) = "!"
                      rest == IF escaped THEN Tail(pattern) ELSE pattern
                  IN /\ text # <<>>
                     /\ Head(text) = Head(rest) \/ (~escaped /\ Head(pattern) = "_")
                     /\ Matches(Tail(text), Tail(rest))
Like(value, pattern) == IF IsNil(value) THEN "U" ELSE Truth(Matches(<<value>>, pattern))

\* What a tree means, read off the tree.
RECURSIVE Meaning(_, _)
Meaning(p, row) ==
    CASE p.kind = "constant" -> Truth(p.op = "TRUE")
      [] p.kind = "not" -> Negation(Meaning(p.children[1], row))
      [] p.kind = "and" -> And(Meaning(p.children[1], row), Meaning(p.children[2], row))
      [] p.kind = "or" -> Or(Meaning(p.children[1], row), Meaning(p.children[2], row))
      [] p.kind = "contains" -> IF IsNil(row[p.column]) THEN "U" ELSE Truth(p.literal \in {<<>>, <<row[p.column]>>})
      [] OTHER -> Test(p.op, row[p.column], Range(p.args))

\* What the text means to the database: OR binds weaker than AND, AND weaker than NOT.
RECURSIVE ReadOr(_, _), ReadAnd(_, _), ReadNot(_, _)
ReadNot(ts, row) ==
    LET t == Head(ts) rest == Tail(ts)
    IN CASE t[1] = "NOT" -> LET r == ReadNot(rest, row) IN [v |-> Negation(r.v), rest |-> r.rest]
         [] t[1] = "(" -> LET r == ReadOr(rest, row) IN [v |-> r.v, rest |-> Tail(r.rest)]
         [] t[1] \in {"TRUE", "FALSE"} -> [v |-> Truth(t[1] = "TRUE"), rest |-> rest]
         [] t[1] = "ILIKE" -> [v |-> Like(row[t[2]], statement.args[t[3][1]]), rest |-> rest]
         [] Len(t) = 2 -> [v |-> Test(t[1], row[t[2]], {}), rest |-> rest]
         [] OTHER -> [v |-> Test(t[1], row[t[2]], {statement.args[n] : n \in Range(t[3])}), rest |-> rest]
ReadAnd(ts, row) ==
    LET l == ReadNot(ts, row)
    IN IF l.rest = <<>> \/ Head(l.rest)[1] # "AND" THEN l
       ELSE LET r == ReadAnd(Tail(l.rest), row) IN [v |-> And(l.v, r.v), rest |-> r.rest]
ReadOr(ts, row) ==
    LET l == ReadAnd(ts, row)
    IN IF l.rest = <<>> \/ Head(l.rest)[1] # "OR" THEN l
       ELSE LET r == ReadOr(Tail(l.rest), row) IN [v |-> Or(l.v, r.v), rest |-> r.rest]

\* The database reads in the compiled text and its arguments what the trees say, for every
\* row, including rows with NULLs and conditions that follow the arguments of assignments.
CompiledMeansPredicate == statement.ok => \A row \in Rows :
    LET read == ReadOr(statement.tokens, row)
    IN /\ read.rest = <<>>
       /\ read.v = FoldLeft(LAMBDA v, p : And(v, Meaning(p, row)), "T", predicates)
=============================================================================
