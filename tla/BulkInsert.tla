----------------------------- MODULE BulkInsert -----------------------------
(* The insert builders of the orm package: the assignments of each row are
   checked and stripped of omitted fields, the rows of a bulk insert are brought
   into the column order of the first, and the statement's placeholders are
   numbered through one argument list.  PostgreSQL's reading of the statement
   gives back the rows inserted.                                             *)
EXTENDS Integers, Sequences, FiniteSets, SequencesExt

CONSTANTS
  TableColumns,        \* the table's columns
  RowSets,        \* the argument lists of Rows: sequences of rows
  ParameterLimit  \* PostgreSQLParameterLimit

VARIABLES
  insertRows,       \* the rows passed to Rows
  insertStatement,  \* what Build returned: columns, rows of tokens, arguments
  insertState       \* "new", "built" or "refused"

bulkVars == <<insertRows, insertStatement, insertState>>

RefusedInsert == [columns |-> <<>>, values |-> <<>>, args |-> <<>>]

Present(row) == SelectSeq(row, LAMBDA a : a.kind # "omitted")

(* includedAssignments: foreign columns, nil values and duplicates are refused. *)
Included(row) ==
  /\ \A i \in 1..Len(row) : row[i].column \in TableColumns
  /\ \A i \in 1..Len(row) : ~(row[i].kind = "value" /\ row[i].value = "nil")
  /\ \A i, j \in 1..Len(Present(row)) :
       i # j => Present(row)[i].column # Present(row)[j].column

\* In an insert there is nothing to increment.
Insertable(row) == Included(row) /\ \A i \in 1..Len(row) : row[i].kind # "increment"

HasColumn(row, column) == \E i \in 1..Len(row) : row[i].column = column
RowAt(row, column) == row[CHOOSE i \in 1..Len(row) : row[i].column = column]

(* The rows after the first keep their own order. *)
MutantReordered(columns, row) == row

(* byColumn: the row in the order of columns. *)
Reordered(columns, row) == [i \in 1..Len(columns) |-> RowAt(row, columns[i])]

SameShape(columns, row) ==
  Len(row) = Len(columns) /\ \A i \in 1..Len(columns) : HasColumn(row, columns[i])

(* writeAssignmentValue: the token written for an assignment, with what it
   binds; a placeholder's number is the length of the argument list by then. *)
Bind(out, a) ==
  LET n == Len(out.args) + 1 IN
  CASE a.kind = "default" -> [out EXCEPT !.tokens = Append(@, [t |-> "DEFAULT", n |-> 0])]
    [] a.kind = "now" -> [out EXCEPT !.tokens = Append(@, [t |-> "NOW", n |-> 0])]
    [] OTHER -> [tokens |-> Append(out.tokens, [t |-> "$", n |-> n]),
                 args |-> Append(out.args, IF a.kind = "null" THEN "NULL" ELSE a.value)]

CompileRow(out, row) ==
  LET one == FoldLeft(Bind, [tokens |-> <<>>, args |-> out.args], row)
  IN [values |-> Append(out.values, one.tokens), args |-> one.args]

(* newCompiledStatement. *)
CompiledInsert(columns, shaped) ==
  LET out == FoldLeft(CompileRow, [values |-> <<>>, args |-> <<>>], shaped)
  IN [columns |-> columns, values |-> out.values, args |-> out.args]

Fits(compiled) == Len(compiled.args) <= ParameterLimit

(* Build of a set of rows; a single empty row is INSERT ... DEFAULT VALUES. *)
BuildInsert ==
  /\ insertState = "new"
  /\ LET shaped  == [r \in 1..Len(insertRows) |-> Present(insertRows[r])]
         columns == [i \in 1..Len(shaped[1]) |-> shaped[1][i].column]
         ordered == [r \in 1..Len(insertRows) |-> IF r = 1 THEN shaped[1]
                                            ELSE Reordered(columns, shaped[r])]
     IN IF /\ insertRows # <<>>
           /\ \A r \in 1..Len(insertRows) : Insertable(insertRows[r])
           /\ shaped[1] = <<>> => Len(insertRows) = 1
           /\ \A r \in 2..Len(insertRows) : SameShape(columns, shaped[r])
           /\ Fits(CompiledInsert(columns, ordered))
        THEN insertStatement' = CompiledInsert(columns, ordered) /\ insertState' = "built"
        ELSE insertStatement' = RefusedInsert /\ insertState' = "refused"
  /\ UNCHANGED insertRows

Finished == insertState # "new" /\ UNCHANGED bulkVars

BulkInputs == insertRows \in RowSets

BulkStart == insertStatement = RefusedInsert /\ insertState = "new"

BulkInit == BulkInputs /\ BulkStart

BulkNext == BuildInsert \/ Finished

BulkSpec == BulkInit /\ [][BulkNext]_bulkVars

----------------------------------------------------------------------------
\* What a row's assignments say of a column: its own value, or the default.
Meant(row, column) ==
  LET said == {i \in 1..Len(row) : row[i].column = column /\ row[i].kind # "omitted"}
  IN IF said = {} THEN "DEFAULT"
     ELSE LET a == row[CHOOSE i \in said : TRUE]
          IN CASE a.kind = "value" -> a.value
               [] a.kind = "null" -> "NULL"
               [] a.kind = "now" -> "NOW"
               [] OTHER -> "DEFAULT"

\* PostgreSQL's reading of the r-th row of values.
Inserted(r, column) ==
  LET at == {i \in 1..Len(insertStatement.columns) : insertStatement.columns[i] = column}
  IN IF at = {} THEN "DEFAULT"
     ELSE LET token == insertStatement.values[r][CHOOSE i \in at : TRUE]
          IN IF token.t = "$" THEN insertStatement.args[token.n] ELSE token.t

(* BulkInsertBuilder.Build (mutation.go:135-220): every value lands in the
   column and the row it was assigned to, for rows whose assignments come in
   different orders and leave different placeholders, and every argument is
   used. *)
InsertedAsMeant ==
  insertState = "built" =>
    /\ Len(insertStatement.values) = Len(insertRows)
    /\ \A r \in 1..Len(insertRows), c \in TableColumns : Inserted(r, c) = Meant(insertRows[r], c)
    /\ \A n \in DOMAIN insertStatement.args :
         \E r \in DOMAIN insertStatement.values : \E i \in DOMAIN insertStatement.values[r] :
            LET token == insertStatement.values[r][i] IN token.t = "$" /\ token.n = n

=============================================================================
