---------------------------- MODULE QueryBuilder ----------------------------
(* The immutable query builders of the orm package over Go's shared memory.
   Every method takes a builder by value and returns a new one; builders derived
   from a common base share no slice with it, because appendCopy allocates.
   Arguments that are byte slices are copied when they enter a predicate or an
   assignment, when a statement is built and when Args hands them out, while
   the application keeps writing to the bytes it owns.  A byte slice is an
   address in bytes; a builder's list of predicates (or assignments, or orders)
   is a slice of an array of such addresses.                                 *)
EXTENDS Integers, Sequences, FiniteSets

CONSTANTS
  BuilderContents,     \* what a byte slice can hold
  MaxBuilders,  \* bound on the builders derived
  MaxStatements \* bound on the statements built

VARIABLES
  bytes,       \* address -> contents
  owned,       \* the addresses the application may write to
  arrays,      \* the backing arrays; unused capacity holds address 0
  builders,    \* the builders: array, length, limit and error
  calls,       \* for each builder, what its chain of calls asked for
  builtStatements,  \* the statements built: the addresses of their arguments
  asked        \* for each statement, the calls of its builder

builderVars == <<bytes, owned, arrays, builders, calls, builtStatements, asked>>

(* freezeArg: a copy of the bytes at a fresh address. *)
freezeArg(b, address) == [bytes |-> Append(b, b[address]), address |-> Len(b) + 1]

(* The built-in append: in place when the capacity allows. *)
MutantAppendCopy(slice, address) ==
  IF slice.len < Len(arrays[slice.arr])
  THEN [arrays |-> [arrays EXCEPT ![slice.arr][slice.len + 1] = address], arr |-> slice.arr]
  ELSE [arrays |-> Append(arrays,
                     [i \in 1..(IF slice.len = 0 THEN 1 ELSE 2 * slice.len) |->
                        IF i <= slice.len THEN arrays[slice.arr][i]
                        ELSE IF i = slice.len + 1 THEN address ELSE 0]),
        arr |-> Len(arrays) + 1]

(* appendCopy: always a fresh array of exactly the new length. *)
appendCopy(slice, address) ==
  [arrays |-> Append(arrays, Append(SubSeq(arrays[slice.arr], 1, slice.len), address)),
   arr |-> Len(arrays) + 1]

CanDerive == Len(builders) < MaxBuilders

(* Where, Set, Values, OrderBy: column.Eq(value) or column.Set(value) freezes
   the argument, and the builder's list is extended by it. *)
Where ==
  /\ CanDerive
  /\ \E b \in 1..Len(builders), address \in owned :
       LET frozen == freezeArg(bytes, address)
           grown  == appendCopy(builders[b], frozen.address)
       IN /\ bytes' = frozen.bytes
          /\ arrays' = grown.arrays
          /\ builders' = Append(builders,
               [builders[b] EXCEPT !.arr = grown.arr, !.len = @ + 1])
          /\ calls' = Append(calls, [calls[b] EXCEPT !.args = Append(@, bytes[address])])
  /\ UNCHANGED <<owned, builtStatements, asked>>

(* Limit: a fresh pointer, or a sticky error. *)
Limit ==
  /\ CanDerive
  /\ \E b \in 1..Len(builders), limit \in {-1, 1} :
       /\ builders' = Append(builders,
            IF limit < 0 THEN [builders[b] EXCEPT !.failed = TRUE]
            ELSE [builders[b] EXCEPT !.limit = limit])
       /\ calls' = Append(calls,
            IF limit < 0 THEN [calls[b] EXCEPT !.failed = TRUE]
            ELSE [calls[b] EXCEPT !.limit = limit])
  /\ UNCHANGED <<bytes, owned, arrays, builtStatements, asked>>

(* cloneArgs: every argument frozen again, at fresh addresses. *)
cloneArgs(args) ==
  [bytes |-> bytes \o [i \in 1..Len(args) |-> bytes[args[i]]],
   args  |-> [i \in 1..Len(args) |-> Len(bytes) + i]]

ArgsOf(builder) == SubSeq(arrays[builder.arr], 1, builder.len)

Build ==
  /\ Len(builtStatements) < MaxStatements
  /\ \E b \in 1..Len(builders) :
       /\ ~builders[b].failed
       /\ LET clone == cloneArgs(ArgsOf(builders[b]))
          IN bytes' = clone.bytes /\ builtStatements' = Append(builtStatements, clone.args)
       /\ asked' = Append(asked, calls[b].args)
  /\ UNCHANGED <<owned, arrays, builders, calls>>

(* Statement.Args: copies the application may write to. *)
Args ==
  /\ \E s \in 1..Len(builtStatements) :
       /\ builtStatements[s] # <<>>
       /\ LET clone == cloneArgs(builtStatements[s])
          IN /\ bytes' = clone.bytes
             /\ owned' = owned \cup {clone.args[i] : i \in 1..Len(clone.args)}
  /\ Cardinality(owned) = 1
  /\ UNCHANGED <<arrays, builders, calls, builtStatements, asked>>

AppWrites ==
  /\ \E address \in owned, content \in BuilderContents :
       bytes[address] # content /\ bytes' = [bytes EXCEPT ![address] = content]
  /\ UNCHANGED <<owned, arrays, builders, calls, builtStatements, asked>>

(* The application holds a byte slice and a base query, Select(table) with two
   predicates on it. *)
BuilderInit ==
  /\ \E content \in BuilderContents :
       /\ bytes = <<content, content, content>>
       /\ calls = <<[args |-> <<content, content>>, limit |-> -1, failed |-> FALSE]>>
  /\ owned = {1} /\ arrays = <<<<2, 3>>>>
  /\ builders = <<[arr |-> 1, len |-> 2, limit |-> -1, failed |-> FALSE]>>
  /\ builtStatements = <<>> /\ asked = <<>>

BuilderNext == Where \/ Limit \/ Build \/ Args \/ AppWrites

BuilderSpec == BuilderInit /\ [][BuilderNext]_builderVars

----------------------------------------------------------------------------
BuilderValues(addresses) == [i \in 1..Len(addresses) |-> bytes[addresses[i]]]

(* The builders (select.go:29-57, 289-295; mutation.go:99-133, 304-314): what a
   builder means is what its own chain of calls asked for, whatever other
   builders were derived from the same base, in any order, and whatever the
   application has written into its byte slices since. *)
BuilderIsItsCalls ==
  \A b \in 1..Len(builders) :
    /\ BuilderValues(ArgsOf(builders[b])) = calls[b].args
    /\ builders[b].limit = calls[b].limit /\ builders[b].failed = calls[b].failed

(* The statements (statement.go): what a statement binds is what its builder's calls
   asked for, whatever the application writes into its own byte slices or into
   the copies Args hands out. *)
StatementIsItsCalls ==
  \A s \in 1..Len(builtStatements) : BuilderValues(builtStatements[s]) = asked[s]

=============================================================================
