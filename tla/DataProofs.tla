----------------------------- MODULE DataProofs -----------------------------
(***************************************************************************)
(* The parts that work on stored data, for every instance: the binary      *)
(* search for the latest occurrence of a schedule, the optimistic updates  *)
(* of a generated repository, the ledger of the migrator and the immutable *)
(* query builders.                                                         *)
(***************************************************************************)
EXTENDS Repository, Migrate, OccurrenceSearch, QueryBuilder, FiniteSetTheorems, TLAPS

(* The search for the latest occurrence. *)

\* What the loop maintains: the range is non-negative, the candidate before it
\* has an occurrence that does not lie after the window, and no occurrence
\* beyond the range lies in the window.
SearchInv ==
    /\ cron \subseteq Nat /\ start \in Nat /\ end \in Nat
    /\ lower = RoundUp(start)
    /\ low \in Nat /\ high \in Int /\ best = low - 1
    /\ best >= 0 => \E n \in cron : n >= lower + best /\ n * Minute <= end
    /\ \A k \in cron : k * Minute <= end => k <= lower + high
    /\ pc \in {"loop", "done"}
    /\ FindsLatest

\* Minutes at or after lower are the minutes at or after start.
LEMMA RoundUpBound ==
    ASSUME NEW t \in Nat
    PROVE  /\ RoundUp(t) \in Nat
           /\ \A m \in Nat : t <= m * Minute <=> m >= RoundUp(t)
<1> DEFINE q == RoundUp(t)
<1>1. Minute \in Nat /\ Minute > 0
  BY SearchAssumption
<1>2. /\ q \in Nat
      /\ q * Minute <= t + Minute - 1
      /\ t + Minute - 1 < q * Minute + Minute
  BY <1>1, SMT DEF RoundUp
<1>3. ASSUME NEW m \in Nat, m >= q PROVE t <= m * Minute
  <2>1. m * Minute >= q * Minute
    BY <1>1, <1>2, <1>3, SMT
  <2> QED BY <2>1, <1>1, <1>2, <1>3, SMT
<1>4. ASSUME NEW m \in Nat, m < q PROVE t > m * Minute
  <2>1. m + 1 <= q
    BY <1>2, <1>4
  <2>2. (m + 1) * Minute <= q * Minute
    BY <1>1, <1>2, <2>1, <1>4, SMT
  <2>3. (m + 1) * Minute = m * Minute + Minute
    BY <1>1, SMT
  <2> QED BY <2>2, <2>3, <1>1, <1>2, <1>4, SMT
<1> HIDE DEF q
<1>5. \A m \in Nat : t <= m * Minute <=> m >= q
  <2> TAKE m \in Nat
  <2>1. CASE m >= q BY Zenon, <2>1, <1>3
  <2>2. CASE m < q
    <3>1. t > m * Minute BY Zenon, <2>2, <1>4
    <3>2. m * Minute \in Nat BY <1>1, SMT
    <3> QED BY <3>1, <3>2, <2>2, <1>2
  <2> QED BY <2>1, <2>2, <1>2
<1> QED BY Zenon, <1>2, <1>5 DEF q

\* The last whole minute of the window bounds its occurrences.
LEMMA RoundDownBound ==
    ASSUME NEW t \in Nat, NEW m \in Nat, m * Minute <= t
    PROVE  RoundDown(t) \in Nat /\ m <= RoundDown(t)
<1> DEFINE q == RoundDown(t)
<1>1. Minute \in Nat /\ Minute > 0
  BY SearchAssumption
<1>2. q \in Nat /\ t < q * Minute + Minute
  BY <1>1, SMT DEF RoundDown
<1> HIDE DEF q
<1>3. ASSUME m > q PROVE FALSE
  <2>1. m >= q + 1
    BY <1>2, <1>3
  <2>2. m * Minute >= (q + 1) * Minute
    BY <1>1, <1>2, <2>1, SMT
  <2>3. (q + 1) * Minute = q * Minute + Minute
    BY <1>1, <1>2, SMT
  <2> QED BY <2>2, <2>3, <1>1, <1>2, SMT
<1>4. m <= q
  BY <1>3, <1>2
<1> QED BY Zenon, <1>4, <1>2 DEF q

\* Later minutes are later instants.
LEMMA MinutesMonotone ==
    ASSUME NEW a \in Nat, NEW b \in Nat, a <= b
    PROVE  a * Minute <= b * Minute /\ a * Minute \in Nat /\ b * Minute \in Nat
  BY SearchAssumption, SMT

LEMMA SearchInitInv == SearchInit => SearchInv
<1> SUFFICES ASSUME SearchInit PROVE SearchInv
  BY Zenon
<1>1. cron \subseteq Nat /\ start \in Nat /\ end \in Nat
  BY Zenon, SearchAssumption DEF SearchInit, SearchInputs, SearchStart
<1>2. lower \in Nat /\ RoundDown(end) \in Int
  BY <1>1, RoundUpBound, SearchAssumption DEF SearchInit, SearchInputs, SearchStart, RoundDown
<1>3. ASSUME NEW k \in cron, k * Minute <= end PROVE k <= lower + high
  <2>1. k <= RoundDown(end)
    BY Zenon, <1>1, <1>3, RoundDownBound
  <2> QED BY <2>1, <1>1, <1>2 DEF SearchInit, SearchInputs, SearchStart
<1>4. FindsLatest
  BY Zenon DEF SearchInit, SearchInputs, SearchStart, FindsLatest
<1> QED BY <1>1, <1>2, <1>3, <1>4 DEF SearchInit, SearchInputs, SearchStart, SearchInv

LEMMA ProbeKeepsInv == SearchInv /\ Probe => SearchInv'
<1> SUFFICES ASSUME SearchInv, Probe PROVE SearchInv'
  BY Zenon
<1> DEFINE middle == low + (high - low) \div 2
<1> DEFINE candidate == lower + middle
<1>1. /\ cron \subseteq Nat /\ start \in Nat /\ end \in Nat
      /\ low \in Nat /\ high \in Int /\ low <= high
      /\ Minute \in Nat /\ Minute > 0
  BY SearchAssumption DEF SearchInv, Probe
<1>2. lower \in Nat
  BY Zenon, <1>1, RoundUpBound DEF SearchInv
<1>3. middle \in Nat /\ low <= middle /\ middle <= high
  BY <1>1, SMT
<1>4. UNCHANGED <<cron, start, end, lower, pc, answer>> /\ pc = "loop"
  BY Zenon DEF Probe
<1>5. FindsLatest'
  BY Zenon, <1>4 DEF FindsLatest
<1>6. CASE /\ \/ None(candidate)
              \/ \E n \in cron : IsNext(candidate, n) /\ n * Minute > end
           /\ high' = middle - 1 /\ UNCHANGED <<low, best>>
  <2>1. ASSUME NEW k \in cron, k * Minute <= end PROVE k <= lower + (middle - 1)
    <3>1. CASE k < candidate
      BY <3>1, <1>1, <1>2, <1>3
    <3>2. CASE k >= candidate
      <4>1. ~None(candidate)
        BY <3>2, <1>1, <1>2, <1>3 DEF None
      <4>2. PICK n \in cron : IsNext(candidate, n) /\ n * Minute > end
        BY Zenon, <4>1, <1>6
      <4>3. n <= k /\ n \in Nat /\ k \in Nat
        BY Zenon, <4>2, <3>2, <1>1 DEF IsNext
      <4>4. n * Minute <= k * Minute /\ n * Minute \in Nat /\ k * Minute \in Nat
        BY Zenon, <4>3, MinutesMonotone
      <4> QED BY <4>2, <4>4, <2>1, <1>1
    <3> QED BY <3>1, <3>2, <1>1, <1>2, <1>3
  <2> HIDE DEF middle
  <2>2. high' \in Int /\ low' = low /\ best' = best /\ high' = middle - 1
    BY <1>3, <1>6
  <2> QED BY Zenon, <2>1, <2>2, <1>4, <1>5 DEF SearchInv, RoundUp
<1>7. CASE /\ \E n \in cron : IsNext(candidate, n) /\ n * Minute <= end
           /\ best' = middle /\ low' = middle + 1 /\ UNCHANGED high
  <2>1. \E n \in cron : n >= candidate /\ n * Minute <= end
    BY Zenon, <1>7 DEF IsNext
  <2> HIDE DEF middle
  <2>2. low' \in Nat /\ best' = low' - 1 /\ best' = middle /\ high' = high
    BY <1>3, <1>7
  <2> QED BY Zenon, <2>1, <2>2, <1>4, <1>5 DEF SearchInv, RoundUp
<1> QED BY Zenon, <1>6, <1>7 DEF Probe

LEMMA ReturnKeepsInv == SearchInv /\ Return => SearchInv'
<1> SUFFICES ASSUME SearchInv, Return PROVE SearchInv'
  BY Zenon
<1>1. /\ cron \subseteq Nat /\ start \in Nat /\ end \in Nat
      /\ low \in Nat /\ high \in Int /\ low > high /\ best = low - 1
      /\ UNCHANGED <<cron, start, end, lower, low, high, best>>
      /\ pc' = "done"
  BY Zenon DEF SearchInv, Return
<1>2. lower \in Nat /\ \A m \in Nat : start <= m * Minute <=> m >= lower
  BY Zenon, <1>1, RoundUpBound DEF SearchInv
<1>3. \A k \in cron : InWindow(k) => k >= lower /\ k <= lower + high
  BY Zenon, <1>1, <1>2 DEF InWindow, SearchInv
<1>4. CASE best < 0
  <2>1. \A k \in cron : ~InWindow(k)
    BY <1>1, <1>2, <1>3, <1>4
  <2>2. answer' = NULL
    BY Zenon, <1>4 DEF Return
  <2> QED BY Zenon, <2>1, <2>2, <1>1 DEF SearchInv, FindsLatest, InWindow, RoundUp
<1>5. CASE best >= 0
  <2>1. PICK n \in cron : IsNext(lower + best, n) /\ answer' = n * Minute
    BY <1>1, <1>5 DEF Return
  <2>2. PICK n0 \in cron : n0 >= lower + best /\ n0 * Minute <= end
    BY Zenon, <1>5 DEF SearchInv
  <2>3. n \in Nat /\ n0 \in Nat /\ n <= n0 /\ n >= lower + best
    BY Zenon, <2>1, <2>2, <1>1 DEF IsNext
  <2>4. n * Minute <= n0 * Minute /\ n * Minute \in Nat /\ n0 * Minute \in Nat
    BY Zenon, <2>3, MinutesMonotone
  <2>5. InWindow(n)
    BY <2>2, <2>3, <2>4, <1>1, <1>2, <1>5 DEF InWindow
  <2>6. \A k \in cron : InWindow(k) => k <= n
    BY <2>3, <1>1, <1>2, <1>3
  <2>7. answer' # NULL
    BY <2>1, <2>4, SearchAssumption
  <2>8. FindsLatest'
    BY Zenon, <2>1, <2>5, <2>6, <2>7, <1>1 DEF FindsLatest, InWindow
  <2> QED BY Zenon, <2>8, <1>1 DEF SearchInv, RoundUp
<1> QED BY <1>4, <1>5, <1>1

LEMMA SearchNextInv == SearchInv /\ [SearchNext]_searchVars => SearchInv'
<1> SUFFICES ASSUME SearchInv, [SearchNext]_searchVars PROVE SearchInv'
  BY Zenon
<1>1. CASE UNCHANGED searchVars
  BY Zenon, <1>1 DEF searchVars, SearchInv, FindsLatest, InWindow, RoundUp
<1> QED BY Zenon, <1>1, ProbeKeepsInv, ReturnKeepsInv DEF SearchNext

\* latestOccurrence returns the last occurrence of the window, for every cron
\* expression, window and length of the minute.
THEOREM LatestFound == SearchSpec => []FindsLatest
<1>1. SearchInv => FindsLatest
  BY Zenon DEF SearchInv
<1> QED BY SearchInitInv, SearchNextInv, <1>1, PTL DEF SearchSpec
-----------------------------------------------------------------------------
(* The optimistic updates of a repository. *)

Rows == [owner : Owners \cup {"nobody"}, version : Nat, value : Nat]

\* What a client that edits knows of its row: it has not been created since, and it
\* is gone, newer than what the client read, or exactly that.
EditOf(i, old, t, n) ==
    /\ i \in 1..MaxId /\ i < n /\ old \in Rows
    /\ t[i] = Gone \/ t[i].version > old.version \/ t[i] = old

RepositoryInv ==
    /\ table \in [1..MaxId -> Rows] /\ nextId \in Nat \ {0} /\ repositoryWrites \in Nat
    /\ clientPc \in [Clients -> {"idle", "editing", "exists", "listing"}] /\ id \in [Clients -> Int] /\ seen \in [Clients -> Rows]
    /\ \A i \in 1..MaxId : i >= nextId => table[i] = Gone
    /\ \A c \in Clients : clientPc[c] = "editing" => EditOf(id[c], seen[c], table, nextId)

\* What one step does to the table: nothing, or it stores a row at an id that is not
\* in use, removes a row or gives it a higher version.
TableStep ==
    \/ table' = table /\ nextId' = nextId
    \/ \E i \in 1..MaxId, row \in Rows :
         /\ table' = [table EXCEPT ![i] = row]
         /\ \/ i = nextId /\ nextId' = nextId + 1
            \/ nextId' = nextId /\ row = Gone
            \/ nextId' = nextId /\ table[i] # Gone /\ row.version > table[i].version

LEMMA GoneIsARow == Gone \in Rows
BY Zenon DEF Gone, Rows

\* A row that somebody can see is not gone.
LEMMA VisibleInUse ==
    ASSUME RepositoryInv, NEW c \in Clients, NEW i \in 1..MaxId, Visible(c, i)
    PROVE  table[i] # Gone
<1>1. OwnerOf[c] # "nobody"
  BY Zenon, RepositoryAssumption
<1> QED BY <1>1 DEF Visible, Gone

\* Every client's view stays true when another one changes the table.
LEMMA EditKept ==
    ASSUME RepositoryInv, TableStep, NEW c \in Clients, clientPc[c] = "editing"
    PROVE  EditOf(id[c], seen[c], table', nextId')
<1> DEFINE i == id[c]
<1>1. /\ i \in 1..MaxId /\ i < nextId /\ seen[c] \in Rows
      /\ table[i] = Gone \/ table[i].version > seen[c].version \/ table[i] = seen[c]
      /\ table \in [1..MaxId -> Rows] /\ nextId \in Nat
  BY Zenon DEF RepositoryInv, EditOf
<1>2. seen[c].version \in Nat /\ table[i].version \in Nat /\ nextId' \in Nat /\ i < nextId'
  BY <1>1 DEF Rows, TableStep
<1>3. table'[i] = Gone \/ table'[i].version > seen[c].version \/ table'[i] = seen[c]
  <2>1. CASE table' = table
    BY Zenon, <2>1, <1>1
  <2>2. ASSUME NEW j \in 1..MaxId, NEW row \in Rows, table' = [table EXCEPT ![j] = row],
               \/ j = nextId /\ nextId' = nextId + 1
               \/ nextId' = nextId /\ row = Gone
               \/ nextId' = nextId /\ table[j] # Gone /\ row.version > table[j].version
        PROVE  table'[i] = Gone \/ table'[i].version > seen[c].version \/ table'[i] = seen[c]
    <3>1. CASE j # i
      BY Zenon, <3>1, <2>2, <1>1
    <3>2. CASE j = i
      <4>1. table'[i] = row /\ row.version \in Nat
        BY Zenon, <3>2, <2>2, <1>1 DEF Rows
      <4>2. row = Gone \/ (table[i] # Gone /\ row.version > table[i].version)
        BY <3>2, <2>2, <1>1
      <4>3. CASE row = Gone
        BY Zenon, <4>3, <4>1
      <4>4. CASE table[i] # Gone /\ row.version > table[i].version
        <5>1. table[i].version >= seen[c].version
          BY <1>1, <1>2, <4>4
        <5> QED BY <5>1, <4>4, <4>1, <1>2, <1>1
      <4> QED BY Zenon, <4>2, <4>3, <4>4
    <3> QED BY Zenon, <3>1, <3>2
  <2> QED BY Zenon, <2>1, <2>2 DEF TableStep
<1> QED BY Zenon, <1>1, <1>2, <1>3 DEF EditOf

\* What a step does: to the table as above; the client that took it ends its edit, if
\* it had one, or has just read its row.
RepositoryShape(c) ==
    /\ TableStep /\ repositoryWrites' \in Nat
    /\ \/ /\ UNCHANGED <<id, seen>>
          /\ \E s \in {"idle", "exists", "listing"} : clientPc' = [clientPc EXCEPT ![c] = s]
       \/ /\ UNCHANGED database
          /\ clientPc' = [clientPc EXCEPT ![c] = "editing"]
          /\ \E i \in 1..MaxId : /\ id' = [id EXCEPT ![c] = i] /\ seen' = [seen EXCEPT ![c] = table[i]]
                                 /\ Visible(c, i)

LEMMA StoreShape ==
    ASSUME RepositoryInv, NEW c \in Clients, NEW i \in 1..MaxId, NEW row \in Rows, NEW r,
           Store(c, i, row, r), UNCHANGED <<id, seen>>,
           \/ i = nextId /\ nextId' = nextId + 1
           \/ nextId' = nextId /\ row = Gone
           \/ nextId' = nextId /\ table[i] # Gone /\ row.version > table[i].version
    PROVE  RepositoryShape(c)
<1>1. repositoryWrites' \in Nat /\ table' = [table EXCEPT ![i] = row]
  BY DEF Store, RepositoryInv
<1>2. clientPc' = [clientPc EXCEPT ![c] = "idle"]
  BY Zenon DEF Store, ClientReturn
<1>3. TableStep
  BY <1>1, Zenon DEF TableStep
<1> QED BY Zenon, <1>1, <1>2, <1>3 DEF RepositoryShape

LEMMA QuietShape ==
    ASSUME RepositoryInv, NEW c \in Clients, NEW s \in {"idle", "exists", "listing"},
           clientPc' = [clientPc EXCEPT ![c] = s], UNCHANGED database, UNCHANGED <<id, seen>>
    PROVE  RepositoryShape(c)
BY Zenon DEF RepositoryShape, TableStep, database, RepositoryInv

LEMMA StoredRow ==
    ASSUME RepositoryInv, NEW c \in Clients, NEW v \in Nat
    PROVE  /\ Row(OwnerOf[c], v, repositoryWrites + 1) \in Rows
           /\ Row(OwnerOf[c], v, repositoryWrites + 1).version = v
BY RepositoryAssumption DEF Row, Rows, RepositoryInv

LEMMA EveryRepositoryShape ==
    ASSUME RepositoryInv, NEW c \in Clients,
           \/ ClientStep(c) \/ Create(c) \/ List(c)
           \/ \E i \in 1..MaxId : Find(c, i) \/ UpdateUnguarded(c, i) \/ Delete(c, i)
    PROVE  RepositoryShape(c)
<1> USE DEF RepositoryInv
<1>1. CASE Update(c)
  <2>1. CASE Visible(c, id[c]) /\ ExpectVersion(table[id[c]], seen[c].version)
    <3>1. id[c] \in 1..MaxId
      BY Zenon, <1>1 DEF Update, EditOf
    <3>2. table[id[c]] # Gone /\ table[id[c]].version \in Nat
      BY Zenon, <3>1, <2>1, VisibleInUse DEF Rows
    <3> DEFINE row == Row(OwnerOf[c], table[id[c]].version + 1, repositoryWrites + 1)
    <3>3. row \in Rows /\ row.version = table[id[c]].version + 1
      BY <3>2, StoredRow
    <3>4. Store(c, id[c], row, "updated") /\ UNCHANGED nextId /\ UNCHANGED <<id, seen>>
      BY Zenon, <1>1, <2>1 DEF Update
    <3> HIDE DEF row
    <3>5. nextId' = nextId /\ table[id[c]] # Gone /\ row.version > table[id[c]].version
      BY <3>2, <3>3, <3>4
    <3> QED BY Zenon, <3>1, <3>3, <3>4, <3>5, StoreShape
  <2>2. CASE ~(Visible(c, id[c]) /\ ExpectVersion(table[id[c]], seen[c].version))
    BY Zenon, <1>1, <2>2, QuietShape DEF Update, ClientGoto
  <2> QED BY Zenon, <2>1, <2>2
<1>2. CASE Exists(c)
  BY <1>2, QuietShape, Zenon DEF Exists, ClientReturn
<1>3. CASE ListBatch(c)
  <2>1. UNCHANGED <<database, id, seen>>
    BY Zenon, <1>3 DEF ListBatch
  <2>2. \E s \in {"idle", "listing"} : clientPc' = [clientPc EXCEPT ![c] = s]
    BY Zenon, <1>3 DEF ListBatch, ClientReturn, ClientGoto
  <2> QED BY <2>1, <2>2, QuietShape, Zenon
<1>4. CASE Create(c)
  <2>1. nextId \in 1..MaxId
    BY <1>4, RepositoryAssumption DEF Create
  <2> DEFINE row == Row(OwnerOf[c], 1, repositoryWrites + 1)
  <2>2. row \in Rows
    BY Zenon, StoredRow
  <2>3. Store(c, nextId, row, "created") /\ nextId' = nextId + 1 /\ UNCHANGED <<id, seen>>
    BY Zenon, <1>4 DEF Create
  <2> HIDE DEF row
  <2> QED BY Zenon, <2>1, <2>2, <2>3, StoreShape
<1>5. CASE List(c)
  BY <1>5, QuietShape, Zenon DEF List, ClientGoto
<1>6. ASSUME NEW i \in 1..MaxId, Find(c, i) PROVE RepositoryShape(c)
  <2>1. CASE Visible(c, i)
    BY <1>6, <2>1, Zenon DEF Find, RepositoryShape, TableStep, database
  <2>2. CASE ~Visible(c, i)
    BY <1>6, <2>2, QuietShape, Zenon DEF Find, ClientReturn
  <2> QED BY Zenon, <2>1, <2>2
<1>7. ASSUME NEW i \in 1..MaxId, UpdateUnguarded(c, i) PROVE RepositoryShape(c)
  <2>1. CASE Visible(c, i)
    <3>2. table[i] # Gone /\ table[i].version \in Nat
      BY <2>1, VisibleInUse, Zenon DEF Rows
    <3> DEFINE row == Row(OwnerOf[c], Increment(table[i]), repositoryWrites + 1)
    <3>3. row \in Rows /\ row.version = table[i].version + 1
      BY <3>2, StoredRow DEF Increment
    <3>4. Store(c, i, row, "updated") /\ UNCHANGED nextId /\ UNCHANGED <<id, seen>>
      BY <1>7, <2>1, Zenon DEF UpdateUnguarded
    <3> HIDE DEF row
    <3>5. nextId' = nextId /\ table[i] # Gone /\ row.version > table[i].version
      BY <3>2, <3>3, <3>4
    <3> QED BY Zenon, <3>3, <3>4, <3>5, StoreShape
  <2>2. CASE ~Visible(c, i)
    BY <1>7, <2>2, QuietShape, Zenon DEF UpdateUnguarded, ClientReturn
  <2> QED BY Zenon, <2>1, <2>2
<1>8. ASSUME NEW i \in 1..MaxId, Delete(c, i) PROVE RepositoryShape(c)
  <2>1. CASE Visible(c, i)
    <3>1. Store(c, i, Gone, "deleted") /\ UNCHANGED nextId /\ UNCHANGED <<id, seen>>
      BY <1>8, <2>1, Zenon DEF Delete
    <3> QED BY Zenon, <3>1, GoneIsARow, StoreShape
  <2>2. CASE ~Visible(c, i)
    BY <1>8, <2>2, QuietShape, Zenon DEF Delete, ClientReturn
  <2> QED BY Zenon, <2>1, <2>2
<1> QED BY Zenon, <1>1, <1>2, <1>3, <1>4, <1>5, <1>6, <1>7, <1>8 DEF ClientStep

LEMMA RepositoryInitInv == RepositoryInit => RepositoryInv
<1> SUFFICES ASSUME RepositoryInit PROVE RepositoryInv
  BY Zenon
<1>1. /\ Len(First) \in Nat /\ DOMAIN First = 1..Len(First)
      /\ \A i \in DOMAIN First : First[i] \in Owners
  BY RepositoryAssumption
<1>2. \A i \in 1..MaxId : (IF i \in DOMAIN First THEN Row(First[i], 1, 0) ELSE Gone) \in Rows
  BY Zenon, <1>1, GoneIsARow DEF Row, Rows
<1>3. table \in [1..MaxId -> Rows]
  BY Zenon, <1>2 DEF RepositoryInit
<1>4. nextId = Len(First) + 1 /\ repositoryWrites = 0
  BY Zenon DEF RepositoryInit
<1>5. \A i \in 1..MaxId : i >= nextId => table[i] = Gone
  BY <1>1, <1>4 DEF RepositoryInit
<1>6. /\ clientPc \in [Clients -> {"idle", "editing", "exists", "listing"}] /\ id \in [Clients -> Int] /\ seen \in [Clients -> Rows]
      /\ \A c \in Clients : clientPc[c] # "editing"
  <2> HIDE DEF Gone
  <2>1. /\ clientPc = [c \in Clients |-> "idle"] /\ id = [c \in Clients |-> 0]
        /\ seen = [c \in Clients |-> Gone]
    BY Zenon DEF RepositoryInit
  <2> QED BY <2>1, GoneIsARow
<1> QED BY <1>1, <1>3, <1>4, <1>5, <1>6 DEF RepositoryInv

LEMMA RepositoryShapeInv ==
    ASSUME RepositoryInv, NEW c \in Clients, RepositoryShape(c)
    PROVE  RepositoryInv'
<1>1. /\ table \in [1..MaxId -> Rows] /\ nextId \in Nat \ {0}
      /\ \A i \in 1..MaxId : i >= nextId => table[i] = Gone
      /\ clientPc \in [Clients -> {"idle", "editing", "exists", "listing"}] /\ id \in [Clients -> Int] /\ seen \in [Clients -> Rows]
  BY Zenon DEF RepositoryInv
<1>2. /\ table' \in [1..MaxId -> Rows] /\ nextId' \in Nat \ {0}
      /\ \A i \in 1..MaxId : i >= nextId' => table'[i] = Gone
  <2>1. CASE table' = table /\ nextId' = nextId
    BY Zenon, <2>1, <1>1
  <2>2. ASSUME NEW j \in 1..MaxId, NEW row \in Rows, table' = [table EXCEPT ![j] = row],
               \/ j = nextId /\ nextId' = nextId + 1
               \/ nextId' = nextId /\ row = Gone
               \/ nextId' = nextId /\ table[j] # Gone /\ row.version > table[j].version
        PROVE  /\ table' \in [1..MaxId -> Rows] /\ nextId' \in Nat \ {0}
               /\ \A i \in 1..MaxId : i >= nextId' => table'[i] = Gone
    BY <2>2, <1>1
  <2>3. TableStep
    BY Zenon DEF RepositoryShape
  <2> QED BY Zenon, <2>1, <2>2, <2>3 DEF TableStep
<1>3. /\ clientPc' \in [Clients -> {"idle", "editing", "exists", "listing"}] /\ id' \in [Clients -> Int] /\ seen' \in [Clients -> Rows]
  <2>1. CASE /\ UNCHANGED <<id, seen>>
             /\ \E s \in {"idle", "exists", "listing"} : clientPc' = [clientPc EXCEPT ![c] = s]
    BY Zenon, <2>1, <1>1
  <2>2. CASE /\ clientPc' = [clientPc EXCEPT ![c] = "editing"]
             /\ \E i \in 1..MaxId : id' = [id EXCEPT ![c] = i] /\ seen' = [seen EXCEPT ![c] = table[i]]
    <3>1. PICK i \in 1..MaxId : id' = [id EXCEPT ![c] = i] /\ seen' = [seen EXCEPT ![c] = table[i]]
      BY <2>2, Zenon
    <3>2. table[i] \in Rows /\ i \in Int
      BY <1>1
    <3> QED BY Zenon, <3>1, <3>2, <2>2, <1>1
  <2> QED BY Zenon, <2>1, <2>2 DEF RepositoryShape
<1>4. repositoryWrites' \in Nat
  BY Zenon DEF RepositoryShape
<1>5. ASSUME NEW d \in Clients, clientPc'[d] = "editing"
      PROVE  EditOf(id'[d], seen'[d], table', nextId')
  <2>1. CASE clientPc[d] = "editing" /\ id'[d] = id[d] /\ seen'[d] = seen[d]
    BY Zenon, <2>1, EditKept DEF RepositoryShape
  <2>2. CASE d # c
    <3>1. clientPc'[d] = clientPc[d] /\ id'[d] = id[d] /\ seen'[d] = seen[d]
      BY Zenon, <2>2, <1>1 DEF RepositoryShape
    <3> QED BY Zenon, <3>1, <2>1, <1>5
  <2>3. CASE d = c
    <3>1. PICK i \in 1..MaxId : /\ id' = [id EXCEPT ![c] = i] /\ seen' = [seen EXCEPT ![c] = table[i]]
                                /\ Visible(c, i) /\ table' = table /\ nextId' = nextId
      BY Zenon, <2>3, <1>5, <1>1 DEF RepositoryShape, database
    <3>2. id'[d] = i /\ seen'[d] = table[i] /\ table[i] # Gone
      BY Zenon, <3>1, <2>3, <1>1, VisibleInUse
    <3>3. i < nextId
      BY <3>2, <1>1
    <3> QED BY Zenon, <3>1, <3>2, <3>3, <1>1 DEF EditOf
  <2> QED BY Zenon, <2>2, <2>3
<1> QED BY Zenon, <1>2, <1>3, <1>4, <1>5 DEF RepositoryInv

\* The clients' views of the rows they edit, in every state.
THEOREM RepositoryInvariant == RepositorySpec => []RepositoryInv
<1>1. RepositoryInv /\ [RepositoryNext]_repositoryVars => RepositoryInv'
  <2> SUFFICES ASSUME RepositoryInv, [RepositoryNext]_repositoryVars PROVE RepositoryInv'
    BY Zenon
  <2>1. CASE RepositoryNext
    BY Zenon, <2>1, EveryRepositoryShape, RepositoryShapeInv DEF RepositoryNext
  <2>2. CASE UNCHANGED repositoryVars
    BY Zenon, <2>2 DEF RepositoryInv, EditOf, repositoryVars
  <2> QED BY Zenon, <2>1, <2>2
<1> QED BY <1>1, RepositoryInitInv, PTL DEF RepositorySpec

\* No update is lost, whatever the clients do and however many they are: an edit that
\* is stored replaces exactly what its client had read (Update of the generated
\* repository, with the version in its condition).
THEOREM UpdatesAreNotLost == RepositorySpec => NoLostUpdate
<1> DEFINE Kept == \A c \in Clients : clientPc[c] = "editing" /\ table'[id[c]] # table[id[c]] /\ clientPc'[c] = "idle"
                      => table[id[c]] = seen[c]
<1>1. RepositoryInv /\ [RepositoryNext]_repositoryVars => [Kept]_repositoryVars
  <2> SUFFICES ASSUME RepositoryInv, RepositoryNext, NEW c \in Clients, clientPc[c] = "editing",
                      table'[id[c]] # table[id[c]], clientPc'[c] = "idle"
               PROVE  table[id[c]] = seen[c]
    BY Zenon DEF Kept
  <2>1. clientPc \in [Clients -> {"idle", "editing", "exists", "listing"}] /\ EditOf(id[c], seen[c], table, nextId)
    BY Zenon DEF RepositoryInv
  <2>2. PICK d \in Clients : \/ ClientStep(d) \/ Create(d) \/ List(d)
                             \/ \E i \in 1..MaxId : Find(d, i) \/ UpdateUnguarded(d, i) \/ Delete(d, i)
    BY Zenon DEF RepositoryNext
  <2>3. d = c
    <3>1. RepositoryShape(d)
      BY Zenon, <2>2, EveryRepositoryShape
    <3>2. d # c => clientPc'[c] = clientPc[c]
      BY Zenon, <3>1, <2>1 DEF RepositoryShape
    <3> QED BY Zenon, <3>2
  <2>4. Update(c)
    BY <2>2, <2>3, Zenon DEF ClientStep, Exists, ListBatch, Create, List, Find, UpdateUnguarded, Delete
  <2>5. Visible(c, id[c]) /\ table[id[c]].version = seen[c].version
    BY Zenon, <2>4 DEF Update, ExpectVersion, database
  <2>6. table[id[c]] # Gone
    BY Zenon, <2>5, <2>1, VisibleInUse DEF EditOf
  <2>7. seen[c].version \in Nat
    BY Zenon, <2>1 DEF EditOf, Rows
  <2> QED BY <2>1, <2>5, <2>6, <2>7 DEF EditOf
<1> QED BY <1>1, RepositoryInvariant, PTL DEF RepositorySpec, NoLostUpdate

-----------------------------------------------------------------------------
(* The ledger of the migrator. *)

MySQLSteps == {"record", "seek", "mark", "addcolumn", "collect", "backfill",
               "advance", "enforce", "unmark"}
LoadedSteps == {"create", "inspect", "upgrade", "read", "list", "apply"} \cup MySQLSteps
Scripts == [Versions -> Nat]
Checksums == [Versions -> Nat \cup {NoRow}]
Runs == [pc : {"idle", "lock", "load"} \cup LoadedSteps,
         op : {"none", "up", "down", "status", "verify"}, n : Nat,
         files : Scripts \cup {<<>>}, has : BOOLEAN, todo : SUBSET Versions,
         found : SUBSET Versions, seen : Checksums \cup {<<>>}]

MigrateTypes ==
    /\ site \in Installations
    /\ files \in [Versions -> Nat \cup {Broken}]
    /\ rows \in Checksums /\ effect \in Scripts
    /\ run \in [Runners -> Runs]

\* What holds of a run x of runner r in every dialect, while the ledger is t.
RunInv(x) ==
    /\ x.pc \in LoadedSteps => x.files \in Scripts
    /\ x.pc \in MySQLSteps => dialect = "mysql"
    /\ x.op = "verify" => x.pc \in {"load", "inspect", "read"}
    /\ x.pc \in {"apply", "record"} => x.op \in {"up", "down"}
    /\ x.pc = "list" => x.op = "down"
    /\ x.pc \in {"apply", "record"} /\ x.op = "up" => \A v \in x.todo : x.files[v] # Missing

\* PostgreSQL: a run that may write holds the lock, and what it has still to do is what
\* the ledger t asks for.
Ordered(x, t) ==
    /\ x.pc \in {"list", "apply"} => \A v \in Versions : t[v] \in {NoRow, x.files[v]}
    /\ x.pc = "apply" /\ x.op = "up" =>
         \A v \in x.todo, w \in Versions : w < v /\ x.files[w] # Missing /\ t[w] = NoRow => w \in x.todo
    /\ x.pc = "apply" /\ x.op = "down" =>
         \A v \in x.todo, w \in Versions : w > v /\ t[w] # NoRow => w \in x.todo
MayWrite(x) == x.pc \notin {"idle", "lock"} /\ x.op # "verify"

LedgerInv ==
    /\ \A v \in Versions : rows[v] = Null => v \in LegacyApplied
    /\ LedgerMatchesSchema /\ ChecksumIsOfAppliedScript

MigrateInv ==
    /\ MigrateTypes /\ LedgerInv
    /\ \A r \in Runners :
         /\ RunInv(run[r])
         /\ dialect = "postgres" => (MayWrite(run[r]) => lock = r) /\ Ordered(run[r], rows)

\* The facts about the constants that the proofs use.
LEMMA SiteFacts ==
    ASSUME site \in Installations
    PROVE  /\ dialect \in {"postgres", "mysql", "sqlite"}
           /\ Contents \subseteq Nat \ {0} /\ Ops \subseteq {"up", "down", "status", "verify"}
           /\ Versions \subseteq Nat /\ Counts \subseteq Nat /\ IsFiniteSet(Versions)
           /\ Nobody \notin Runners
BY Zenon, MigrateAssumption DEF dialect, Contents, Ops

LEMMA IdleRun == /\ Idle \in Runs /\ RunInv(Idle) /\ ~MayWrite(Idle) /\ Idle.pc = "idle"
                 /\ \A t : Ordered(Idle, t)
BY Zenon DEF Idle, Runs, RunInv, MayWrite, Ordered, LoadedSteps, MySQLSteps

\* The lower members of a set of versions come before the higher ones.
LEMMA LowestClosed ==
    ASSUME NEW S \in SUBSET Versions, NEW n \in Nat, NEW v \in Lowest(S, n), NEW w \in S, w < v
    PROVE  w \in Lowest(S, n)
<1> DEFINE A == {u \in S : u < w}
           B == {u \in S : u < v}
<1>1. v \in Nat /\ w \in Nat /\ (\A u \in S : u \in Nat) /\ IsFiniteSet(Versions)
  BY Zenon, MigrateAssumption DEF Lowest
<1>2. A \subseteq B /\ B \subseteq Versions
  <2>1. ASSUME NEW u \in S, u < w PROVE u < v
    BY <2>1, <1>1
  <2> QED BY Zenon, <2>1
<1>3. IsFiniteSet(B)
  BY Zenon, <1>1, <1>2, FS_Subset
<1>4. Cardinality(A) <= Cardinality(B) /\ Cardinality(B) \in Nat /\ Cardinality(A) \in Nat
  <2> HIDE DEF A, B
  <2>1. A \in SUBSET B
    BY Zenon, <1>2
  <2>2. IsFiniteSet(A) /\ Cardinality(A) <= Cardinality(B)
    BY Zenon, <2>1, <1>3, FS_Subset
  <2> QED BY Zenon, <2>2, <1>3, FS_CardinalityType
<1>5. n > 0 => Cardinality(B) < n
  BY Zenon DEF Lowest
<1>6. n > 0 => Cardinality(A) < n
  BY <1>4, <1>5
<1> QED BY Zenon, <1>6 DEF Lowest

LEMMA HighestClosed ==
    ASSUME NEW S \in SUBSET Versions, NEW n \in Nat, NEW v \in Highest(S, n), NEW w \in S, w > v
    PROVE  w \in Highest(S, n)
<1> DEFINE A == {u \in S : u > w}
           B == {u \in S : u > v}
<1>1. v \in Nat /\ w \in Nat /\ (\A u \in S : u \in Nat) /\ IsFiniteSet(Versions)
  BY Zenon, MigrateAssumption DEF Highest
<1>2. A \subseteq B /\ B \subseteq Versions
  <2>1. ASSUME NEW u \in S, u > w PROVE u > v
    BY <2>1, <1>1
  <2> QED BY Zenon, <2>1
<1>3. IsFiniteSet(B)
  BY Zenon, <1>1, <1>2, FS_Subset
<1>4. Cardinality(A) <= Cardinality(B) /\ Cardinality(B) \in Nat /\ Cardinality(A) \in Nat
  <2> HIDE DEF A, B
  <2>1. A \in SUBSET B
    BY Zenon, <1>2
  <2>2. IsFiniteSet(A) /\ Cardinality(A) <= Cardinality(B)
    BY Zenon, <2>1, <1>3, FS_Subset
  <2> QED BY Zenon, <2>2, <1>3, FS_CardinalityType
<1>5. n > 0 => Cardinality(B) < n
  BY Zenon DEF Highest
<1>6. n > 0 => Cardinality(A) < n
  BY <1>4, <1>5
<1> QED BY Zenon, <1>6 DEF Highest

\* The initial ledger.
LEMMA MigrateInitInv == MigrateInit => MigrateInv
<1> SUFFICES ASSUME MigrateInit PROVE MigrateInv
  BY Zenon
<1>0. site \in Installations
  BY Zenon DEF MigrateInit
<1>1. /\ Contents \subseteq Nat \ {0} /\ files \in [Versions -> Contents]
      /\ rows = [v \in Versions |-> IF column # "none" /\ v \in LegacyApplied THEN Null ELSE NoRow]
      /\ effect = [v \in Versions |-> IF rows[v] = Null THEN files[v] ELSE Missing]
      /\ run = [r \in Runners |-> Idle]
  BY Zenon, <1>0, SiteFacts DEF MigrateInit, MigrateStart
<1>2. files \in [Versions -> Nat \cup {Broken}] /\ rows \in Checksums /\ effect \in Scripts
  BY <1>1, Zenon DEF Checksums, Scripts, Null, NoRow, Missing
<1>3. run \in [Runners -> Runs] /\ \A r \in Runners : run[r] = Idle
  BY Zenon, <1>1, IdleRun
<1>4. LedgerInv
  BY <1>1 DEF LedgerInv, LedgerMatchesSchema, ChecksumIsOfAppliedScript, Null, NoRow, Missing
<1> QED BY Zenon, <1>0, <1>2, <1>3, <1>4, IdleRun DEF MigrateInv, MigrateTypes

-----------------------------------------------------------------------------
\* A step of runner r touches no other run, and the lock only when nobody or r holds
\* it; a run that writes to the ledger or the schema is one that may.
ActorStep(r) ==
    /\ site' = site /\ files' = files
    /\ run' = [run EXCEPT ![r] = run'[r]] /\ run'[r] \in Runs
    /\ lock' = lock \/ lock = Nobody \/ lock = r
    /\ rows' # rows \/ effect' # effect => MayWrite(run[r])

\* What a step leaves true of the run that takes it.
ActorInv(r) ==
    /\ RunInv(run'[r])
    /\ dialect = "postgres" => (MayWrite(run'[r]) => lock' = r) /\ Ordered(run'[r], rows')

\* A step that returns.
LEMMA FinishKeeps ==
    ASSUME MigrateInv, NEW r \in Runners, Finish(r), UNCHANGED <<site, files, rows, effect>>
    PROVE  ActorStep(r) /\ ActorInv(r) /\ LedgerInv'
<1>1. run' = [run EXCEPT ![r] = Idle] /\ run \in [Runners -> Runs]
  BY Zenon DEF Finish, MigrateInv, MigrateTypes
<1>2. run'[r] = Idle
  BY Zenon, <1>1
<1>3. ActorStep(r)
  BY Zenon, <1>1, <1>2, IdleRun DEF ActorStep, Finish
<1>4. ActorInv(r)
  BY Zenon, <1>2, IdleRun DEF ActorInv
<1>5. LedgerInv'
  BY Zenon DEF MigrateInv, LedgerInv, LedgerMatchesSchema, ChecksumIsOfAppliedScript, dialect, LegacyApplied
<1> QED BY Zenon, <1>3, <1>4, <1>5

\* A step that goes on with another run record and writes nothing.
LEMMA MoveKeeps ==
    ASSUME MigrateInv, NEW r \in Runners, NEW y \in Runs, run' = [run EXCEPT ![r] = y],
           UNCHANGED <<site, files, rows, effect>>,
           lock' = lock \/ (lock = Nobody /\ lock' = r),
           RunInv(y), dialect = "postgres" => (MayWrite(y) => lock' = r) /\ Ordered(y, rows)
    PROVE  ActorStep(r) /\ ActorInv(r) /\ LedgerInv'
<1>1. run \in [Runners -> Runs]
  BY Zenon DEF MigrateInv, MigrateTypes
<1>2. run'[r] = y
  BY Zenon, <1>1
<1>3. ActorStep(r)
  BY <1>2, Zenon DEF ActorStep
<1>4. ActorInv(r)
  BY Zenon, <1>2 DEF ActorInv
<1>5. LedgerInv'
  BY Zenon DEF MigrateInv, LedgerInv, LedgerMatchesSchema, ChecksumIsOfAppliedScript, dialect, LegacyApplied
<1> QED BY Zenon, <1>3, <1>4, <1>5

\* The next pc of a run and nothing else.
LEMMA GotoKeeps ==
    ASSUME MigrateInv, NEW r \in Runners, NEW p \in {"create", "inspect", "read", "list"} \cup MySQLSteps,
           Goto(r, p), UNCHANGED <<site, files, rows, effect, lock>>,
           run[r].pc \in LoadedSteps,
           p \in MySQLSteps => dialect = "mysql", run[r].op = "verify" => p \in {"inspect", "read"},
           p # "record", p = "list" => run[r].op = "down" /\ ~Drift(run[r].files, FALSE)
    PROVE  ActorStep(r) /\ ActorInv(r) /\ LedgerInv'
<1> DEFINE x == run[r]
           y == [run[r] EXCEPT !.pc = p]
<1>1. x \in Runs /\ RunInv(x) /\ (dialect = "postgres" /\ MayWrite(x) => lock = r)
  BY Zenon DEF MigrateInv, MigrateTypes
<1>2. /\ y \in Runs /\ y.pc = p /\ y.op = x.op /\ y.files = x.files /\ y.todo = x.todo
      /\ run' = [run EXCEPT ![r] = y]
  <2>1. /\ y.pc = p /\ y.op = x.op /\ y.files = x.files /\ y.todo = x.todo
        /\ run' = [run EXCEPT ![r] = y]
    BY Zenon, <1>1 DEF Runs, Goto
  <2>2. y \in Runs
    BY ZenonT(30), <1>1 DEF Runs, LoadedSteps, MySQLSteps
  <2> QED BY Zenon, <2>1, <2>2
<1> HIDE DEF y
<1>3. RunInv(y)
  BY <1>1, <1>2, Zenon DEF RunInv, LoadedSteps, MySQLSteps
<1>4. MayWrite(y) => MayWrite(x)
  BY Zenon, <1>1, <1>2 DEF MayWrite, LoadedSteps, MySQLSteps
<1>5. Ordered(y, rows)
  BY Zenon, <1>2 DEF Ordered, MySQLSteps, Drift, Drifts
<1> QED BY <1>1, <1>2, <1>3, <1>4, <1>5, MoveKeeps, Zenon

\* The steps that start a run and read.
LEMMA StartKeeps ==
    ASSUME MigrateInv, NEW r \in Runners, UNCHANGED site,
           \/ \E op \in Ops, n \in Counts : Begin(r, op, n)
           \/ WithRunLock(r) \/ Load(r)
    PROVE  ActorStep(r) /\ ActorInv(r) /\ LedgerInv'
<1> DEFINE x == run[r]
<1>1. /\ x \in Runs /\ RunInv(x) /\ (dialect = "postgres" /\ MayWrite(x) => lock = r)
      /\ run \in [Runners -> Runs] /\ site \in Installations
  BY Zenon DEF MigrateInv, MigrateTypes
<1>2. ASSUME NEW op \in Ops, NEW n \in Counts, Begin(r, op, n)
      PROVE  ActorStep(r) /\ ActorInv(r) /\ LedgerInv'
  <2> DEFINE p == IF dialect = "postgres" /\ op # "verify" THEN "lock" ELSE "load"
             k == IF op = "down" /\ n = 0 THEN 1 ELSE n
             y == [run[r] EXCEPT !.pc = p, !.op = op, !.n = k]
  <2>1. p \in {"lock", "load"} /\ k \in Nat /\ op \in {"up", "down", "status", "verify"}
    BY Zenon, <1>1, SiteFacts
  <2>2. run' = [run EXCEPT ![r] = y] /\ UNCHANGED <<files, rows, effect, lock>>
    BY <1>1, <1>2, Zenon DEF Begin, migrateTables
  <2>3. /\ op = "verify" => p = "load"
        /\ dialect = "postgres" /\ op # "verify" => p = "lock"
    BY Zenon
  <2> HIDE DEF p, k
  <2>4. y \in Runs /\ y.pc = p /\ y.op = op
    BY <2>1, <1>1, Zenon DEF Runs
  <2> HIDE DEF y
  <2>5. RunInv(y) /\ Ordered(y, rows) /\ (dialect = "postgres" => ~MayWrite(y))
    BY Zenon, <2>1, <2>3, <2>4 DEF RunInv, Ordered, MayWrite, LoadedSteps, MySQLSteps
  <2> QED BY <2>2, <2>4, <2>5, MoveKeeps, Zenon
<1>3. CASE WithRunLock(r)
  <2> DEFINE y == [run[r] EXCEPT !.pc = "load"]
  <2>1. run' = [run EXCEPT ![r] = y] /\ lock = Nobody /\ lock' = r /\ UNCHANGED <<files, rows, effect>>
    BY Zenon, <1>1, <1>3 DEF WithRunLock, Goto, migrateTables
  <2>2. y \in Runs /\ y.pc = "load"
    BY Zenon, <1>1 DEF Runs
  <2> HIDE DEF y
  <2>3. RunInv(y) /\ Ordered(y, rows)
    BY Zenon, <2>2 DEF RunInv, Ordered, LoadedSteps, MySQLSteps
  <2> QED BY <2>1, <2>2, <2>3, MoveKeeps, Zenon
<1>4. CASE Load(r)
  <2>1. CASE \E v \in Versions : files[v] = Broken
    BY Zenon, <2>1, <1>4, FinishKeeps DEF Load, migrateTables
  <2>2. CASE ~ \E v \in Versions : files[v] = Broken
    <3> DEFINE p == IF run[r].op = "verify" THEN "inspect" ELSE "create"
               y == [run[r] EXCEPT !.files = files, !.pc = p]
    <3>1. p \in {"inspect", "create"} /\ (x.op = "verify" => p = "inspect")
      BY Zenon
    <3>2. files \in Scripts
      BY Zenon, <2>2 DEF MigrateInv, MigrateTypes, Scripts
    <3>3. run' = [run EXCEPT ![r] = y] /\ UNCHANGED <<files, rows, effect, lock>> /\ x.pc = "load"
      BY <2>2, <1>1, <1>4, Zenon DEF Load, migrateTables, At
    <3> HIDE DEF p
    <3>4. y \in Runs /\ y.pc = p /\ y.op = x.op /\ y.files = files
      BY <3>1, <3>2, <1>1, Zenon DEF Runs, LoadedSteps
    <3> HIDE DEF y
    <3>5. RunInv(y) /\ Ordered(y, rows) /\ (MayWrite(y) => MayWrite(x))
      BY Zenon, <3>1, <3>2, <3>3, <3>4 DEF RunInv, Ordered, MayWrite, LoadedSteps, MySQLSteps
    <3> QED BY <3>3, <3>4, <3>5, <1>1, MoveKeeps, Zenon
  <2> QED BY Zenon, <2>1, <2>2
<1> QED BY Zenon, <1>2, <1>3, <1>4

LEMMA PrepareKeeps ==
    ASSUME MigrateInv, NEW r \in Runners, UNCHANGED site, CreateTable(r) \/ Inspect(r)
    PROVE  ActorStep(r) /\ ActorInv(r) /\ LedgerInv'
<1> DEFINE x == run[r]
<1>1. /\ x \in Runs /\ RunInv(x) /\ (dialect = "postgres" /\ MayWrite(x) => lock = r)
      /\ run \in [Runners -> Runs]
  BY Zenon DEF MigrateInv, MigrateTypes
<1>2. CASE CreateTable(r)
  <2>1. x.pc = "create" /\ Goto(r, "inspect") /\ UNCHANGED <<files, rows, effect, lock>>
    BY Zenon, <1>2 DEF CreateTable, At
  <2> QED BY <2>1, GotoKeeps, Zenon DEF LoadedSteps, MySQLSteps
<1>3. CASE Inspect(r)
  <2>1. x.pc = "inspect" /\ UNCHANGED <<files, rows, effect>>
    BY Zenon, <1>3 DEF Inspect, At, migrateTables
  <2>2. ASSUME NEW p \in {"unmark", "read"}, Goto(r, p), UNCHANGED lock,
               p = "unmark" => dialect = "mysql" /\ x.op # "verify"
        PROVE  ActorStep(r) /\ ActorInv(r) /\ LedgerInv'
    BY <2>1, <2>2, GotoKeeps, Zenon DEF LoadedSteps, MySQLSteps
  <2>3. ASSUME NEW p \in {"seek", "upgrade"}, x.op # "verify", UNCHANGED lock,
               p = "seek" => dialect = "mysql",
               run' = [run EXCEPT ![r].has = HasChecksum, ![r].pc = p]
        PROVE  ActorStep(r) /\ ActorInv(r) /\ LedgerInv'
    <3> DEFINE h == HasChecksum
               y == [run[r] EXCEPT !.has = h, !.pc = p]
    <3>1. h \in BOOLEAN
      BY DEF HasChecksum
    <3>2. run' = [run EXCEPT ![r] = y]
      BY <2>3, <1>1, Zenon
    <3> HIDE DEF h
    <3>3. y \in Runs /\ y.pc = p /\ y.op = x.op /\ y.files = x.files
      BY <3>1, <1>1, Zenon DEF Runs, LoadedSteps, MySQLSteps
    <3> HIDE DEF y
    <3>4. RunInv(y) /\ Ordered(y, rows) /\ (MayWrite(y) => MayWrite(x))
      BY Zenon, <2>1, <2>3, <3>3, <1>1 DEF RunInv, Ordered, MayWrite, LoadedSteps, MySQLSteps
    <3> QED BY <2>1, <2>3, <3>2, <3>3, <3>4, <1>1, MoveKeeps, Zenon
  <2>4. CASE Finish(r)
    BY Zenon, <2>1, <2>4, FinishKeeps
  <2> DEFINE p1 == IF dialect = "mysql" /\ x.op # "verify" THEN "unmark" ELSE "read"
             p2 == IF dialect = "mysql" THEN "seek" ELSE "upgrade"
  <2>5. /\ p1 \in {"unmark", "read"} /\ (p1 = "unmark" => dialect = "mysql" /\ x.op # "verify")
        /\ p2 \in {"seek", "upgrade"} /\ (p2 = "seek" => dialect = "mysql")
    BY Zenon
  <2>6. \/ Goto(r, p1) /\ UNCHANGED lock
        \/ x.op # "verify" /\ UNCHANGED lock /\ run' = [run EXCEPT ![r].has = HasChecksum, ![r].pc = p2]
        \/ Finish(r)
    BY Zenon, <1>3 DEF Inspect
  <2> HIDE DEF p1, p2
  <2> QED BY Zenon, <2>2, <2>3, <2>4, <2>5, <2>6
<1> QED BY Zenon, <1>2, <1>3

\* The steps that read the ledger and choose what to do.
LEMMA ReadKeeps ==
    ASSUME MigrateInv, NEW r \in Runners, UNCHANGED site,
           \/ Rejected(r) \/ ReadUp(r) \/ ReadDown(r) \/ ReadStatus(r) \/ ReadVerify(r)
           \/ ListDown(r) \/ End(r) \/ Interrupt(r)
    PROVE  ActorStep(r) /\ ActorInv(r) /\ LedgerInv'
<1> DEFINE x == run[r]
<1>1. /\ x \in Runs /\ RunInv(x) /\ run \in [Runners -> Runs] /\ rows \in Checksums
      /\ dialect = "postgres" => (MayWrite(x) => lock = r) /\ Ordered(x, rows)
  BY Zenon DEF MigrateInv, MigrateTypes
<1>2. CASE Rejected(r) \/ ReadStatus(r) \/ End(r) \/ Interrupt(r)
  BY <1>2, FinishKeeps, Zenon DEF Rejected, ReadStatus, End, Interrupt, migrateTables
<1>3. CASE ReadVerify(r)
  BY <1>3, IdleRun, MoveKeeps, Zenon DEF ReadVerify, migrateTables
<1>4. CASE ReadDown(r)
  <2>1. /\ x.pc = "read" /\ x.op = "down" /\ ~Drift(x.files, FALSE)
        /\ Goto(r, "list") /\ UNCHANGED <<files, rows, effect, lock>>
    BY <1>4, Zenon DEF ReadDown, Verified, At, migrateTables
  <2> QED BY <2>1, GotoKeeps, Zenon DEF LoadedSteps, MySQLSteps
<1>5. CASE ReadUp(r)
  <2> DEFINE S == {v \in Versions : run[r].files[v] # Missing /\ rows[v] = NoRow}
             T == Pending(r)
             y == [run[r] EXCEPT !.pc = "apply", !.todo = T]
  <2>1. /\ x.pc = "read" /\ x.op = "up" /\ ~Drift(x.files, FALSE)
        /\ run' = [run EXCEPT ![r] = y] /\ UNCHANGED <<files, rows, effect, lock>>
    BY <1>5, <1>1, Zenon DEF ReadUp, Verified, At, migrateTables
  <2>2. x.n \in Nat /\ T = Lowest(S, x.n) /\ S \in SUBSET Versions
    BY Zenon, <1>1 DEF Runs, Pending
  <2>3. T \subseteq S
    BY Zenon, <2>2 DEF Lowest
  <2>4. \A v \in T, w \in S : w < v => w \in T
    <3> HIDE DEF S, T
    <3> QED BY Zenon, <2>2, LowestClosed
  <2>5. T \in SUBSET Versions /\ \A v \in T : x.files[v] # Missing
    BY Zenon, <2>3
  <2>6. \A v \in T, w \in Versions : w < v /\ x.files[w] # Missing /\ rows[w] = NoRow => w \in T
    <3> HIDE DEF T
    <3> QED BY Zenon, <2>4
  <2>7. \A v \in Versions : rows[v] \in {NoRow, x.files[v]}
    BY Zenon, <2>1 DEF Drift, Drifts
  <2> HIDE DEF T
  <2>8. y \in Runs /\ y.pc = "apply" /\ y.op = x.op /\ y.files = x.files /\ y.todo = T
    BY <2>5, <1>1, Zenon DEF Runs, LoadedSteps
  <2> HIDE DEF y
  <2>9. RunInv(y)
    BY Zenon, <2>1, <2>5, <2>8, <1>1 DEF RunInv, LoadedSteps, MySQLSteps
  <2>10. Ordered(y, rows)
    BY Zenon, <2>1, <2>6, <2>7, <2>8 DEF Ordered
  <2>11. MayWrite(x)
    BY Zenon, <2>1 DEF MayWrite
  <2> QED BY <2>1, <2>8, <2>9, <2>10, <2>11, <1>1, MoveKeeps, Zenon
<1>6. CASE ListDown(r)
  <2>1. CASE marker # "no"
    BY Zenon, <2>1, <1>6, FinishKeeps DEF ListDown, migrateTables
  <2>2. CASE marker = "no"
    <3> DEFINE T == Highest(Recorded, run[r].n)
               y == [run[r] EXCEPT !.pc = "apply", !.todo = T]
    <3>1. /\ x.pc = "list" /\ x.op = "down"
          /\ run' = [run EXCEPT ![r] = y] /\ UNCHANGED <<files, rows, effect, lock>>
      BY <2>2, <1>6, <1>1, Zenon DEF ListDown, At, migrateTables, RunInv
    <3>2. x.n \in Nat /\ Recorded \in SUBSET Versions /\ T \in SUBSET Versions
      BY Zenon, <1>1 DEF Runs, Recorded, Highest
    <3>3. \A v \in T, w \in Recorded : w > v => w \in T
      BY Zenon, <3>2, HighestClosed
    <3>4. \A v \in T, w \in Versions : w > v /\ rows[w] # NoRow => w \in T
      <4> HIDE DEF T
      <4> QED BY Zenon, <3>3 DEF Recorded
    <3> HIDE DEF T
    <3>5. y \in Runs /\ y.pc = "apply" /\ y.op = x.op /\ y.files = x.files /\ y.todo = T
      BY <3>2, <1>1, Zenon DEF Runs, LoadedSteps
    <3> HIDE DEF y
    <3>6. RunInv(y)
      BY Zenon, <3>1, <3>5, <1>1 DEF RunInv, LoadedSteps, MySQLSteps
    <3>7. dialect = "postgres" => Ordered(y, rows)
      BY Zenon, <3>1, <3>4, <3>5, <1>1 DEF Ordered
    <3>8. MayWrite(x)
      BY Zenon, <3>1 DEF MayWrite
    <3> QED BY <3>1, <3>5, <3>6, <3>7, <3>8, <1>1, MoveKeeps, Zenon
  <2> QED BY Zenon, <2>1, <2>2
<1> QED BY Zenon, <1>2, <1>3, <1>4, <1>5, <1>6

\* Script and ledger row in one transaction.
LEMMA ApplyKeeps ==
    ASSUME MigrateInv, NEW r \in Runners, UNCHANGED site, Apply(r)
    PROVE  ActorStep(r) /\ ActorInv(r) /\ LedgerInv'
<1> DEFINE x == run[r]
<1>1. /\ x \in Runs /\ RunInv(x) /\ run \in [Runners -> Runs] /\ rows \in Checksums /\ effect \in Scripts
      /\ dialect = "postgres" => (MayWrite(x) => lock = r) /\ Ordered(x, rows)
      /\ LedgerInv /\ Versions \subseteq Nat
  BY Zenon, MigrateAssumption DEF MigrateInv, MigrateTypes
<1>2. x.pc = "apply" /\ dialect # "mysql" /\ UNCHANGED files
  BY Zenon DEF Apply, At
<1>3. PICK v \in x.todo :
         /\ Turn(r, v)
         /\ IF Refused(r, v)
              THEN Finish(r) /\ UNCHANGED <<effect, rows>>
              ELSE /\ effect' = [effect EXCEPT ![v] = Executed(r, v)]
                   /\ rows' = [rows EXCEPT ![v] = Ledger(r, v)]
                   /\ run' = [run EXCEPT ![r].todo = @ \ {v}]
                   /\ UNCHANGED lock
  BY Zenon DEF Apply
<1>4. CASE Refused(r, v)
  BY Zenon, <1>2, <1>3, <1>4, FinishKeeps
<1>5. CASE ~Refused(r, v)
  <2> DEFINE T == x.todo \ {v}
             y == [run[r] EXCEPT !.todo = T]
  <2>1. /\ run' = [run EXCEPT ![r] = y] /\ UNCHANGED lock
        /\ effect' = [effect EXCEPT ![v] = Executed(r, v)]
        /\ rows' = [rows EXCEPT ![v] = Ledger(r, v)]
    BY Zenon, <1>1, <1>3, <1>5
  <2>2. /\ x.files \in Scripts /\ x.op \in {"up", "down"} /\ v \in Versions /\ T \in SUBSET Versions
        /\ x.op = "up" => \A w \in x.todo : x.files[w] # Missing
    BY Zenon, <1>1, <1>2 DEF RunInv, LoadedSteps, Runs
  <2>3. T \subseteq x.todo /\ v \notin T /\ \A w \in x.todo : w = v \/ w \in T
    BY Zenon
  <2> HIDE DEF T
  <2>4. /\ y \in Runs /\ y.pc = "apply" /\ y.op = x.op /\ y.files = x.files /\ y.todo = T
    BY Zenon, <1>1, <1>2, <2>2 DEF Runs
  <2> HIDE DEF y
  <2>5. /\ run'[r] = y /\ rows'[v] = Ledger(r, v) /\ effect'[v] = Executed(r, v)
        /\ \A w \in Versions : w # v => rows'[w] = rows[w] /\ effect'[w] = effect[w]
    BY Zenon, <2>1, <2>2, <1>1 DEF Checksums, Scripts
  <2>6. RunInv(y)
    BY <2>2, <2>3, <2>4, <1>1, <1>2, Zenon DEF RunInv, LoadedSteps, MySQLSteps
  <2>7. MayWrite(x)
    BY Zenon, <2>2, <1>2 DEF MayWrite
  <2>8. ASSUME dialect = "postgres" PROVE Ordered(y, rows')
    <3>1. /\ \A w \in Versions : rows[w] \in {NoRow, x.files[w]}
          /\ x.op = "up" =>
               \A u \in x.todo, w \in Versions : w < u /\ x.files[w] # Missing /\ rows[w] = NoRow => w \in x.todo
          /\ x.op = "down" =>
               \A u \in x.todo, w \in Versions : w > u /\ rows[w] # NoRow => w \in x.todo
      BY Zenon, <2>8, <1>1, <1>2 DEF Ordered
    <3>2. rows'[v] \in {NoRow, x.files[v]} /\ (x.op = "up" => rows'[v] # NoRow)
                                           /\ (x.op = "down" => rows'[v] = NoRow)
      BY <2>2, <2>5, SMTT(30) DEF Ledger, Scripts, NoRow
    <3>3. \A w \in Versions : rows'[w] \in {NoRow, x.files[w]}
      BY Zenon, <3>1, <3>2, <2>5
    <3>4. ASSUME x.op = "up", NEW u \in T, NEW w \in Versions, w < u, x.files[w] # Missing, rows'[w] = NoRow
          PROVE  w \in T
      BY Zenon, <3>1, <3>2, <3>4, <2>3, <2>5
    <3>5. ASSUME x.op = "down", NEW u \in T, NEW w \in Versions, w > u, rows'[w] # NoRow
          PROVE  w \in T
      BY Zenon, <3>1, <3>2, <3>5, <2>3, <2>5
    <3> QED BY Zenon, <3>3, <3>4, <3>5, <2>4 DEF Ordered
  <2>9. LedgerInv'
    <3>1. /\ rows'[v] # NoRow <=> effect'[v] # Missing
          /\ rows'[v] # NoRow => rows'[v] = effect'[v] /\ rows'[v] # Null
      BY <2>2, <2>5 DEF Ledger, Executed, Scripts, NoRow, Missing, Null
    <3>2. /\ \A w \in Versions : rows[w] = Null => w \in LegacyApplied
          /\ \A w \in Versions : rows[w] # NoRow <=> effect[w] # Missing
          /\ \A w \in Versions \ LegacyApplied : rows[w] # NoRow => rows[w] = effect[w]
      BY Zenon, <1>1, <1>2 DEF LedgerInv, LedgerMatchesSchema, ChecksumIsOfAppliedScript
    <3>3. \A w \in Versions : /\ rows'[w] = Null => w \in LegacyApplied
                              /\ rows'[w] # NoRow <=> effect'[w] # Missing
                              /\ w \notin LegacyApplied /\ rows'[w] # NoRow => rows'[w] = effect'[w]
      BY <3>1, <3>2, <2>5 DEF Null, NoRow
    <3> QED BY Zenon, <3>3 DEF LedgerInv, LedgerMatchesSchema, ChecksumIsOfAppliedScript, LegacyApplied
  <2>10. ActorStep(r)
    BY <1>2, <2>1, <2>4, <2>5, <2>7, Zenon DEF ActorStep
  <2>11. ActorInv(r)
    BY Zenon, <2>1, <2>5, <2>6, <2>7, <2>8, <1>1 DEF ActorInv
  <2> QED BY Zenon, <2>9, <2>10, <2>11
<1> QED BY Zenon, <1>4, <1>5

\* The upgrade of a legacy ledger in one transaction.
LEMMA UpgradeKeeps ==
    ASSUME MigrateInv, NEW r \in Runners, UNCHANGED site, Upgrade(r)
    PROVE  ActorStep(r) /\ ActorInv(r) /\ LedgerInv'
<1> DEFINE x == run[r]
           y == [run[r] EXCEPT !.pc = "read"]
<1>1. /\ x \in Runs /\ RunInv(x) /\ run \in [Runners -> Runs] /\ rows \in Checksums /\ effect \in Scripts
      /\ dialect = "postgres" => (MayWrite(x) => lock = r)
      /\ LedgerInv
  BY Zenon DEF MigrateInv, MigrateTypes
<1>2. x.pc = "upgrade" /\ UNCHANGED <<files, effect>>
  BY Zenon DEF Upgrade, At
<1>3. CASE Finish(r) /\ UNCHANGED rows
  BY Zenon, <1>2, <1>3, FinishKeeps
<1>4. CASE ~Drift(x.files, TRUE) /\ run' = [run EXCEPT ![r].pc = "read"] /\ UNCHANGED lock
           /\ rows' = [v \in Versions |-> IF rows[v] = Null THEN x.files[v] ELSE rows[v]]
  <2>1. x.files \in Scripts /\ MayWrite(x) /\ x.op # "verify"
    BY Zenon, <1>1, <1>2 DEF RunInv, LoadedSteps, MayWrite
  <2>2. y \in Runs /\ y.pc = "read" /\ y.op = x.op /\ y.files = x.files
    BY Zenon, <1>1 DEF Runs, LoadedSteps
  <2>3. run' = [run EXCEPT ![r] = y]
    BY Zenon, <1>4, <1>1
  <2> HIDE DEF y
  <2>4. run'[r] = y
    BY Zenon, <2>3, <1>1
  <2>5. RunInv(y) /\ \A t : Ordered(y, t)
    BY Zenon, <2>1, <2>2 DEF RunInv, Ordered, LoadedSteps, MySQLSteps
  <2>6. ActorStep(r)
    BY <1>2, <1>4, <2>1, <2>2, <2>3, <2>4, Zenon DEF ActorStep
  <2>7. ActorInv(r)
    BY Zenon, <1>1, <1>4, <2>1, <2>4, <2>5 DEF ActorInv
  <2>8. LedgerInv'
    <3>1. \A v \in Versions : rows[v] = Null => x.files[v] # Missing /\ x.files[v] \in Nat
      BY <1>4, <2>1 DEF Drift, Drifts, Scripts, Null, NoRow
    <3>2. \A v \in Versions : /\ rows'[v] # Null
                              /\ rows[v] # NoRow <=> rows'[v] # NoRow
                              /\ rows[v] # Null => rows'[v] = rows[v]
      BY <3>1, <1>4 DEF Null, NoRow, Missing
    <3> QED BY Zenon, <3>2, <1>1, <1>2 DEF LedgerInv, LedgerMatchesSchema, ChecksumIsOfAppliedScript,
                                    LegacyApplied, dialect
  <2> QED BY Zenon, <2>6, <2>7, <2>8
<1>5. \/ Finish(r) /\ UNCHANGED rows
      \/ /\ ~Drift(x.files, TRUE) /\ run' = [run EXCEPT ![r].pc = "read"] /\ UNCHANGED lock
         /\ rows' = [v \in Versions |-> IF rows[v] = Null THEN x.files[v] ELSE rows[v]]
  BY Zenon DEF Upgrade, Goto
<1> QED BY <1>3, <1>4, <1>5, Zenon

\* On MySQL a step only has to keep the run's own record and the ledger's types.
LEMMA MySQLMove ==
    ASSUME MigrateInv, NEW r \in Runners, NEW y \in Runs, run' = [run EXCEPT ![r] = y],
           UNCHANGED <<site, files, lock>>, dialect = "mysql", run[r].pc \in MySQLSteps \cup {"apply"}, RunInv(y),
           \A v \in Versions : rows'[v] = Null => rows[v] = Null
    PROVE  ActorStep(r) /\ ActorInv(r) /\ LedgerInv'
<1>1. run[r] \in Runs /\ RunInv(run[r]) /\ run \in [Runners -> Runs] /\ LedgerInv
  BY Zenon DEF MigrateInv, MigrateTypes
<1>2. run'[r] = y
  BY Zenon, <1>1
<1>3. MayWrite(run[r])
  BY Zenon, <1>1 DEF MayWrite, RunInv, MySQLSteps
<1>4. ActorStep(r)
  BY <1>2, <1>3, Zenon DEF ActorStep
<1>5. ActorInv(r)
  BY Zenon, <1>2 DEF ActorInv
<1>6. LedgerInv'
  BY Zenon, <1>1 DEF LedgerInv, LedgerMatchesSchema, ChecksumIsOfAppliedScript, LegacyApplied, dialect
<1> QED BY Zenon, <1>4, <1>5, <1>6

\* The statements of MySQL that end with the next pc and change no row.
LEMMA MySQLStatementKeeps ==
    ASSUME MigrateInv, NEW r \in Runners, UNCHANGED site,
           \/ SeekMarker(r) \/ InsertMarker(r) \/ AddNullableChecksum(r) \/ AdvanceMarker(r)
           \/ EnforceChecksumNotNull(r) \/ RemoveMarker(r)
    PROVE  ActorStep(r) /\ ActorInv(r) /\ LedgerInv'
<1> DEFINE x == run[r]
<1>1. x \in Runs /\ RunInv(x)
  BY Zenon DEF MigrateInv, MigrateTypes
<1>2. x.pc \in MySQLSteps /\ x.pc # "record" /\ UNCHANGED <<files, rows, effect>>
  BY Zenon DEF SeekMarker, InsertMarker, AddNullableChecksum, AdvanceMarker, EnforceChecksumNotNull, RemoveMarker,
         At, migrateTables, MySQLSteps
<1>3. dialect = "mysql" /\ x.op # "verify"
  BY Zenon, <1>1, <1>2 DEF RunInv, MySQLSteps
<1>4. ASSUME NEW p \in {"mark", "collect", "addcolumn", "enforce", "unmark", "read"}, Goto(r, p), UNCHANGED lock
      PROVE  ActorStep(r) /\ ActorInv(r) /\ LedgerInv'
  BY <1>2, <1>3, <1>4, GotoKeeps, Zenon DEF LoadedSteps, MySQLSteps
<1>5. CASE Finish(r)
  BY Zenon, <1>2, <1>5, FinishKeeps
<1>6. CASE SeekMarker(r)
  <2> DEFINE p == IF marker = "no" THEN "mark" ELSE IF x.has THEN "collect" ELSE "addcolumn"
  <2>1. p \in {"mark", "collect", "addcolumn"}
    BY Zenon
  <2>2. Goto(r, p) /\ UNCHANGED lock
    BY Zenon, <1>6 DEF SeekMarker
  <2> HIDE DEF p
  <2> QED BY Zenon, <2>1, <2>2, <1>4
<1>7. CASE InsertMarker(r)
  <2> DEFINE p == IF x.has THEN "collect" ELSE "addcolumn"
  <2>1. p \in {"collect", "addcolumn"}
    BY Zenon
  <2>2. Finish(r) \/ (Goto(r, p) /\ UNCHANGED lock)
    BY Zenon, <1>7 DEF InsertMarker
  <2> HIDE DEF p
  <2> QED BY Zenon, <2>1, <2>2, <1>4, <1>5
<1>8. CASE AddNullableChecksum(r)
  BY Zenon, <1>8, <1>4, <1>5 DEF AddNullableChecksum
<1>9. CASE AdvanceMarker(r)
  BY Zenon, <1>9, <1>4 DEF AdvanceMarker
<1>10. CASE EnforceChecksumNotNull(r)
  BY Zenon, <1>10, <1>4, <1>5 DEF EnforceChecksumNotNull
<1>11. CASE RemoveMarker(r)
  BY Zenon, <1>11, <1>4 DEF RemoveMarker
<1> QED BY Zenon, <1>6, <1>7, <1>8, <1>9, <1>10, <1>11

\* The statements of MySQL that write a row, a script's effect or what was collected.
LEMMA MySQLWriteKeeps ==
    ASSUME MigrateInv, NEW r \in Runners, UNCHANGED site,
           Script(r) \/ Record(r) \/ Collect(r) \/ Backfill(r)
    PROVE  ActorStep(r) /\ ActorInv(r) /\ LedgerInv'
<1> DEFINE x == run[r]
<1>1. /\ x \in Runs /\ RunInv(x) /\ run \in [Runners -> Runs] /\ rows \in Checksums
      /\ x.todo \in SUBSET Versions /\ x.found \in SUBSET Versions
  BY Zenon DEF MigrateInv, MigrateTypes, Runs
<1>2. x.pc \in {"apply", "record", "collect", "backfill"} /\ dialect = "mysql" /\ UNCHANGED files
  BY Zenon, <1>1 DEF Script, Record, Collect, Backfill, At, RunInv, MySQLSteps
<1>3. x.pc \in MySQLSteps \cup {"apply"} /\ x.files \in Scripts /\ x.op # "verify"
  BY Zenon, <1>1, <1>2 DEF RunInv, MySQLSteps, LoadedSteps
<1>4. CASE Script(r)
  <2>1. PICK v \in x.todo :
           \/ Finish(r) /\ UNCHANGED effect
           \/ Goto(r, "record") /\ UNCHANGED lock
    BY Zenon, <1>4 DEF Script
  <2>2. x.pc = "apply" /\ UNCHANGED rows
    BY Zenon, <1>4 DEF Script, At
  <2>3. CASE Finish(r) /\ UNCHANGED effect
    BY Zenon, <2>2, <2>3, <1>2, FinishKeeps
  <2>4. CASE Goto(r, "record") /\ UNCHANGED lock
    <3> DEFINE y == [run[r] EXCEPT !.pc = "record"]
    <3>1. y \in Runs /\ y.pc = "record" /\ y.op = x.op /\ y.files = x.files /\ y.todo = x.todo
      BY Zenon, <1>1 DEF Runs, LoadedSteps, MySQLSteps
    <3>2. run' = [run EXCEPT ![r] = y]
      BY Zenon, <1>1, <2>4 DEF Goto
    <3> HIDE DEF y
    <3>3. RunInv(y)
      BY Zenon, <3>1, <2>2, <1>1, <1>2, <1>3 DEF RunInv, MySQLSteps, LoadedSteps
    <3> QED BY <3>1, <3>2, <3>3, <2>2, <2>4, <1>2, <1>3, MySQLMove, Zenon
  <2> QED BY Zenon, <2>1, <2>3, <2>4
<1>5. CASE Record(r)
  <2>1. PICK v \in x.todo :
           \/ Finish(r) /\ UNCHANGED rows
           \/ /\ rows' = [rows EXCEPT ![v] = Ledger(r, v)]
              /\ run' = [run EXCEPT ![r].pc = "apply", ![r].todo = @ \ {v}] /\ UNCHANGED lock
    BY Zenon, <1>5 DEF Record
  <2>2. x.pc = "record" /\ UNCHANGED effect
    BY Zenon, <1>5 DEF Record, At
  <2>3. CASE Finish(r) /\ UNCHANGED rows
    BY Zenon, <2>2, <2>3, <1>2, FinishKeeps
  <2>4. CASE /\ rows' = [rows EXCEPT ![v] = Ledger(r, v)]
             /\ run' = [run EXCEPT ![r].pc = "apply", ![r].todo = @ \ {v}] /\ UNCHANGED lock
    <3> DEFINE T == x.todo \ {v}
               y == [run[r] EXCEPT !.pc = "apply", !.todo = T]
    <3>1. T \in SUBSET Versions /\ T \subseteq x.todo
      BY Zenon, <1>1
    <3>2. run' = [run EXCEPT ![r] = y]
      BY <1>1, <2>4, Zenon
    <3> HIDE DEF T
    <3>3. y \in Runs /\ y.pc = "apply" /\ y.op = x.op /\ y.files = x.files /\ y.todo = T
      BY <1>1, <3>1, Zenon DEF Runs, LoadedSteps
    <3> HIDE DEF y
    <3>4. RunInv(y)
      BY Zenon, <3>1, <3>3, <2>2, <1>1, <1>2, <1>3 DEF RunInv, MySQLSteps, LoadedSteps
    <3>5. v \in Versions /\ Ledger(r, v) # Null
      BY <1>1, <2>2, SMTT(30) DEF Ledger, RunInv, Null, NoRow, Missing
    <3>6. \A w \in Versions : rows'[w] = Null => rows[w] = Null
      BY Zenon, <3>5, <2>4, <1>1 DEF Checksums
    <3> QED BY <3>2, <3>3, <3>4, <3>6, <2>4, <1>2, <1>3, MySQLMove, Zenon
  <2> QED BY Zenon, <2>1, <2>3, <2>4
<1>6. CASE Collect(r)
  <2> DEFINE y == [run[r] EXCEPT !.pc = "backfill", !.found = Recorded, !.seen = rows]
  <2>1. Recorded \in SUBSET Versions
    BY Zenon DEF Recorded
  <2>2. run' = [run EXCEPT ![r] = y] /\ UNCHANGED <<rows, lock>> /\ x.pc = "collect"
    BY <1>1, <1>6, Zenon DEF Collect, migrateTables, At
  <2>3. y \in Runs /\ y.pc = "backfill" /\ y.op = x.op /\ y.files = x.files
    BY <1>1, <2>1, Zenon DEF Runs, LoadedSteps, MySQLSteps
  <2> HIDE DEF y
  <2>4. RunInv(y)
    BY Zenon, <2>2, <2>3, <1>1, <1>2, <1>3 DEF RunInv, MySQLSteps, LoadedSteps
  <2> QED BY <2>2, <2>3, <2>4, <1>2, <1>3, MySQLMove, Zenon
<1>7. CASE Backfill(r)
  <2>1. x.pc = "backfill" /\ UNCHANGED effect
    BY Zenon, <1>7 DEF Backfill, At
  <2>2. CASE Finish(r) /\ UNCHANGED rows
    BY Zenon, <2>1, <2>2, <1>2, FinishKeeps
  <2>3. CASE Goto(r, "advance") /\ UNCHANGED <<rows, lock>>
    BY <2>1, <2>3, <1>2, <1>3, GotoKeeps, Zenon DEF LoadedSteps, MySQLSteps
  <2>4. ASSUME NEW v \in x.found, run' = [run EXCEPT ![r].found = @ \ {v}], UNCHANGED lock,
               \/ rows' = rows
               \/ x.files[v] # Missing /\ rows' = [rows EXCEPT ![v] = x.files[v]]
        PROVE  ActorStep(r) /\ ActorInv(r) /\ LedgerInv'
    <3> DEFINE T == x.found \ {v}
               y == [run[r] EXCEPT !.found = T]
    <3>1. T \in SUBSET Versions /\ v \in Versions
      BY Zenon, <1>1
    <3>2. run' = [run EXCEPT ![r] = y]
      BY Zenon, <1>1, <2>4
    <3> HIDE DEF T
    <3>3. y \in Runs /\ y.pc = "backfill" /\ y.op = x.op /\ y.files = x.files
      BY Zenon, <1>1, <2>1, <3>1 DEF Runs
    <3> HIDE DEF y
    <3>4. RunInv(y)
      BY Zenon, <3>3, <2>1, <1>1, <1>2, <1>3 DEF RunInv, MySQLSteps, LoadedSteps
    <3>5. \A w \in Versions : rows'[w] = Null => rows[w] = Null
      BY Zenon, <3>1, <2>4, <1>1 DEF Checksums, Null, Missing
    <3> QED BY <3>2, <3>3, <3>4, <3>5, <2>4, <1>2, <1>3, MySQLMove, Zenon
  <2>5. \/ Finish(r) /\ UNCHANGED rows
        \/ Goto(r, "advance") /\ UNCHANGED <<rows, lock>>
        \/ \E v \in x.found :
             /\ run' = [run EXCEPT ![r].found = @ \ {v}] /\ UNCHANGED lock
             /\ rows' = rows \/ (x.files[v] # Missing /\ rows' = [rows EXCEPT ![v] = x.files[v]])
    BY Zenon, <1>7 DEF Backfill
  <2> QED BY Zenon, <2>2, <2>3, <2>4, <2>5
<1> QED BY Zenon, <1>4, <1>5, <1>6, <1>7

\* Every step of a runner.
LEMMA ActorKeeps ==
    ASSUME MigrateInv, NEW r \in Runners, UNCHANGED site, Step(r) \/ Interrupt(r)
    PROVE  ActorStep(r) /\ ActorInv(r) /\ LedgerInv'
BY Zenon, StartKeeps, PrepareKeeps, ReadKeeps, ApplyKeeps, UpgradeKeeps, MySQLStatementKeeps, MySQLWriteKeeps DEF Step

\* A recorded checksum is never replaced, and the tables keep their types.
TablesKept ==
    /\ rows' \in Checksums /\ effect' \in Scripts
    /\ \A v \in Versions : rows[v] \notin {NoRow, Null} => rows'[v] \in {rows[v], NoRow}

\* One row that is replaced, by a checksum only where there was none.
LEMMA RowWritten ==
    ASSUME MigrateTypes, NEW v \in Versions, NEW c \in Nat \cup {NoRow}, rows' = [rows EXCEPT ![v] = c],
           rows[v] \in {NoRow, Null} \/ c = NoRow
    PROVE  /\ rows' \in Checksums
           /\ \A w \in Versions : rows[w] \notin {NoRow, Null} => rows'[w] \in {rows[w], NoRow}
BY Zenon DEF MigrateTypes, Checksums

LEMMA EffectWritten ==
    ASSUME MigrateTypes, NEW v \in Versions, NEW c \in Nat, effect' = [effect EXCEPT ![v] = c]
    PROVE  effect' \in Scripts
BY Zenon DEF MigrateTypes, Scripts

LEMMA TablesKeep ==
    ASSUME MigrateInv, NEW r \in Runners, Step(r) \/ Interrupt(r)
    PROVE  TablesKept
<1> DEFINE x == run[r]
<1>1. /\ MigrateTypes /\ rows \in Checksums /\ effect \in Scripts /\ RunInv(x)
      /\ x.todo \in SUBSET Versions /\ x.found \in SUBSET Versions
  BY Zenon DEF MigrateInv, MigrateTypes, Runs
<1>2. CASE UNCHANGED <<rows, effect>>
  BY Zenon, <1>1, <1>2 DEF TablesKept
<1>3. ASSUME NEW v \in x.todo, x.pc \in {"apply", "record"}
      PROVE  /\ v \in Versions /\ Executed(r, v) \in Nat /\ Ledger(r, v) \in Nat \cup {NoRow}
             /\ ~Refused(r, v) => rows[v] \in {NoRow, Null} \/ Ledger(r, v) = NoRow
  <2>1. v \in Versions /\ x.files[v] \in Nat
    BY Zenon, <1>1, <1>3 DEF RunInv, LoadedSteps, MySQLSteps, Scripts
  <2> QED BY Zenon, <2>1 DEF Executed, Ledger, Refused, Missing
<1>4. CASE Apply(r)
  <2>1. x.pc = "apply"
    BY Zenon, <1>4 DEF Apply, At
  <2>2. PICK v \in x.todo : \/ UNCHANGED <<effect, rows>>
                            \/ /\ ~Refused(r, v) /\ effect' = [effect EXCEPT ![v] = Executed(r, v)]
                               /\ rows' = [rows EXCEPT ![v] = Ledger(r, v)]
    BY Zenon, <1>4 DEF Apply
  <2>3. CASE ~Refused(r, v) /\ effect' = [effect EXCEPT ![v] = Executed(r, v)] /\ rows' = [rows EXCEPT ![v] = Ledger(r, v)]
    BY <2>1, <2>3, <1>1, <1>3, RowWritten, EffectWritten, Zenon DEF TablesKept
  <2> QED BY Zenon, <2>2, <2>3, <1>2
<1>5. CASE Script(r)
  <2>1. x.pc = "apply" /\ UNCHANGED rows
    BY Zenon, <1>5 DEF Script, At
  <2>2. PICK v \in x.todo : UNCHANGED effect \/ effect' = [effect EXCEPT ![v] = Executed(r, v)]
    BY Zenon, <1>5 DEF Script
  <2>3. effect' \in Scripts
    BY Zenon, <2>1, <2>2, <1>1, <1>3, EffectWritten
  <2> QED BY Zenon, <2>1, <2>3, <1>1 DEF TablesKept
<1>6. CASE Record(r)
  <2>1. x.pc = "record" /\ UNCHANGED effect
    BY Zenon, <1>6 DEF Record, At
  <2>2. PICK v \in x.todo : UNCHANGED rows \/ (~Refused(r, v) /\ rows' = [rows EXCEPT ![v] = Ledger(r, v)])
    BY Zenon, <1>6 DEF Record
  <2>3. CASE ~Refused(r, v) /\ rows' = [rows EXCEPT ![v] = Ledger(r, v)]
    BY <2>1, <2>3, <1>1, <1>3, RowWritten, Zenon DEF TablesKept
  <2> QED BY Zenon, <2>1, <2>2, <2>3, <1>2
<1>7. CASE Upgrade(r)
  <2>1. x.files \in Scripts /\ UNCHANGED effect
    BY Zenon, <1>1, <1>7 DEF Upgrade, At, RunInv, LoadedSteps
  <2>2. CASE rows' = [v \in Versions |-> IF rows[v] = Null THEN x.files[v] ELSE rows[v]]
    <3>1. \A v \in Versions : rows[v] \in Nat \cup {NoRow} /\ x.files[v] \in Nat
      BY Zenon, <2>1, <1>1 DEF Checksums, Scripts
    <3>2. rows' \in Checksums
      BY Zenon, <2>2, <3>1 DEF Checksums
    <3>3. \A v \in Versions : rows[v] # Null => rows'[v] = rows[v]
      BY Zenon, <2>2
    <3> QED BY Zenon, <2>1, <3>2, <3>3, <1>1 DEF TablesKept
  <2>3. UNCHANGED rows \/ rows' = [v \in Versions |-> IF rows[v] = Null THEN x.files[v] ELSE rows[v]]
    BY <1>7, Zenon DEF Upgrade
  <2> QED BY Zenon, <2>1, <2>2, <2>3, <1>2
<1>8. CASE Backfill(r)
  <2>1. x.files \in Scripts /\ UNCHANGED effect
    BY Zenon, <1>1, <1>8 DEF Backfill, At, RunInv, LoadedSteps, MySQLSteps
  <2>2. \/ UNCHANGED rows
        \/ \E v \in x.found : rows[v] = Null /\ rows' = [rows EXCEPT ![v] = x.files[v]]
    BY Zenon, <1>8 DEF Backfill
  <2>3. ASSUME NEW v \in x.found, rows[v] = Null, rows' = [rows EXCEPT ![v] = x.files[v]] PROVE TablesKept
    <3>1. v \in Versions /\ x.files[v] \in Nat \cup {NoRow}
      BY Zenon, <2>1, <1>1 DEF Scripts
    <3> QED BY <3>1, <2>1, <2>3, <1>1, RowWritten, Zenon DEF TablesKept
  <2> QED BY Zenon, <2>1, <2>2, <2>3, <1>2
<1> QED BY <1>2, <1>4, <1>5, <1>6, <1>7, <1>8, Zenon
        DEF Step, Begin, WithRunLock, Load, CreateTable, Inspect, Rejected, ReadUp, ReadDown, ReadStatus,
            ReadVerify, ListDown, End, SeekMarker, InsertMarker, AddNullableChecksum, Collect, AdvanceMarker,
            EnforceChecksumNotNull, RemoveMarker, Interrupt, migrateTables

\* The other runners: while one of them may write, nobody else does.
LEMMA OthersKeep ==
    ASSUME MigrateInv, NEW r \in Runners, ActorStep(r), NEW q \in Runners, q # r
    PROVE  /\ run'[q] = run[q]
           /\ dialect = "postgres" => (MayWrite(run[q]) => lock' = q) /\ Ordered(run[q], rows')
<1>1. /\ run \in [Runners -> Runs] /\ Nobody \notin Runners /\ RunInv(run[q])
      /\ dialect = "postgres" => /\ MayWrite(run[q]) => lock = q
                                 /\ MayWrite(run[r]) => lock = r
                                 /\ Ordered(run[q], rows)
  BY Zenon, MigrateAssumption DEF MigrateInv, MigrateTypes
<1>2. run'[q] = run[q]
  BY Zenon, <1>1 DEF ActorStep
<1>3. ASSUME dialect = "postgres", MayWrite(run[q]) PROVE lock' = q /\ rows' = rows
  BY Zenon, <1>1, <1>3 DEF ActorStep
<1>4. ~MayWrite(run[q]) => Ordered(run[q], rows')
  BY Zenon, <1>1 DEF MayWrite, Ordered, RunInv
<1> QED BY Zenon, <1>1, <1>2, <1>3, <1>4

\* The script files are only read through the runs.
LEMMA LedgerStays ==
    ASSUME MigrateInv, UNCHANGED <<rows, effect, lock, run, site>>, MigrateTypes'
    PROVE  MigrateInv'
<1>1. LedgerInv'
  BY Zenon DEF MigrateInv, LedgerInv, LedgerMatchesSchema, ChecksumIsOfAppliedScript, dialect, LegacyApplied
<1>2. ASSUME NEW r \in Runners
      PROVE  (RunInv(run[r]) /\ (dialect = "postgres" => (MayWrite(run[r]) => lock = r) /\ Ordered(run[r], rows)))'
  BY Zenon DEF MigrateInv, RunInv, MayWrite, Ordered, dialect
<1> QED BY Zenon, <1>1, <1>2 DEF MigrateInv

\* The ledger, the runs and the lock, in every state.
THEOREM MigrateInvariant == MigrateSpec => []MigrateInv
<1>1. MigrateInv /\ [MigrateNext]_migrateVars => MigrateInv'
  <2> SUFFICES ASSUME MigrateInv, [MigrateNext]_migrateVars PROVE MigrateInv'
    BY Zenon
  <2>1. ASSUME NEW r \in Runners, Step(r) \/ Interrupt(r), UNCHANGED site PROVE MigrateInv'
    <3>1. ActorStep(r) /\ ActorInv(r) /\ LedgerInv' /\ TablesKept
      BY Zenon, <2>1, ActorKeeps, TablesKeep
    <3>2. MigrateTypes'
      BY Zenon, <3>1 DEF ActorStep, TablesKept, MigrateInv, MigrateTypes
    <3>3. ASSUME NEW q \in Runners
          PROVE  RunInv(run[q])' /\ (dialect = "postgres" => (MayWrite(run[q]) => lock = q) /\ Ordered(run[q], rows))'
      <4>1. dialect' = dialect
        BY Zenon, <2>1 DEF dialect
      <4>2. CASE q = r
        BY Zenon, <4>1, <4>2, <3>1 DEF ActorInv, RunInv, MayWrite, Ordered
      <4>3. CASE q # r
        <5>1. /\ run'[q] = run[q]
              /\ dialect = "postgres" => (MayWrite(run[q]) => lock' = q) /\ Ordered(run[q], rows')
          BY Zenon, <3>1, <4>3, OthersKeep
        <5>2. RunInv(run[q])'
          BY Zenon, <4>1, <5>1 DEF MigrateInv, RunInv
        <5> QED BY Zenon, <4>1, <5>1, <5>2 DEF MayWrite, Ordered
      <4> QED BY Zenon, <4>2, <4>3
    <3> QED BY Zenon, <3>1, <3>2, <3>3 DEF MigrateInv
  <2>2. ASSUME NEW v \in Versions, NEW c \in Contents \cup {Missing, Broken}, Edit(v, c), UNCHANGED site
        PROVE  MigrateInv'
    <3>1. UNCHANGED <<rows, effect, lock, run, site>>
      BY Zenon, <2>2 DEF Edit, migrateTables
    <3>2. c \in Nat \cup {Broken}
      BY SiteFacts DEF MigrateInv, MigrateTypes, Missing
    <3>3. files' \in [Versions -> Nat \cup {Broken}]
      BY Zenon, <2>2, <3>2 DEF Edit, MigrateInv, MigrateTypes
    <3>4. MigrateTypes'
      BY Zenon, <3>1, <3>3 DEF MigrateInv, MigrateTypes
    <3> QED BY Zenon, <3>1, <3>4, LedgerStays
  <2>3. CASE UNCHANGED migrateVars
    <3>1. UNCHANGED <<rows, effect, lock, run, site>> /\ MigrateTypes'
      BY Zenon, <2>3 DEF migrateVars, migrateTables, MigrateInv, MigrateTypes
    <3> QED BY Zenon, <3>1, LedgerStays
  <2> QED BY Zenon, <2>1, <2>2, <2>3 DEF MigrateNext, MigrateStep
<1> QED BY <1>1, MigrateInitInv, PTL DEF MigrateSpec

\* On PostgreSQL and SQLite a version is in the ledger exactly when its script is in
\* effect, for any number of runners, scripts, edits and interruptions (Up and Down
\* change both in one transaction).
THEOREM LedgerTellsTheSchema == MigrateSpec => []LedgerMatchesSchema
<1>1. MigrateInv => LedgerMatchesSchema
  BY Zenon DEF MigrateInv, LedgerInv
<1> QED BY <1>1, MigrateInvariant, PTL

\* On PostgreSQL and SQLite the checksum of a version that no legacy ledger brought in
\* is that of the script that was executed, however the files were edited since.
THEOREM ChecksumsAreOfScripts == MigrateSpec => []ChecksumIsOfAppliedScript
<1>1. MigrateInv => ChecksumIsOfAppliedScript
  BY Zenon DEF MigrateInv, LedgerInv
<1> QED BY <1>1, MigrateInvariant, PTL

\* No operation of any dialect replaces a recorded checksum by another.
THEOREM ChecksumsStay == MigrateSpec => ChecksumNeverChanges
<1> DEFINE Stays == \A v \in Versions : rows[v] \notin {NoRow, Null} => rows'[v] \in {rows[v], NoRow}
<1>1. MigrateInv /\ [MigrateNext]_migrateVars => [Stays]_migrateVars
  <2> SUFFICES ASSUME MigrateInv, MigrateNext PROVE Stays
    BY Zenon
  <2>1. ASSUME NEW r \in Runners, Step(r) \/ Interrupt(r) PROVE Stays
    BY Zenon, <2>1, TablesKeep DEF TablesKept
  <2>2. ASSUME NEW v \in Versions, NEW c \in Contents \cup {Missing, Broken}, Edit(v, c) PROVE Stays
    BY Zenon, <2>2 DEF Edit, migrateTables
  <2> QED BY Zenon, <2>1, <2>2 DEF MigrateNext, MigrateStep
<1> QED BY <1>1, MigrateInvariant, PTL DEF MigrateSpec, ChecksumNeverChanges

\* On PostgreSQL only Apply adds or removes a row or changes the schema, and it does so
\* for the version whose turn it is.
LEMMA OnlyApplyWrites ==
    ASSUME MigrateInv, MigrateNext, dialect = "postgres", NEW q \in Runners, run'[q] # run[q],
           effect' # effect \/ (\E v \in Versions : (rows[v] = NoRow) # (rows'[v] = NoRow))
    PROVE  /\ run[q].pc = "apply" /\ run[q].op \in {"up", "down"} /\ run[q].files \in Scripts
           /\ \E v \in run[q].todo :
                /\ v \in Versions /\ Turn(q, v) /\ ~Refused(q, v)
                /\ rows' = [rows EXCEPT ![v] = Ledger(q, v)]
<1>1. PICK r \in Runners : Step(r) \/ Interrupt(r)
  BY Zenon DEF MigrateNext, MigrateStep, Edit
<1>2. ActorStep(r)
  BY Zenon, <1>1, ActorKeeps DEF MigrateNext
<1>3. q = r
  BY Zenon, <1>2, OthersKeep
<1>4. /\ RunInv(run[r]) /\ run[r].todo \in SUBSET Versions /\ rows \in Checksums
  BY Zenon DEF MigrateInv, MigrateTypes, Runs
<1>5. ~(run[r].pc \in MySQLSteps)
  BY Zenon, <1>4 DEF RunInv
<1>6. Apply(r)
  <2>1. ~UNCHANGED <<rows, effect>>
    BY Zenon
  <2>2. Apply(r) \/ Upgrade(r) \/ Script(r) \/ Record(r) \/ Backfill(r)
    BY <1>1, <2>1, Zenon
        DEF Step, Begin, WithRunLock, Load, CreateTable, Inspect, Rejected, ReadUp, ReadDown, ReadStatus,
            ReadVerify, ListDown, End, SeekMarker, InsertMarker, AddNullableChecksum, Collect, AdvanceMarker,
            EnforceChecksumNotNull, RemoveMarker, Interrupt, migrateTables
  <2>3. ~Script(r) /\ ~Record(r) /\ ~Backfill(r)
    BY Zenon, <1>5 DEF Script, Record, Backfill, At, MySQLSteps
  <2>4. ASSUME Upgrade(r) PROVE FALSE
    <3>1. UNCHANGED effect /\ run[r].files \in Scripts
      BY Zenon, <2>4, <1>4 DEF Upgrade, At, RunInv, LoadedSteps
    <3>2. UNCHANGED rows \/ rows' = [v \in Versions |-> IF rows[v] = Null THEN run[r].files[v] ELSE rows[v]]
      BY <2>4, Zenon DEF Upgrade
    <3>3. \A v \in Versions : (rows[v] = NoRow) <=> (rows'[v] = NoRow)
      BY <3>1, <3>2 DEF Scripts, Null, NoRow
    <3> QED BY Zenon, <3>1, <3>3
  <2> QED BY Zenon, <2>2, <2>3, <2>4
<1>7. run[r].pc = "apply"
  BY Zenon, <1>6 DEF Apply, At
<1>8. run[r].op \in {"up", "down"} /\ run[r].files \in Scripts
  BY Zenon, <1>4, <1>7 DEF RunInv, LoadedSteps
<1>9. PICK v \in run[r].todo : /\ Turn(r, v)
                               /\ \/ UNCHANGED <<effect, rows>>
                                  \/ ~Refused(r, v) /\ rows' = [rows EXCEPT ![v] = Ledger(r, v)]
  BY Zenon, <1>6 DEF Apply
<1>10. ~UNCHANGED <<effect, rows>>
  BY Zenon
<1> QED BY Zenon, <1>3, <1>4, <1>7, <1>8, <1>9, <1>10

\* On PostgreSQL versions are recorded and reversed in order, for every limit and step
\* count, although a run works from what it read at its start: the advisory lock keeps
\* the ledger as it was read.
THEOREM VersionsGoInOrder == MigrateSpec => InVersionOrder
<1> DEFINE InOrder(r, v) ==
             run'[r] # run[r] =>
               /\ rows[v] = NoRow /\ rows'[v] # NoRow =>
                    \A w \in Versions : w < v /\ run[r].files[w] # Missing => rows[w] # NoRow
               /\ rows[v] # NoRow /\ rows'[v] = NoRow =>
                    \A w \in Versions : w > v => rows[w] = NoRow
           Order == dialect = "postgres" => \A r \in Runners, v \in Versions : InOrder(r, v)
<1>1. MigrateInv /\ [MigrateNext]_migrateVars => [Order]_migrateVars
  <2> SUFFICES ASSUME MigrateInv, MigrateNext, dialect = "postgres", NEW r \in Runners, NEW v \in Versions,
                      run'[r] # run[r], (rows[v] = NoRow) # (rows'[v] = NoRow)
               PROVE  InOrder(r, v)
    BY Zenon
  <2> DEFINE x == run[r]
  <2>1. PICK u \in x.todo : /\ u \in Versions /\ Turn(r, u) /\ ~Refused(r, u)
                            /\ rows' = [rows EXCEPT ![u] = Ledger(r, u)]
    BY Zenon, OnlyApplyWrites
  <2>2. x.pc = "apply" /\ x.op \in {"up", "down"} /\ x.files \in Scripts
    BY Zenon, OnlyApplyWrites
  <2>3. rows \in Checksums /\ Ordered(x, rows) /\ (\A w \in Versions : w \in Nat) /\ x.todo \in SUBSET Versions
    BY Zenon, MigrateAssumption DEF MigrateInv, MigrateTypes, Runs
  <2>4. u = v /\ rows'[v] = Ledger(r, v)
    BY Zenon, <2>1, <2>3 DEF Checksums
  <2>5. CASE x.op = "up"
    <3>1. rows'[v] # NoRow
      BY <2>2, <2>4, <2>5 DEF Ledger, Scripts, NoRow
    <3>2. ASSUME NEW w \in Versions, w < v, x.files[w] # Missing, rows[w] = NoRow PROVE FALSE
      <4>1. w \in x.todo
        BY Zenon, <3>2, <2>1, <2>2, <2>3, <2>4, <2>5 DEF Ordered
      <4>2. v <= w
        BY Zenon, <4>1, <2>1, <2>4, <2>5 DEF Turn
      <4> QED BY <4>2, <3>2, <2>3
    <3> QED BY Zenon, <3>1, <3>2
  <2>6. CASE x.op = "down"
    <3>1. rows'[v] = NoRow
      BY Zenon, <2>4, <2>6 DEF Ledger
    <3>2. ASSUME NEW w \in Versions, w > v, rows[w] # NoRow PROVE FALSE
      <4>1. w \in x.todo
        BY Zenon, <3>2, <2>1, <2>2, <2>3, <2>4, <2>6 DEF Ordered
      <4>2. v >= w
        BY Zenon, <4>1, <2>1, <2>4, <2>6 DEF Turn
      <4> QED BY <4>2, <3>2, <2>3
    <3> QED BY Zenon, <3>1, <3>2
  <2> QED BY Zenon, <2>2, <2>5, <2>6
<1> QED BY <1>1, MigrateInvariant, PTL DEF MigrateSpec, InVersionOrder

\* On PostgreSQL the schema changes only while the scripts the run has loaded agree
\* with every checksum of the ledger ("rejects filesystem drift before any migration
\* operation"), whoever else runs and whatever is edited meanwhile.
THEOREM DriftStops == MigrateSpec => DriftStopsTheRun
<1> DEFINE Agrees == \A r \in Runners : dialect = "postgres" /\ run'[r] # run[r] /\ effect' # effect =>
                        \A v \in Versions : rows[v] \in {NoRow, run[r].files[v]}
<1>1. MigrateInv /\ [MigrateNext]_migrateVars => [Agrees]_migrateVars
  <2> SUFFICES ASSUME MigrateInv, MigrateNext, dialect = "postgres", NEW r \in Runners,
                      run'[r] # run[r], effect' # effect, NEW v \in Versions
               PROVE  rows[v] \in {NoRow, run[r].files[v]}
    BY Zenon
  <2>1. run[r].pc = "apply"
    BY Zenon, OnlyApplyWrites
  <2>2. Ordered(run[r], rows)
    BY Zenon DEF MigrateInv
  <2> QED BY Zenon, <2>1, <2>2 DEF Ordered
<1> QED BY <1>1, MigrateInvariant, PTL DEF MigrateSpec, DriftStopsTheRun

-----------------------------------------------------------------------------
(***************************************************************************)
(* The query builders, for every number of builders, statements and        *)
(* contents: memory that a builder or a statement refers to is never       *)
(* written again, because every array and every copy is fresh.             *)
(***************************************************************************)

BuilderRecord == [arr : Nat, len : Nat, limit : Int, failed : BOOLEAN]
CallRecord == [args : Seq(BuilderContents), limit : Int, failed : BOOLEAN]

\* The addresses in s are not the application's, and hold the values v.
Holds(s, v, memory, own) ==
    /\ Len(s) = Len(v)
    /\ \A i \in 1..Len(s) : s[i] \in 1..Len(memory) /\ s[i] \notin own /\ memory[s[i]] = v[i]

BuilderTypes ==
    /\ bytes \in Seq(BuilderContents) /\ owned \subseteq 1..Len(bytes)
    /\ arrays \in Seq(Seq(Nat)) /\ builders \in Seq(BuilderRecord) /\ calls \in Seq(CallRecord)
    /\ builtStatements \in Seq(Seq(Nat)) /\ asked \in Seq(Seq(BuilderContents))
    /\ Len(calls) = Len(builders) /\ Len(asked) = Len(builtStatements)

BuilderHolds(b) ==
    /\ builders[b].arr \in 1..Len(arrays) /\ builders[b].len = Len(arrays[builders[b].arr])
    /\ Holds(arrays[builders[b].arr], calls[b].args, bytes, owned)
    /\ builders[b].limit = calls[b].limit /\ builders[b].failed = calls[b].failed

BuilderInv ==
    /\ BuilderTypes
    /\ \A b \in 1..Len(builders) : BuilderHolds(b)
    /\ \A s \in 1..Len(builtStatements) : Holds(builtStatements[s], asked[s], bytes, owned)

\* Memory grows, and only what is the application's is overwritten.
MemoryKept ==
    /\ Len(bytes) <= Len(bytes')
    /\ \A x \in 1..Len(bytes) : x \notin owned => x \notin owned' /\ bytes'[x] = bytes[x]

\* t continues s.
Continues(s, t) == Len(s) <= Len(t) /\ \A i \in 1..Len(s) : t[i] = s[i]

\* What is at addresses of the builders stays there.
LEMMA HoldsOn ==
    ASSUME MemoryKept, bytes \in Seq(BuilderContents), bytes' \in Seq(BuilderContents), NEW s, NEW v,
           Holds(s, v, bytes, owned)
    PROVE  Holds(s, v, bytes', owned')
<1>1. \A x \in 1..Len(bytes) : x \in 1..Len(bytes')
  <2>1. Len(bytes) \in Nat /\ Len(bytes') \in Nat /\ Len(bytes) <= Len(bytes')
    BY DEF MemoryKept
  <2> QED BY <2>1
<1> QED BY Zenon, <1>1 DEF Holds, MemoryKept

\* One more element.
LEMMA OneMore ==
    ASSUME NEW S, NEW s \in Seq(S), NEW e \in S
    PROVE  /\ Append(s, e) \in Seq(S) /\ Len(Append(s, e)) = Len(s) + 1 /\ Len(s) \in Nat
           /\ Continues(s, Append(s, e)) /\ Append(s, e)[Len(s) + 1] = e
           /\ \A i \in 1..Len(Append(s, e)) : i \in 1..Len(s) \/ i = Len(s) + 1
<1>1. Append(s, e) \in Seq(S) /\ Len(Append(s, e)) = Len(s) + 1 /\ Len(s) \in Nat
  OBVIOUS
<1>2. Append(s, e)[Len(s) + 1] = e /\ \A i \in 1..Len(s) : Append(s, e)[i] = s[i]
  OBVIOUS
<1>3. Len(s) <= Len(Append(s, e)) /\ \A i \in 1..Len(Append(s, e)) : i \in 1..Len(s) \/ i = Len(s) + 1
  BY <1>1
<1> QED BY Zenon, <1>1, <1>2, <1>3 DEF Continues

\* A step that derives no builder, or one: what holds of the others still does.
LEMMA OthersHold ==
    ASSUME BuilderInv, BuilderTypes', MemoryKept, Continues(arrays, arrays'),
           NEW b \in 1..Len(builders), builders'[b] = builders[b], calls'[b] = calls[b]
    PROVE  BuilderHolds(b)'
<1>1. BuilderHolds(b) /\ BuilderTypes
  BY Zenon DEF BuilderInv
<1>2. builders[b].arr \in 1..Len(arrays) /\ builders[b].arr \in 1..Len(arrays')
  <2>1. Len(arrays) \in Nat /\ Len(arrays') \in Nat /\ Len(arrays) <= Len(arrays')
    BY DEF BuilderTypes, Continues, BuilderInv
  <2>2. builders[b].arr \in 1..Len(arrays)
    BY Zenon, <1>1 DEF BuilderHolds
  <2> QED BY <2>1, <2>2
<1>3. arrays'[builders[b].arr] = arrays[builders[b].arr]
  BY Zenon, <1>2 DEF Continues
<1>4. bytes \in Seq(BuilderContents) /\ bytes' \in Seq(BuilderContents)
  BY Zenon, <1>1 DEF BuilderTypes
<1>5. Holds(arrays[builders[b].arr], calls[b].args, bytes', owned')
  BY Zenon, <1>1, <1>4, HoldsOn DEF BuilderHolds
<1> QED BY Zenon, <1>1, <1>2, <1>3, <1>5 DEF BuilderHolds

\* A derived builder: one more array, call and record.
LEMMA Derived ==
    ASSUME BuilderInv, BuilderTypes', MemoryKept, Continues(arrays, arrays'),
           NEW record, NEW call, builders' = Append(builders, record), calls' = Append(calls, call),
           record.arr \in 1..Len(arrays'), record.len = Len(arrays'[record.arr]),
           Holds(arrays'[record.arr], call.args, bytes', owned'),
           record.limit = call.limit, record.failed = call.failed,
           builtStatements' = builtStatements, asked' = asked
    PROVE  BuilderInv'
<1>1. BuilderTypes
  BY Zenon DEF BuilderInv
<1> DEFINE n == Len(builders)
<1>2. /\ n \in Nat /\ Len(calls) = n /\ Len(builders') = n + 1 /\ builders'[n + 1] = record /\ calls'[n + 1] = call
      /\ \A b \in 1..n : builders'[b] = builders[b] /\ calls'[b] = calls[b]
      /\ \A b \in 1..(n + 1) : b \in 1..n \/ b = n + 1
  <2>1. builders \in Seq(BuilderRecord) /\ calls \in Seq(CallRecord) /\ Len(calls) = n
    BY Zenon, <1>1 DEF BuilderTypes
  <2>2. n \in Nat /\ Len(builders') = n + 1 /\ builders'[n + 1] = record /\ \A b \in 1..n : builders'[b] = builders[b]
    BY <2>1
  <2>3. calls'[n + 1] = call /\ \A b \in 1..n : calls'[b] = calls[b]
    BY <2>1, <2>2
  <2>4. \A b \in 1..(n + 1) : b \in 1..n \/ b = n + 1
    BY <2>2
  <2> QED BY Zenon, <2>1, <2>2, <2>3, <2>4
<1>3. \A b \in 1..n : BuilderHolds(b)'
  BY Zenon, <1>2, OthersHold
<1> HIDE DEF n
<1>4. ASSUME NEW b, builders'[b] = record, calls'[b] = call PROVE BuilderHolds(b)'
  <2>1. builders'[b].arr \in 1..Len(arrays') /\ builders'[b].len = Len(arrays'[builders'[b].arr])
    BY Zenon, <1>4
  <2>2. Holds(arrays'[builders'[b].arr], calls'[b].args, bytes', owned')
    BY Zenon, <1>4
  <2>3. builders'[b].limit = calls'[b].limit /\ builders'[b].failed = calls'[b].failed
    BY Zenon, <1>4
  <2> QED BY Zenon, <2>1, <2>2, <2>3 DEF BuilderHolds
<1>5. ASSUME NEW b \in 1..Len(builders') PROVE BuilderHolds(b)'
  <2>1. b \in 1..(n + 1)
    BY Zenon, <1>2
  <2>2. CASE b \in 1..n
    BY Zenon, <1>3, <2>2
  <2>3. CASE b = n + 1
    BY Zenon, <1>2, <1>4, <2>3
  <2> QED BY Zenon, <1>2, <2>1, <2>2, <2>3
<1>6. \A s \in 1..Len(builtStatements') : Holds(builtStatements'[s], asked'[s], bytes', owned')
  <2>1. bytes \in Seq(BuilderContents) /\ bytes' \in Seq(BuilderContents)
    BY Zenon, <1>1 DEF BuilderTypes
  <2> QED BY Zenon, <2>1, HoldsOn DEF BuilderInv
<1> QED BY Zenon, <1>5, <1>6 DEF BuilderInv

\* A step that derives no builder.
LEMMA NoneDerived ==
    ASSUME BuilderInv, BuilderTypes', MemoryKept, arrays' = arrays, builders' = builders, calls' = calls,
           \A s \in 1..Len(builtStatements') :
              \/ s \in 1..Len(builtStatements) /\ builtStatements'[s] = builtStatements[s] /\ asked'[s] = asked[s]
              \/ Holds(builtStatements'[s], asked'[s], bytes', owned')
    PROVE  BuilderInv'
<1>1. BuilderTypes
  BY Zenon DEF BuilderInv
<1>2. Continues(arrays, arrays')
  BY <1>1 DEF BuilderTypes, Continues
<1>3. \A b \in 1..Len(builders') : BuilderHolds(b)'
  BY Zenon, <1>2, OthersHold
<1>4. bytes \in Seq(BuilderContents) /\ bytes' \in Seq(BuilderContents)
  BY Zenon, <1>1 DEF BuilderTypes
<1>5. \A s \in 1..Len(builtStatements) : Holds(builtStatements[s], asked[s], bytes', owned')
  BY Zenon, <1>4, HoldsOn DEF BuilderInv
<1>6. \A s \in 1..Len(builtStatements') : Holds(builtStatements'[s], asked'[s], bytes', owned')
  BY Zenon, <1>5
<1> QED BY Zenon, <1>3, <1>6 DEF BuilderInv

\* Only the application's bytes are its to write.
LEMMA AppWritesKeeps ==
    ASSUME BuilderInv, AppWrites
    PROVE  BuilderInv'
<1>1. PICK address \in owned, content \in BuilderContents : bytes' = [bytes EXCEPT ![address] = content]
  BY Zenon DEF AppWrites
<1>2. /\ owned' = owned /\ arrays' = arrays /\ builders' = builders /\ calls' = calls
      /\ builtStatements' = builtStatements /\ asked' = asked
  BY DEF AppWrites
<1>3. BuilderTypes
  BY Zenon DEF BuilderInv
<1>4. bytes \in Seq(BuilderContents) /\ address \in 1..Len(bytes)
  BY Zenon, <1>3 DEF BuilderTypes
<1>5. bytes' \in Seq(BuilderContents) /\ Len(bytes') = Len(bytes) /\ Len(bytes) <= Len(bytes)
  BY <1>1, <1>4
<1>6. \A x \in 1..Len(bytes) : x # address => bytes'[x] = bytes[x]
  BY <1>1, <1>4
<1>7. MemoryKept
  BY Zenon, <1>2, <1>5, <1>6 DEF MemoryKept
<1>8. BuilderTypes'
  BY Zenon, <1>2, <1>3, <1>5 DEF BuilderTypes
<1> QED BY Zenon, <1>2, <1>7, <1>8, NoneDerived

\* A sequence after another.
LEMMA Joined ==
    ASSUME NEW S, NEW s \in Seq(S), NEW t \in Seq(S)
    PROVE  /\ s \o t \in Seq(S) /\ Len(s \o t) = Len(s) + Len(t)
           /\ \A x \in 1..Len(s) : (s \o t)[x] = s[x]
           /\ \A i \in 1..Len(t) : (s \o t)[Len(s) + i] = t[i]
<1>1. s \o t \in Seq(S)
  OBVIOUS
<1>2. Len(s \o t) = Len(s) + Len(t)
  OBVIOUS
<1>3. \A x \in 1..Len(s) : (s \o t)[x] = s[x]
  OBVIOUS
<1>4. \A i \in 1..Len(t) : (s \o t)[Len(s) + i] = t[i]
  OBVIOUS
<1> QED BY Zenon, <1>1, <1>2, <1>3, <1>4

\* The addresses in t are fresh, and hold the values v.
IsClone(t, v, before, after) ==
    /\ Len(t) = Len(v)
    /\ \A i \in 1..Len(t) : t[i] \in 1..Len(after) /\ t[i] \notin 1..Len(before) /\ after[t[i]] = v[i]

\* cloneArgs: the copies are at fresh addresses and hold what was copied.
LEMMA Cloned ==
    ASSUME BuilderTypes, NEW s, NEW v, Holds(s, v, bytes, owned), s \in Seq(Nat), bytes' = cloneArgs(s).bytes
    PROVE  /\ bytes' \in Seq(BuilderContents) /\ Len(bytes) \in Nat /\ Len(bytes) <= Len(bytes')
           /\ \A x \in 1..Len(bytes) : bytes'[x] = bytes[x]
           /\ cloneArgs(s).args \in Seq(Nat) /\ IsClone(cloneArgs(s).args, v, bytes, bytes')
<1> DEFINE copies == [i \in 1..Len(s) |-> bytes[s[i]]]
           fresh == [i \in 1..Len(s) |-> Len(bytes) + i]
<1>1. bytes' = bytes \o copies /\ cloneArgs(s).args = fresh
  BY Zenon DEF cloneArgs
<1>2. bytes \in Seq(BuilderContents) /\ Len(bytes) \in Nat /\ Len(s) \in Nat
  <2>1. bytes \in Seq(BuilderContents)
    BY Zenon DEF BuilderTypes
  <2> QED BY <2>1
<1>3. \A i \in 1..Len(s) : bytes[s[i]] \in BuilderContents /\ bytes[s[i]] = v[i]
  <2>1. \A i \in 1..Len(s) : s[i] \in 1..Len(bytes) /\ bytes[s[i]] = v[i]
    BY Zenon DEF Holds
  <2>2. \A x \in 1..Len(bytes) : bytes[x] \in BuilderContents
    BY <1>2
  <2> QED BY Zenon, <2>1, <2>2
<1>4. copies \in Seq(BuilderContents) /\ Len(copies) = Len(s) /\ \A i \in 1..Len(s) : copies[i] = v[i]
  BY <1>2, <1>3
<1>5. fresh \in Seq(Nat) /\ Len(fresh) = Len(s) /\ \A i \in 1..Len(s) : fresh[i] = Len(bytes) + i
  BY <1>2
<1>6. Len(s) = Len(v)
  BY Zenon DEF Holds
<1> HIDE DEF copies, fresh
<1>7. /\ bytes \o copies \in Seq(BuilderContents) /\ Len(bytes \o copies) = Len(bytes) + Len(copies)
       /\ \A x \in 1..Len(bytes) : (bytes \o copies)[x] = bytes[x]
       /\ \A i \in 1..Len(copies) : (bytes \o copies)[Len(bytes) + i] = copies[i]
  <2>1. bytes \in Seq(BuilderContents) /\ copies \in Seq(BuilderContents)
    BY Zenon, <1>2, <1>4
  <2> QED BY ONLY <2>1, Joined
<1>8. /\ bytes' \in Seq(BuilderContents) /\ Len(bytes') = Len(bytes) + Len(s)
      /\ \A x \in 1..Len(bytes) : bytes'[x] = bytes[x]
  BY Zenon, <1>1, <1>4, <1>7
<1>9. \A i \in 1..Len(s) : bytes'[Len(bytes) + i] = copies[i]
  <2>1. 1..Len(copies) = 1..Len(s)
    BY Zenon, <1>4
  <2>2. ASSUME NEW i \in 1..Len(copies) PROVE bytes'[Len(bytes) + i] = copies[i]
    <3>1. (bytes \o copies)[Len(bytes) + i] = copies[i]
      BY <1>7
    <3> QED BY Zenon, <3>1, <1>1
  <2> QED BY Zenon, <2>1, <2>2
<1>10. \A i \in 1..Len(s) : Len(bytes) + i \in 1..Len(bytes') /\ Len(bytes) + i \notin 1..Len(bytes)
  BY <1>2, <1>8
<1>11. Len(bytes) <= Len(bytes')
  BY <1>2, <1>8
<1>12. \A i \in 1..Len(fresh) : fresh[i] \in 1..Len(bytes') /\ fresh[i] \notin 1..Len(bytes) /\ bytes'[fresh[i]] = v[i]
  BY Zenon, <1>4, <1>5, <1>9, <1>10
<1>13. IsClone(fresh, v, bytes, bytes')
  BY Zenon, <1>5, <1>6, <1>12 DEF IsClone
<1> QED BY Zenon, <1>1, <1>2, <1>5, <1>8, <1>11, <1>13

\* The types of a derived builder and of its call.
LEMMA TypesOn ==
    ASSUME BuilderTypes, NEW record \in BuilderRecord, NEW call \in CallRecord,
           builders' = Append(builders, record), calls' = Append(calls, call),
           bytes' \in Seq(BuilderContents), Continues(bytes, bytes'), arrays' \in Seq(Seq(Nat)),
           owned' = owned, builtStatements' = builtStatements, asked' = asked
    PROVE  BuilderTypes'
<1>1. builders \in Seq(BuilderRecord) /\ calls \in Seq(CallRecord) /\ Len(calls) = Len(builders)
  BY Zenon DEF BuilderTypes
<1>2. builders' \in Seq(BuilderRecord) /\ Len(builders') = Len(builders) + 1
  BY Zenon, <1>1, OneMore
<1>3. calls' \in Seq(CallRecord) /\ Len(calls') = Len(calls) + 1
  BY Zenon, <1>1, OneMore
<1>4. Len(calls') = Len(builders')
  BY Zenon, <1>1, <1>2, <1>3
<1>5. owned \subseteq 1..Len(bytes) /\ bytes \in Seq(BuilderContents)
  BY Zenon DEF BuilderTypes
<1>6. 1..Len(bytes) \subseteq 1..Len(bytes')
  <2>1. Len(bytes) <= Len(bytes') /\ Len(bytes) \in Nat /\ Len(bytes') \in Nat
    BY <1>5 DEF Continues
  <2> QED BY <2>1
<1>7. owned' \subseteq 1..Len(bytes')
  BY Zenon, <1>5, <1>6
<1> QED BY Zenon, <1>2, <1>3, <1>4, <1>7 DEF BuilderTypes

\* A builder with a new array, one longer, and its call with one more argument.
WithArray(r, a) == [r EXCEPT !.arr = a, !.len = r.len + 1]
WithArg(c, e) == [c EXCEPT !.args = Append(c.args, e)]

\* What a builder with a new array keeps.
LEMMA RecordOn ==
    ASSUME NEW r \in BuilderRecord, NEW a \in Nat
    PROVE  /\ WithArray(r, a) \in BuilderRecord /\ WithArray(r, a).arr = a /\ WithArray(r, a).len = r.len + 1
           /\ WithArray(r, a).limit = r.limit /\ WithArray(r, a).failed = r.failed
<1>1. r.len + 1 \in Nat
  BY DEF BuilderRecord
<1>2. WithArray(r, a) \in BuilderRecord
  BY Zenon, <1>1 DEF BuilderRecord, WithArray
<1>3. WithArray(r, a).arr = a
  BY Zenon DEF BuilderRecord, WithArray
<1>4. WithArray(r, a).len = r.len + 1
  BY Zenon DEF BuilderRecord, WithArray
<1>5. WithArray(r, a).limit = r.limit
  BY Zenon DEF BuilderRecord, WithArray
<1>6. WithArray(r, a).failed = r.failed
  BY Zenon DEF BuilderRecord, WithArray
<1> QED BY Zenon, <1>2, <1>3, <1>4, <1>5, <1>6

\* What a call with one more argument keeps.
LEMMA CallOn ==
    ASSUME NEW c \in CallRecord, NEW e \in BuilderContents
    PROVE  /\ WithArg(c, e) \in CallRecord /\ WithArg(c, e).args = Append(c.args, e)
           /\ WithArg(c, e).limit = c.limit /\ WithArg(c, e).failed = c.failed
<1>1. c.args \in Seq(BuilderContents)
  BY DEF CallRecord
<1>2. Append(c.args, e) \in Seq(BuilderContents)
  BY Zenon, <1>1, OneMore
<1> QED BY <1>2 DEF CallRecord, WithArg

\* One more address, and the value at it.
LEMMA HoldsMore ==
    ASSUME NEW S, NEW s \in Seq(Nat), NEW v \in Seq(S), NEW memory, NEW own, Holds(s, v, memory, own),
           NEW x \in Nat, x \in 1..Len(memory), x \notin own, NEW e \in S, memory[x] = e
    PROVE  Holds(Append(s, x), Append(v, e), memory, own)
<1>1. /\ Len(Append(s, x)) = Len(s) + 1 /\ Continues(s, Append(s, x)) /\ Append(s, x)[Len(s) + 1] = x
      /\ \A i \in 1..Len(Append(s, x)) : i \in 1..Len(s) \/ i = Len(s) + 1
  BY Zenon, OneMore
<1>2. Len(Append(v, e)) = Len(v) + 1 /\ Continues(v, Append(v, e)) /\ Append(v, e)[Len(v) + 1] = e
  BY Zenon, OneMore
<1>3. Len(s) = Len(v) /\ \A i \in 1..Len(s) : s[i] \in 1..Len(memory) /\ s[i] \notin own /\ memory[s[i]] = v[i]
  BY Zenon DEF Holds
<1>4. ASSUME NEW i \in 1..Len(Append(s, x))
      PROVE  /\ Append(s, x)[i] \in 1..Len(memory) /\ Append(s, x)[i] \notin own
             /\ memory[Append(s, x)[i]] = Append(v, e)[i]
  <2>1. CASE i \in 1..Len(s)
    <3>1. i \in 1..Len(v)
      BY Zenon, <2>1, <1>3
    <3>2. Append(s, x)[i] = s[i] /\ Append(v, e)[i] = v[i]
      BY Zenon, <2>1, <3>1, <1>1, <1>2 DEF Continues
    <3> QED BY Zenon, <2>1, <3>2, <1>3
  <2>2. CASE i = Len(s) + 1
    <3>1. Append(s, x)[i] = x /\ Append(v, e)[i] = e
      BY Zenon, <2>2, <1>1, <1>2, <1>3
    <3> QED BY Zenon, <3>1
  <2> QED BY Zenon, <1>1, <2>1, <2>2
<1>5. Len(Append(s, x)) = Len(Append(v, e))
  BY Zenon, <1>1, <1>2, <1>3
<1> QED BY Zenon, <1>4, <1>5 DEF Holds

\* A predicate or an assignment: its argument at a fresh address, in a fresh
\* array.
LEMMA WhereKeeps ==
    ASSUME BuilderInv, Where
    PROVE  BuilderInv'
<1>1. BuilderTypes
  BY Zenon DEF BuilderInv
<1>2. PICK b \in 1..Len(builders), address \in owned :
        /\ bytes' = freezeArg(bytes, address).bytes
        /\ arrays' = appendCopy(builders[b], freezeArg(bytes, address).address).arrays
        /\ builders' = Append(builders, WithArray(builders[b], appendCopy(builders[b], freezeArg(bytes, address).address).arr))
        /\ calls' = Append(calls, WithArg(calls[b], bytes[address]))
  BY Zenon DEF Where, WithArray, WithArg
<1>3. owned' = owned /\ builtStatements' = builtStatements /\ asked' = asked
  BY Zenon DEF Where
<1> DEFINE old    == arrays[builders[b].arr]
           fresh  == Len(bytes) + 1
           value  == bytes[address]
           record == WithArray(builders[b], Len(arrays) + 1)
           call   == WithArg(calls[b], value)
<1>4. /\ bytes \in Seq(BuilderContents) /\ address \in 1..Len(bytes) /\ arrays \in Seq(Seq(Nat))
      /\ builders \in Seq(BuilderRecord) /\ calls \in Seq(CallRecord) /\ Len(calls) = Len(builders)
  BY Zenon, <1>1 DEF BuilderTypes
<1>5. /\ builders[b].arr \in 1..Len(arrays) /\ builders[b].len = Len(old) /\ Holds(old, calls[b].args, bytes, owned)
      /\ builders[b].limit = calls[b].limit /\ builders[b].failed = calls[b].failed
  BY Zenon DEF BuilderInv, BuilderHolds
<1>6. old \in Seq(Nat) /\ value \in BuilderContents /\ fresh \in Nat /\ builders[b] \in BuilderRecord
  BY <1>4, <1>5
<1>7. calls[b] \in CallRecord
  BY <1>4
<1>8. calls[b].args \in Seq(BuilderContents)
  BY <1>7 DEF CallRecord
<1>9. SubSeq(old, 1, Len(old)) = old
  BY <1>6
<1>10. freezeArg(bytes, address).bytes = Append(bytes, value) /\ freezeArg(bytes, address).address = fresh
  BY Zenon DEF freezeArg
<1> HIDE DEF value, fresh
<1>11. /\ appendCopy(builders[b], fresh).arrays = Append(arrays, Append(SubSeq(old, 1, builders[b].len), fresh))
       /\ appendCopy(builders[b], fresh).arr = Len(arrays) + 1
  BY Zenon DEF appendCopy
<1> HIDE DEF old
<1>12. arrays' = Append(arrays, Append(old, fresh))
  BY Zenon, <1>2, <1>5, <1>9, <1>10, <1>11
<1>13. /\ bytes' \in Seq(BuilderContents) /\ Len(bytes') = fresh /\ Continues(bytes, bytes') /\ bytes'[fresh] = value
       /\ Len(bytes) \in Nat
  <2>1. bytes' = Append(bytes, value)
    BY Zenon, <1>2, <1>10
  <2>2. bytes \in Seq(BuilderContents)
    BY Zenon, <1>4
  <2>3. bytes' \in Seq(BuilderContents) /\ Len(bytes') = Len(bytes) + 1 /\ Len(bytes) \in Nat /\ bytes'[Len(bytes) + 1] = value
    BY ONLY <2>1, <2>2, <1>6
  <2>4. Continues(bytes, bytes')
    BY ONLY <2>1, <2>2, <1>6, OneMore
  <2> QED BY Zenon, <2>3, <2>4 DEF fresh
<1>14. MemoryKept
  BY Zenon, <1>3, <1>13 DEF MemoryKept, Continues
<1>15. Append(old, fresh) \in Seq(Nat) /\ Len(Append(old, fresh)) = Len(old) + 1 /\ Len(old) \in Nat
  BY Zenon, <1>6, OneMore
<1>16. /\ arrays' \in Seq(Seq(Nat)) /\ Len(arrays') = Len(arrays) + 1 /\ Continues(arrays, arrays')
       /\ arrays'[Len(arrays) + 1] = Append(old, fresh) /\ Len(arrays) \in Nat
  <2>1. arrays \in Seq(Seq(Nat)) /\ Append(old, fresh) \in Seq(Nat)
    BY Zenon, <1>4, <1>15
  <2>2. /\ arrays' \in Seq(Seq(Nat)) /\ Len(arrays') = Len(arrays) + 1
        /\ arrays'[Len(arrays) + 1] = Append(old, fresh) /\ Len(arrays) \in Nat
    BY ONLY <2>1, <1>12
  <2>3. Continues(arrays, arrays')
    <3>1. Continues(arrays, Append(arrays, Append(old, fresh)))
      BY Zenon, <2>1, OneMore
    <3> QED BY Zenon, <3>1, <1>12
  <2> QED BY Zenon, <2>2, <2>3
<1>17. Holds(Append(old, fresh), Append(calls[b].args, value), bytes', owned')
  <2>1. Holds(old, calls[b].args, bytes', owned')
    BY Zenon, <1>4, <1>5, <1>13, <1>14, HoldsOn
  <2>2. fresh \in 1..Len(bytes') /\ fresh \notin 1..Len(bytes)
    BY <1>13 DEF fresh
  <2>3. fresh \notin owned'
    BY Zenon, <2>2, <1>1, <1>3 DEF BuilderTypes
  <2> QED BY Zenon, <2>1, <2>2, <2>3, <1>6, <1>8, <1>13, HoldsMore
<1>18. /\ record \in BuilderRecord /\ record.arr = Len(arrays) + 1 /\ record.len = Len(old) + 1
       /\ record.limit = builders[b].limit /\ record.failed = builders[b].failed
  <2>1. Len(arrays) + 1 \in Nat
    BY <1>16
  <2>2. builders[b] \in BuilderRecord
    BY Zenon, <1>6
  <2>3. /\ record \in BuilderRecord /\ record.arr = Len(arrays) + 1 /\ record.len = builders[b].len + 1
        /\ record.limit = builders[b].limit /\ record.failed = builders[b].failed
    BY ONLY Zenon, <2>1, <2>2, RecordOn
  <2> HIDE DEF record
  <2> QED BY Zenon, <2>3, <1>5
<1>19. Append(calls[b].args, value) \in Seq(BuilderContents)
  BY Zenon, <1>6, <1>8, OneMore
<1>20. /\ call \in CallRecord /\ call.args = Append(calls[b].args, value)
       /\ call.limit = calls[b].limit /\ call.failed = calls[b].failed
  BY Zenon, <1>6, <1>7, CallOn
<1> HIDE DEF record, call
<1>21. builders' = Append(builders, record) /\ calls' = Append(calls, call)
  BY Zenon, <1>2, <1>10, <1>11 DEF record, call, value
<1>22. BuilderTypes'
  BY Zenon, <1>1, <1>3, <1>4, <1>13, <1>16, <1>18, <1>20, <1>21, TypesOn
<1>23. record.arr \in 1..Len(arrays') /\ record.len = Len(arrays'[record.arr])
  <2>1. Len(arrays) + 1 \in 1..(Len(arrays) + 1)
    BY <1>16
  <2> QED BY Zenon, <2>1, <1>15, <1>16, <1>18
<1>24. Holds(arrays'[record.arr], call.args, bytes', owned')
  BY Zenon, <1>16, <1>17, <1>18, <1>20
<1>25. record.limit = call.limit /\ record.failed = call.failed
  BY Zenon, <1>5, <1>18, <1>20
<1> QED BY Zenon, <1>3, <1>14, <1>16, <1>21, <1>22, <1>23, <1>24, <1>25, Derived

\* A limit, or the error of one: the array is shared and not written.
LEMMA LimitKeeps ==
    ASSUME BuilderInv, Limit
    PROVE  BuilderInv'
<1>1. BuilderTypes
  BY Zenon DEF BuilderInv
<1>2. PICK b \in 1..Len(builders), limit \in {-1, 1} :
        /\ builders' = Append(builders, IF limit < 0 THEN [builders[b] EXCEPT !.failed = TRUE]
                                        ELSE [builders[b] EXCEPT !.limit = limit])
        /\ calls' = Append(calls, IF limit < 0 THEN [calls[b] EXCEPT !.failed = TRUE]
                                  ELSE [calls[b] EXCEPT !.limit = limit])
  BY Zenon DEF Limit
<1>3. /\ bytes' = bytes /\ owned' = owned /\ arrays' = arrays /\ builtStatements' = builtStatements
      /\ asked' = asked
  BY Zenon DEF Limit
<1>4. /\ builders \in Seq(BuilderRecord) /\ calls \in Seq(CallRecord) /\ Len(calls) = Len(builders)
      /\ bytes \in Seq(BuilderContents) /\ arrays \in Seq(Seq(Nat))
  BY Zenon, <1>1 DEF BuilderTypes
<1>5. builders[b] \in BuilderRecord
  BY <1>4
<1>6. calls[b] \in CallRecord
  BY <1>4
<1>7. /\ builders[b].arr \in 1..Len(arrays) /\ builders[b].len = Len(arrays[builders[b].arr])
      /\ Holds(arrays[builders[b].arr], calls[b].args, bytes, owned)
      /\ builders[b].limit = calls[b].limit /\ builders[b].failed = calls[b].failed
  BY Zenon DEF BuilderInv, BuilderHolds
<1>8. Continues(bytes, bytes') /\ Continues(arrays, arrays')
  BY <1>3, <1>4 DEF Continues
<1>9. MemoryKept
  BY Zenon, <1>3, <1>8 DEF MemoryKept, Continues
<1>10. ASSUME NEW record \in BuilderRecord, NEW call \in CallRecord,
              builders' = Append(builders, record), calls' = Append(calls, call),
              record.arr = builders[b].arr, record.len = builders[b].len, call.args = calls[b].args,
              record.limit = call.limit, record.failed = call.failed
       PROVE  BuilderInv'
  <2>1. BuilderTypes'
    BY Zenon, <1>1, <1>3, <1>4, <1>8, <1>10, TypesOn
  <2>2. record.arr \in 1..Len(arrays') /\ record.len = Len(arrays'[record.arr])
    BY Zenon, <1>3, <1>7, <1>10
  <2>3. Holds(arrays'[record.arr], call.args, bytes', owned')
    BY Zenon, <1>3, <1>7, <1>10
  <2> QED BY Zenon, <2>1, <2>2, <2>3, <1>3, <1>8, <1>9, <1>10, Derived
<1>11. CASE limit < 0
  <2> DEFINE record == [builders[b] EXCEPT !.failed = TRUE]
             call   == [calls[b] EXCEPT !.failed = TRUE]
  <2>1. record \in BuilderRecord /\ record.arr = builders[b].arr /\ record.len = builders[b].len
    BY Zenon, <1>5 DEF BuilderRecord
  <2>2. record.limit = builders[b].limit /\ record.failed = TRUE
    BY Zenon, <1>5 DEF BuilderRecord
  <2>3. call \in CallRecord /\ call.args = calls[b].args
    BY Zenon, <1>6 DEF CallRecord
  <2>4. call.limit = calls[b].limit /\ call.failed = TRUE
    BY Zenon, <1>6 DEF CallRecord
  <2>5. builders' = Append(builders, record) /\ calls' = Append(calls, call)
    BY Zenon, <1>2, <1>11
  <2> HIDE DEF record, call
  <2>6. record.limit = call.limit /\ record.failed = call.failed
    BY Zenon, <2>2, <2>4, <1>7
  <2> QED BY Zenon, <2>1, <2>3, <2>5, <2>6, <1>10
<1>12. CASE ~(limit < 0)
  <2> DEFINE record == [builders[b] EXCEPT !.limit = limit]
             call   == [calls[b] EXCEPT !.limit = limit]
  <2>0. limit \in Int
    OBVIOUS
  <2>1. record \in BuilderRecord /\ record.arr = builders[b].arr /\ record.len = builders[b].len
    BY Zenon, <2>0, <1>5 DEF BuilderRecord
  <2>2. record.failed = builders[b].failed /\ record.limit = limit
    BY Zenon, <1>5 DEF BuilderRecord
  <2>3. call \in CallRecord /\ call.args = calls[b].args
    BY Zenon, <2>0, <1>6 DEF CallRecord
  <2>4. call.failed = calls[b].failed /\ call.limit = limit
    BY Zenon, <1>6 DEF CallRecord
  <2>5. builders' = Append(builders, record) /\ calls' = Append(calls, call)
    BY Zenon, <1>2, <1>12
  <2> HIDE DEF record, call
  <2>6. record.limit = call.limit /\ record.failed = call.failed
    BY Zenon, <2>2, <2>4, <1>7
  <2> QED BY Zenon, <2>1, <2>3, <2>5, <2>6, <1>10
<1> QED BY Zenon, <1>11, <1>12

\* A copy of what is held is held, at addresses that are not the application's.
LEMMA CloneHeld ==
    ASSUME BuilderTypes, NEW s, NEW v, Holds(s, v, bytes, owned), s \in Seq(Nat), bytes' = cloneArgs(s).bytes,
           owned' = owned
    PROVE  Holds(cloneArgs(s).args, v, bytes', owned')
<1>1. IsClone(cloneArgs(s).args, v, bytes, bytes')
  BY Zenon, Cloned
<1>2. owned' \subseteq 1..Len(bytes)
  BY Zenon DEF BuilderTypes
<1> QED BY Zenon, <1>1, <1>2 DEF Holds, IsClone

\* The arguments of a builder are its whole array.
LEMMA ArgsAll ==
    ASSUME BuilderTypes, NEW b, BuilderHolds(b)
    PROVE  ArgsOf(builders[b]) = arrays[builders[b].arr] /\ ArgsOf(builders[b]) \in Seq(Nat)
<1>1. arrays \in Seq(Seq(Nat)) /\ builders[b].arr \in 1..Len(arrays)
  BY Zenon DEF BuilderTypes, BuilderHolds
<1>2. arrays[builders[b].arr] \in Seq(Nat)
  BY <1>1
<1>3. SubSeq(arrays[builders[b].arr], 1, Len(arrays[builders[b].arr])) = arrays[builders[b].arr]
  BY <1>2
<1>4. builders[b].len = Len(arrays[builders[b].arr])
  BY Zenon DEF BuilderHolds
<1> QED BY Zenon, <1>2, <1>3, <1>4 DEF ArgsOf

\* What cloning changes: memory grows by the copies.
LEMMA CloneGrows ==
    ASSUME BuilderTypes, NEW s, NEW v, Holds(s, v, bytes, owned), s \in Seq(Nat), bytes' = cloneArgs(s).bytes
    PROVE  bytes' \in Seq(BuilderContents) /\ Continues(bytes, bytes') /\ 1..Len(bytes) \subseteq 1..Len(bytes')
<1>1. /\ bytes' \in Seq(BuilderContents) /\ Len(bytes) \in Nat /\ Len(bytes) <= Len(bytes')
      /\ \A x \in 1..Len(bytes) : bytes'[x] = bytes[x]
  BY Zenon, Cloned
<1>2. 1..Len(bytes) \subseteq 1..Len(bytes')
  BY <1>1
<1> QED BY Zenon, <1>1, <1>2 DEF Continues

\* A statement: the copies of its builder's arguments.
LEMMA BuildKeeps ==
    ASSUME BuilderInv, Build
    PROVE  BuilderInv'
<1>1. BuilderTypes
  BY Zenon DEF BuilderInv
<1>2. PICK b \in 1..Len(builders) :
        /\ bytes' = cloneArgs(ArgsOf(builders[b])).bytes
        /\ builtStatements' = Append(builtStatements, cloneArgs(ArgsOf(builders[b])).args)
        /\ asked' = Append(asked, calls[b].args)
  BY Zenon DEF Build
<1>3. owned' = owned /\ arrays' = arrays /\ builders' = builders /\ calls' = calls
  BY Zenon DEF Build
<1> DEFINE s == ArgsOf(builders[b])
           t == cloneArgs(s).args
           v == calls[b].args
<1>4. BuilderHolds(b)
  BY Zenon DEF BuilderInv
<1>5. s = arrays[builders[b].arr] /\ s \in Seq(Nat)
  BY Zenon, <1>1, <1>4, ArgsAll
<1>6. Holds(s, v, bytes, owned)
  BY Zenon, <1>4, <1>5 DEF BuilderHolds
<1>7. v \in Seq(BuilderContents)
  <2>1. calls \in Seq(CallRecord) /\ Len(calls) = Len(builders)
    BY Zenon, <1>1 DEF BuilderTypes
  <2>2. calls[b] \in CallRecord
    BY <2>1
  <2> QED BY <2>2 DEF CallRecord
<1> HIDE DEF s, v
<1>8. bytes' = cloneArgs(s).bytes /\ builtStatements' = Append(builtStatements, t) /\ asked' = Append(asked, v)
  BY Zenon, <1>2 DEF s, v
<1>9. t \in Seq(Nat)
  BY Zenon, <1>1, <1>5, <1>6, <1>8, Cloned
<1>10. Holds(t, v, bytes', owned')
  BY Zenon, <1>1, <1>3, <1>5, <1>6, <1>8, CloneHeld
<1>11. bytes' \in Seq(BuilderContents) /\ Continues(bytes, bytes') /\ 1..Len(bytes) \subseteq 1..Len(bytes')
  BY Zenon, <1>1, <1>5, <1>6, <1>8, CloneGrows
<1>12. MemoryKept
  BY Zenon, <1>3, <1>11 DEF MemoryKept, Continues
<1> HIDE DEF t
<1>13. builtStatements \in Seq(Seq(Nat)) /\ asked \in Seq(Seq(BuilderContents)) /\ Len(asked) = Len(builtStatements)
  BY Zenon, <1>1 DEF BuilderTypes
<1>14. /\ builtStatements' \in Seq(Seq(Nat)) /\ Len(builtStatements') = Len(builtStatements) + 1
       /\ Continues(builtStatements, builtStatements') /\ builtStatements'[Len(builtStatements) + 1] = t
       /\ \A i \in 1..Len(builtStatements') : i \in 1..Len(builtStatements) \/ i = Len(builtStatements) + 1
  <2>1. LET a == Append(builtStatements, t)
        IN /\ a \in Seq(Seq(Nat)) /\ Len(a) = Len(builtStatements) + 1
           /\ Continues(builtStatements, a) /\ a[Len(builtStatements) + 1] = t
           /\ \A i \in 1..Len(a) : i \in 1..Len(builtStatements) \/ i = Len(builtStatements) + 1
    BY Zenon, <1>9, <1>13, OneMore
  <2> QED BY Zenon, <2>1, <1>8
<1>15. /\ asked' \in Seq(Seq(BuilderContents)) /\ Len(asked') = Len(asked) + 1
       /\ Continues(asked, asked') /\ asked'[Len(asked) + 1] = v
  <2>1. LET a == Append(asked, v)
        IN a \in Seq(Seq(BuilderContents)) /\ Len(a) = Len(asked) + 1 /\ Continues(asked, a) /\ a[Len(asked) + 1] = v
    BY Zenon, <1>7, <1>13, OneMore
  <2> QED BY Zenon, <2>1, <1>8
<1>16. BuilderTypes'
  <2>1. owned' \subseteq 1..Len(bytes')
    BY Zenon, <1>1, <1>3, <1>11 DEF BuilderTypes
  <2>2. Len(asked') = Len(builtStatements')
    BY Zenon, <1>13, <1>14, <1>15
  <2> QED BY Zenon, <2>1, <2>2, <1>1, <1>3, <1>11, <1>14, <1>15 DEF BuilderTypes
<1>17. ASSUME NEW i \in 1..Len(builtStatements')
       PROVE  \/ i \in 1..Len(builtStatements) /\ builtStatements'[i] = builtStatements[i] /\ asked'[i] = asked[i]
              \/ Holds(builtStatements'[i], asked'[i], bytes', owned')
  <2>1. CASE i \in 1..Len(builtStatements)
    <3>1. i \in 1..Len(asked)
      BY Zenon, <2>1, <1>13
    <3> QED BY Zenon, <2>1, <3>1, <1>14, <1>15 DEF Continues
  <2>2. CASE i = Len(builtStatements) + 1
    <3>1. builtStatements'[i] = t /\ asked'[i] = v
      BY Zenon, <2>2, <1>13, <1>14, <1>15
    <3> QED BY Zenon, <3>1, <1>10
  <2> QED BY Zenon, <2>1, <2>2, <1>14
<1> QED BY Zenon, <1>3, <1>12, <1>16, <1>17, NoneDerived

\* The copies that Args hands out are the application's; nothing else is.
LEMMA ArgsKeeps ==
    ASSUME BuilderInv, Args
    PROVE  BuilderInv'
<1>1. BuilderTypes
  BY Zenon DEF BuilderInv
<1>2. PICK k \in 1..Len(builtStatements) :
        /\ bytes' = cloneArgs(builtStatements[k]).bytes
        /\ owned' = owned \cup {cloneArgs(builtStatements[k]).args[i] : i \in 1..Len(cloneArgs(builtStatements[k]).args)}
  BY Zenon DEF Args
<1>3. /\ arrays' = arrays /\ builders' = builders /\ calls' = calls /\ builtStatements' = builtStatements
      /\ asked' = asked
  BY Zenon DEF Args
<1> DEFINE s == builtStatements[k]
           t == cloneArgs(s).args
<1>4. Holds(s, asked[k], bytes, owned)
  BY Zenon DEF BuilderInv
<1>5. s \in Seq(Nat)
  <2>1. builtStatements \in Seq(Seq(Nat))
    BY Zenon, <1>1 DEF BuilderTypes
  <2> QED BY <2>1
<1> HIDE DEF s
<1>6. bytes' = cloneArgs(s).bytes /\ owned' = owned \cup {t[i] : i \in 1..Len(t)}
  BY Zenon, <1>2 DEF s
<1>7. bytes' \in Seq(BuilderContents) /\ Continues(bytes, bytes') /\ 1..Len(bytes) \subseteq 1..Len(bytes')
  BY Zenon, <1>1, <1>4, <1>5, <1>6, CloneGrows
<1>8. IsClone(t, asked[k], bytes, bytes')
  BY Zenon, <1>1, <1>4, <1>5, <1>6, Cloned
<1> HIDE DEF t
<1>9. \A x \in owned' : x \in owned \/ (x \in 1..Len(bytes') /\ x \notin 1..Len(bytes))
  BY Zenon, <1>6, <1>8 DEF IsClone
<1>10. MemoryKept
  BY Zenon, <1>7, <1>9 DEF MemoryKept, Continues
<1>11. owned' \subseteq 1..Len(bytes')
  BY Zenon, <1>1, <1>7, <1>9 DEF BuilderTypes
<1>12. BuilderTypes'
  BY Zenon, <1>1, <1>3, <1>7, <1>11 DEF BuilderTypes
<1> QED BY Zenon, <1>3, <1>10, <1>12, NoneDerived

\* The first builder holds what it was made with.
LEMMA BuilderStart ==
    ASSUME BuilderInit
    PROVE  BuilderInv
<1>1. PICK content \in BuilderContents :
        /\ bytes = <<content, content, content>>
        /\ calls = <<[args |-> <<content, content>>, limit |-> -1, failed |-> FALSE]>>
  BY Zenon DEF BuilderInit
<1>2. /\ owned = {1} /\ arrays = <<<<2, 3>>>>
      /\ builders = <<[arr |-> 1, len |-> 2, limit |-> -1, failed |-> FALSE]>>
      /\ builtStatements = <<>> /\ asked = <<>>
  BY Zenon DEF BuilderInit
<1>3. bytes \in Seq(BuilderContents) /\ Len(bytes) = 3 /\ bytes[2] = content /\ bytes[3] = content
  BY <1>1
<1>4. owned \subseteq 1..Len(bytes) /\ 2 \notin owned /\ 3 \notin owned /\ 2 \in 1..Len(bytes) /\ 3 \in 1..Len(bytes)
  BY <1>2, <1>3
<1>5. /\ <<2, 3>> \in Seq(Nat) /\ Len(<<2, 3>>) = 2 /\ <<2, 3>>[1] = 2 /\ <<2, 3>>[2] = 3
      /\ \A i \in 1..2 : i = 1 \/ i = 2
  OBVIOUS
<1>6. arrays \in Seq(Seq(Nat)) /\ Len(arrays) = 1 /\ arrays[1] = <<2, 3>> /\ 1 \in 1..Len(arrays)
  BY <1>2, <1>5
<1>7. /\ builders \in Seq(BuilderRecord) /\ Len(builders) = 1 /\ builders[1].arr = 1 /\ builders[1].len = 2
      /\ builders[1].limit = -1 /\ builders[1].failed = FALSE
  BY <1>2 DEF BuilderRecord
<1>8. /\ <<content, content>> \in Seq(BuilderContents) /\ Len(<<content, content>>) = 2
      /\ <<content, content>>[1] = content /\ <<content, content>>[2] = content
  OBVIOUS
<1>9. /\ calls \in Seq(CallRecord) /\ Len(calls) = 1 /\ calls[1].args = <<content, content>>
      /\ calls[1].limit = -1 /\ calls[1].failed = FALSE
  BY <1>1, <1>8 DEF CallRecord
<1>10. /\ builtStatements \in Seq(Seq(Nat)) /\ asked \in Seq(Seq(BuilderContents))
       /\ Len(asked) = Len(builtStatements) /\ 1..Len(builtStatements) = {}
  BY <1>2
<1>11. BuilderTypes
  <2>1. Len(calls) = Len(builders)
    BY Zenon, <1>7, <1>9
  <2> QED BY Zenon, <2>1, <1>3, <1>4, <1>6, <1>7, <1>9, <1>10 DEF BuilderTypes
<1>12. Holds(<<2, 3>>, <<content, content>>, bytes, owned)
  BY Zenon, <1>3, <1>4, <1>5, <1>8 DEF Holds
<1>13. BuilderHolds(1)
  <2>1. arrays[builders[1].arr] = <<2, 3>>
    BY Zenon, <1>6, <1>7
  <2>2. Holds(arrays[builders[1].arr], calls[1].args, bytes, owned)
    BY Zenon, <2>1, <1>9, <1>12
  <2>3. builders[1].len = Len(arrays[builders[1].arr])
    BY Zenon, <2>1, <1>5, <1>7
  <2> QED BY Zenon, <2>2, <2>3, <1>6, <1>7, <1>9 DEF BuilderHolds
<1>14. \A b \in 1..Len(builders) : b = 1
  BY <1>7
<1> QED BY Zenon, <1>10, <1>11, <1>13, <1>14 DEF BuilderInv

\* No step writes what a builder or a statement refers to.
LEMMA BuilderKeeps ==
    ASSUME BuilderInv, [BuilderNext]_builderVars
    PROVE  BuilderInv'
<1>1. CASE UNCHANGED builderVars
  BY Zenon, <1>1 DEF builderVars, BuilderInv, BuilderTypes, BuilderHolds
<1> QED
  BY Zenon, <1>1, WhereKeeps, LimitKeeps, BuildKeeps, ArgsKeeps, AppWritesKeeps DEF BuilderNext

\* Arguments that are held have the values asked for.
LEMMA ValuesOf ==
    ASSUME NEW s \in Seq(Nat), NEW v \in Seq(BuilderContents), Holds(s, v, bytes, owned)
    PROVE  BuilderValues(s) = v
<1>1. Len(s) = Len(v) /\ \A i \in 1..Len(s) : bytes[s[i]] = v[i]
  BY Zenon DEF Holds
<1>2. v = [i \in 1..Len(v) |-> v[i]]
  OBVIOUS
<1>3. BuilderValues(s) = [i \in 1..Len(s) |-> v[i]]
  BY Zenon, <1>1 DEF BuilderValues
<1> QED BY Zenon, <1>1, <1>2, <1>3

\* select.go, mutation.go: a builder means what its own chain of calls asked
\* for, whatever was derived from the same base and whatever the application
\* has written into its byte slices since, for every number of builders,
\* statements and contents.
THEOREM BuildersShareNothing == BuilderSpec => []BuilderIsItsCalls
<1>1. BuilderInit => BuilderInv
  BY Zenon, BuilderStart
<1>2. BuilderInv /\ [BuilderNext]_builderVars => BuilderInv'
  BY Zenon, BuilderKeeps
<1>3. BuilderInv => BuilderIsItsCalls
  <2> SUFFICES ASSUME BuilderInv, NEW b \in 1..Len(builders)
               PROVE  /\ BuilderValues(ArgsOf(builders[b])) = calls[b].args
                      /\ builders[b].limit = calls[b].limit /\ builders[b].failed = calls[b].failed
    BY Zenon DEF BuilderIsItsCalls
  <2>1. BuilderTypes /\ BuilderHolds(b)
    BY Zenon DEF BuilderInv
  <2>2. ArgsOf(builders[b]) = arrays[builders[b].arr] /\ ArgsOf(builders[b]) \in Seq(Nat)
    BY Zenon, <2>1, ArgsAll
  <2>3. calls[b].args \in Seq(BuilderContents)
    <3>1. calls \in Seq(CallRecord) /\ Len(calls) = Len(builders)
      BY Zenon, <2>1 DEF BuilderTypes
    <3>2. calls[b] \in CallRecord
      BY <3>1
    <3> QED BY <3>2 DEF CallRecord
  <2>4. Holds(ArgsOf(builders[b]), calls[b].args, bytes, owned)
    BY Zenon, <2>1, <2>2 DEF BuilderHolds
  <2>5. BuilderValues(ArgsOf(builders[b])) = calls[b].args
    BY Zenon, <2>2, <2>3, <2>4, ValuesOf
  <2> QED BY Zenon, <2>1, <2>5 DEF BuilderHolds
<1> QED BY <1>1, <1>2, <1>3, PTL DEF BuilderSpec

\* statement.go: a statement binds for good the values its builder was asked
\* for when it was built, whatever the application writes into its own byte
\* slices or into the copies Args hands out.
THEOREM StatementsKeepTheirArgs == BuilderSpec => []StatementIsItsCalls
<1>1. BuilderInit => BuilderInv
  BY Zenon, BuilderStart
<1>2. BuilderInv /\ [BuilderNext]_builderVars => BuilderInv'
  BY Zenon, BuilderKeeps
<1>3. BuilderInv => StatementIsItsCalls
  <2> SUFFICES ASSUME BuilderInv, NEW s \in 1..Len(builtStatements)
               PROVE  BuilderValues(builtStatements[s]) = asked[s]
    BY Zenon DEF StatementIsItsCalls
  <2>1. /\ builtStatements \in Seq(Seq(Nat)) /\ asked \in Seq(Seq(BuilderContents))
        /\ Len(asked) = Len(builtStatements)
    BY Zenon DEF BuilderInv, BuilderTypes
  <2>2. builtStatements[s] \in Seq(Nat) /\ asked[s] \in Seq(BuilderContents)
    BY <2>1
  <2>3. Holds(builtStatements[s], asked[s], bytes, owned)
    BY Zenon DEF BuilderInv
  <2> QED BY Zenon, <2>2, <2>3, ValuesOf
<1> QED BY <1>1, <1>2, <1>3, PTL DEF BuilderSpec

=============================================================================
