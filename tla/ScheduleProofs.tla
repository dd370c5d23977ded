--------------------------- MODULE ScheduleProofs ---------------------------
(***************************************************************************)
(* Schedulers are clients of the job store, no occurrence is enqueued      *)
(* twice and no fresh one is skipped: theorems of Schedule for every       *)
(* number of schedulers, definitions and failures.                         *)
(***************************************************************************)
EXTENDS Schedule, JobStoreProofs

\* The scheduler has the row of its definition locked or inserted.
Owner(p) == p.held # NULL \/ p.inserted

\* What a scheduler in state p knows: r is the committed row of its definition,
\* x its enqueueing transaction.
LocalOK(s, p, r, x) ==
    /\ p \in Scheduler
    /\ p.held # NULL <=> p.pc \in {"evaluate", "dispatch", "advance", "commit"}
    /\ p.inserted => /\ p.pc \in {"relock", "evaluate", "dispatch", "advance", "commit"}
                     /\ r = NULL /\ p.row # NULL
    /\ p.held # NULL /\ ~p.inserted => r = p.held
    /\ p.pc = "relock" /\ ~p.inserted => r # NULL /\ p.row = NULL
    /\ p.pc \in {"evaluate", "dispatch", "advance"} =>
          p.row = IF p.inserted THEN p.held ELSE NULL
    /\ p.pc \in {"stopped", "idle", "lock", "exists", "read"} => p.row = NULL
    /\ p.pc = "insert" => p.row # NULL
    /\ p.row # NULL => IsOccurrence(p.row.version, Names[p.at], p.row.next_run_at)
    /\ p.pc \in {"dispatch", "advance"} =>
          p.held.version = Code[s] /\ p.held.next_run_at <= p.clock
    /\ p.pc = "dispatch" => p.due # NULL
    /\ p.due # NULL => /\ p.pc \in {"dispatch", "advance", "commit"}
                       /\ p.held.next_run_at <= p.due /\ p.due <= p.clock
    /\ p.pc = "commit" /\ p.row # NULL => p.held.next_run_at <= p.row.next_run_at
    /\ p.pc = "commit" /\ p.due # NULL => p.row # NULL /\ p.due < p.row.next_run_at
    /\ x # NULL => p.pc \in {"advance", "commit"} /\ p.due # NULL

Exclusive ==
    \A s, r \in Schedulers :
       s # r /\ Owner(sched[s]) /\ Owner(sched[r]) => Name(s) # Name(r)

\* Committed jobs lie before the cursor.
MadeBeforeCursor ==
    \A a \in made : rows[a.name] # NULL /\ a.at < rows[a.name].next_run_at

\* The inductive invariant.
ScheduleInv ==
    /\ StoreInv
    /\ rows \in [Defined -> ScheduleRow \cup {NULL}]
    /\ sched \in [Schedulers -> Scheduler]
    /\ made \subseteq [name : Defined, at : Nat, job : Ids]
    /\ crashes \in 0 .. MaxSchedulerFaults
    /\ \A s \in Schedulers : LocalOK(s, sched[s], rows[Name(s)], tx[s])
    /\ Exclusive
    /\ MadeBeforeCursor
    /\ OccurrenceEnqueuedOnce
    /\ CursorIsOccurrence

-----------------------------------------------------------------------------
LEMMA Numbers ==
    /\ Minute \in Nat \ {0} /\ Period \in Nat \ {0} /\ Grace \in Nat \ {0}
    /\ MaxSchedulerFaults \in Nat /\ Len(Names) \in Nat \ {0}
    /\ Schedulers \subseteq Txs /\ NULL \notin Nat /\ NULL \notin ScheduleRow
    /\ 0 \in Delays
  BY ScheduleAssumption, ScheduleRowAssumption, JobStoreAssumption

\* Every scheduler is at one of the definitions.
LEMMA DefinedNames ==
    ASSUME NEW i \in 1 .. Len(Names)
    PROVE  Names[i] \in Defined /\ Names[i] \in Keys
  BY ScheduleAssumption DEF Defined

LEMMA Targets ==
    ASSUME NEW s \in Schedulers, NEW d \in Defined
    PROVE  Code[s] \in Versions /\ Target[Code[s]][d] \in Routes
  BY Zenon, ScheduleAssumption

LEMMA FreshState ==
    ASSUME NEW pc \in {"stopped", "idle", "lock", "exists"}, NEW i \in 1 .. Len(Names)
    PROVE  /\ At(pc, i) \in Scheduler /\ ~Owner(At(pc, i)) /\ At(pc, i).at = i
           /\ \A s, r : LocalOK(s, At(pc, i), r, NULL)
<1>1. At(pc, i) \in Scheduler
  BY SMT DEF At, Scheduler
<1> DEFINE p == At(pc, i)
<1>2. /\ p.pc = pc /\ p.at = i /\ p.held = NULL /\ p.inserted = FALSE /\ p.row = NULL
      /\ p.due = NULL
  BY Zenon DEF At
<1> HIDE DEF p
<1>3. p \in Scheduler
  BY Zenon, <1>1 DEF p
<1>4. \A s, r : LocalOK(s, p, r, NULL)
  BY Zenon, <1>2, <1>3 DEF LocalOK
<1> QED BY Zenon, <1>2, <1>3, <1>4 DEF p, Owner

-----------------------------------------------------------------------------
(* What the steps of one scheduler do to LocalOK: p becomes q. *)

LEMMA NoJobYet ==
    ASSUME NEW s, NEW p, NEW r, NEW x, LocalOK(s, p, r, x), p.pc \notin {"advance", "commit"}
    PROVE  x = NULL
  BY Zenon DEF LocalOK

LEMMA OwnerInTransaction ==
    ASSUME NEW s, NEW p, NEW r, NEW x, LocalOK(s, p, r, x), Owner(p)
    PROVE  p.pc \notin {"stopped", "idle"} /\ (p.inserted \/ r # NULL)
  BY Zenon DEF LocalOK, Owner

LEMMA OthersRow ==
    ASSUME NEW s, NEW p, NEW r, NEW x, LocalOK(s, p, r, x), ~Owner(p), NEW n, n # NULL
    PROVE  LocalOK(s, p, n, x)
  BY Zenon DEF LocalOK, Owner

LEMMA LocksRow ==
    ASSUME NEW s, NEW p, NEW r, NEW x, LocalOK(s, p, r, x), p.pc = "lock", r # NULL,
           NEW q \in Scheduler, q.pc = "evaluate", q.held = r,
           q.inserted = p.inserted, q.row = p.row, q.due = p.due
    PROVE  LocalOK(s, q, r, x)
  BY Zenon DEF LocalOK

LEMMA LooksOn ==
    ASSUME NEW s, NEW p, NEW r, NEW x, LocalOK(s, p, r, x), p.pc \in {"lock", "exists"},
           NEW q \in Scheduler, q.pc \in {"exists", "read"}, q.held = p.held,
           q.inserted = p.inserted, q.row = p.row, q.due = p.due
    PROVE  LocalOK(s, q, r, x) /\ ~Owner(q)
  BY Zenon DEF LocalOK, Owner

LEMMA PreparesRow ==
    ASSUME NEW s, NEW p, NEW r, NEW x, LocalOK(s, p, r, x), p.pc = "read",
           NEW q \in Scheduler, q.pc = "insert", q.held = p.held, q.inserted = p.inserted,
           q.row # NULL, IsOccurrence(q.row.version, Names[q.at], q.row.next_run_at),
           q.due = p.due
    PROVE  LocalOK(s, q, r, x) /\ ~Owner(q)
  BY Zenon DEF LocalOK, Owner

LEMMA FindsRow ==
    ASSUME NEW s, NEW p, NEW r, NEW x, LocalOK(s, p, r, x), p.pc = "insert", r # NULL,
           NEW q \in Scheduler, q.pc = "relock", q.held = p.held, q.inserted = p.inserted,
           q.row = NULL, q.due = p.due
    PROVE  LocalOK(s, q, r, x) /\ ~Owner(q)
  BY Zenon DEF LocalOK, Owner

LEMMA InsertsRow ==
    ASSUME NEW s, NEW p, NEW r, NEW x, LocalOK(s, p, r, x), p.pc = "insert", r = NULL,
           NEW q \in Scheduler, q.pc = "relock", q.held = p.held, q.inserted = TRUE,
           q.at = p.at, q.row = p.row, q.due = p.due
    PROVE  LocalOK(s, q, r, x)
  BY Zenon DEF LocalOK

LEMMA RelocksRow ==
    ASSUME NEW s, NEW p, NEW r, NEW x, LocalOK(s, p, r, x), p.pc = "relock",
           NEW q \in Scheduler, q.pc = "evaluate", q.held = IF p.inserted THEN p.row ELSE r,
           q.inserted = p.inserted, q.at = p.at, q.row = p.row, q.due = p.due
    PROVE  LocalOK(s, q, r, x)
  BY Zenon DEF LocalOK

LEMMA NotDue ==
    ASSUME NEW s, NEW p, NEW r, NEW x, LocalOK(s, p, r, x), p.pc = "evaluate",
           p.held \in ScheduleRow,
           NEW q \in Scheduler, q.pc = "commit", q.held = p.held,
           q.inserted = p.inserted, q.at = p.at, q.row = p.row, q.due = p.due
    PROVE  LocalOK(s, q, r, x)
<1>1. q.held.next_run_at <= q.held.next_run_at
  BY DEF ScheduleRow
<1> QED BY <1>1, Zenon DEF LocalOK

LEMMA FindsDue ==
    ASSUME NEW s, NEW p, NEW r, NEW x, LocalOK(s, p, r, x), p.pc = "evaluate",
           NEW q \in Scheduler, q.held = p.held,
           q.pc = IF q.due = NULL THEN "advance" ELSE "dispatch",
           q.inserted = p.inserted, q.at = p.at, q.row = p.row,
           q.held.version = Code[s], q.held.next_run_at <= q.clock,
           q.due # NULL => q.held.next_run_at <= q.due /\ q.due <= q.clock
    PROVE  LocalOK(s, q, r, x)
  BY Zenon DEF LocalOK

LEMMA Dispatches ==
    ASSUME NEW s, NEW p, NEW r, NEW x, LocalOK(s, p, r, x), p.pc = "dispatch",
           NEW q \in Scheduler, q.pc = "advance", q.held = p.held, q.inserted = p.inserted,
           q.at = p.at, q.row = p.row, q.due = p.due, q.clock = p.clock, NEW y
    PROVE  LocalOK(s, q, r, y) /\ Owner(p)
  BY Zenon DEF LocalOK, Owner

LEMMA Advances ==
    ASSUME NEW s, NEW p, NEW r, NEW x, LocalOK(s, p, r, x), p.pc = "advance",
           NEW q \in Scheduler, q.pc = "commit", q.held = p.held, q.inserted = p.inserted,
           q.due = p.due, q.clock = p.clock, q.row \in ScheduleRow,
           q.held \in ScheduleRow, q.clock < q.row.next_run_at,
           IsOccurrence(q.row.version, Names[q.at], q.row.next_run_at)
    PROVE  LocalOK(s, q, r, x)
<1>1. q.clock \in Nat /\ q.due \in Nat \cup {NULL} /\ q.row # NULL
      /\ q.row.next_run_at \in Nat /\ q.held.next_run_at \in Nat
  BY Zenon, Numbers DEF Scheduler, ScheduleRow
<1>2. q.held.next_run_at <= q.clock /\ (q.due # NULL => q.due <= q.clock)
  BY Zenon DEF LocalOK
<1>3. q.held.next_run_at <= q.row.next_run_at /\ (q.due # NULL => q.due < q.row.next_run_at)
  BY <1>1, <1>2
<1> QED BY <1>1, <1>3, Zenon DEF LocalOK

LEMMA ReadyToCommit ==
    ASSUME NEW s, NEW p, NEW r, NEW x, LocalOK(s, p, r, x), p.pc = "commit"
    PROVE  /\ p \in Scheduler /\ p.held # NULL /\ Owner(p)
           /\ r # NULL => r = p.held
           /\ p.row # NULL => /\ IsOccurrence(p.row.version, Names[p.at], p.row.next_run_at)
                              /\ p.held.next_run_at <= p.row.next_run_at
           /\ p.row = NULL => r # NULL
           /\ p.due # NULL => /\ p.row # NULL /\ p.due < p.row.next_run_at
                              /\ p.held.next_run_at <= p.due
           /\ x # NULL => p.due # NULL
  BY Zenon DEF LocalOK, Owner

-----------------------------------------------------------------------------
LEMMA InitScheduleInv == ScheduleInit => ScheduleInv
<1> SUFFICES ASSUME ScheduleInit PROVE ScheduleInv
  BY Zenon
<1>1. 1 \in 1 .. Len(Names)
  BY Numbers
<1>2. \A s \in Schedulers : sched[s] = At("idle", 1) /\ tx[s] = NULL
  BY Zenon, Numbers DEF ScheduleInit, Init
<1>3. At("idle", 1) \in Scheduler /\ ~Owner(At("idle", 1))
      /\ \A s, r : LocalOK(s, At("idle", 1), r, NULL)
  BY Zenon, <1>1, FreshState
<1>4. sched \in [Schedulers -> Scheduler]
  BY Zenon, <1>3 DEF ScheduleInit
<1>5. \A s \in Schedulers : LocalOK(s, sched[s], rows[Name(s)], tx[s])
  BY Zenon, <1>2, <1>3
<1>6. Exclusive
  BY Zenon, <1>2, <1>3 DEF Exclusive
<1>7. made = {} /\ crashes = 0 /\ rows = [d \in Defined |-> NULL] /\ StoreInv
  BY Zenon, InitInv DEF ScheduleInit
<1>8. MadeBeforeCursor /\ OccurrenceEnqueuedOnce /\ CursorIsOccurrence
  BY Zenon, <1>7 DEF MadeBeforeCursor, OccurrenceEnqueuedOnce, CursorIsOccurrence, Visible
<1> QED BY <1>4, <1>5, <1>6, <1>7, <1>8, Numbers DEF ScheduleInv

-----------------------------------------------------------------------------
\* A step of s that commits nothing.
LEMMA LocalStep ==
    ASSUME ScheduleInv, StoreInv', NEW s \in Schedulers, NEW q \in Scheduler,
           sched' = [sched EXCEPT ![s] = q], UNCHANGED <<rows, made>>,
           crashes' \in 0 .. MaxSchedulerFaults,
           \A r \in Schedulers : r # s => tx'[r] = tx[r],
           LocalOK(s, q, rows[Names[q.at]], tx'[s]),
           Owner(q) => \A r \in Schedulers :
                          r # s /\ Owner(sched[r]) => Name(r) # Names[q.at]
    PROVE  ScheduleInv'
<1>1. sched' \in [Schedulers -> Scheduler] /\ sched'[s] = q
      /\ \A r \in Schedulers : r # s => sched'[r] = sched[r]
  BY Zenon DEF ScheduleInv
<1>2. \A r \in Schedulers : LocalOK(r, sched'[r], rows[Names[sched'[r].at]], tx'[r])
  <2> TAKE r \in Schedulers
  <2>1. CASE r = s BY Zenon, <2>1, <1>1
  <2>2. CASE r # s
    BY Zenon, <2>2, <1>1 DEF ScheduleInv, Name
  <2> QED BY Zenon, <2>1, <2>2
<1>3. \A r \in Schedulers : LocalOK(r, sched[r], rows[Name(r)], tx[r])'
  <2> SUFFICES ASSUME NEW r \in Schedulers
               PROVE  LocalOK(r, sched'[r], rows'[Names[sched'[r].at]], tx'[r])
    BY Zenon DEF LocalOK, Name, IsOccurrence
  <2> QED BY Zenon, <1>2
<1>4. Exclusive'
  BY <1>1 DEF ScheduleInv, Exclusive, Owner, Name
<1>5. MadeBeforeCursor' /\ OccurrenceEnqueuedOnce' /\ CursorIsOccurrence'
  BY Zenon DEF ScheduleInv, MadeBeforeCursor, OccurrenceEnqueuedOnce, CursorIsOccurrence,
         Visible, IsOccurrence
<1> QED BY Zenon, <1>1, <1>3, <1>4, <1>5 DEF ScheduleInv

\* A step after which s holds nothing.
LEMMA FreshStep ==
    ASSUME ScheduleInv, StoreInv', NEW s \in Schedulers,
           NEW pc \in {"stopped", "idle", "lock", "exists"}, NEW i \in 1 .. Len(Names),
           sched' = [sched EXCEPT ![s] = At(pc, i)], UNCHANGED <<rows, made>>,
           crashes' \in 0 .. MaxSchedulerFaults, tx'[s] = NULL,
           \A r \in Schedulers : r # s => tx'[r] = tx[r]
    PROVE  ScheduleInv'
<1> DEFINE q == At(pc, i)
<1>1. q \in Scheduler /\ ~Owner(q) /\ LocalOK(s, q, rows[Names[q.at]], tx'[s])
  BY Zenon, FreshState
<1>2. sched' = [sched EXCEPT ![s] = q]
  BY Zenon
<1> HIDE DEF q
<1> QED BY <1>1, <1>2, LocalStep, Zenon

LEMMA Here ==
    ASSUME ScheduleInv, NEW s \in Schedulers
    PROVE  /\ sched[s] \in Scheduler /\ LocalOK(s, sched[s], rows[Name(s)], tx[s])
           /\ sched[s].at \in 1 .. Len(Names)
           /\ Name(s) \in Defined /\ Name(s) \in Keys
           /\ rows[Name(s)] \in ScheduleRow \cup {NULL}
           /\ now \in Nat /\ Code[s] \in Versions
<1>1. sched[s] \in Scheduler /\ LocalOK(s, sched[s], rows[Name(s)], tx[s]) /\ now \in Nat
  BY Zenon DEF ScheduleInv, StoreInv, TypeOK
<1>2. sched[s].at \in 1 .. Len(Names)
  BY Zenon, <1>1 DEF Scheduler
<1>3. Name(s) \in Defined /\ Name(s) \in Keys
  BY Zenon, <1>2, DefinedNames DEF Name
<1> QED BY Zenon, <1>1, <1>2, <1>3, Targets DEF ScheduleInv

LEMMA Transactions ==
    ASSUME ScheduleInv
    PROVE  tx \in [Txs -> Transaction \cup {NULL}] /\ Schedulers \subseteq Txs
  BY Zenon, Numbers DEF ScheduleInv, StoreInv, TypeOK

LEMMA ProceedStep ==
    ASSUME ScheduleInv, StoreInv', NEW s \in Schedulers, Proceed(s), tx'[s] = NULL,
           \A r \in Schedulers : r # s => tx'[r] = tx[r],
           UNCHANGED <<rows, made, crashes>>
    PROVE  ScheduleInv'
<1>1. sched[s].at \in 1 .. Len(Names) /\ crashes' \in 0 .. MaxSchedulerFaults
  BY Zenon, Here DEF ScheduleInv
<1>2. CASE sched[s].at < Len(Names)
  <2>1. sched' = [sched EXCEPT ![s] = At("lock", sched[s].at + 1)]
    BY Zenon, <1>2 DEF Proceed, Set
  <2>2. sched[s].at + 1 \in 1 .. Len(Names)
    BY <1>1, <1>2
  <2> QED BY <2>1, <2>2, <1>1, FreshStep, Zenon
<1>3. CASE ~(sched[s].at < Len(Names))
  <2>1. sched' = [sched EXCEPT ![s] = At("idle", 1)]
    BY Zenon, <1>3 DEF Proceed, Set
  <2>2. 1 \in 1 .. Len(Names)
    BY Numbers
  <2> QED BY <2>1, <2>2, <1>1, FreshStep, Zenon
<1> QED BY Zenon, <1>2, <1>3

\* No other scheduler owns a row that nobody holds.
LEMMA Unowned ==
    ASSUME ScheduleInv, NEW s \in Schedulers, ~Held(Name(s))
    PROVE  \A r \in Schedulers : r # s /\ Owner(sched[r]) => Name(r) # Name(s)
<1> TAKE r \in Schedulers
<1>1. Owner(sched[r]) => InTransaction(r)
  BY Here, OwnerInTransaction, Zenon DEF InTransaction
<1> QED BY <1>1, Zenon DEF Held, Owner

-----------------------------------------------------------------------------
LEMMA LockInv == ASSUME ScheduleInv, StoreInv', NEW s \in Schedulers, Lock(s)
                 PROVE  ScheduleInv'
<1>1. /\ sched[s] \in Scheduler /\ LocalOK(s, sched[s], rows[Name(s)], tx[s])
      /\ rows[Name(s)] \in ScheduleRow \cup {NULL}
      /\ sched[s].pc = "lock" /\ crashes' \in 0 .. MaxSchedulerFaults /\ tx' = tx
      /\ UNCHANGED <<rows, made>>
  BY Zenon, Here DEF Lock, storeVars, ScheduleInv
<1>2. CASE Visible(Name(s)) /\ ~Held(Name(s))
  <2> DEFINE q == [sched[s] EXCEPT !.pc = "evaluate", !.held = rows[Name(s)]]
  <2>1. /\ q \in Scheduler /\ q.pc = "evaluate" /\ q.held = rows[Name(s)]
        /\ q.at = sched[s].at /\ q.inserted = sched[s].inserted /\ q.row = sched[s].row
        /\ q.due = sched[s].due
    BY <1>1, Zenon DEF Scheduler
  <2>2. sched' = [sched EXCEPT ![s] = q]
    BY Zenon, <1>2 DEF Lock, Set
  <2> HIDE DEF q
  <2>3. LocalOK(s, q, rows[Name(s)], tx[s])
    BY <1>1, <1>2, <2>1, LocksRow, Zenon DEF Visible
  <2>4. \A r \in Schedulers : r # s /\ Owner(sched[r]) => Name(r) # Names[q.at]
    BY <1>2, <2>1, Unowned, Zenon DEF Name
  <2> QED BY <1>1, <2>1, <2>2, <2>3, <2>4, LocalStep, Zenon DEF Name
<1>3. CASE ~(Visible(Name(s)) /\ ~Held(Name(s)))
  <2> DEFINE q == [sched[s] EXCEPT !.pc = "exists"]
  <2>1. /\ q \in Scheduler /\ q.pc = "exists" /\ q.held = sched[s].held
        /\ q.at = sched[s].at /\ q.inserted = sched[s].inserted /\ q.row = sched[s].row
        /\ q.due = sched[s].due
    BY Zenon, <1>1 DEF Scheduler
  <2>2. sched' = [sched EXCEPT ![s] = q]
    BY <1>3, Zenon DEF Lock, Set
  <2> HIDE DEF q
  <2>3. LocalOK(s, q, rows[Name(s)], tx[s]) /\ ~Owner(q)
    BY Zenon, <1>1, <2>1, LooksOn
  <2> QED BY <1>1, <2>1, <2>2, <2>3, LocalStep, Zenon DEF Name
<1> QED BY Zenon, <1>2, <1>3

LEMMA ExistsInv == ASSUME ScheduleInv, StoreInv', NEW s \in Schedulers, Exists(s)
                   PROVE  ScheduleInv'
<1>1. /\ sched[s] \in Scheduler /\ LocalOK(s, sched[s], rows[Name(s)], tx[s])
      /\ sched[s].pc = "exists" /\ crashes' \in 0 .. MaxSchedulerFaults /\ tx' = tx
      /\ UNCHANGED <<rows, made>>
  BY Zenon, Here DEF Exists, storeVars, ScheduleInv
<1>2. CASE Visible(Name(s))
  <2>1. tx'[s] = NULL
    BY Zenon, <1>1, NoJobYet
  <2> QED BY <1>1, <1>2, <2>1, ProceedStep, Zenon DEF Exists
<1>3. CASE ~Visible(Name(s))
  <2> DEFINE q == [sched[s] EXCEPT !.pc = "read"]
  <2>1. /\ q \in Scheduler /\ q.pc = "read" /\ q.held = sched[s].held
        /\ q.at = sched[s].at /\ q.inserted = sched[s].inserted /\ q.row = sched[s].row
        /\ q.due = sched[s].due
    BY Zenon, <1>1 DEF Scheduler
  <2>2. sched' = [sched EXCEPT ![s] = q]
    BY Zenon, <1>3 DEF Exists, Set
  <2> HIDE DEF q
  <2>3. LocalOK(s, q, rows[Name(s)], tx[s]) /\ ~Owner(q)
    BY Zenon, <1>1, <2>1, LooksOn
  <2> QED BY <1>1, <2>1, <2>2, <2>3, LocalStep, Zenon DEF Name
<1> QED BY Zenon, <1>2, <1>3

LEMMA ReadClockInv == ASSUME ScheduleInv, StoreInv', NEW s \in Schedulers, ReadClock(s)
                      PROVE  ScheduleInv'
<1>1. /\ sched[s] \in Scheduler /\ LocalOK(s, sched[s], rows[Name(s)], tx[s])
      /\ sched[s].pc = "read" /\ crashes' \in 0 .. MaxSchedulerFaults /\ tx' = tx
      /\ now \in Nat /\ Code[s] \in Versions
      /\ UNCHANGED <<rows, made>>
  BY Zenon, Here DEF ReadClock, storeVars, ScheduleInv
<1> DEFINE row(o) == [version |-> Code[s], next_run_at |-> o,
                      last_evaluated_at |-> NULL, last_occurrence_at |-> NULL,
                      last_outcome |-> NULL]
<1> DEFINE q(o) == [sched[s] EXCEPT !.pc = "insert", !.row = row(o)]
<1>2. PICK o \in 0 .. now \cup Horizon(now) :
         /\ IsFirstCursor(Code[s], Name(s), now, o)
         /\ sched' = [sched EXCEPT ![s] = q(o)]
  BY Zenon DEF ReadClock, Set
<1>3. o \in Nat
  BY <1>1, <1>2, Numbers DEF Horizon
<1>4. IsOccurrence(Code[s], Name(s), o)
  BY Zenon, <1>2 DEF IsFirstCursor, IsNextAfter
<1>5. row(o) \in ScheduleRow /\ row(o).version = Code[s] /\ row(o).next_run_at = o
  BY Zenon, <1>1, <1>3 DEF ScheduleRow
<1> HIDE DEF row
<1>6. /\ q(o) \in Scheduler /\ q(o).pc = "insert" /\ q(o).held = sched[s].held
      /\ q(o).at = sched[s].at /\ q(o).inserted = sched[s].inserted
      /\ q(o).row = row(o) /\ q(o).due = sched[s].due
  BY <1>1, <1>5, Zenon DEF Scheduler
<1> HIDE DEF q
<1>7. row(o) # NULL /\ Names[q(o).at] = Name(s)
  BY <1>5, <1>6, Numbers, Zenon DEF Name
<1>8. LocalOK(s, q(o), rows[Name(s)], tx[s]) /\ ~Owner(q(o))
  BY <1>1, <1>4, <1>5, <1>6, <1>7, PreparesRow, Zenon
<1> QED BY <1>1, <1>2, <1>6, <1>7, <1>8, LocalStep, Zenon

LEMMA InsertInv == ASSUME ScheduleInv, StoreInv', NEW s \in Schedulers, Insert(s)
                   PROVE  ScheduleInv'
<1>1. /\ sched[s] \in Scheduler /\ LocalOK(s, sched[s], rows[Name(s)], tx[s])
      /\ sched[s].pc = "insert" /\ crashes' \in 0 .. MaxSchedulerFaults /\ tx' = tx
      /\ UNCHANGED <<rows, made>>
  BY Zenon, Here DEF Insert, storeVars, ScheduleInv
<1>2. CASE Visible(Name(s))
  <2> DEFINE q == [sched[s] EXCEPT !.pc = "relock", !.row = NULL]
  <2>1. /\ q \in Scheduler /\ q.pc = "relock" /\ q.held = sched[s].held
        /\ q.at = sched[s].at /\ q.inserted = sched[s].inserted /\ q.row = NULL
        /\ q.due = sched[s].due
    BY <1>1, Zenon DEF Scheduler
  <2>2. sched' = [sched EXCEPT ![s] = q]
    BY Zenon, <1>2 DEF Insert, Set
  <2> HIDE DEF q
  <2>3. LocalOK(s, q, rows[Name(s)], tx[s]) /\ ~Owner(q)
    BY <1>1, <1>2, <2>1, FindsRow, Zenon DEF Visible
  <2> QED BY <1>1, <2>1, <2>2, <2>3, LocalStep, Zenon DEF Name
<1>3. CASE ~Visible(Name(s))
  <2> DEFINE q == [sched[s] EXCEPT !.pc = "relock", !.inserted = TRUE]
  <2>1. /\ q \in Scheduler /\ q.pc = "relock" /\ q.held = sched[s].held
        /\ q.at = sched[s].at /\ q.inserted = TRUE /\ q.row = sched[s].row
        /\ q.due = sched[s].due
    BY <1>1, Zenon DEF Scheduler
  <2>2. sched' = [sched EXCEPT ![s] = q]
    BY Zenon, <1>3 DEF Insert, Set
  <2> HIDE DEF q
  <2>3. LocalOK(s, q, rows[Name(s)], tx[s])
    BY <1>1, <1>3, <2>1, InsertsRow, Zenon DEF Visible
  <2>4. ASSUME NEW r \in Schedulers, Owner(sched[r]) PROVE Name(r) # Name(s)
    <3>1. LocalOK(r, sched[r], rows[Name(r)], tx[r])
      BY Zenon, Here
    <3>2. InTransaction(r) /\ (sched[r].inserted \/ rows[Name(r)] # NULL)
      BY <3>1, <2>4, OwnerInTransaction, Zenon DEF InTransaction
    <3> QED BY <3>2, <1>3, Zenon DEF Insert, Visible
  <2>5. \A r \in Schedulers : r # s /\ Owner(sched[r]) => Name(r) # Names[q.at]
    BY <2>1, <2>4, Zenon DEF Name
  <2> QED BY <1>1, <2>1, <2>2, <2>3, <2>5, LocalStep, Zenon DEF Name
<1> QED BY Zenon, <1>2, <1>3

LEMMA RelockInv == ASSUME ScheduleInv, StoreInv', NEW s \in Schedulers, Relock(s)
                   PROVE  ScheduleInv'
<1>1. /\ sched[s] \in Scheduler /\ LocalOK(s, sched[s], rows[Name(s)], tx[s])
      /\ rows[Name(s)] \in ScheduleRow \cup {NULL}
      /\ sched[s].pc = "relock" /\ crashes' \in 0 .. MaxSchedulerFaults /\ tx' = tx
      /\ UNCHANGED <<rows, made>>
  BY Zenon, Here DEF Relock, storeVars, ScheduleInv
<1> DEFINE q(h) == [sched[s] EXCEPT !.pc = "evaluate", !.held = h]
<1>2. ASSUME NEW h \in ScheduleRow \cup {NULL}, sched' = [sched EXCEPT ![s] = q(h)],
             h = IF sched[s].inserted THEN sched[s].row ELSE rows[Name(s)],
             \A r \in Schedulers : r # s /\ Owner(sched[r]) => Name(r) # Name(s)
      PROVE  ScheduleInv'
  <2> DEFINE e == q(h)
  <2>1. /\ e \in Scheduler /\ e.pc = "evaluate" /\ e.held = h /\ e.at = sched[s].at
        /\ e.inserted = sched[s].inserted /\ e.row = sched[s].row /\ e.due = sched[s].due
    BY <1>1, Zenon DEF Scheduler
  <2>2. sched' = [sched EXCEPT ![s] = e]
    BY Zenon, <1>2
  <2> HIDE DEF e
  <2>3. LocalOK(s, e, rows[Name(s)], tx[s])
    BY <1>1, <1>2, <2>1, RelocksRow, Zenon
  <2>4. \A r \in Schedulers : r # s /\ Owner(sched[r]) => Name(r) # Names[e.at]
    BY <1>2, <2>1, Zenon DEF Name
  <2> QED BY <1>1, <2>1, <2>2, <2>3, <2>4, LocalStep, Zenon DEF Name
<1>3. CASE sched[s].inserted
  <2>1. sched[s].row \in ScheduleRow \cup {NULL}
    BY Zenon, <1>1 DEF Scheduler
  <2>2. sched' = [sched EXCEPT ![s] = q(sched[s].row)]
    BY <1>3, Zenon DEF Relock, Set
  <2>3. \A r \in Schedulers : r # s /\ Owner(sched[r]) => Name(r) # Name(s)
    BY <1>3, Zenon DEF Owner, ScheduleInv, Exclusive
  <2> HIDE DEF q
  <2> QED BY <1>2, <1>3, <2>1, <2>2, <2>3, Zenon
<1>4. CASE ~sched[s].inserted /\ ~Held(Name(s))
  <2>1. sched' = [sched EXCEPT ![s] = q(rows[Name(s)])]
    BY <1>4, Zenon DEF Relock, Set
  <2> HIDE DEF q
  <2> QED BY <1>1, <1>2, <1>4, <2>1, Unowned, Zenon
<1>5. CASE ~sched[s].inserted /\ Held(Name(s))
  <2>1. tx'[s] = NULL
    BY Zenon, <1>1, NoJobYet
  <2> QED BY <1>1, <1>5, <2>1, ProceedStep, Zenon DEF Relock
<1> QED BY Zenon, <1>3, <1>4, <1>5

\* The owner of a row stays its only owner.
LEMMA StillExclusive ==
    ASSUME ScheduleInv, NEW s \in Schedulers, Owner(sched[s])
    PROVE  \A r \in Schedulers : r # s /\ Owner(sched[r]) => Name(r) # Names[sched[s].at]
  BY Zenon DEF ScheduleInv, Exclusive, Name

LEMMA EvaluateInv == ASSUME ScheduleInv, StoreInv', NEW s \in Schedulers, Evaluate(s)
                     PROVE  ScheduleInv'
<1>1. /\ sched[s] \in Scheduler /\ LocalOK(s, sched[s], rows[Name(s)], tx[s])
      /\ sched[s].pc = "evaluate" /\ crashes' \in 0 .. MaxSchedulerFaults /\ tx' = tx
      /\ now \in Nat /\ sched[s].held.version = Code[s]
      /\ UNCHANGED <<rows, made>>
  BY Here, Zenon DEF Evaluate, storeVars, ScheduleInv
<1>2. /\ sched[s].held \in ScheduleRow /\ sched[s].held # NULL /\ Owner(sched[s])
      /\ sched[s].held.next_run_at \in Nat /\ sched[s].due = NULL
  BY Zenon, <1>1 DEF LocalOK, Scheduler, ScheduleRow, Owner
<1>3. CASE sched' = [sched EXCEPT ![s] = [sched[s] EXCEPT !.pc = "commit"]]
  <2> DEFINE q == [sched[s] EXCEPT !.pc = "commit"]
  <2>1. /\ q \in Scheduler /\ q.pc = "commit" /\ q.held = sched[s].held
        /\ q.at = sched[s].at /\ q.inserted = sched[s].inserted /\ q.row = sched[s].row
        /\ q.due = sched[s].due
    BY Zenon, <1>1 DEF Scheduler
  <2>2. sched' = [sched EXCEPT ![s] = q]
    BY Zenon, <1>3
  <2> HIDE DEF q
  <2>3. LocalOK(s, q, rows[Name(s)], tx[s])
    BY <1>1, <1>2, <2>1, NotDue, Zenon
  <2>4. \A r \in Schedulers : r # s /\ Owner(sched[r]) => Name(r) # Names[q.at]
    BY <1>2, <2>1, StillExclusive, Zenon
  <2> QED BY <1>1, <2>1, <2>2, <2>3, <2>4, LocalStep, Zenon DEF Name
<1>4. ASSUME NEW due \in 0 .. now \cup {NULL},
             sched[s].held.next_run_at <= now,
             IsLatest(Code[s], Name(s), WindowStart(sched[s].held, now), now, due),
             sched' = [sched EXCEPT ![s] =
                         [sched[s] EXCEPT !.pc = IF due = NULL THEN "advance" ELSE "dispatch",
                                          !.due = due, !.clock = now]]
      PROVE  ScheduleInv'
  <2> DEFINE to == IF due = NULL THEN "advance" ELSE "dispatch"
  <2> DEFINE q == [sched[s] EXCEPT !.pc = to, !.due = due, !.clock = now]
  <2>0. to \in {"advance", "dispatch"} /\ due \in Nat \cup {NULL}
        /\ (due = NULL => to = "advance") /\ (due # NULL => to = "dispatch")
    BY <1>1, <1>4
  <2>2. sched' = [sched EXCEPT ![s] = q]
    BY Zenon, <1>4
  <2> HIDE DEF to
  <2>1. /\ q \in Scheduler /\ q.pc = to
        /\ q.held = sched[s].held
        /\ q.at = sched[s].at /\ q.inserted = sched[s].inserted /\ q.row = sched[s].row
        /\ q.due = due /\ q.clock = now
    BY <1>1, <2>0, Zenon DEF Scheduler
  <2> HIDE DEF q
  <2>3. due # NULL => sched[s].held.next_run_at <= due /\ due <= now
    <3>1. due # NULL => due \in WindowStart(sched[s].held, now) .. now
      BY <1>4, Zenon DEF IsLatest
    <3>2. WindowStart(sched[s].held, now) \in Int
          /\ sched[s].held.next_run_at <= WindowStart(sched[s].held, now)
      BY <1>1, <1>2, Numbers DEF WindowStart
    <3> QED BY <3>1, <3>2, <1>1, <1>2, <1>4
  <2>4. LocalOK(s, q, rows[Name(s)], tx[s])
    <3>1. q.pc = IF q.due = NULL THEN "advance" ELSE "dispatch"
      BY <2>0, <2>1, Zenon
    <3> QED BY <1>1, <1>4, <2>1, <2>3, <3>1, FindsDue, Zenon
  <2>5. \A r \in Schedulers : r # s /\ Owner(sched[r]) => Name(r) # Names[q.at]
    BY <1>2, <2>1, StillExclusive, Zenon
  <2> QED BY <1>1, <2>1, <2>2, <2>4, <2>5, LocalStep, Zenon DEF Name
<1> QED BY <1>3, <1>4, Zenon DEF Evaluate, Set

LEMMA DispatchInv == ASSUME ScheduleInv, StoreInv', NEW s \in Schedulers, DispatchDue(s)
                     PROVE  ScheduleInv'
<1>1. /\ sched[s] \in Scheduler /\ LocalOK(s, sched[s], rows[Name(s)], tx[s])
      /\ sched[s].pc = "dispatch" /\ crashes' \in 0 .. MaxSchedulerFaults
      /\ UNCHANGED <<rows, made>>
  BY Zenon, Here DEF DispatchDue, ScheduleInv
<1>2. \A r \in Schedulers : r # s => tx'[r] = tx[r]
  BY Transactions DEF DispatchDue, Enqueue
<1> DEFINE q == [sched[s] EXCEPT !.pc = "advance"]
<1>3. /\ q \in Scheduler /\ q.pc = "advance" /\ q.held = sched[s].held
      /\ q.at = sched[s].at /\ q.inserted = sched[s].inserted /\ q.row = sched[s].row
      /\ q.due = sched[s].due /\ q.clock = sched[s].clock
  BY Zenon, <1>1 DEF Scheduler
<1>4. sched' = [sched EXCEPT ![s] = q]
  BY Zenon DEF DispatchDue, Set
<1> HIDE DEF q
<1>5. LocalOK(s, q, rows[Name(s)], tx'[s]) /\ Owner(sched[s])
  BY <1>1, <1>3, Dispatches, Zenon
<1>6. \A r \in Schedulers : r # s /\ Owner(sched[r]) => Name(r) # Names[q.at]
  BY <1>3, <1>5, StillExclusive, Zenon
<1> QED BY <1>1, <1>2, <1>3, <1>4, <1>5, <1>6, LocalStep, Zenon DEF Name

LEMMA AdvanceInv == ASSUME ScheduleInv, StoreInv', NEW s \in Schedulers, Advance(s)
                    PROVE  ScheduleInv'
<1>1. /\ sched[s] \in Scheduler /\ LocalOK(s, sched[s], rows[Name(s)], tx[s])
      /\ sched[s].pc = "advance" /\ crashes' \in 0 .. MaxSchedulerFaults /\ tx' = tx
      /\ Code[s] \in Versions
      /\ UNCHANGED <<rows, made>>
  BY Here, Zenon DEF Advance, storeVars, ScheduleInv
<1>2. /\ sched[s].held \in ScheduleRow /\ sched[s].held # NULL /\ Owner(sched[s])
      /\ sched[s].held.next_run_at \in Nat /\ sched[s].held.version = Code[s]
      /\ sched[s].clock \in Nat /\ sched[s].due \in Nat \cup {NULL}
  BY Zenon, <1>1 DEF LocalOK, Scheduler, ScheduleRow, Owner
<1> DEFINE row(n) == AdvancedRow(s, n)
<1> DEFINE q(n) == [sched[s] EXCEPT !.pc = "commit", !.row = row(n)]
<1>3. PICK n \in Horizon(sched[s].clock) :
         /\ IsNextAfter(Code[s], Name(s), sched[s].clock, n)
         /\ sched' = [sched EXCEPT ![s] = q(n)]
  BY Zenon DEF Advance, Set
<1>4. n \in Nat /\ n > sched[s].clock /\ IsOccurrence(Code[s], Name(s), n)
  BY <1>2, <1>3, Numbers DEF Horizon, IsNextAfter
<1>5. row(n) \in ScheduleRow /\ row(n).version = Code[s] /\ row(n).next_run_at = n
  BY Zenon, <1>1, <1>2, <1>4 DEF ScheduleRow, AdvancedRow, Outcomes
<1> HIDE DEF row
<1>6. /\ q(n) \in Scheduler /\ q(n).pc = "commit" /\ q(n).held = sched[s].held
      /\ q(n).at = sched[s].at /\ q(n).inserted = sched[s].inserted
      /\ q(n).row = row(n) /\ q(n).due = sched[s].due /\ q(n).clock = sched[s].clock
  BY <1>1, <1>5, Zenon DEF Scheduler
<1> HIDE DEF q
<1>7. sched[s].clock < n /\ Names[q(n).at] = Name(s)
  BY Zenon, <1>2, <1>4, <1>6 DEF Name
<1>8. LocalOK(s, q(n), rows[Name(s)], tx[s])
  BY <1>1, <1>2, <1>4, <1>5, <1>6, <1>7, Advances, Zenon
<1>9. \A r \in Schedulers : r # s /\ Owner(sched[r]) => Name(r) # Names[q(n).at]
  BY <1>2, <1>6, StillExclusive, Zenon
<1> QED BY <1>1, <1>3, <1>6, <1>7, <1>8, <1>9, LocalStep, Zenon

\* What the commit of s leaves of the tables.
LEMMA CommittedRows ==
    ASSUME ScheduleInv, StoreInv', NEW s \in Schedulers, sched[s].pc = "commit", CommitRows(s)
    PROVE  /\ tx'[s] = NULL /\ \A r \in Schedulers : r # s => tx'[r] = tx[r]
           /\ rows' \in [Defined -> ScheduleRow \cup {NULL}]
           /\ \A d \in Defined : d # Name(s) => rows'[d] = rows[d]
           /\ sched[s].row = NULL => rows'[Name(s)] = rows[Name(s)]
           /\ sched[s].row # NULL => rows'[Name(s)] = sched[s].row
<1>1. /\ sched[s] \in Scheduler /\ Name(s) \in Defined
  BY Zenon, Here
<1>2. sched[s].row \in ScheduleRow \cup {NULL}
  BY Zenon, <1>1 DEF Scheduler
<1>3. tx'[s] = NULL /\ \A r \in Schedulers : r # s => tx'[r] = tx[r]
  BY Transactions, Zenon DEF CommitRows, Commit, storeVars
<1>4. rows \in [Defined -> ScheduleRow \cup {NULL}]
      /\ rows' = IF sched[s].row # NULL THEN [rows EXCEPT ![Name(s)] = sched[s].row] ELSE rows
  BY Zenon DEF ScheduleInv, CommitRows
<1> QED BY Zenon, <1>1, <1>2, <1>3, <1>4

\* A commit moves the cursor past what it enqueues.
LEMMA CommitStepInv ==
    ASSUME ScheduleInv, StoreInv', NEW s \in Schedulers, sched[s].pc = "commit", CommitRows(s),
           NEW pc \in {"stopped", "idle", "lock", "exists"}, NEW i \in 1 .. Len(Names),
           sched' = [sched EXCEPT ![s] = At(pc, i)], crashes' \in 0 .. MaxSchedulerFaults
    PROVE  ScheduleInv'
<1> DEFINE p == sched[s]
<1>1. /\ p \in Scheduler /\ LocalOK(s, p, rows[Name(s)], tx[s]) /\ Name(s) \in Defined
      /\ Names[p.at] = Name(s) /\ p.held # NULL /\ Owner(p)
  BY Here, ReadyToCommit, Zenon DEF Name
<1>2. /\ rows[Name(s)] # NULL => rows[Name(s)] = p.held
      /\ p.row # NULL => /\ IsOccurrence(p.row.version, Name(s), p.row.next_run_at)
                         /\ p.held.next_run_at <= p.row.next_run_at
      /\ p.due # NULL => /\ p.row # NULL /\ p.due < p.row.next_run_at
                         /\ p.held.next_run_at <= p.due
      /\ tx[s] # NULL => p.due # NULL
  BY <1>1, ReadyToCommit
<1>3. /\ p.held \in ScheduleRow /\ p.held.next_run_at \in Nat
      /\ p.row \in ScheduleRow \cup {NULL} /\ p.due \in Nat \cup {NULL}
      /\ (p.row # NULL => p.row.next_run_at \in Nat)
  BY Zenon, <1>1 DEF Scheduler, ScheduleRow
<1>4. /\ tx'[s] = NULL /\ \A r \in Schedulers : r # s => tx'[r] = tx[r]
      /\ rows' \in [Defined -> ScheduleRow \cup {NULL}]
      /\ \A d \in Defined : d # Name(s) => rows'[d] = rows[d]
      /\ p.row = NULL => rows'[Name(s)] = rows[Name(s)]
      /\ p.row # NULL => rows'[Name(s)] = p.row
  BY Zenon, CommittedRows
<1>5. At(pc, i) \in Scheduler /\ ~Owner(At(pc, i)) /\ \A a, r : LocalOK(a, At(pc, i), r, NULL)
  BY Zenon, FreshState
<1>6. sched' \in [Schedulers -> Scheduler] /\ sched'[s] = At(pc, i)
      /\ \A r \in Schedulers : r # s => sched'[r] = sched[r]
  BY <1>5, Zenon DEF ScheduleInv
<1>7. \A r \in Schedulers : LocalOK(r, sched[r], rows[Name(r)], tx[r])'
  <2> SUFFICES ASSUME NEW r \in Schedulers
               PROVE  LocalOK(r, sched'[r], rows'[Names[sched'[r].at]], tx'[r])
    BY Zenon DEF LocalOK, Name, IsOccurrence
  <2>1. CASE r = s
    BY <2>1, <1>4, <1>5, <1>6, Zenon
  <2>2. CASE r # s
    <3>1. sched'[r] = sched[r] /\ tx'[r] = tx[r] /\ Names[sched'[r].at] = Name(r)
      BY <2>2, <1>4, <1>6, Zenon DEF Name
    <3>2. LocalOK(r, sched[r], rows[Name(r)], tx[r]) /\ Name(r) \in Defined
      BY Here, Zenon
    <3>3. CASE rows'[Name(r)] = rows[Name(r)]
      BY Zenon, <3>1, <3>2, <3>3
    <3>4. CASE rows'[Name(r)] # rows[Name(r)]
      <4>1. Name(r) = Name(s) /\ p.row # NULL /\ rows'[Name(r)] = p.row
        BY <3>2, <3>4, <1>4, Zenon
      <4>2. ~Owner(sched[r])
        BY <4>1, <2>2, <1>1, Zenon DEF ScheduleInv, Exclusive
      <4> QED BY <4>1, <4>2, <3>1, <3>2, OthersRow, Zenon
    <3> QED BY <3>3, <3>4, Zenon
  <2> QED BY Zenon, <2>1, <2>2
<1>8. Exclusive'
  BY <1>5, <1>6 DEF ScheduleInv, Exclusive, Owner, Name
<1>9. CursorIsOccurrence'
  <2> SUFFICES ASSUME NEW d \in Defined, rows'[d] # NULL
               PROVE  IsOccurrence(rows'[d].version, d, rows'[d].next_run_at)
    BY Zenon DEF CursorIsOccurrence, Visible, IsOccurrence
  <2>1. CASE rows'[d] = rows[d]
    BY Zenon, <2>1 DEF ScheduleInv, CursorIsOccurrence, Visible
  <2>2. CASE rows'[d] # rows[d]
    BY <2>2, <1>2, <1>4, Zenon
  <2> QED BY Zenon, <2>1, <2>2
\* The cursor does not go back.
<1>10. \A d \in Defined : rows[d] # NULL =>
         rows'[d] # NULL /\ rows[d].next_run_at <= rows'[d].next_run_at
  <2> SUFFICES ASSUME NEW d \in Defined, rows[d] # NULL
               PROVE  rows'[d] # NULL /\ rows[d].next_run_at <= rows'[d].next_run_at
    BY Zenon
  <2>1. rows[d] \in ScheduleRow /\ rows[d].next_run_at \in Nat
    BY Zenon DEF ScheduleInv, ScheduleRow
  <2>2. CASE rows'[d] = rows[d]
    BY <2>1, <2>2
  <2>3. CASE rows'[d] # rows[d]
    <3>1. d = Name(s) /\ p.row # NULL /\ rows'[d] = p.row
      BY Zenon, <2>3, <1>4
    <3>2. rows[d] = p.held
      BY <3>1, <1>2, Zenon
    <3> QED BY <3>1, <3>2, <1>2, Zenon
  <2> QED BY Zenon, <2>2, <2>3
<1>11. \A a \in made : /\ a.name \in Defined /\ a.at \in Nat
                        /\ rows[a.name] # NULL /\ a.at < rows[a.name].next_run_at
                        /\ rows[a.name].next_run_at \in Nat
  BY Zenon DEF ScheduleInv, MadeBeforeCursor, ScheduleRow
<1>12. \A a \in made : rows'[a.name] # NULL /\ a.at < rows'[a.name].next_run_at
  <2> TAKE a \in made
  <2>1. rows'[a.name] # NULL /\ rows[a.name].next_run_at <= rows'[a.name].next_run_at
    BY Zenon, <1>10, <1>11
  <2>2. rows'[a.name] \in ScheduleRow
    BY <2>1, <1>4, <1>11
  <2>3. rows'[a.name].next_run_at \in Nat
    BY Zenon, <2>2 DEF ScheduleRow
  <2> QED BY <2>1, <2>3, <1>11
<1>13. CASE ~Inserting(s)
  <2>1. made' = made
    BY <1>13, Zenon DEF CommitRows
  <2>2. MadeBeforeCursor' /\ OccurrenceEnqueuedOnce'
    BY Zenon, <2>1, <1>12 DEF ScheduleInv, MadeBeforeCursor, OccurrenceEnqueuedOnce
  <2>3. made' \subseteq [name : Defined, at : Nat, job : Ids]
    BY <2>1, Zenon DEF ScheduleInv
  <2> QED BY <2>2, <2>3, <1>4, <1>6, <1>7, <1>8, <1>9, Zenon DEF ScheduleInv
<1>14. CASE Inserting(s)
  <2> DEFINE b == [name |-> Name(s), at |-> p.due, job |-> tx[s].id]
  <2>1. made' = made \cup {b}
    BY <1>14, Zenon DEF CommitRows
  <2>2. /\ p.due # NULL /\ p.due \in Nat /\ p.row # NULL /\ p.due < p.row.next_run_at
        /\ p.held.next_run_at <= p.due /\ rows'[Name(s)] = p.row
    BY <1>14, <1>2, <1>3, <1>4, Zenon DEF Inserting
  <2>3. tx[s].id \in Ids
    BY Zenon, <1>14, Transactions DEF Inserting, Transaction
  <2>4. b \in [name : Defined, at : Nat, job : Ids] /\ b.name = Name(s) /\ b.at = p.due
    BY <2>2, <2>3, <1>1, Zenon
  <2> HIDE DEF b
  <2>5. MadeBeforeCursor'
    BY Zenon, <2>1, <2>2, <2>4, <1>12 DEF MadeBeforeCursor
  <2>6. \A a \in made : ~(a.name = b.name /\ a.at = b.at)
    <3> SUFFICES ASSUME NEW a \in made, a.name = Name(s), a.at = p.due PROVE FALSE
      BY Zenon, <2>4
    <3>1. rows[Name(s)] # NULL /\ p.due < rows[Name(s)].next_run_at
      BY Zenon, <1>11
    <3>2. rows[Name(s)] = p.held
      BY <3>1, <1>2, Zenon
    <3> QED BY <3>1, <3>2, <2>2, <1>3
  <2>7. OccurrenceEnqueuedOnce'
    BY <2>1, <2>6 DEF ScheduleInv, OccurrenceEnqueuedOnce
  <2>8. made' \subseteq [name : Defined, at : Nat, job : Ids]
    BY Zenon, <2>1, <2>4 DEF ScheduleInv
  <2> QED BY <2>5, <2>7, <2>8, <1>4, <1>6, <1>7, <1>8, <1>9, Zenon DEF ScheduleInv
<1> QED BY Zenon, <1>13, <1>14

-----------------------------------------------------------------------------
\* Every step is a step of the store, or leaves it alone.
LEMMA ScheduleStepUsesStore ==
    ASSUME ScheduleInv, ScheduleNext
    PROVE  Next \/ UNCHANGED storeVars
<1>1. CASE Queue
  BY Zenon, <1>1 DEF Queue, Next
<1>2. ASSUME NEW s \in Schedulers, DispatchDue(s) PROVE Next
  <2>1. s \in Txs /\ Name(s) \in Keys /\ Target[Code[s]][Name(s)] \in Routes /\ now \in Nat
    BY Zenon, Numbers, Here, Targets
  <2>2. PICK id \in Ids, pr \in Priorities, m \in Budgets, t \in Clocks :
           Enqueue(s, id, NewRow(Target[Code[s]][Name(s)], pr, Name(s), m, t))
    BY Zenon, <1>2 DEF DispatchDue
  <2>3. t \in {t + d : d \in Delays} \cup Ats
    BY <2>1, Numbers, ClocksPast
  <2> QED BY Zenon, <2>1, <2>2, <2>3 DEF Next, Dispatch
<1>3. ASSUME NEW s \in Schedulers, CommitRows(s) PROVE Next \/ UNCHANGED storeVars
  BY Zenon, <1>3, Numbers DEF CommitRows, Next, EndTransaction
<1>4. ASSUME NEW s \in Schedulers, Abort(s) PROVE Next \/ UNCHANGED storeVars
  BY Zenon, <1>4, Numbers DEF Abort, Next, EndTransaction
<1>5. ASSUME NEW s \in Schedulers, SchedulerStep(s) PROVE Next \/ UNCHANGED storeVars
  BY <1>5, <1>2, <1>3, Zenon DEF SchedulerStep, Poll, Lock, Exists, ReadClock, Insert, Relock,
     Evaluate, DefinitionConflict, Advance, Finish, Restart
<1> QED BY Zenon, <1>1, <1>3, <1>4, <1>5 DEF ScheduleNext, CommitUncertain

LEMMA FinishInv ==
    ASSUME ScheduleInv, StoreInv', NEW s \in Schedulers, Finish(s)
    PROVE  ScheduleInv'
<1>1. sched[s].at \in 1 .. Len(Names) /\ crashes' \in 0 .. MaxSchedulerFaults
      /\ sched[s].pc = "commit" /\ CommitRows(s) /\ Proceed(s)
  BY Here, Zenon DEF ScheduleInv, Finish
<1>2. CASE sched[s].at < Len(Names)
  <2>1. sched' = [sched EXCEPT ![s] = At("lock", sched[s].at + 1)]
    BY Zenon, <1>1, <1>2 DEF Proceed, Set
  <2>2. sched[s].at + 1 \in 1 .. Len(Names)
    BY <1>1, <1>2
  <2> QED BY <2>1, <2>2, <1>1, CommitStepInv, Zenon
<1>3. CASE ~(sched[s].at < Len(Names))
  <2>1. sched' = [sched EXCEPT ![s] = At("idle", 1)]
    BY Zenon, <1>1, <1>3 DEF Proceed, Set
  <2>2. 1 \in 1 .. Len(Names)
    BY Numbers
  <2> QED BY <2>1, <2>2, <1>1, CommitStepInv, Zenon
<1> QED BY Zenon, <1>2, <1>3

LEMMA FaultInv ==
    ASSUME ScheduleInv, StoreInv', NEW s \in Schedulers, CommitUncertain(s) \/ Abort(s)
    PROVE  ScheduleInv'
<1>1. sched' = [sched EXCEPT ![s] = At("stopped", 1)] /\ 1 \in 1 .. Len(Names)
  BY Numbers DEF CommitUncertain, Abort, Set
<1>2. crashes' \in 0 .. MaxSchedulerFaults
  BY Numbers DEF CommitUncertain, Abort, SchedulerFault, ScheduleInv
<1>3. CASE CommitUncertain(s)
  BY <1>1, <1>2, <1>3, CommitStepInv, Zenon DEF CommitUncertain
<1>4. CASE Abort(s)
  <2>1. tx'[s] = NULL /\ \A r \in Schedulers : r # s => tx'[r] = tx[r]
    BY Zenon, <1>4, Transactions DEF Abort, Rollback, storeVars
  <2> QED BY <2>1, <1>1, <1>2, <1>4, FreshStep, Zenon DEF Abort
<1> QED BY Zenon, <1>3, <1>4

LEMMA PollInv ==
    ASSUME ScheduleInv, StoreInv', NEW s \in Schedulers,
           Poll(s) \/ DefinitionConflict(s) \/ Restart(s)
    PROVE  ScheduleInv'
<1>1. /\ UNCHANGED <<storeVars, rows, made, crashes>>
      /\ sched[s].pc \in {"idle", "evaluate", "stopped"}
  BY Zenon DEF Poll, DefinitionConflict, Restart
<1>2. 1 \in 1 .. Len(Names) /\ crashes' \in 0 .. MaxSchedulerFaults /\ tx' = tx
  BY <1>1, Numbers DEF storeVars, ScheduleInv
<1>3. tx'[s] = NULL
  BY <1>1, <1>2, Here, NoJobYet, Zenon
<1>4. PICK pc \in {"stopped", "idle", "lock", "exists"} : sched' = [sched EXCEPT ![s] = At(pc, 1)]
  BY Zenon DEF Poll, DefinitionConflict, Restart, Set
<1> QED BY <1>1, <1>2, <1>3, <1>4, FreshStep, Zenon

\* The queue does not touch the transactions of the schedulers.
LEMMA QueueInv == ASSUME ScheduleInv, StoreInv', UNCHANGED <<tx, rows, sched, made, crashes>>
                  PROVE  ScheduleInv'
<1>1. \A s \in Schedulers : LocalOK(s, sched[s], rows[Name(s)], tx[s])'
  <2> SUFFICES ASSUME NEW s \in Schedulers
               PROVE  LocalOK(s, sched'[s], rows'[Names[sched'[s].at]], tx'[s])
    BY Zenon DEF LocalOK, Name, IsOccurrence
  <2> QED BY Zenon DEF ScheduleInv, Name
<1>2. Exclusive'
  BY Zenon DEF ScheduleInv, Exclusive, Owner, Name
<1>3. MadeBeforeCursor' /\ OccurrenceEnqueuedOnce' /\ CursorIsOccurrence'
  BY Zenon DEF ScheduleInv, MadeBeforeCursor, OccurrenceEnqueuedOnce, CursorIsOccurrence,
         Visible, IsOccurrence
<1> QED BY Zenon, <1>1, <1>2, <1>3 DEF ScheduleInv

LEMMA QueueKeepsTransactions == Queue => UNCHANGED <<tx, rows, sched, made, crashes>>
<1>1. ClaimSome \/ Holder \/ Sweep \/ Operator \/ Tick => UNCHANGED tx
  BY Zenon DEF ClaimSome, Claim, Holder, Heartbeat, Ack, Retry, Release, Fail, Bury, NotOwned,
         Sweep, FailExhausted, Operator, RetryFailed, ForgetFailed, Tick, storeVars
<1> QED BY Zenon, <1>1 DEF Queue

LEMMA NextScheduleInv == ASSUME ScheduleInv, [ScheduleNext]_scheduleVars PROVE ScheduleInv'
<1>1. StoreInv'
  BY Zenon, ScheduleStepUsesStore, NextInv DEF ScheduleInv, scheduleVars
<1>2. CASE UNCHANGED scheduleVars
  BY Zenon, <1>1, <1>2, QueueInv DEF scheduleVars, storeVars
<1>3. CASE Queue
  BY Zenon, <1>1, <1>3, QueueInv, QueueKeepsTransactions
<1>4. ASSUME NEW s \in Schedulers, SchedulerStep(s) PROVE ScheduleInv'
  BY Zenon, <1>1, <1>4, PollInv, LockInv, ExistsInv, ReadClockInv, InsertInv, RelockInv,
     EvaluateInv, DispatchInv, AdvanceInv, FinishInv DEF SchedulerStep
<1> QED BY Zenon, <1>1, <1>2, <1>3, <1>4, FaultInv DEF ScheduleNext

-----------------------------------------------------------------------------
\* The row lock of Materialize: what a scheduler read of a schedule stays true
\* until its transaction ends, for any number of schedulers and failures.
THEOREM ScheduleInvariant == ScheduleSpec => []ScheduleInv
  BY InitScheduleInv, NextScheduleInv, PTL DEF ScheduleSpec

\* No race, crash, restart or lost reply makes Materialize enqueue an occurrence
\* of a schedule twice.
THEOREM EnqueuedOnce == ScheduleSpec => []OccurrenceEnqueuedOnce
<1>1. ScheduleInv => OccurrenceEnqueuedOnce
  BY Zenon DEF ScheduleInv
<1> QED BY <1>1, ScheduleInvariant, PTL

\* advance writes only cursors that the definition stored with the row would
\* compute, whatever versions of the code are running.
THEOREM CursorAlwaysOccurrence == ScheduleSpec => []CursorIsOccurrence
<1>1. ScheduleInv => CursorIsOccurrence
  BY Zenon DEF ScheduleInv
<1> QED BY <1>1, ScheduleInvariant, PTL

\* Materialize is a client of the job store: every behaviour of any number of
\* schedulers is one of JobStore.
THEOREM ScheduleUsesStore == ScheduleSpec => SchedulesUseStore
<1>1. ScheduleInit => Init
  BY Zenon DEF ScheduleInit
<1>2. ScheduleInv /\ [ScheduleNext]_scheduleVars => [Next]_storeVars
  BY Zenon, ScheduleStepUsesStore DEF scheduleVars
<1> QED BY <1>1, <1>2, ScheduleInvariant, PTL DEF ScheduleSpec, SchedulesUseStore, Spec

-----------------------------------------------------------------------------
(* No fresh occurrence is skipped *)

\* A row that an open transaction collided with stays as it is: every statement
\* that would change it waits for the lock or passes the row over.
LEMMA LockedRowKept ==
    ASSUME StoreInv, [Next]_storeVars, NEW x \in Txs, tx[x] # NULL, tx[x].row = NULL,
           jobs[tx[x].id] # NULL
    PROVE  jobs'[tx[x].id] = jobs[tx[x].id]
<1> DEFINE id == tx[x].id
<1>0. id \in Ids /\ Locked(id) /\ id \in issued /\ failed[id] = NULL
      /\ jobs \in [Ids -> Row \cup {NULL}]
  BY Zenon DEF StoreInv, TypeOK, Transaction, Locked, RowsWellFormed, Active
<1> HIDE DEF id
<1>1. CASE Dispatch \/ Tick \/ UNCHANGED storeVars
  <2>1. jobs' = jobs
    BY <1>1, DispatchKeeps, Zenon DEF Tick, storeVars
  <2> QED BY Zenon, <2>1
<1>2. CASE EndTransaction
  <2>1. PICK y \in Txs : Commit(y) \/ Rollback(y)
    BY Zenon, <1>2 DEF EndTransaction
  <2>2. CASE jobs' = jobs
    BY Zenon, <2>2
  <2>3. CASE Commit(y) /\ tx[y].row # NULL
    <3>1. tx[y].id \notin issued
      BY Zenon, <2>3 DEF StoreInv, PendingFresh, Inserting, Commit
    <3> QED BY Zenon, <1>0, <2>3, <3>1 DEF Commit, id
  <2> QED BY Zenon, <2>1, <2>2, <2>3 DEF Commit, Rollback
<1>3. ASSUME NEW batch, id \notin batch, Bury(batch) PROVE jobs'[id] = jobs[id]
  BY Zenon, <1>0, <1>3 DEF Bury
<1>4. CASE ClaimSome
  <2>1. PICK w \in Workers, routes \in SUBSET Routes, n \in Limits,
             d \in LeaseDurations, t \in Clocks :
             \E batch \in ClaimBatches(routes, n, t) : Claim(w, batch, d, t)
    BY Zenon, <1>4 DEF ClaimSome
  <2>2. PICK batch \in ClaimBatches(routes, n, t) : Claim(w, batch, d, t)
    BY Zenon, <2>1
  <2>3. id \notin batch
    BY Zenon, <1>0, <2>2 DEF ClaimBatches
  <2> QED BY Zenon, <1>0, <2>2, <2>3 DEF Claim, id
<1>5. CASE Sweep
  <2>1. PICK routes \in SUBSET Routes, n \in Limits, t \in Clocks : FailExhausted(routes, n, t)
    BY Zenon, <1>5 DEF Sweep
  <2>2. PICK batch \in ExhaustedBatches(routes, n, t) : Bury(batch)
    BY Zenon, <2>1 DEF FailExhausted
  <2>3. id \notin batch
    BY Zenon, <1>0, <2>2 DEF ExhaustedBatches
  <2> QED BY Zenon, <1>3, <2>2, <2>3 DEF id
<1>6. CASE Holder
  <2>1. PICK l \in leases, t \in Clocks :
             \/ \E d \in LeaseDurations : Heartbeat(l, d, t)
             \/ Ack(l, t)
             \/ \E delay \in Delays : Retry(l, delay, t)
             \/ Release(l, t)
             \/ Fail(l, t)
             \/ NotOwned(l, t)
    BY <1>6, Zenon DEF Holder
  <2>2. CASE Owned(l, t)
    <3>1. l.job # id
      BY Zenon, <1>0, <2>2 DEF Owned
    <3>2. id \notin {l.job}
      BY Zenon, <3>1
    <3>3. CASE Fail(l, t)
      BY Zenon, <1>3, <3>2, <3>3 DEF Fail, id
    <3>4. CASE NotOwned(l, t)
      BY Zenon, <3>4 DEF NotOwned, storeVars
    <3>5. CASE \E row : jobs' = [jobs EXCEPT ![l.job] = row]
      BY Zenon, <1>0, <3>1, <3>5 DEF id
    <3> QED BY Zenon, <2>1, <3>3, <3>4, <3>5 DEF Heartbeat, Ack, Retry, Release
  <2>3. CASE ~Owned(l, t)
    <3>1. NotOwned(l, t)
      BY Zenon, <2>1, <2>3 DEF Heartbeat, Ack, Retry, Release, Fail
    <3> QED BY Zenon, <3>1 DEF NotOwned, storeVars
  <2> QED BY Zenon, <2>2, <2>3
<1>7. CASE Operator
  <2>1. ASSUME NEW j \in Ids, NEW t \in Clocks, RetryFailed(j, t) PROVE jobs'[id] = jobs[id]
    BY Zenon, <1>0, <2>1 DEF RetryFailed
  <2>2. ASSUME NEW j \in Ids, ForgetFailed(j) PROVE jobs'[id] = jobs[id]
    BY Zenon, <2>2 DEF ForgetFailed
  <2> QED BY Zenon, <1>7, <2>1, <2>2 DEF Operator, id
<1> QED BY Zenon, <1>1, <1>2, <1>4, <1>5, <1>6, <1>7 DEF Next

\* What Materialize found when it read the clock.
Judged(s, p) ==
    /\ p.held.version = Code[s] /\ p.held.next_run_at <= p.clock
    /\ IsLatest(Code[s], Names[p.at], WindowStart(p.held, p.clock), p.clock, p.due)

\* The row that advance has written over the one it held.
WritesJudgement(s, p) ==
    /\ Judged(s, p)
    /\ p.row.version = p.held.version
    /\ IsNextAfter(Code[s], Names[p.at], p.clock, p.row.next_run_at)
    /\ p.row.last_evaluated_at = p.clock
    /\ p.row.last_occurrence_at = p.due
    /\ p.due = NULL => p.row.last_outcome = "misfire_skipped"

SkipOK(s, p) ==
    /\ p.pc \in {"dispatch", "advance"} => Judged(s, p)
    /\ p.pc = "commit" /\ p.row # NULL /\ ~p.inserted => WritesJudgement(s, p)

\* After the dispatch the transaction x inserts a job of the schedule or holds
\* the lock of an active one.
KeyOK(p, x, table) ==
    p.pc \in {"advance", "commit"} /\ p.due # NULL =>
       /\ x # NULL
       /\ IF x.row # NULL THEN x.row.key = Names[p.at]
          ELSE table[x.id] # NULL /\ table[x.id].key = Names[p.at]

SkipInv ==
    \A s \in Schedulers : SkipOK(s, sched[s]) /\ KeyOK(sched[s], tx[s], jobs)

\* SkipOK speaks of constants and of its arguments only.
LEMMA SkipOKNext ==
    ASSUME NEW s \in Schedulers, SkipOK(s, sched'[s]), KeyOK(sched'[s], tx'[s], jobs')
    PROVE  (SkipOK(s, sched[s]) /\ KeyOK(sched[s], tx[s], jobs))'
  BY Zenon DEF SkipOK, KeyOK, Judged, WritesJudgement, IsLatest, IsNextAfter, WindowStart,
     IsOccurrence

\* The other schedulers stay where they are.
LEMMA SkipMove ==
    ASSUME ScheduleInv, SkipInv, [Next]_storeVars, NEW s \in Schedulers, NEW q,
           sched' = [sched EXCEPT ![s] = q],
           \A r \in Schedulers : r # s => tx'[r] = tx[r],
           SkipOK(s, q), KeyOK(q, tx'[s], jobs')
    PROVE  SkipInv'
<1> SUFFICES ASSUME NEW r \in Schedulers
             PROVE  SkipOK(r, sched'[r]) /\ KeyOK(sched'[r], tx'[r], jobs')
  BY Zenon, SkipOKNext DEF SkipInv
<1>1. CASE r = s
  BY Zenon, <1>1 DEF ScheduleInv
<1>2. CASE r # s
  <2>1. sched'[r] = sched[r] /\ tx'[r] = tx[r]
    BY Zenon, <1>2 DEF ScheduleInv
  <2>2. r \in Txs
    BY Zenon, Numbers
  <2>3. tx[r] # NULL /\ tx[r].row = NULL /\ jobs[tx[r].id] # NULL
          => jobs'[tx[r].id] = jobs[tx[r].id]
    BY Zenon, <2>2, LockedRowKept DEF ScheduleInv
  <2>4. SkipOK(r, sched[r]) /\ KeyOK(sched[r], tx[r], jobs)
    BY Zenon DEF SkipInv
  <2> QED BY Zenon, <2>1, <2>3, <2>4 DEF KeyOK
<1> QED BY Zenon, <1>1, <1>2

\* A scheduler that is not past its evaluation has judged nothing.
LEMMA SkipEarly ==
    ASSUME NEW s, NEW q, q.pc \notin {"dispatch", "advance", "commit"}
    PROVE  SkipOK(s, q) /\ \A x, table : KeyOK(q, x, table)
  BY Zenon DEF SkipOK, KeyOK

LEMMA SkipEvaluate ==
    ASSUME ScheduleInv, SkipInv, [Next]_storeVars, NEW s \in Schedulers, Evaluate(s)
    PROVE  SkipInv'
<1>1. /\ sched[s] \in Scheduler /\ LocalOK(s, sched[s], rows[Name(s)], tx[s])
      /\ sched[s].pc = "evaluate" /\ sched[s].held.version = Code[s] /\ tx' = tx
  BY Here, Zenon DEF Evaluate, storeVars
<1>2. sched[s].due = NULL /\ (~sched[s].inserted => sched[s].row = NULL)
  BY Zenon, <1>1 DEF LocalOK
<1>3. CASE sched' = [sched EXCEPT ![s] = [sched[s] EXCEPT !.pc = "commit"]]
  <2> DEFINE q == [sched[s] EXCEPT !.pc = "commit"]
  <2>1. q.pc = "commit" /\ q.inserted = sched[s].inserted /\ q.row = sched[s].row /\ q.due = NULL
    BY Zenon, <1>1, <1>2 DEF Scheduler
  <2>2. sched' = [sched EXCEPT ![s] = q]
    BY Zenon, <1>3
  <2> HIDE DEF q
  <2>3. SkipOK(s, q) /\ KeyOK(q, tx'[s], jobs')
    BY Zenon, <1>2, <2>1 DEF SkipOK, KeyOK
  <2> QED BY <1>1, <2>2, <2>3, SkipMove, Zenon
<1>4. ASSUME NEW due \in 0 .. now \cup {NULL},
             sched[s].held.next_run_at <= now,
             IsLatest(Code[s], Name(s), WindowStart(sched[s].held, now), now, due),
             sched' = [sched EXCEPT ![s] =
                         [sched[s] EXCEPT !.pc = IF due = NULL THEN "advance" ELSE "dispatch",
                                          !.due = due, !.clock = now]]
      PROVE  SkipInv'
  <2> DEFINE to == IF due = NULL THEN "advance" ELSE "dispatch"
  <2> DEFINE q == [sched[s] EXCEPT !.pc = to, !.due = due, !.clock = now]
  <2>1. sched' = [sched EXCEPT ![s] = q]
    BY Zenon, <1>4
  <2>2. to \in {"advance", "dispatch"} /\ (due # NULL => to = "dispatch")
    BY Zenon
  <2> HIDE DEF to
  <2>3. /\ q.pc = to /\ q.held = sched[s].held /\ q.at = sched[s].at
        /\ q.due = due /\ q.clock = now
    BY <1>1, <2>2, Zenon DEF Scheduler
  <2> HIDE DEF q
  <2>4. Judged(s, q)
    BY <1>1, <1>4, <2>3, Zenon DEF Judged, Name
  <2>5. SkipOK(s, q) /\ KeyOK(q, tx'[s], jobs')
    BY Zenon, <2>2, <2>3, <2>4 DEF SkipOK, KeyOK
  <2> QED BY <1>1, <2>1, <2>5, SkipMove, Zenon
<1> QED BY <1>3, <1>4, Zenon DEF Evaluate, Set

LEMMA SkipDispatch ==
    ASSUME ScheduleInv, SkipInv, [Next]_storeVars, NEW s \in Schedulers, DispatchDue(s)
    PROVE  SkipInv'
<1>1. sched[s] \in Scheduler /\ sched[s].pc = "dispatch" /\ Judged(s, sched[s])
  BY Zenon, Here DEF DispatchDue, SkipInv, SkipOK
<1>2. PICK id \in Ids, pr \in Priorities, m \in Budgets, t \in Clocks :
         Enqueue(s, id, NewRow(Target[Code[s]][Name(s)], pr, Name(s), m, t))
  BY Zenon DEF DispatchDue
<1> DEFINE row == NewRow(Target[Code[s]][Name(s)], pr, Name(s), m, t)
<1>3. row.key = Name(s) /\ row \in Row /\ row # NULL
  <2>1. Target[Code[s]][Name(s)] \in Routes /\ Name(s) \in Keys \cup {NULL} /\ t \in Nat
    BY Zenon, Here, Targets, ClocksPast DEF ScheduleInv, StoreInv, TypeOK
  <2> QED BY <2>1, NewRowType, NullAssumption DEF NewRow
<1>4. s \in Txs /\ jobs' = jobs
      /\ \/ tx' = [tx EXCEPT ![s] = [id |-> id, row |-> row]]
         \/ \E d \in Ids : /\ Active(d) /\ SameKey(jobs[d], row)
                           /\ tx' = [tx EXCEPT ![s] = [id |-> d, row |-> NULL]]
  BY Zenon, <1>2, Numbers DEF Enqueue
<1> HIDE DEF row
<1>5. \A r \in Schedulers : r # s => tx'[r] = tx[r]
  BY Zenon, <1>4, Transactions
<1> DEFINE q == [sched[s] EXCEPT !.pc = "advance"]
<1>6. /\ q.pc = "advance" /\ q.held = sched[s].held /\ q.at = sched[s].at
      /\ q.due = sched[s].due /\ q.clock = sched[s].clock
  BY Zenon, <1>1 DEF Scheduler
<1>7. sched' = [sched EXCEPT ![s] = q]
  BY Zenon DEF DispatchDue, Set
<1> HIDE DEF q
<1>8. Judged(s, q)
  BY <1>1, <1>6, Zenon DEF Judged
<1>9. KeyOK(q, tx'[s], jobs')
  <2>1. CASE tx' = [tx EXCEPT ![s] = [id |-> id, row |-> row]]
    <3>1. tx'[s] = [id |-> id, row |-> row] /\ tx'[s] # NULL
      <4>1. [id |-> id, row |-> row] \in Transaction
        BY Zenon, <1>3 DEF Transaction
      <4> QED BY Zenon, <2>1, <4>1, Transactions, NullAssumption
    <3> QED BY <1>3, <1>6, <3>1 DEF KeyOK, Name
  <2>2. ASSUME NEW d \in Ids, Active(d), SameKey(jobs[d], row),
               tx' = [tx EXCEPT ![s] = [id |-> d, row |-> NULL]]
        PROVE  KeyOK(q, tx'[s], jobs')
    <3>1. tx'[s] = [id |-> d, row |-> NULL] /\ tx'[s] # NULL
      <4>1. [id |-> d, row |-> NULL] \in Transaction
        BY Zenon DEF Transaction
      <4> QED BY Zenon, <2>2, <4>1, Transactions, NullAssumption
    <3>2. jobs'[d] # NULL /\ jobs'[d].key = Name(s)
      BY Zenon, <1>3, <1>4, <2>2 DEF Active, SameKey
    <3> QED BY <1>6, <3>1, <3>2 DEF KeyOK, Name
  <2> QED BY Zenon, <1>4, <2>1, <2>2
<1>10. SkipOK(s, q)
  BY Zenon, <1>6, <1>8 DEF SkipOK
<1> QED BY <1>5, <1>7, <1>9, <1>10, SkipMove, Zenon

LEMMA SkipAdvance ==
    ASSUME ScheduleInv, SkipInv, [Next]_storeVars, NEW s \in Schedulers, Advance(s)
    PROVE  SkipInv'
<1>1. /\ sched[s] \in Scheduler /\ sched[s].pc = "advance" /\ Judged(s, sched[s])
      /\ KeyOK(sched[s], tx[s], jobs) /\ tx' = tx /\ jobs' = jobs
  BY Zenon, Here DEF Advance, SkipInv, SkipOK, storeVars
<1> DEFINE q(n) == [sched[s] EXCEPT !.pc = "commit", !.row = AdvancedRow(s, n)]
<1>2. PICK n \in Horizon(sched[s].clock) :
         /\ IsNextAfter(Code[s], Name(s), sched[s].clock, n)
         /\ sched' = [sched EXCEPT ![s] = q(n)]
  BY Zenon DEF Advance, Set
<1> DEFINE row == AdvancedRow(s, n)
<1>3. /\ row.version = sched[s].held.version /\ row.next_run_at = n
      /\ row.last_evaluated_at = sched[s].clock /\ row.last_occurrence_at = sched[s].due
      /\ sched[s].due = NULL => row.last_outcome = "misfire_skipped"
  BY Zenon DEF AdvancedRow
<1> DEFINE e == q(n)
<1>4. /\ e.pc = "commit" /\ e.held = sched[s].held /\ e.at = sched[s].at
      /\ e.row = row /\ e.due = sched[s].due /\ e.clock = sched[s].clock
  <2> HIDE DEF row
  <2>1. e = [sched[s] EXCEPT !.pc = "commit", !.row = row]
    BY Zenon DEF row
  <2> HIDE DEF e
  <2> QED BY <1>1, <2>1, Zenon DEF Scheduler
<1>5. sched' = [sched EXCEPT ![s] = e]
  BY Zenon, <1>2
<1> HIDE DEF e, row, q
<1>6. WritesJudgement(s, e)
  <2>1. Judged(s, e)
    BY <1>1, <1>4, Zenon DEF Judged
  <2> QED BY <1>2, <1>3, <1>4, <2>1, Zenon DEF WritesJudgement, Name
<1>7. SkipOK(s, e) /\ KeyOK(e, tx'[s], jobs')
  BY Zenon, <1>1, <1>4, <1>6 DEF SkipOK, KeyOK
<1> QED BY <1>1, <1>5, <1>7, SkipMove, Zenon

LEMMA SkipStep == ASSUME ScheduleInv, SkipInv, [ScheduleNext]_scheduleVars PROVE SkipInv'
<1>0. [Next]_storeVars
  BY Zenon, ScheduleStepUsesStore DEF scheduleVars
<1>1. CASE Queue \/ UNCHANGED scheduleVars
  <2>1. UNCHANGED <<tx, sched>>
    BY Zenon, <1>1, QueueKeepsTransactions DEF scheduleVars, storeVars
  <2> SUFFICES ASSUME NEW r \in Schedulers
               PROVE  SkipOK(r, sched'[r]) /\ KeyOK(sched'[r], tx'[r], jobs')
    BY Zenon, SkipOKNext DEF SkipInv
  <2>2. tx[r] # NULL /\ tx[r].row = NULL /\ jobs[tx[r].id] # NULL
          => jobs'[tx[r].id] = jobs[tx[r].id]
    BY Zenon, <1>0, LockedRowKept, Numbers DEF ScheduleInv
  <2> QED BY Zenon, <2>1, <2>2 DEF SkipInv, KeyOK
<1>2. ASSUME NEW s \in Schedulers, NEW pc \in {"stopped", "idle", "lock"}, NEW i,
             sched' = [sched EXCEPT ![s] = At(pc, i)],
             \A r \in Schedulers : r # s => tx'[r] = tx[r]
      PROVE  SkipInv'
  <2>1. At(pc, i).pc \notin {"dispatch", "advance", "commit"}
    BY Zenon DEF At
  <2> QED BY <1>0, <1>2, <2>1, SkipEarly, SkipMove, Zenon
<1>3. ASSUME NEW s \in Schedulers, Proceed(s), \A r \in Schedulers : r # s => tx'[r] = tx[r]
      PROVE  SkipInv'
  BY <1>2, <1>3, Zenon DEF Proceed, Set
<1>4. ASSUME NEW s \in Schedulers, NEW q, Set(s, q), UNCHANGED storeVars,
             q.pc \notin {"dispatch", "advance", "commit"}
      PROVE  SkipInv'
  <2>1. tx' = tx /\ sched' = [sched EXCEPT ![s] = q]
    BY Zenon, <1>4 DEF storeVars, Set
  <2> QED BY <1>0, <1>4, <2>1, SkipEarly, SkipMove, Zenon
<1>5. ASSUME NEW s \in Schedulers, CommitRows(s) \/ Abort(s)
      PROVE  \A r \in Schedulers : r # s => tx'[r] = tx[r]
  BY Zenon, <1>5, Transactions DEF CommitRows, Abort, Commit, Rollback, storeVars
<1>6. ASSUME NEW s \in Schedulers, CommitUncertain(s) \/ Abort(s) PROVE SkipInv'
  <2>1. sched' = [sched EXCEPT ![s] = At("stopped", 1)]
    BY Zenon, <1>6 DEF CommitUncertain, Abort, Set
  <2>2. \A r \in Schedulers : r # s => tx'[r] = tx[r]
    BY <1>5, <1>6, Zenon DEF CommitUncertain
  <2> QED BY <1>2, <2>1, <2>2, Zenon
<1>7. ASSUME NEW s \in Schedulers, Poll(s) \/ DefinitionConflict(s) \/ Restart(s) PROVE SkipInv'
  <2>1. PICK pc \in {"stopped", "idle", "lock"} : sched' = [sched EXCEPT ![s] = At(pc, 1)]
    BY <1>7, Zenon DEF Poll, DefinitionConflict, Restart, Set
  <2>2. tx' = tx
    BY Zenon, <1>7 DEF Poll, DefinitionConflict, Restart, storeVars
  <2>3. \A r \in Schedulers : r # s => tx'[r] = tx[r]
    BY <2>2, Zenon
  <2> QED BY <1>2, <2>1, <2>3, Zenon
<1>8. ASSUME NEW s \in Schedulers, Lock(s) \/ Exists(s) PROVE SkipInv'
  <2>1. sched[s] \in Scheduler /\ UNCHANGED storeVars /\ tx' = tx
    BY Zenon, <1>8, Here DEF Lock, Exists, storeVars
  <2>2. /\ [sched[s] EXCEPT !.pc = "exists"].pc = "exists"
        /\ [sched[s] EXCEPT !.pc = "read"].pc = "read"
        /\ [sched[s] EXCEPT !.pc = "evaluate", !.held = rows[Name(s)]].pc = "evaluate"
    BY Zenon, <2>1 DEF Scheduler
  <2>3. CASE Proceed(s)
    BY <1>3, <2>1, <2>3, Zenon
  <2>4. ASSUME NEW q, Set(s, q), q.pc \in {"exists", "read", "evaluate"} PROVE SkipInv'
    <3>1. q.pc \notin {"dispatch", "advance", "commit"}
      BY Zenon, <2>4
    <3> QED BY <1>4, <2>1, <2>4, <3>1, Zenon
  <2> QED BY <1>8, <2>2, <2>3, <2>4, Zenon DEF Lock, Exists
<1>9. ASSUME NEW s \in Schedulers, ReadClock(s) PROVE SkipInv'
  <2>1. sched[s] \in Scheduler /\ UNCHANGED storeVars
    BY Zenon, <1>9, Here DEF ReadClock
  <2>2. PICK row : Set(s, [sched[s] EXCEPT !.pc = "insert", !.row = row])
    BY <1>9, Zenon DEF ReadClock
  <2>3. [sched[s] EXCEPT !.pc = "insert", !.row = row].pc = "insert"
    BY Zenon, <2>1 DEF Scheduler
  <2>4. [sched[s] EXCEPT !.pc = "insert", !.row = row].pc \notin {"dispatch", "advance", "commit"}
    BY Zenon, <2>3
  <2> QED BY <1>4, <2>1, <2>2, <2>4, Zenon
<1>10. ASSUME NEW s \in Schedulers, Insert(s) \/ Relock(s) PROVE SkipInv'
  <2>1. sched[s] \in Scheduler /\ UNCHANGED storeVars /\ tx' = tx
    BY Zenon, <1>10, Here DEF Insert, Relock, storeVars
  <2>2. /\ [sched[s] EXCEPT !.pc = "relock", !.row = NULL].pc = "relock"
        /\ [sched[s] EXCEPT !.pc = "relock", !.inserted = TRUE].pc = "relock"
        /\ \A h : [sched[s] EXCEPT !.pc = "evaluate", !.held = h].pc = "evaluate"
    BY Zenon, <2>1 DEF Scheduler
  <2>3. CASE Proceed(s)
    BY <1>3, <2>1, <2>3, Zenon
  <2>4. ASSUME NEW q, Set(s, q), q.pc \in {"relock", "evaluate"} PROVE SkipInv'
    <3>1. q.pc \notin {"dispatch", "advance", "commit"}
      BY Zenon, <2>4
    <3> QED BY <1>4, <2>1, <2>4, <3>1, Zenon
  <2> QED BY <1>10, <2>2, <2>3, <2>4, Zenon DEF Insert, Relock
<1>11. ASSUME NEW s \in Schedulers, Finish(s) PROVE SkipInv'
  BY <1>3, <1>5, <1>11, Zenon DEF Finish
<1>12. ASSUME NEW s \in Schedulers, SchedulerStep(s) PROVE SkipInv'
  BY Zenon, <1>0, <1>7, <1>8, <1>9, <1>10, <1>11, <1>12, SkipEvaluate, SkipDispatch, SkipAdvance
     DEF SchedulerStep
<1> QED BY Zenon, <1>1, <1>6, <1>12 DEF ScheduleNext

\* The occurrences a cursor passes from a to n, and those within the grace at c.
Passed(v, d, a, n) == {o \in a .. n - 1 : IsOccurrence(v, d, o)}
Fresh(v, d, a, n, c) == {o \in Passed(v, d, a, n) : o >= c - Grace}

\* The latest occurrence of the window is the latest fresh one that the cursor
\* passes on its way from a to n.
LEMMA LatestIsMaxFresh ==
    ASSUME NEW v, NEW d, NEW a \in Nat, NEW c \in Nat, NEW n \in Nat, NEW due \in Nat \cup {NULL},
           NEW held, held.next_run_at = a, a <= c, IsNextAfter(v, d, c, n),
           IsLatest(v, d, WindowStart(held, c), c, due)
    PROVE  /\ n > a
           /\ \A o \in Passed(v, d, a, n) : o <= c
           /\ Fresh(v, d, a, n, c) = {} => due = NULL
           /\ Fresh(v, d, a, n, c) # {} => due # NULL /\ due = Latest(Fresh(v, d, a, n, c))
<1> DEFINE passed == Passed(v, d, a, n)
           fresh == Fresh(v, d, a, n, c)
           from == IF a > c - Grace THEN a ELSE c - Grace
<1> USE DEF Passed, Fresh
<1>0. Grace \in Nat /\ NULL \notin Nat /\ from = WindowStart(held, c)
  BY Zenon, Numbers DEF WindowStart
<1>1. n > a /\ c < n
  BY DEF IsNextAfter
<1>2. \A o \in passed : o <= c
  <2> SUFFICES ASSUME NEW o \in passed, o > c PROVE FALSE
    OBVIOUS
  <2>1. o \in c + 1 .. n - 1 /\ IsOccurrence(v, d, o)
    OBVIOUS
  <2> QED BY Zenon, <2>1 DEF IsNextAfter
<1>3. fresh = {o \in from .. c : IsOccurrence(v, d, o)}
  <2>1. \A o \in fresh : o \in from .. c /\ IsOccurrence(v, d, o)
    BY <1>0, <1>2
  <2>2. \A o \in from .. c : IsOccurrence(v, d, o) => o \in fresh
    BY <1>0, <1>1
  <2> QED BY Zenon, <2>1, <2>2
<1>4. fresh \subseteq Int
  BY <1>0, <1>3
<1> HIDE DEF fresh, Passed, Fresh
<1>5. CASE due = NULL
  <2>1. fresh = {}
    BY Zenon, <1>0, <1>3, <1>5 DEF IsLatest
  <2> QED BY Zenon, <1>1, <1>2, <1>5, <2>1 DEF fresh
<1>6. CASE due # NULL
  <2>1. due \in fresh
    BY Zenon, <1>0, <1>3, <1>6 DEF IsLatest
  <2>2. \A y \in fresh : due >= y
    <3> SUFFICES ASSUME NEW y \in fresh, ~(due >= y) PROVE FALSE
      BY Zenon
    <3>1. y \in due + 1 .. c /\ IsOccurrence(v, d, y)
      BY <1>0, <1>3, <1>6
    <3> QED BY Zenon, <1>0, <1>6, <3>1 DEF IsLatest
  <2>3. Latest(fresh) \in fresh /\ \A y \in fresh : Latest(fresh) >= y
    BY <2>1, <2>2, Zenon DEF Latest
  <2>4. \A m \in fresh : (\A y \in fresh : m >= y) => due = m
    BY <1>4, <2>1, <2>2
  <2>5. due = Latest(fresh)
    BY <2>3, <2>4, Zenon
  <2> QED BY Zenon, <1>1, <1>2, <1>6, <2>1, <2>5 DEF fresh
<1> QED BY Zenon, <1>5, <1>6

\* The commit of a row whose cursor moved.
LEMMA SkipCommit ==
    ASSUME ScheduleInv, SkipInv, StoreInv', NEW s \in Schedulers, sched[s].pc = "commit",
           CommitRows(s), NEW d \in Defined, rows[d] # NULL, rows'[d] # rows[d]
    PROVE  LET old == rows[d]
               new == rows'[d]
               passed == {o \in old.next_run_at .. new.next_run_at - 1 :
                            IsOccurrence(old.version, d, o)}
               fresh == {o \in passed : o >= new.last_evaluated_at - Grace}
           IN /\ new.version = old.version
              /\ new.next_run_at > old.next_run_at
              /\ \A o \in passed : o <= new.last_evaluated_at
              /\ IF fresh = {}
                 THEN new.last_outcome = "misfire_skipped"
                 ELSE /\ new.last_occurrence_at = Latest(fresh)
                      /\ \E id \in Ids : Active(id)' /\ jobs'[id].key = d
<1> DEFINE p == sched[s]
<1>1. /\ p \in Scheduler /\ LocalOK(s, p, rows[Name(s)], tx[s]) /\ p.pc = "commit"
      /\ Name(s) = Names[p.at]
  BY Zenon, Here DEF Name
<1>2. d = Name(s) /\ p.row # NULL /\ rows'[d] = p.row
  BY Zenon, CommittedRows
<1>3. ~p.inserted /\ rows[d] = p.held /\ p.held # NULL
  BY Zenon, <1>1, <1>2 DEF LocalOK
<1>4. WritesJudgement(s, p) /\ KeyOK(p, tx[s], jobs)
  BY Zenon, <1>1, <1>2, <1>3 DEF SkipInv, SkipOK
<1>5. /\ p.held \in ScheduleRow /\ p.row \in ScheduleRow /\ p.clock \in Nat
      /\ p.due \in Nat \cup {NULL}
  BY Zenon, <1>1, <1>2, <1>3 DEF Scheduler
<1>6. p.held.next_run_at \in Nat /\ p.row.next_run_at \in Nat
  BY Zenon, <1>5 DEF ScheduleRow
<1>7. /\ p.row.version = p.held.version /\ p.row.last_evaluated_at = p.clock
      /\ p.row.last_occurrence_at = p.due
      /\ p.due = NULL => p.row.last_outcome = "misfire_skipped"
      /\ p.held.next_run_at <= p.clock
      /\ IsNextAfter(p.held.version, d, p.clock, p.row.next_run_at)
      /\ IsLatest(p.held.version, d, WindowStart(p.held, p.clock), p.clock, p.due)
  BY <1>1, <1>2, <1>4, Zenon DEF WritesJudgement, Judged
<1>8. ASSUME p.due # NULL PROVE \E id \in Ids : Active(id)' /\ jobs'[id].key = d
  <2>1. /\ tx[s] # NULL /\ Commit(s) /\ tx[s] \in Transaction
        /\ IF tx[s].row # NULL THEN tx[s].row.key = d
           ELSE jobs[tx[s].id] # NULL /\ jobs[tx[s].id].key = d
    BY Zenon, <1>1, <1>2, <1>4, <1>8, Transactions DEF KeyOK, CommitRows
  <2>2. tx[s].id \in Ids /\ jobs \in [Ids -> Row \cup {NULL}]
    BY Zenon, <2>1 DEF Transaction, ScheduleInv, StoreInv, TypeOK
  <2>3. jobs'[tx[s].id] # NULL /\ jobs'[tx[s].id].key = d
    BY Zenon, <2>1, <2>2 DEF Commit
  <2> QED BY Zenon, <2>2, <2>3 DEF Active
<1> DEFINE passed == Passed(p.held.version, d, p.held.next_run_at, p.row.next_run_at)
           fresh == Fresh(p.held.version, d, p.held.next_run_at, p.row.next_run_at, p.clock)
<1>9. /\ p.row.next_run_at > p.held.next_run_at
      /\ \A o \in passed : o <= p.clock
      /\ fresh = {} => p.due = NULL
      /\ fresh # {} => p.due # NULL /\ p.due = Latest(fresh)
  <2> HIDE DEF p
  <2>1. /\ p.held.next_run_at \in Nat /\ p.clock \in Nat /\ p.row.next_run_at \in Nat
        /\ p.due \in Nat \cup {NULL} /\ p.held.next_run_at <= p.clock
        /\ IsNextAfter(p.held.version, d, p.clock, p.row.next_run_at)
        /\ IsLatest(p.held.version, d, WindowStart(p.held, p.clock), p.clock, p.due)
    BY Zenon, <1>5, <1>6, <1>7
  <2>2. PICK v, a, c, n, due, h : /\ v = p.held.version /\ a = p.held.next_run_at /\ h = p.held
                                  /\ c = p.clock /\ n = p.row.next_run_at /\ due = p.due
    BY Zenon
  <2>3. /\ a \in Nat /\ c \in Nat /\ n \in Nat /\ due \in Nat \cup {NULL} /\ h.next_run_at = a
        /\ a <= c /\ IsNextAfter(v, d, c, n) /\ IsLatest(v, d, WindowStart(h, c), c, due)
    BY Zenon, <2>1, <2>2
  <2>4. /\ n > a
        /\ \A o \in Passed(v, d, a, n) : o <= c
        /\ Fresh(v, d, a, n, c) = {} => due = NULL
        /\ Fresh(v, d, a, n, c) # {} => due # NULL /\ due = Latest(Fresh(v, d, a, n, c))
    BY Zenon, <2>3, LatestIsMaxFresh
  <2> QED BY <2>2, <2>4, Zenon
<1>10. /\ p.row.version = p.held.version
       /\ p.row.next_run_at > p.held.next_run_at
       /\ \A o \in passed : o <= p.row.last_evaluated_at
       /\ IF fresh = {}
          THEN p.row.last_outcome = "misfire_skipped"
          ELSE /\ p.row.last_occurrence_at = Latest(fresh)
               /\ \E id \in Ids : Active(id)' /\ jobs'[id].key = d
  <2> HIDE DEF passed, fresh, p
  <2> QED BY Zenon, <1>7, <1>8, <1>9
<1> QED BY <1>2, <1>3, <1>7, <1>10, Zenon DEF Passed, Fresh

\* Materialize, whatever interleaves with its statements, moves a cursor past no
\* occurrence to come, and past none within the grace without a job of that
\* schedule in the queue.
THEOREM FreshNeverSkipped == ScheduleSpec => NothingFreshSkipped
<1>1. ScheduleInit => SkipInv
  BY DEF ScheduleInit, SkipInv, SkipOK, KeyOK, At
<1>2. ScheduleInv /\ ScheduleInv' /\ SkipInv /\ [ScheduleNext]_scheduleVars =>
      \A d \in Defined :
         Visible(d) /\ rows'[d] # rows[d] =>
           LET old == rows[d]
               new == rows'[d]
               passed == {o \in old.next_run_at .. new.next_run_at - 1 :
                            IsOccurrence(old.version, d, o)}
               fresh == {o \in passed : o >= new.last_evaluated_at - Grace}
           IN /\ new.version = old.version
              /\ new.next_run_at > old.next_run_at
              /\ \A o \in passed : o <= new.last_evaluated_at
              /\ IF fresh = {}
                 THEN new.last_outcome = "misfire_skipped"
                 ELSE /\ new.last_occurrence_at = Latest(fresh)
                      /\ \E id \in Ids : Active(id)' /\ jobs'[id].key = d
  <2> SUFFICES ASSUME ScheduleInv, StoreInv', SkipInv, [ScheduleNext]_scheduleVars, NEW d \in Defined,
                      rows[d] # NULL, rows'[d] # rows[d]
               PROVE  \E s \in Schedulers : sched[s].pc = "commit" /\ CommitRows(s)
    BY SkipCommit, Zenon DEF ScheduleInv, Visible
  <2>1. rows' # rows
    BY Zenon
  <2>2. ASSUME NEW s \in Schedulers, SchedulerStep(s) \/ CommitUncertain(s) \/ Abort(s)
        PROVE  sched[s].pc = "commit" /\ CommitRows(s)
    BY <2>1, <2>2, Zenon DEF SchedulerStep, CommitUncertain, Abort, Finish, Poll, Lock, Exists, ReadClock,
       Insert, Relock, Evaluate, DefinitionConflict, DispatchDue, Advance, Restart
  <2> QED BY <2>1, <2>2, Zenon DEF ScheduleNext, Queue, scheduleVars
<1>3. ScheduleInv /\ SkipInv /\ [ScheduleNext]_scheduleVars => SkipInv'
  BY Zenon, SkipStep
<1> QED BY <1>1, <1>2, <1>3, ScheduleInvariant, PTL DEF ScheduleSpec, NothingFreshSkipped

=============================================================================
