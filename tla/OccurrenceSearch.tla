-------------------------- MODULE OccurrenceSearch --------------------------
(***************************************************************************)
(* latestOccurrence of schedule/postgres/store.go: the binary search for   *)
(* the last occurrence of a cron expression in the inclusive window        *)
(* [start, end].  Instants are numbers, Minute of them make a minute; the  *)
(* expression is the set cron of minutes that match.  One step is one      *)
(* iteration of the loop.                                                  *)
(***************************************************************************)
EXTENDS Integers

CONSTANTS Minute,    \* instants per minute
          Crons,     \* the expressions, each a set of minutes
          Instants,  \* values of start and end
          NULL

ASSUME SearchAssumption ==
    /\ Minute \in Nat \ {0}
    /\ Crons \subseteq SUBSET Nat
    /\ Instants \subseteq Nat
    /\ NULL \notin Int

VARIABLES cron, start, end,  \* the arguments
          lower,             \* the first whole minute of the window
          low, high, best,   \* the loop variables
          probes,            \* calls of next in the loop
          pc, answer

searchVars == <<cron, start, end, lower, low, high, best, probes, pc, answer>>

-----------------------------------------------------------------------------
\* next(candidate - 1ns): the first occurrence from minute c on is n.
IsNext(c, n) == n \in cron /\ n >= c /\ \A k \in cron : k >= c => n <= k

None(c) == \A k \in cron : k < c

\* The minutes at or after start, and the one end lies in.
RoundUp(t) == (t + Minute - 1) \div Minute
RoundDown(t) == t \div Minute

SearchInputs ==
    /\ cron \in Crons
    /\ start \in Instants /\ end \in {t \in Instants : start <= t}
SearchStart ==
    /\ lower = RoundUp(start)
    /\ low = 0
    /\ high = RoundDown(end) - lower
    /\ best = -1
    /\ probes = 0
    /\ pc = "loop"
    /\ answer = NULL
SearchInit == SearchInputs /\ SearchStart

\* Mutant: the minute after a good candidate is skipped.
ProbeSkips ==
    /\ pc = "loop" /\ low <= high
    /\ LET middle == low + (high - low) \div 2
           candidate == lower + middle
       IN \/ /\ \/ None(candidate)
                \/ \E n \in cron : IsNext(candidate, n) /\ n * Minute > end
             /\ high' = middle - 1 /\ UNCHANGED <<low, best>>
          \/ /\ \E n \in cron : IsNext(candidate, n) /\ n * Minute <= end
             /\ best' = middle /\ low' = middle + 2 /\ UNCHANGED high
    /\ probes' = probes + 1
    /\ UNCHANGED <<cron, start, end, lower, pc, answer>>

\* No occurrence from the candidate on, or one after the window: go left.
\* Otherwise the candidate is the best so far: go right.
Probe ==
    /\ pc = "loop" /\ low <= high
    /\ LET middle == low + (high - low) \div 2
           candidate == lower + middle
       IN \/ /\ \/ None(candidate)
                \/ \E n \in cron : IsNext(candidate, n) /\ n * Minute > end
             /\ high' = middle - 1 /\ UNCHANGED <<low, best>>
          \/ /\ \E n \in cron : IsNext(candidate, n) /\ n * Minute <= end
             /\ best' = middle /\ low' = middle + 1 /\ UNCHANGED high
    /\ probes' = probes + 1
    /\ UNCHANGED <<cron, start, end, lower, pc, answer>>

\* The loop ends; the occurrence is looked up once more.
Return ==
    /\ pc = "loop" /\ low > high
    /\ pc' = "done"
    /\ IF best < 0
       THEN answer' = NULL
       ELSE \E n \in cron : IsNext(lower + best, n) /\ answer' = n * Minute
    /\ UNCHANGED <<cron, start, end, lower, low, high, best, probes>>

SearchNext == Probe \/ Return

SearchSpec == SearchInit /\ [][SearchNext]_searchVars

-----------------------------------------------------------------------------
InWindow(m) == m \in cron /\ start <= m * Minute /\ m * Minute <= end

\* The search returns the last occurrence of the inclusive window, and nothing
\* exactly when the window holds none.
FindsLatest ==
    pc = "done" =>
       IF answer = NULL
       THEN \A m \in cron : ~InWindow(m)
       ELSE \E m \in cron : /\ InWindow(m) /\ answer = m * Minute
                            /\ \A k \in cron : InWindow(k) => k <= m

=============================================================================
