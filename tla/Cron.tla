-------------------------------- MODULE Cron --------------------------------
(* Five-field cron expressions: normalizeCronField rewrites one field so that
   the parsing library accepts it (names become numbers, Sunday may be 7), and
   next continues the library's search, which gives up after five years, in
   chunks.  A field is a sequence of parts, a part a base with an optional step;
   characters and the splitting of strings are left out, a part that does not
   split is "malformed".                                                     *)
EXTENDS Integers, Sequences, FiniteSets, SequencesExt, FiniteSetsExt

CONSTANTS
  Kinds,      \* the fields: minimum, maximum, names, sundaySeven
  Fields,     \* the sequences of parts to try
  Years,      \* the years an expression's occurrences are chosen from
  Reach       \* how many years next looks ahead (400 in the code)

VARIABLES
  cronKind, field,   \* a field to normalise
  normalized,    \* what normalizeCronField returned
  occurrences,   \* the years in which a matching date exists, one in each
  after, found,  \* the argument and result of next
  cronState          \* "field", "search" or "done"

cronVars == <<cronKind, field, normalized, occurrences, after, found, cronState>>

RefusedField == <<>>   \* no field normalises to nothing
Zero == -1        \* time.Time{}

----------------------------------------------------------------------------
(* cronAtom: a name, or a number within the field's bounds; -1 is the error. *)
cronAtom(atom, k) ==
  IF atom \in DOMAIN k.names THEN k.names[atom]
  ELSE IF atom \in DOMAIN k.numbers /\ k.numbers[atom] \in k.minimum..k.maximum
       THEN k.numbers[atom] ELSE -1

Star(step) == [t |-> "star", a |-> 0, b |-> 0, step |-> step]
Single(a, step) == [t |-> "one", a |-> a, b |-> a, step |-> step]
Range_(a, b, step) == [t |-> "range", a |-> a, b |-> b, step |-> step]

StepsFrom(a, b, step) == {n \in a..b : (n - a) % step = 0}

(* Sunday spelled 7 is written 0, and the range is kept. *)
MutantExpanded(start, end, step) ==
  <<Range_(start % 7, end % 7, step)>>

(* A range that reaches day 7 is written out, 7 as 0. *)
Expanded(start, end, step) ==
  [i \in 1..((end - start) \div step + 1) |->
     LET day == start + (i - 1) * step IN Single(IF day = 7 THEN 0 ELSE day, 0)]

(* The items a part becomes; Refused when it is an error. A step of 0 stands
   for no step in the text. *)
Part(part, k) ==
  LET start == cronAtom(part.a, k)
      last  == IF part.t = "range" THEN cronAtom(part.b, k)
               ELSE IF part.step # 0 THEN k.maximum ELSE start
      step  == IF part.step = 0 THEN 1 ELSE part.step
  IN IF part.t = "malformed" \/ part.step < 0 THEN RefusedField
     ELSE IF part.t = "star" THEN <<Star(part.step)>>
     ELSE IF start = -1 \/ last = -1 \/ (part.t = "range" /\ start > last) THEN RefusedField
     ELSE IF k.sundaySeven /\ (start = 7 \/ last = 7) THEN Expanded(start, last, step)
     ELSE IF part.t = "range" THEN <<Range_(start, last, part.step)>>
     ELSE <<Single(start, part.step)>>

normalizeCronField(f, k) ==
  IF \E i \in 1..Len(f) : Part(f[i], k) = RefusedField THEN RefusedField
  ELSE FlattenSeq([i \in 1..Len(f) |-> Part(f[i], k)])

parseCron ==
  /\ cronState = "field" /\ cronState' = "done"
  /\ normalized' = normalizeCronField(field, cronKind)
  /\ UNCHANGED <<cronKind, field, occurrences, after, found>>

(* The library's reading of an item: its last weekday is 6. *)
LibraryMax(k) == IF k.sundaySeven THEN 6 ELSE k.maximum
LibraryReads(item, k) ==
  LET step == IF item.step = 0 THEN 1 ELSE item.step IN
  CASE item.t = "star" -> StepsFrom(k.minimum, LibraryMax(k), step)
    [] item.t = "one" -> StepsFrom(item.a, IF item.step = 0 THEN item.a ELSE LibraryMax(k), step)
    [] OTHER -> StepsFrom(item.a, item.b, step)
LibraryAccepts(item, k) ==
  item.t = "star" \/ (item.a <= item.b /\ {item.a, item.b} \subseteq k.minimum..LibraryMax(k))

----------------------------------------------------------------------------
(* Year y is the instants 2y and 2y+1; its occurrence, if any, is at 2y+1. *)
Year(t) == t \div 2
CronInstants == {2 * y + 1 : y \in occurrences}

(* The library: the least occurrence after t, up to five years ahead. *)
Next5(t) ==
  LET near == {o \in CronInstants : o > t /\ Year(o) <= Year(t) + 5}
  IN IF near = {} THEN Zero ELSE Min(near)

CronProbe(year) == 2 * year - 1

(* Chunks that start a year late. *)
MutantChunks == {y \in (Year(after) + 7)..(Year(after) + Reach) : (y - Year(after) - 7) % 6 = 0}

(* The years the continued search starts from. *)
Chunks == {y \in (Year(after) + 5)..(Year(after) + Reach) : (y - Year(after)) % 5 = 0}

(* next: the library first, then chunk by chunk. *)
next ==
  /\ cronState = "search" /\ cronState' = "done"
  /\ LET useful == {y \in Chunks : Next5(CronProbe(y)) # Zero /\ Next5(CronProbe(y)) > after}
     IN found' = IF Next5(after) # Zero THEN Next5(after)
                 ELSE IF useful = {} THEN Zero ELSE Next5(CronProbe(Min(useful)))
  /\ UNCHANGED <<cronKind, field, normalized, occurrences, after>>

CronFinished == cronState = "done" /\ UNCHANGED cronVars

CronInputs ==
     \/ /\ cronState = "field" /\ cronKind \in Kinds /\ field \in Fields
        /\ occurrences = {} /\ after = 0
     \/ /\ cronState = "search"
        /\ \E first, second \in Years : occurrences = {first, second}
        /\ after \in {0, 1}
        /\ cronKind = (CHOOSE k \in Kinds : TRUE) /\ field = <<>>

CronStart == normalized = RefusedField /\ found = Zero

CronInit == CronInputs /\ CronStart

CronNext == parseCron \/ next \/ CronFinished

CronSpec == CronInit /\ [][CronNext]_cronVars

----------------------------------------------------------------------------
\* The values an author means by a part, with Sunday as 0.
MeantField(part, k) ==
  LET value(x) == IF x \in DOMAIN k.names THEN k.names[x] ELSE k.numbers[x]
      step == IF part.step = 0 THEN 1 ELSE part.step
      all == CASE part.t = "star" -> StepsFrom(k.minimum, LibraryMax(k), step)
               [] part.t = "one" -> IF part.step = 0 THEN {value(part.a)}
                                    ELSE StepsFrom(value(part.a), k.maximum, step)
               [] OTHER -> StepsFrom(value(part.a), value(part.b), step)
  IN {IF k.sundaySeven /\ n = 7 THEN 0 ELSE n : n \in all}

Valid(part, k) ==
  LET ok(x) == x \in DOMAIN k.names
               \/ (x \in DOMAIN k.numbers /\ k.numbers[x] \in k.minimum..k.maximum)
      value(x) == IF x \in DOMAIN k.names THEN k.names[x] ELSE k.numbers[x]
  IN /\ part.t # "malformed" /\ part.step >= 0
     /\ part.t # "star" => ok(part.a)
     /\ part.t = "range" => ok(part.b) /\ value(part.a) <= value(part.b)

(* normalizeCronField (cron.go:84-155): a valid field is never refused by the
   library once it is normalised and matches exactly the values its author
   meant, with names, steps and both spellings of Sunday; an invalid one is
   refused here. *)
FieldKeepsItsMeaning ==
  (cronState = "done" /\ field # <<>>) =>
    IF \A i \in 1..Len(field) : Valid(field[i], cronKind)
    THEN /\ normalized # RefusedField
         /\ \A i \in 1..Len(normalized) : LibraryAccepts(normalized[i], cronKind)
         /\ UNION {LibraryReads(normalized[i], cronKind) : i \in 1..Len(normalized)}
              = UNION {MeantField(field[i], cronKind) : i \in 1..Len(field)}
    ELSE normalized = RefusedField

(* next (cron.go:168-191): however long the gap, the instant returned is the
   first occurrence after the argument, none is skipped between two chunks, and
   nothing is only returned when there is none within the search's reach. *)
NextIsTheFirst ==
  (cronState = "done" /\ field = <<>>) =>
    LET later == {o \in CronInstants : o > after /\ Year(o) <= Year(after) + Reach}
    IN later # {} => found = Min(later)
=============================================================================
