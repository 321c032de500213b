--------------------------- MODULE WeightedRanges ---------------------------
(***************************************************************************)
(* Collections/WeightedSet as Dimension::getBaseElements uses it: fastAdd  *)
(* puts identifiers in one by one, consolidate joins neighbours of equal   *)
(* weight to ranges in place, then the set is read from begin to end.      *)
(*                                                                         *)
(* A range is a pair <<low, high>>; "weights" holds the weight of a range  *)
(* at its low end, and nothing for weight 1.                               *)
(***************************************************************************)
EXTENDS Integers, Sequences, FiniteSets, Functions

CONSTANTS
  Entries,   \* identifiers with weights
  Lists      \* the lists of them that are to be added

ASSUME EntriesAssumption == Entries \subseteq [id : Nat, weight : Int]
ASSUME ListsAssumption == Lists \subseteq Seq(Entries)

VARIABLES
  list,      \* what getBaseIWs has returned
  todo,      \* what is still to be added of it
  ranges, weights, siz,
  it,        \* the range of consolidate's loop, and of the reader
  weight,    \* consolidate's copy of the weight of that range
  reader,    \* the identifier the reader is at
  read,      \* what the reader has seen: identifiers with weights
  pc

vars == <<list, todo, ranges, weights, siz, it, weight, reader, read, pc>>

None == <<0, 0>>

-----------------------------------------------------------------------------

RangeWeight(low) == IF low \in DOMAIN weights THEN weights[low] ELSE 1

\* A map with one entry set or taken away.
With(f, x, value) == [y \in DOMAIN f \cup {x} |-> IF y = x THEN value ELSE f[y]]
Without(f, x) == Restrict(f, DOMAIN f \ {x})

\* Mutant: the range itself is taken for the next one.
BehindOrAt(low) == {r \in ranges : r[1] >= low}

\* The ranges behind low, and the first of them, as a set of at most one.
Behind(low) == {r \in ranges : r[1] > low}
FirstOf(S) == {r \in S : \A s \in S : r[1] =< s[1]}

Init ==
  /\ list \in Lists
  /\ todo = list
  /\ ranges = {} /\ weights = << >> /\ siz = 0
  /\ it = None /\ weight = 1
  /\ reader = 0 /\ read = << >>
  /\ pc = "add"

\* Mutant: the weight 1, which is not stored, is forgotten.
SumStored(x) == IF x.id \in DOMAIN weights THEN weights[x.id] + x.weight ELSE x.weight

SumWeight(x) == RangeWeight(x.id) + x.weight

\* Weight 1 is not stored.
Store(id, value) == IF value = 1 THEN Without(weights, id) ELSE With(weights, id, value)

FastAddNew ==
  LET x == Head(todo)
  IN /\ pc = "add" /\ todo # << >>
     /\ <<x.id, x.id>> \notin ranges
     /\ ranges' = ranges \cup {<<x.id, x.id>>}
     /\ weights' = IF x.weight = 1 THEN weights ELSE With(weights, x.id, x.weight)
     /\ siz' = siz + 1
     /\ todo' = Tail(todo)
     /\ UNCHANGED <<list, it, weight, reader, read, pc>>

FastAddAgain ==
  LET x == Head(todo)
  IN /\ pc = "add" /\ todo # << >>
     /\ <<x.id, x.id>> \in ranges
     /\ weights' = Store(x.id, SumWeight(x))
     /\ todo' = Tail(todo)
     /\ UNCHANGED <<list, ranges, siz, it, weight, reader, read, pc>>

\* consolidate begins with the first range.
Consolidate ==
  /\ pc = "add" /\ todo = << >>
  /\ pc' = IF ranges = {} THEN "begin" ELSE "consolidate"
  /\ \E r \in FirstOf(ranges) \cup {r \in {None} : ranges = {}} :
       it' = r /\ weight' = RangeWeight(r[1])
  /\ UNCHANGED <<list, todo, ranges, weights, siz, reader, read>>

\* Mutant: neighbours are joined whatever their weights.
JoinableTouching(next) == it[2] + 1 = next[1]

\* Mutant: only ranges without a stored weight are joined.
JoinablePlain(next) == it[2] + 1 = next[1] /\ {it[1], next[1]} \cap DOMAIN weights = {}

Joinable(next) == it[2] + 1 = next[1] /\ RangeWeight(next[1]) = weight

\* The next range is a single identifier, so the end moves by one.
Joined == <<it[1], it[2] + 1>>

\* One turn of the inner loop of consolidate: the next range and its weight are
\* erased, and this range is erased and inserted with its new end.
Join ==
  /\ pc = "consolidate"
  /\ \E next \in FirstOf(Behind(it[1])) :
       /\ Joinable(next)
       /\ weights' = Without(weights, next[1])
       /\ it' = Joined
       /\ ranges' = (ranges \ {next, it}) \cup {Joined}
  /\ UNCHANGED <<list, todo, siz, weight, reader, read, pc>>

\* The inner loop breaks, the outer one goes to the next range.
NextRange ==
  /\ pc = "consolidate"
  /\ \E next \in FirstOf(Behind(it[1])) :
       ~Joinable(next) /\ it' = next /\ weight' = RangeWeight(next[1])
  /\ UNCHANGED <<list, todo, ranges, weights, siz, reader, read, pc>>

ConsolidateEnds ==
  /\ pc = "consolidate"
  /\ Behind(it[1]) = {}
  /\ pc' = "begin"
  /\ UNCHANGED <<list, todo, ranges, weights, siz, it, weight, reader, read>>

\* begin(): the reader stands at the low end of the first range.
Begin ==
  /\ pc = "begin"
  /\ pc' = IF ranges = {} THEN "end" ELSE "read"
  /\ \E r \in FirstOf(ranges) \cup {r \in {None} : ranges = {}} : it' = r /\ reader' = r[1]
  /\ UNCHANGED <<list, todo, ranges, weights, siz, weight, read>>

\* first() and second() are taken and the iterator is incremented.
Read ==
  /\ pc = "read"
  /\ read' = With(read, reader, RangeWeight(it[1]))
  /\ \/ reader < it[2] /\ reader' = reader + 1 /\ UNCHANGED <<it, pc>>
     \/ reader >= it[2] /\ \E next \in FirstOf(Behind(it[1])) :
          it' = next /\ reader' = next[1] /\ UNCHANGED pc
     \/ reader >= it[2] /\ Behind(it[1]) = {} /\ pc' = "end" /\ UNCHANGED <<it, reader>>
  /\ UNCHANGED <<list, todo, ranges, weights, siz, weight>>

Next ==
  \/ FastAddNew \/ FastAddAgain
  \/ Consolidate \/ Join \/ NextRange \/ ConsolidateEnds
  \/ Begin \/ Read

Spec == Init /\ [][Next]_vars
\* One thread does all of this and nothing in it blocks.
FairSpec == Spec /\ WF_vars(Next)

-----------------------------------------------------------------------------

TypeOK ==
  /\ list \in Lists /\ todo \in Seq(Entries)
  /\ ranges \subseteq Nat \X Nat
  /\ DOMAIN weights \subseteq Nat /\ \A low \in DOMAIN weights : weights[low] \in Int
  /\ siz \in Nat
  /\ it \in Nat \X Nat /\ weight \in Int /\ reader \in Nat
  /\ DOMAIN read \subseteq Nat /\ \A id \in DOMAIN read : read[id] \in Int
  /\ pc \in {"add", "consolidate", "begin", "read", "end"}

Covered == UNION {r[1]..r[2] : r \in ranges}
RangeOf(id) == CHOOSE r \in ranges : r[1] =< id /\ id =< r[2]

\* Ranges never overlap, and a stored weight belongs to a range that begins there
\* and is not 1: consolidate takes the weights of the ranges it joins away.
WellFormed ==
  /\ \A r \in ranges : r[1] =< r[2]
  /\ \A r, s \in ranges : r # s => r[2] < s[1] \/ s[2] < r[1]
  /\ \A low \in DOMAIN weights : weights[low] # 1 /\ \E r \in ranges : r[1] = low

\* The weights a set of ranges stands for.
Meaning == [id \in Covered |-> RangeWeight(RangeOf(id)[1])]

\* After consolidate no two ranges are left that could be joined, and the size,
\* which joining leaves alone, is the number of identifiers.
Consolidated ==
  /\ siz = Cardinality(Covered)
  /\ pc \in {"begin", "read", "end"} =>
       \A r, s \in ranges : r[2] + 1 = s[1] => RangeWeight(r[1]) # RangeWeight(s[1])

\* The set is in order after every step of fastAdd and consolidate.
RangesInOrder == TypeOK /\ WellFormed /\ Consolidated

Sum(id) == FoldFunctionOnSet(+, 0, [i \in DOMAIN list |-> list[i].weight],
                             {i \in DOMAIN list : list[i].id = id})

\* A walk over the set sees every identifier of the list with the sum of its weights, in
\* whatever order and however often they were added (fastAdd, consolidate,
\* const_iterator::second).
ReadsSums ==
  pc = "end" => read = [id \in {list[i].id : i \in DOMAIN list} |-> Sum(id)]

Abstract == INSTANCE WeightMap WITH map <- Meaning

\* Filling the ranges is filling a map; consolidating and reading them change
\* nothing of what they stand for (fastAdd, consolidate).
Refinement == Abstract!Spec

\* consolidate and the walk end, though they change the set they go through.
Termination == <>(pc = "end")
=============================================================================
