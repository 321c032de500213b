------------------------------ MODULE RangeSet ------------------------------
(***************************************************************************)
(* Class Set of Collections/WeightedSet.{h,cpp}: a set of identifiers kept *)
(* as an ordered set of closed ranges, with its size counted separately.   *)
(* Every element set of an area and every set of base elements is one.     *)
(*                                                                         *)
(* The iterator (Set::Iterator) is modelled too: it walks range by range,  *)
(* and erase returns one, with which a walk may go on (the header says     *)
(* "Use 'it = set.erase(it)'"; the program itself erases nothing).  The    *)
(* set is not changed behind a live iterator in any other way.             *)
(***************************************************************************)
EXTENDS Integers, FiniteSets

CONSTANT MaxId   \* the largest identifier

ASSUME MaxIdAssumption == MaxId \in Nat

Ids == 0..MaxId

VARIABLES
  ranges,   \* the std::set of <low, high> pairs
  siz,      \* the stored size
  result,   \* what the last insert returned
  iter,     \* the live iterator: its position, or AtEnd, or None
  walked    \* identifiers the iterator has stood on since begin()

setVars == <<ranges, siz, result, iter, walked>>

Span(low, high) == [low |-> low, high |-> high]
AtEnd == [end |-> TRUE]
None == [end |-> FALSE]
On(id) == [id |-> id]

Covers(r, id) == r.low =< id /\ id =< r.high
Members == {id \in Ids : \E r \in ranges : Covers(r, id)}

SetInit ==
  /\ ranges = {}
  /\ siz = 0
  /\ result = FALSE
  /\ iter = None
  /\ walked = {}

-----------------------------------------------------------------------------

\* Where insert starts: the range that begins at id, else the last one that
\* begins before id, else the first one.
StartAt(r, id) ==
  \/ r.low = id
  \/ r.low < id /\ \A s \in ranges : s.low =< r.low \/ s.low > id
  \/ r.low > id /\ \A s \in ranges : s.low >= r.low

Replace(old, new) ==
  /\ ranges' = (ranges \ old) \cup {new}
  /\ siz' = siz + 1
  /\ result' = TRUE

\* Mutant: the next range is never joined.
NeverNext(s, id) == FALSE

IsNext(s, id) == s.low = id + 1

\* The found range ends before id: id may join it, the next range, or both.
InsertBehind(r, id) ==
  /\ r.high < id
  /\ \/ /\ r.high = id - 1
        /\ \/ \E s \in ranges : IsNext(s, id) /\ Replace({r, s}, Span(r.low, s.high))
           \/ /\ \A s \in ranges : ~IsNext(s, id)
              /\ Replace({r}, Span(r.low, id))
     \/ /\ r.high < id - 1
        /\ \/ \E s \in ranges : IsNext(s, id) /\ Replace({s}, Span(id, s.high))
           \/ /\ \A s \in ranges : ~IsNext(s, id)
              /\ Replace({}, Span(id, id))

\* Mutant: the range is extended too far down.
InsertBeforeTooLow(r, id) == r.low > id /\ Replace({r}, Span(id - 1, r.high))

\* The found range is the first one and begins after id.
InsertBefore(r, id) ==
  /\ r.low > id
  /\ \/ r.low = id + 1 /\ Replace({r}, Span(id, r.high))
     \/ r.low > id + 1 /\ Replace({}, Span(id, id))

InsertPresent(r, id) ==
  /\ Covers(r, id)
  /\ result' = FALSE
  /\ UNCHANGED <<ranges, siz>>

Insert(id) ==
  /\ iter = None
  /\ \/ ranges = {} /\ Replace({}, Span(id, id))
     \/ \E r \in ranges :
          /\ StartAt(r, id)
          /\ InsertBehind(r, id) \/ InsertBefore(r, id) \/ InsertPresent(r, id)
  /\ UNCHANGED <<iter, walked>>

\* Mutant: the size survives.
ClearKeepsSize ==
  iter = None /\ ranges' = {} /\ UNCHANGED <<siz, result, iter, walked>>

ClearSet ==
  /\ iter = None
  /\ ranges' = {} /\ siz' = 0
  /\ UNCHANGED <<result, iter, walked>>

-----------------------------------------------------------------------------

FirstOf(R) == CHOOSE r \in R : \A s \in R : r.low =< s.low

\* Mutant: the iterator enters a range at its end.
NextRangeEnd(low) ==
  LET later == {s \in ranges : s.low > low}
  IN IF later = {} THEN AtEnd ELSE On(FirstOf(later).high)

\* The iterator on the first identifier of the range after low, or the end.
NextRange(low) ==
  LET later == {s \in ranges : s.low > low}
  IN IF later = {} THEN AtEnd ELSE On(FirstOf(later).low)

Begin ==
  /\ iter = None
  /\ iter' = NextRange(-1)
  /\ walked' = IF iter' = AtEnd THEN {} ELSE {iter'.id}
  /\ UNCHANGED <<ranges, siz, result>>

\* operator++
Advance ==
  /\ iter \notin {None, AtEnd}
  /\ \E r \in ranges :
       /\ Covers(r, iter.id)
       /\ iter' = IF iter.id < r.high THEN On(iter.id + 1) ELSE NextRange(r.low)
  /\ walked' = IF iter' = AtEnd THEN walked ELSE walked \cup {iter'.id}
  /\ UNCHANGED <<ranges, siz, result>>

Stop == iter # None /\ iter' = None /\ walked' = {} /\ UNCHANGED <<ranges, siz, result>>

\* Set::erase(it), with the iterator it returns.
Erase(id) ==
  /\ iter = On(id)
  /\ siz' = siz - 1
  /\ \E r \in ranges :
       /\ Covers(r, id)
       /\ \/ /\ r.low = id
             /\ ranges' = (ranges \ {r}) \cup
                          (IF r.high = id THEN {} ELSE {Span(id + 1, r.high)})
             /\ iter' = IF r.high = id THEN NextRange(r.low) ELSE On(id + 1)
          \/ /\ r.low < id /\ r.high = id
             /\ ranges' = (ranges \ {r}) \cup {Span(r.low, id - 1)}
             /\ iter' = On(id - 1)
          \/ /\ r.low < id /\ id < r.high
             /\ ranges' = (ranges \ {r}) \cup {Span(r.low, id - 1), Span(id + 1, r.high)}
             /\ iter' = On(id + 1)
  /\ walked' = (walked \ {id}) \cup (IF iter' = AtEnd THEN {} ELSE {iter'.id})
  /\ UNCHANGED result

-----------------------------------------------------------------------------

\* Mutant: only the first identifiers of ranges are found.
IsLow(id) == \E r \in ranges : r.low = id

\* isInSet: find looks at the range that begins at id and at the one before.
IsInSet(id) ==
  \/ \E r \in ranges : r.low = id
  \/ \E r \in ranges :
       /\ r.low < id /\ \A s \in ranges : s.low =< r.low \/ s.low >= id
       /\ Covers(r, id)

SetNext ==
  \/ \E id \in Ids : Insert(id) \/ Erase(id)
  \/ ClearSet \/ Begin \/ Advance \/ Stop

SetSpec == SetInit /\ [][SetNext]_setVars

-----------------------------------------------------------------------------

SetTypeOK ==
  /\ ranges \subseteq [low : Ids, high : Ids]
  /\ siz \in Nat
  /\ result \in BOOLEAN
  /\ iter \in {None, AtEnd} \cup {On(id) : id \in Ids}
  /\ walked \subseteq Ids

\* The ranges are well formed and at least one identifier apart, so no identifier
\* is held twice and joining is never missed (insert, erase).
Canonical ==
  /\ \A r \in ranges : r.low =< r.high
  /\ \A r, s \in ranges : r # s => r.high + 1 < s.low \/ s.high + 1 < r.low

\* The stored size, which area sizes and result allocations are computed from, is
\* the number of identifiers (insert's and erase's counting).
SizeExact == siz = Cardinality(Members)

\* The look-up by neighbouring ranges finds exactly the members (find, isInSet).
LookupExact == \A id \in Ids : IsInSet(id) <=> id \in Members

\* A walk from begin() passes over no member: whatever lies before the iterator
\* has been stood on, also when elements were erased on the way
\* (operator++, erase's returned iterator).
WalkComplete ==
  iter # None =>
    /\ walked \subseteq Members
    /\ \A id \in Members : iter = AtEnd \/ id =< iter.id => id \in walked

Abstract == INSTANCE IdSet WITH members <- Members, size <- siz, isNew <- result

\* The set of ranges behaves as a plain set of identifiers.
SetRefinement == Abstract!Spec
=============================================================================
