-------------------------- MODULE CollectionsProofs --------------------------
(***************************************************************************)
(* Theorems about the collections.                                         *)
(*                                                                         *)
(* RangeSet, for every MaxId.  The inductive invariant of the ranges is    *)
(* their type with Canonical; the size and the walk of the iterator are    *)
(* added to it, and the refinement follows from what a step does to the    *)
(* set of members.                                                         *)
(*                                                                         *)
(* ProbeTable, for all keys, hash functions and sizes: every element is    *)
(* found from its home, every call answers as the map it implements, and a *)
(* free place is always left.                                              *)
(***************************************************************************)
EXTENDS RangeSet, ProbeTable, SharedLemmas

-----------------------------------------------------------------------------
(* RangeSet. *)


AllRanges == [low : Ids, high : Ids]

\* A non-empty set of ranges has a first one, which FirstOf chooses.
LEMMA FirstIsFirst ==
  ASSUME NEW R, R \subseteq AllRanges, R # {}
  PROVE  FirstOf(R) \in R /\ \A s \in R : FirstOf(R).low =< s.low
<1> DEFINE lows == {r.low : r \in R}
<1>1. lows \subseteq Nat /\ lows # {}
  BY DEF AllRanges, Ids
<1>2. PICK n \in lows : \A m \in lows : n =< m
  BY <1>1, MinExists
<1>3. \E r \in R : \A s \in R : r.low =< s.low
  BY <1>2
<1>4. QED
  BY <1>3 DEF FirstOf

-----------------------------------------------------------------------------
(* The ranges: every operation keeps their type and Canonical, and changes  *)
(* the set of members as the abstract operation does.                       *)

Shape == ranges \subseteq AllRanges /\ Canonical

\* What Replace leaves behind when the new range is free of all that stay.
LEMMA ReplaceKeepsShape ==
  ASSUME Shape, NEW old, NEW new \in AllRanges, new.low =< new.high,
         \A s \in ranges \ old : s.high + 1 < new.low \/ new.high + 1 < s.low,
         ranges' = (ranges \ old) \cup {new}
  PROVE  Shape'
<1>1. (ranges \subseteq AllRanges)'
  BY DEF Shape
<1>2. (\A r \in ranges : r.low =< r.high)'
  BY DEF Shape, Canonical
<1>3. ASSUME NEW r \in ranges', NEW s \in ranges', r # s
      PROVE  r.high + 1 < s.low \/ s.high + 1 < r.low
  <2>1. CASE r = new /\ s # new
    BY <2>1
  <2>2. CASE s = new /\ r # new
    BY <2>2
  <2>3. CASE r # new /\ s # new
    BY <1>3, <2>3 DEF Shape, Canonical
  <2>4. QED
    BY <1>3, <2>1, <2>2, <2>3
<1>4. QED
  BY <1>1, <1>2, <1>3 DEF Shape, Canonical

\* What an insertion of id does, seen from outside.
Inserted(id) ==
  /\ Shape'
  /\ Members' = Members \cup {id}
  /\ result' = (id \notin Members)
  /\ siz' = IF id \in Members THEN siz ELSE siz + 1

\* The members after Replace.
LEMMA ReplaceInserts ==
  ASSUME Shape, NEW id \in Ids, id \notin Members,
         NEW old \in SUBSET ranges, NEW new \in AllRanges, new.low =< new.high,
         \A s \in ranges \ old : s.high + 1 < new.low \/ new.high + 1 < s.low,
         \A x \in Ids : Covers(new, x) <=> x = id \/ \E r \in old : Covers(r, x),
         Replace(old, new)
  PROVE  Inserted(id)
<1>1. ranges' = (ranges \ old) \cup {new} /\ siz' = siz + 1 /\ result' = TRUE
  BY DEF Replace
<1>2. Shape'
  BY <1>1, ReplaceKeepsShape
<1>3. ASSUME NEW x \in Ids
      PROVE  (\E r \in ranges' : Covers(r, x)) <=> x = id \/ \E r \in ranges : Covers(r, x)
  BY <1>1
<1>4. Members' = {x \in Ids : \E r \in ranges' : Covers(r, x)}
  BY DEF Members, Covers
<1>5. Members' = Members \cup {id}
  BY <1>3, <1>4 DEF Members
<1>6. QED
  BY <1>1, <1>2, <1>5 DEF Inserted

\* The found range ends before id: every other one is clear of it on either side.
LEMMA BehindIsLast ==
  ASSUME Shape, NEW id \in Ids, NEW r \in ranges, StartAt(r, id), r.high < id
  PROVE  /\ r.low < id
         /\ \A s \in ranges \ {r} : s.high + 1 < r.low \/ (id < s.low /\ r.high + 1 < s.low)
         /\ id \notin Members
<1> USE DEF Shape, AllRanges, Ids
<1>1. r.low < id /\ \A s \in ranges : s.low =< r.low \/ s.low > id
  BY DEF StartAt, Canonical
<1>2. \A s \in ranges \ {r} : s.high + 1 < r.low \/ (id < s.low /\ r.high + 1 < s.low)
  BY <1>1 DEF Canonical
<1>3. id \notin Members
  BY <1>2 DEF Members, Covers, Canonical
<1>4. QED
  BY <1>1, <1>2, <1>3

\* insert behind the found range.
LEMMA InsertBehindInserts ==
  ASSUME Shape, NEW id \in Ids, NEW r \in ranges, StartAt(r, id), InsertBehind(r, id)
  PROVE  Inserted(id)
<1> USE DEF Shape, AllRanges, Ids
<1>0. r.high < id
  BY DEF InsertBehind
<1>1. /\ r.low < id
      /\ \A s \in ranges \ {r} : s.high + 1 < r.low \/ (id < s.low /\ r.high + 1 < s.low)
      /\ id \notin Members
  BY <1>0, BehindIsLast
<1>2. ASSUME NEW s \in ranges, IsNext(s, id)
      PROVE  \A t \in ranges \ {s} : t.high + 1 < s.low \/ s.high + 1 < t.low
  BY DEF Canonical
<1>3. ASSUME r.high = id - 1, NEW s \in ranges, IsNext(s, id), Replace({r, s}, Span(r.low, s.high))
      PROVE  Inserted(id)
  <2> DEFINE new == Span(r.low, s.high)
  <2>1. new \in AllRanges /\ new.low = r.low /\ new.high = s.high /\ r.low =< s.high
    BY <1>3, <1>1 DEF Span, IsNext, Canonical
  <2>2. \A t \in ranges \ {r, s} : t.high + 1 < new.low \/ new.high + 1 < t.low
    BY <2>1, <1>1, <1>2, <1>3 DEF IsNext, Canonical
  <2>3. \A x \in Ids : Covers(new, x) <=> x = id \/ \E t \in {r, s} : Covers(t, x)
    BY <2>1, <1>1, <1>3 DEF IsNext, Canonical, Covers
  <2>4. {r, s} \subseteq ranges /\ Replace({r, s}, new)
    BY <1>3
  <2> HIDE DEF new
  <2>5. PICK old : old = {r, s}
    OBVIOUS
  <2>6. \A t \in ranges \ old : t.high + 1 < new.low \/ new.high + 1 < t.low
    BY <2>2, <2>5
  <2>7. \A x \in Ids : Covers(new, x) <=> x = id \/ \E t \in old : Covers(t, x)
    BY <2>3, <2>5
  <2>8. QED
    BY <2>1, <2>4, <2>5, <2>6, <2>7, <1>1, ReplaceInserts
<1>4. ASSUME r.high = id - 1, \A s \in ranges : ~IsNext(s, id), Replace({r}, Span(r.low, id))
      PROVE  Inserted(id)
  <2> DEFINE new == Span(r.low, id)
  <2>1. new \in AllRanges /\ new.low = r.low /\ new.high = id
    BY <1>4, <1>1 DEF Span
  <2>2. \A t \in ranges \ {r} : t.high + 1 < new.low \/ new.high + 1 < t.low
    BY <2>1, <1>1, <1>4 DEF IsNext
  <2>3. \A x \in Ids : Covers(new, x) <=> x = id \/ \E t \in {r} : Covers(t, x)
    BY <2>1, <1>1, <1>4 DEF Covers
  <2> HIDE DEF new
  <2>4. QED
    BY <2>1, <2>2, <2>3, <1>1, <1>4, ReplaceInserts DEF new
<1>5. ASSUME r.high < id - 1, NEW s \in ranges, IsNext(s, id), Replace({s}, Span(id, s.high))
      PROVE  Inserted(id)
  <2> DEFINE new == Span(id, s.high)
  <2>1. new \in AllRanges /\ new.low = id /\ new.high = s.high /\ id =< s.high
    BY <1>5, <1>1 DEF Span, IsNext, Canonical
  <2>2. \A t \in ranges \ {s} : t.high + 1 < new.low \/ new.high + 1 < t.low
    BY <2>1, <1>1, <1>2, <1>5 DEF IsNext, Canonical
  <2>3. \A x \in Ids : Covers(new, x) <=> x = id \/ \E t \in {s} : Covers(t, x)
    BY <2>1, <1>1, <1>5 DEF IsNext, Canonical, Covers
  <2> HIDE DEF new
  <2>4. QED
    BY <2>1, <2>2, <2>3, <1>1, <1>5, ReplaceInserts DEF new
<1>6. ASSUME r.high < id - 1, \A s \in ranges : ~IsNext(s, id), Replace({}, Span(id, id))
      PROVE  Inserted(id)
  <2> DEFINE new == Span(id, id)
  <2>1. new \in AllRanges /\ new.low = id /\ new.high = id
    BY DEF Span
  <2>2. \A t \in ranges \ {} : t.high + 1 < new.low \/ new.high + 1 < t.low
    BY <2>1, <1>1, <1>6 DEF IsNext
  <2>3. \A x \in Ids : Covers(new, x) <=> x = id \/ \E t \in {} : Covers(t, x)
    BY <2>1 DEF Covers
  <2> HIDE DEF new
  <2>4. QED
    BY <2>1, <2>2, <2>3, <1>1, <1>6, ReplaceInserts DEF new
<1>7. QED
  BY <1>3, <1>4, <1>5, <1>6 DEF InsertBehind

\* insert before the first range.
LEMMA InsertBeforeInserts ==
  ASSUME Shape, NEW id \in Ids, NEW r \in ranges, StartAt(r, id), InsertBefore(r, id)
  PROVE  Inserted(id)
<1> USE DEF Shape, AllRanges, Ids
<1>1. r.low > id /\ \A s \in ranges : s.low >= r.low
  BY DEF StartAt, InsertBefore
<1>2. id \notin Members
  BY <1>1 DEF Members, Covers
<1>3. ASSUME r.low = id + 1, Replace({r}, Span(id, r.high))
      PROVE  Inserted(id)
  <2> DEFINE new == Span(id, r.high)
  <2>1. new \in AllRanges /\ new.low = id /\ new.high = r.high /\ id =< r.high
    BY <1>3 DEF Span, Canonical
  <2>2. \A t \in ranges \ {r} : t.high + 1 < new.low \/ new.high + 1 < t.low
    BY <2>1, <1>1 DEF Canonical
  <2>3. \A x \in Ids : Covers(new, x) <=> x = id \/ \E t \in {r} : Covers(t, x)
    BY <2>1, <1>3 DEF Covers
  <2> HIDE DEF new
  <2>4. QED
    BY <2>1, <2>2, <2>3, <1>2, <1>3, ReplaceInserts DEF new
<1>4. ASSUME r.low > id + 1, Replace({}, Span(id, id))
      PROVE  Inserted(id)
  <2> DEFINE new == Span(id, id)
  <2>1. new \in AllRanges /\ new.low = id /\ new.high = id
    BY DEF Span
  <2>2. \A t \in ranges \ {} : t.high + 1 < new.low \/ new.high + 1 < t.low
    BY <2>1, <1>1, <1>4 DEF Canonical
  <2>3. \A x \in Ids : Covers(new, x) <=> x = id \/ \E t \in {} : Covers(t, x)
    BY <2>1 DEF Covers
  <2> HIDE DEF new
  <2>4. QED
    BY <2>1, <2>2, <2>3, <1>2, <1>4, ReplaceInserts DEF new
<1>5. QED
  BY <1>3, <1>4 DEF InsertBefore

\* Whatever branch insert takes.
LEMMA InsertInserts ==
  ASSUME Shape, NEW id \in Ids, Insert(id)
  PROVE  Inserted(id)
<1>1. ASSUME ranges = {}, Replace({}, Span(id, id))
      PROVE  Inserted(id)
  <2>1. id \notin Members
    BY <1>1 DEF Members
  <2>2. Span(id, id) \in AllRanges /\ Span(id, id).low = id /\ Span(id, id).high = id
    BY DEF Span, AllRanges
  <2>3. \A x \in Ids : Covers(Span(id, id), x) <=> x = id \/ \E t \in {} : Covers(t, x)
    BY <2>2 DEF Covers, Ids
  <2>4. id =< id
    BY DEF Ids
  <2>5. QED
    BY <1>1, <2>1, <2>2, <2>3, <2>4, ReplaceInserts
<1>2. ASSUME NEW r \in ranges, InsertPresent(r, id)
      PROVE  Inserted(id)
  <2>1. id \in Members /\ ranges' = ranges /\ siz' = siz /\ result' = FALSE
    BY <1>2 DEF InsertPresent, Members
  <2>2. Members' = Members
    BY <2>1 DEF Members, Covers
  <2>3. QED
    BY <2>1, <2>2 DEF Inserted, Shape, Canonical
<1>3. QED
  BY <1>1, <1>2, InsertBehindInserts, InsertBeforeInserts DEF Insert

\* What an erasure of id does, and where the returned iterator stands: every
\* member that is left lies on the side of it that the proof of the walk needs.
Erased(id) ==
  /\ Shape'
  /\ Members' = Members \ {id}
  /\ siz' = siz - 1
  /\ \/ iter' = AtEnd /\ \A x \in Members' : x < id
     \/ \E n \in Members' : iter' = On(n) /\ \A x \in Members' : x =< n => x =< id \/ x = n

\* The range after low: the first of those that begin later.
LEMMA NextRangeIsFirst ==
  ASSUME Shape, NEW low \in Int
  PROVE  \/ NextRange(low) = AtEnd /\ \A s \in ranges : s.low =< low
         \/ \E r \in ranges : /\ NextRange(low) = On(r.low) /\ r.low > low
                            /\ \A s \in ranges : s.low > low => r.low =< s.low
<1> DEFINE later == {s \in ranges : s.low > low}
<1>1. CASE later = {}
  BY <1>1 DEF NextRange, Shape, AllRanges, Ids
<1>2. CASE later # {}
  <2>1. FirstOf(later) \in later /\ \A s \in later : FirstOf(later).low =< s.low
    BY <1>2, FirstIsFirst DEF Shape
  <2>2. NextRange(low) = On(FirstOf(later).low)
    BY <1>2 DEF NextRange
  <2> HIDE DEF later
  <2>3. QED
    BY <2>1, <2>2 DEF later
<1>3. QED
  BY <1>1, <1>2

LEMMA SpanFields ==
  ASSUME NEW low \in Ids, NEW high \in Ids
  PROVE  Span(low, high) \in AllRanges /\ Span(low, high).low = low /\ Span(low, high).high = high
BY DEF Span, AllRanges

\* What is left of range r, as a set of ranges, when id is taken out of it.
Cut(r, id, parts) ==
  /\ parts \subseteq AllRanges
  /\ \A p \in parts : r.low =< p.low /\ p.low =< p.high /\ p.high =< r.high
  /\ \A p, q \in parts : p # q => p.high + 1 < q.low \/ q.high + 1 < p.low
  /\ \A x \in Ids : (\E p \in parts : Covers(p, x)) <=> Covers(r, x) /\ x # id

\* When a range is cut, its parts keep the distance to the others.
LEMMA CutKeepsShape ==
  ASSUME Shape, NEW r \in ranges, NEW parts, parts \subseteq AllRanges,
         \A p \in parts : r.low =< p.low /\ p.low =< p.high /\ p.high =< r.high,
         \A p, q \in parts : p # q => p.high + 1 < q.low \/ q.high + 1 < p.low,
         ranges' = (ranges \ {r}) \cup parts
  PROVE  Shape'
<1> USE DEF Shape, AllRanges, Ids
<1>1. (ranges \subseteq AllRanges)'
  OBVIOUS
<1>2. (\A s \in ranges : s.low =< s.high)'
  BY DEF Canonical
<1>3. ASSUME NEW s \in ranges', NEW t \in ranges', s # t
      PROVE  s.high + 1 < t.low \/ t.high + 1 < s.low
  <2>1. CASE s \in parts /\ t \notin parts
    BY <2>1 DEF Canonical
  <2>2. CASE t \in parts /\ s \notin parts
    BY <2>2 DEF Canonical
  <2>3. CASE s \notin parts /\ t \notin parts
    BY <1>3, <2>3 DEF Canonical
  <2>4. QED
    BY <1>3, <2>1, <2>2, <2>3
<1>4. QED
  BY <1>1, <1>2, <1>3 DEF Canonical

\* erase, whatever part of a range the identifier is.
LEMMA EraseErases ==
  ASSUME Shape, NEW id \in Ids, Erase(id)
  PROVE  id \in Members /\ Erased(id)
<1> USE MaxIdAssumption DEF AllRanges, Ids
<1>1. PICK r \in ranges :
        /\ Covers(r, id)
        /\ \/ /\ r.low = id
              /\ ranges' = (ranges \ {r}) \cup
                           (IF r.high = id THEN {} ELSE {Span(id + 1, r.high)})
              /\ iter' = IF r.high = id THEN NextRange(r.low) ELSE On(id + 1)
           \/ /\ r.low < id /\ r.high = id
              /\ ranges' = (ranges \ {r}) \cup {Span(r.low, id - 1)}
              /\ iter' = On(id - 1)
           \/ /\ r.low < id /\ id < r.high
              /\ ranges' = (ranges \ {r}) \cup {Span(r.low, id - 1), Span(id + 1, r.high)}
              /\ iter' = On(id + 1)
  BY DEF Erase
<1>2. r \in AllRanges /\ r.low =< id /\ id =< r.high /\ id \in Members
  BY <1>1 DEF Covers, Members, Shape
<1>3. PICK parts : ranges' = (ranges \ {r}) \cup parts /\ Cut(r, id, parts)
  <2>1. CASE r.low = id /\ r.high = id
    <3>1. ranges' = (ranges \ {r}) \cup {}
      BY <1>1, <2>1
    <3>2. Cut(r, id, {})
      BY <2>1, <1>2 DEF Cut, Covers
    <3>3. QED
      BY <3>1, <3>2
  <2>2. CASE r.low = id /\ r.high # id
    <3> DEFINE p == Span(id + 1, r.high)
    <3>1. ranges' = (ranges \ {r}) \cup {p}
      BY <1>1, <2>2
    <3>2. p \in AllRanges /\ p.low = id + 1 /\ p.high = r.high
      BY <2>2, <1>2, SpanFields
    <3> HIDE DEF p
    <3>3. Cut(r, id, {p})
      BY <3>2, <2>2, <1>2 DEF Cut, Covers
    <3>4. QED
      BY <3>1, <3>3
  <2>3. CASE r.low < id /\ r.high = id
    <3> DEFINE p == Span(r.low, id - 1)
    <3>1. ranges' = (ranges \ {r}) \cup {p}
      BY <1>1, <2>3
    <3>2. p \in AllRanges /\ p.low = r.low /\ p.high = id - 1
      BY <2>3, <1>2, SpanFields
    <3> HIDE DEF p
    <3>3. Cut(r, id, {p})
      BY <3>2, <2>3, <1>2 DEF Cut, Covers
    <3>4. QED
      BY <3>1, <3>3
  <2>4. CASE r.low < id /\ id < r.high
    <3> DEFINE p == Span(r.low, id - 1)
               q == Span(id + 1, r.high)
    <3>1. ranges' = (ranges \ {r}) \cup {p, q}
      BY <1>1, <2>4
    <3>2. p \in AllRanges /\ p.low = r.low /\ p.high = id - 1
      BY <2>4, <1>2, SpanFields
    <3>3. q \in AllRanges /\ q.low = id + 1 /\ q.high = r.high
      BY <2>4, <1>2, SpanFields
    <3> HIDE DEF p, q
    <3>4. Cut(r, id, {p, q})
      BY <3>2, <3>3, <2>4, <1>2 DEF Cut, Covers
    <3>5. QED
      BY <3>1, <3>4
  <2>5. QED
    BY <1>2, <2>1, <2>2, <2>3, <2>4
<1>4. Shape'
  BY <1>3, CutKeepsShape DEF Cut
<1>5. ASSUME NEW x \in Ids
      PROVE  (\E s \in ranges' : Covers(s, x)) <=> (\E s \in ranges : Covers(s, x)) /\ x # id
  <2>1. \A s \in ranges \ {r} : ~Covers(s, id)
    BY <1>2 DEF Covers, Shape, Canonical
  <2>2. QED
    BY <1>3, <1>2, <2>1 DEF Cut
<1>6. Members' = Members \ {id}
  <2>1. Members' = {x \in Ids : \E s \in ranges' : Covers(s, x)}
    BY DEF Members, Covers
  <2>2. QED
    BY <2>1, <1>5 DEF Members
<1>7. \/ iter' = AtEnd /\ \A x \in Members' : x < id
      \/ \E n \in Members' : iter' = On(n) /\ \A x \in Members' : x =< n => x =< id \/ x = n
  <2>1. CASE r.low = id /\ r.high = id
    <3>1. iter' = NextRange(id)
      BY <1>1, <2>1
    <3>2. CASE NextRange(id) = AtEnd /\ \A s \in ranges : s.low =< id
      <4>1. \A x \in Members \ {id} : x < id
        BY <3>2, <2>1 DEF Members, Covers, Shape, Canonical
      <4>2. QED
        BY <4>1, <3>1, <3>2, <1>6
    <3>3. ASSUME NEW s \in ranges, NextRange(id) = On(s.low), s.low > id,
                 \A t \in ranges : t.low > id => s.low =< t.low
          PROVE  \E n \in Members' :
                   iter' = On(n) /\ \A x \in Members' : x =< n => x =< id \/ x = n
      <4>1. s.low \in Members \ {id}
        BY <3>3 DEF Members, Covers, Shape, Canonical
      <4>2. \A x \in Members \ {id} : x =< s.low => x =< id \/ x = s.low
        BY <3>3, <2>1 DEF Members, Covers, Shape, Canonical
      <4>3. QED
        BY <4>1, <4>2, <3>1, <3>3, <1>6
    <3>4. QED
      BY <3>2, <3>3, NextRangeIsFirst
  <2>2. CASE r.low = id /\ r.high # id
    <3>1. iter' = On(id + 1)
      BY <1>1, <2>2
    <3>0. id + 1 \in Members \ {id}
      BY <1>2, <2>2 DEF Members, Covers
    <3>2. \A x \in Members : x =< id + 1 => x =< id \/ x = id + 1
      BY DEF Members
    <3>3. QED
      BY <3>0, <3>1, <3>2, <1>6
  <2>3. CASE r.low < id /\ r.high = id
    <3>1. iter' = On(id - 1)
      BY <1>1, <2>3
    <3>0. id - 1 \in Members \ {id}
      BY <1>2, <2>3 DEF Members, Covers
    <3>2. \A x \in Members : x =< id - 1 => x =< id
      BY DEF Members
    <3>3. QED
      BY <3>0, <3>1, <3>2, <1>6
  <2>4. CASE r.low < id /\ id < r.high
    <3>1. iter' = On(id + 1)
      BY <1>1, <2>4
    <3>0. id + 1 \in Members \ {id}
      BY <1>2, <2>4 DEF Members, Covers
    <3>2. \A x \in Members : x =< id + 1 => x =< id \/ x = id + 1
      BY DEF Members
    <3>3. QED
      BY <3>0, <3>1, <3>2, <1>6
  <2>5. QED
    BY <1>2, <2>1, <2>2, <2>3, <2>4
<1>8. QED
  BY <1>2, <1>4, <1>6, <1>7 DEF Erased, Erase

-----------------------------------------------------------------------------
(* The inductive invariant.  SetTypeOK alone is not inductive: that erase does *)
(* not count below zero needs SizeExact, and that it returns an iterator on *)
(* a member, so that the walk goes on, needs Canonical.                     *)

OnMember == iter \notin {None, AtEnd} => iter.id \in Members

SetIInv == SetTypeOK /\ Canonical /\ SizeExact /\ OnMember /\ WalkComplete

\* The three kinds of iterator values do not overlap.
LEMMA IteratorKinds ==
  /\ AtEnd # None
  /\ \A id : On(id) # AtEnd /\ On(id) # None /\ On(id).id = id
BY DEF On, AtEnd, None

LEMMA SubsetFinite ==
  ASSUME NEW S \in SUBSET Ids
  PROVE  IsFiniteSet(S) /\ Cardinality(S) \in Nat
<1>1. IsFiniteSet(Ids)
  BY MaxIdAssumption, FS_Interval DEF Ids
<1>2. QED
  BY <1>1, FS_Subset, FS_CardinalityType

LEMMA ShapeOfInvariant == SetIInv => Shape
BY DEF SetIInv, Shape, SetTypeOK, Canonical, AllRanges

LEMMA SetInitInvariant == SetInit => SetIInv
<1> SUFFICES ASSUME SetInit PROVE SetIInv
  OBVIOUS
<1>1. Members = {}
  BY DEF SetInit, Members
<1>2. SizeExact
  BY <1>1, FS_EmptySet DEF SetInit, SizeExact
<1>3. QED
  BY <1>2 DEF SetInit, SetIInv, SetTypeOK, Canonical, OnMember, WalkComplete

LEMMA InsertInvariant ==
  ASSUME SetIInv, NEW id \in Ids, Insert(id)
  PROVE  SetIInv'
<1>1. Inserted(id) /\ iter = None /\ iter' = None /\ walked' = walked
  BY InsertInserts, ShapeOfInvariant DEF Insert
<1>2. SizeExact'
  <2>1. IsFiniteSet(Members) /\ Cardinality(Members) \in Nat
    BY SubsetFinite DEF Members
  <2>2. Cardinality(Members') = IF id \in Members THEN Cardinality(Members)
                                                ELSE Cardinality(Members) + 1
    BY <1>1, <2>1, FS_AddElement DEF Inserted
  <2>3. QED
    BY <1>1, <2>2 DEF Inserted, SetIInv, SizeExact
<1>3. SetTypeOK' /\ Canonical'
  BY <1>1 DEF SetIInv, SetTypeOK, Inserted, Shape, AllRanges
<1>4. QED
  BY <1>1, <1>2, <1>3 DEF SetIInv, OnMember, WalkComplete

LEMMA EraseInvariant ==
  ASSUME SetIInv, NEW id \in Ids, Erase(id)
  PROVE  SetIInv'
<1>1. id \in Members /\ Erased(id) /\ iter = On(id)
  BY EraseErases, ShapeOfInvariant DEF Erase
<1>2. /\ walked' = (walked \ {id}) \cup (IF iter' = AtEnd THEN {} ELSE {iter'.id})
      /\ result' = result
  BY DEF Erase
<1>3. iter # None /\ iter # AtEnd /\ iter.id = id
  BY <1>1, IteratorKinds
<1>4. walked \subseteq Members /\ \A x \in Members : x =< id => x \in walked
  BY <1>3 DEF SetIInv, WalkComplete
<1>5. SizeExact' /\ siz' \in Nat
  <2>1. IsFiniteSet(Members) /\ Cardinality(Members) \in Nat
    BY SubsetFinite DEF Members
  <2>2. Cardinality(Members') = Cardinality(Members) - 1
    BY <1>1, <2>1, FS_RemoveElement DEF Erased
  <2>3. Cardinality(Members') \in Nat
    BY <1>1, SubsetFinite DEF Erased, Members
  <2>4. QED
    BY <1>1, <2>2, <2>3 DEF Erased, SetIInv, SizeExact
<1>6. Members' \subseteq Ids /\ Members' = Members \ {id}
  BY <1>1 DEF Erased, Members
<1>7. CASE iter' = AtEnd /\ \A x \in Members' : x < id
  <2>1. walked' = walked \ {id}
    BY <1>2, <1>7
  <2>2. walked' \subseteq Members' /\ \A x \in Members' : x \in walked'
    BY <2>1, <1>4, <1>6, <1>7 DEF Ids
  <2>3. OnMember' /\ WalkComplete'
    BY <1>7, <2>2, IteratorKinds DEF OnMember, WalkComplete
  <2>4. SetTypeOK'
    BY <1>1, <1>2, <1>5, <1>6, <1>7, <2>2 DEF SetIInv, SetTypeOK, Erased, Shape, AllRanges
  <2>5. QED
    BY <1>1, <1>5, <2>3, <2>4 DEF SetIInv, Erased, Shape
<1>8. ASSUME NEW n \in Members', iter' = On(n),
             \A x \in Members' : x =< n => x =< id \/ x = n
      PROVE  SetIInv'
  <2>1. iter' # AtEnd /\ iter' # None /\ iter'.id = n
    BY <1>8, IteratorKinds
  <2>2. walked' = (walked \ {id}) \cup {n}
    BY <1>2, <2>1
  <2>3. walked' \subseteq Members' /\ \A x \in Members' : x =< n => x \in walked'
    BY <2>2, <1>4, <1>6, <1>8 DEF Ids
  <2>4. OnMember' /\ WalkComplete'
    BY <2>1, <2>3 DEF OnMember, WalkComplete
  <2>5. SetTypeOK'
    BY <1>1, <1>2, <1>5, <1>6, <1>8, <2>3 DEF SetIInv, SetTypeOK, Erased, Shape, AllRanges
  <2>6. QED
    BY <1>1, <1>5, <2>4, <2>5 DEF SetIInv, Erased, Shape
<1>9. QED
  BY <1>1, <1>7, <1>8 DEF Erased

LEMMA ClearInvariant ==
  ASSUME SetIInv, ClearSet
  PROVE  SetIInv'
<1>1. Members' = {} /\ ranges' = {} /\ siz' = 0
  BY DEF ClearSet, Members
<1>2. SizeExact'
  BY <1>1, FS_EmptySet DEF SizeExact
<1>3. QED
  BY <1>1, <1>2 DEF ClearSet, SetIInv, SetTypeOK, Canonical, OnMember, WalkComplete

\* What the walk needs of the range after low, when every member up to the end
\* of the ranges that begin at low or before has been passed.
LEMMA NextRangeStep ==
  ASSUME Shape, NEW low \in Int
  PROVE  \/ NextRange(low) = AtEnd /\ \A x \in Members : \E s \in ranges : s.low =< low /\ Covers(s, x)
         \/ \E n \in Members :
              /\ NextRange(low) = On(n)
              /\ \A x \in Members : x =< n => x = n \/ \E s \in ranges : s.low =< low /\ Covers(s, x)
<1> USE DEF Shape, AllRanges, Ids
<1>1. CASE NextRange(low) = AtEnd /\ \A s \in ranges : s.low =< low
  BY <1>1 DEF Members
<1>2. ASSUME NEW r \in ranges, NextRange(low) = On(r.low), r.low > low,
             \A s \in ranges : s.low > low => r.low =< s.low
      PROVE  \E n \in Members :
               /\ NextRange(low) = On(n)
               /\ \A x \in Members :
                    x =< n => x = n \/ \E s \in ranges : s.low =< low /\ Covers(s, x)
  <2>1. r.low \in Members
    BY DEF Members, Covers, Canonical
  <2>2. \A x \in Members :
          x =< r.low => x = r.low \/ \E s \in ranges : s.low =< low /\ Covers(s, x)
    BY <1>2 DEF Members, Covers
  <2>3. QED
    BY <1>2, <2>1, <2>2
<1>3. QED
  BY <1>1, <1>2, NextRangeIsFirst

\* The steps of the iterator leave the ranges alone; what they must keep is the walk.
LEMMA WalkStep ==
  ASSUME SetIInv, UNCHANGED <<ranges, siz, result>>,
         \/ iter' = None /\ walked' = {}
         \/ iter' = AtEnd /\ walked' = Members
         \/ \E n \in Members : /\ iter' = On(n)
                            /\ walked' \subseteq Members /\ n \in walked'
                            /\ \A x \in Members : x =< n => x \in walked'
  PROVE  SetIInv'
<1>1. Members' = Members /\ Members \subseteq Ids
  BY DEF Members, Covers
<1>2. SizeExact' /\ Canonical'
  BY <1>1 DEF SetIInv, SizeExact, Canonical
<1>3. CASE iter' = None /\ walked' = {}
  BY <1>1, <1>2, <1>3 DEF SetIInv, SetTypeOK, OnMember, WalkComplete
<1>4. CASE iter' = AtEnd /\ walked' = Members
  BY <1>1, <1>2, <1>4 DEF SetIInv, SetTypeOK, OnMember, WalkComplete
<1>5. ASSUME NEW n \in Members, iter' = On(n), walked' \subseteq Members, n \in walked',
             \A x \in Members : x =< n => x \in walked'
      PROVE  SetIInv'
  <2>1. iter' # AtEnd /\ iter' # None /\ iter'.id = n
    BY <1>5, IteratorKinds
  <2>2. OnMember' /\ WalkComplete'
    BY <1>1, <1>5, <2>1 DEF OnMember, WalkComplete
  <2>3. SetTypeOK'
    BY <1>1, <1>5 DEF SetIInv, SetTypeOK
  <2>4. QED
    BY <1>2, <2>2, <2>3 DEF SetIInv
<1>6. QED
  BY <1>3, <1>4, <1>5

LEMMA BeginInvariant ==
  ASSUME SetIInv, Begin
  PROVE  SetIInv'
<1> USE ShapeOfInvariant
<1>1. /\ iter' = NextRange(-1) /\ UNCHANGED <<ranges, siz, result>>
      /\ walked' = IF iter' = AtEnd THEN {} ELSE {iter'.id}
  BY DEF Begin
<1>2. ~\E x \in Members : \E s \in ranges : s.low =< -1 /\ Covers(s, x)
  BY DEF Shape, AllRanges, Ids
<1>3. CASE NextRange(-1) = AtEnd /\ Members = {}
  BY <1>1, <1>3, WalkStep
<1>4. ASSUME NEW n \in Members, NextRange(-1) = On(n), \A x \in Members : x =< n => x = n
      PROVE  SetIInv'
  <2>1. walked' = {n}
    BY <1>1, <1>4, IteratorKinds
  <2>2. QED
    BY <1>1, <1>4, <2>1, WalkStep
<1>5. QED
  <2>1. -1 \in Int
    OBVIOUS
  <2>2. QED
    BY <1>2, <1>3, <1>4, <2>1, NextRangeStep

LEMMA AdvanceInvariant ==
  ASSUME SetIInv, Advance
  PROVE  SetIInv'
<1> USE MaxIdAssumption DEF AllRanges, Ids
<1>1. PICK id \in Ids : iter = On(id) /\ iter.id = id /\ iter # None
  BY IteratorKinds DEF SetIInv, SetTypeOK, Advance
<1>2. PICK r \in ranges :
        /\ Covers(r, id)
        /\ iter' = IF id < r.high THEN On(id + 1) ELSE NextRange(r.low)
  BY <1>1 DEF Advance
<1>3. /\ UNCHANGED <<ranges, siz, result>>
      /\ walked' = IF iter' = AtEnd THEN walked ELSE walked \cup {iter'.id}
  BY DEF Advance
<1>4. Shape /\ r \in AllRanges
  BY ShapeOfInvariant DEF Shape
<1>5. walked \subseteq Members /\ \A x \in Members : x =< id => x \in walked
  BY <1>1 DEF SetIInv, WalkComplete
<1>6. CASE id < r.high
  <2>1. iter' = On(id + 1) /\ walked' = walked \cup {id + 1}
    BY <1>2, <1>3, <1>6, IteratorKinds
  <2>2. id + 1 \in Members
    BY <1>2, <1>4, <1>6 DEF Members, Covers
  <2>3. \A x \in Members : x =< id + 1 => x =< id \/ x = id + 1
    BY DEF Members
  <2>4. QED
    BY <2>1, <2>2, <2>3, <1>3, <1>5, WalkStep
<1>7. CASE ~(id < r.high)
  <2>1. iter' = NextRange(r.low)
    BY <1>2, <1>7
  <2>2. \A x \in Members : (\E s \in ranges : s.low =< r.low /\ Covers(s, x)) => x \in walked
    <3>1. \A s \in ranges : s.low =< r.low => s.high =< id
      BY <1>2, <1>4, <1>7 DEF Shape, Canonical, Covers
    <3>2. QED
      BY <3>1, <1>4, <1>5 DEF Members, Covers, Shape
  <2>3. CASE /\ NextRange(r.low) = AtEnd
             /\ \A x \in Members : \E s \in ranges : s.low =< r.low /\ Covers(s, x)
    <3>1. walked' = Members
      BY <1>3, <1>5, <2>1, <2>2, <2>3
    <3>2. QED
      BY <3>1, <2>1, <2>3, <1>3, WalkStep
  <2>4. ASSUME NEW n \in Members, NextRange(r.low) = On(n),
               \A x \in Members :
                 x =< n => x = n \/ \E s \in ranges : s.low =< r.low /\ Covers(s, x)
        PROVE  SetIInv'
    <3>1. walked' = walked \cup {n}
      BY <1>3, <2>1, <2>4, IteratorKinds
    <3>2. walked' \subseteq Members /\ n \in walked' /\ \A x \in Members : x =< n => x \in walked'
      BY <3>1, <2>2, <2>4, <1>5
    <3>3. QED
      BY <3>2, <2>1, <2>4, <1>3, WalkStep
  <2>5. r.low \in Int
    BY <1>4
  <2>6. QED
    BY <2>3, <2>4, <2>5, <1>4, NextRangeStep
<1>8. QED
  BY <1>6, <1>7

LEMMA SetNextInvariant == SetIInv /\ [SetNext]_setVars => SetIInv'
<1> SUFFICES ASSUME SetIInv, [SetNext]_setVars PROVE SetIInv'
  OBVIOUS
<1>1. ASSUME Stop PROVE SetIInv'
  BY <1>1, WalkStep DEF Stop
<1>2. CASE UNCHANGED setVars
  BY <1>2 DEF setVars, SetIInv, SetTypeOK, Canonical, SizeExact, OnMember, WalkComplete, Members, Covers
<1>3. QED
  BY <1>1, <1>2, InsertInvariant, EraseInvariant, ClearInvariant, BeginInvariant,
     AdvanceInvariant DEF SetNext

\* The inductive invariant holds throughout.
THEOREM SetInvariance == SetSpec => []SetIInv
<1>1. QED
  BY SetInitInvariant, SetNextInvariant, PTL DEF SetSpec

\* Type correctness of Set, among it that the stored size never goes below zero.
THEOREM SetTypeCorrect == SetSpec => []SetTypeOK
<1>1. SetIInv => SetTypeOK
  BY DEF SetIInv
<1>2. QED
  BY <1>1, SetInvariance, PTL

\* Ranges never touch or overlap, however insert and erase follow each other.
THEOREM RangesCanonical == SetSpec => []Canonical
<1>1. SetIInv => Canonical
  BY DEF SetIInv
<1>2. QED
  BY <1>1, SetInvariance, PTL

\* The size that insert, erase and clear count is the number of identifiers.
THEOREM SizeIsExact == SetSpec => []SizeExact
<1>1. SetIInv => SizeExact
  BY DEF SetIInv
<1>2. QED
  BY <1>1, SetInvariance, PTL

\* find, which looks at two neighbouring ranges only, finds exactly the members.
THEOREM LookupIsExact == SetSpec => []LookupExact
<1>1. ASSUME SetIInv PROVE LookupExact
  <2>1. Shape
    BY <1>1, ShapeOfInvariant
  <2>2. ASSUME NEW id \in Ids, NEW r \in ranges, Covers(r, id), r.low # id
        PROVE  r.low < id /\ \A s \in ranges : s.low =< r.low \/ s.low >= id
    BY <2>1, <2>2 DEF Shape, Canonical, Covers, AllRanges, Ids
  <2>3. ASSUME NEW id \in Ids, NEW r \in ranges, r.low = id
        PROVE  Covers(r, id)
    BY <2>1, <2>3 DEF Shape, Canonical, Covers, AllRanges, Ids
  <2>4. QED
    BY <2>2, <2>3 DEF LookupExact, IsInSet, Members
<1>2. QED
  BY <1>1, SetInvariance, PTL

\* No walk over a set passes over a member, with or without erasing on the way.
THEOREM WalkIsComplete == SetSpec => []WalkComplete
<1>1. SetIInv => WalkComplete
  BY DEF SetIInv
<1>2. QED
  BY <1>1, SetInvariance, PTL

-----------------------------------------------------------------------------
(* SetRefinement: Set implements IdSet. *)

\* Every step of Set is a step of the abstract set or leaves it alone.
LEMMA NextRefines ==
  SetIInv /\ SetIInv' /\ [SetNext]_setVars => [Abstract!Next]_<<Members, siz, result>>
<1> SUFFICES ASSUME SetIInv, SetIInv', [SetNext]_setVars
             PROVE  Abstract!Next \/ UNCHANGED <<Members, siz, result>>
  OBVIOUS
<1>0. siz' = Abstract!Cardinality(Members')
  BY DEF SetIInv, SizeExact, Cardinality, Abstract!Cardinality
<1>1. ASSUME NEW id \in Ids, Insert(id)
      PROVE  Abstract!Insert(id)
  BY <1>0, <1>1, InsertInserts, ShapeOfInvariant DEF Inserted, Abstract!Insert
<1>2. ASSUME NEW id \in Ids, Erase(id)
      PROVE  Abstract!Erase(id)
  BY <1>0, <1>2, EraseErases, ShapeOfInvariant DEF Erased, Erase, Abstract!Erase
<1>3. ASSUME ClearSet PROVE Abstract!Clear
  BY <1>3 DEF ClearSet, Abstract!Clear, Members
<1>4. ASSUME Begin \/ Advance \/ Stop \/ UNCHANGED setVars
      PROVE  UNCHANGED <<Members, siz, result>>
  BY <1>4 DEF Begin, Advance, Stop, setVars, Members, Covers
<1>5. QED
  BY <1>1, <1>2, <1>3, <1>4 DEF SetNext, Abstract!Next

\* The ordered set of ranges implements the plain set of identifiers.
THEOREM SetRefinesIdSet == SetSpec => SetRefinement
<1>1. SetInit => Abstract!Init
  BY DEF SetInit, Abstract!Init, Members
<1>2. QED
  BY <1>1, NextRefines, SetInvariance, PTL DEF SetSpec, SetRefinement, Abstract!Spec

-----------------------------------------------------------------------------
(* ProbeTable. *)


(* Arithmetic of the ring of places. *)

LEMMA AfterIs ==
  ASSUME nrAlloc \in Nat \ {0}, NEW p \in 0..(nrAlloc - 1)
  PROVE  After(p) = IF p + 1 = nrAlloc THEN 0 ELSE p + 1
BY DEF After

LEMMA HomeIs ==
  ASSUME nrAlloc \in Nat \ {0}, NEW key \in Keys
  PROVE  Home(key) \in 0..(nrAlloc - 1)
BY HashAssumption DEF Home

\* Of two places neither of which is passed on the way to the other, from the same
\* home, one is the other.
LEMMA OneWay ==
  ASSUME NEW h \in Nat, NEW p \in Nat, NEW q \in Nat, p # q, ~OnWay(h, q, p)
  PROVE  OnWay(h, p, q)
BY DEF OnWay

\* The way to the next place passes this one and what was passed before.
LEMMA WayOn ==
  ASSUME nrAlloc \in Nat \ {0}, NEW h \in 0..(nrAlloc - 1), NEW q \in 0..(nrAlloc - 1),
         NEW p \in 0..(nrAlloc - 1), OnWay(h, p, After(q))
  PROVE  p = q \/ OnWay(h, p, q)
BY AfterIs DEF OnWay

LEMMA WayHome ==
  ASSUME NEW h \in Nat, NEW p \in Nat, OnWay(h, p, h)
  PROVE  FALSE
BY DEF OnWay

-----------------------------------------------------------------------------
(* The inductive invariant. *)

Places == 0..(nrAlloc - 1)
Adding == call.name \in {"addElement", "addKey"}

\* The places of the old table that are still to be copied.
Remaining == Used(oldAlloc, oldTable) \cap k..oldAlloc

Coherent ==
  /\ pc = "idle" => call = NoCall /\ oldAlloc = 0 /\ k = 0
  /\ pc # "idle" => call \in Calls
  /\ pc = "probe" => oldAlloc = 0 /\ k = 0
  /\ pc = "copy" => Adding /\ oldAlloc > 0 /\ k =< oldAlloc
  /\ pc = "place" =>
       /\ Adding /\ item \in Elements
       /\ \/ k < oldAlloc /\ item = oldTable[k]
          \/ k = 0 /\ oldAlloc = 0 /\ call.name = "addKey" /\ item = call.element
  /\ pc = "close" => oldAlloc = 0 /\ k < nrAlloc /\ IsEmpty(i)

\* No key twice, and the key to be added nowhere.
Unique ==
  /\ \A p, q \in Used(nrAlloc, table) : table[p].key = table[q].key => p = q
  /\ \A p, q \in Remaining : oldTable[p].key = oldTable[q].key => p = q
  /\ \A p \in Used(nrAlloc, table), q \in Remaining : table[p].key # oldTable[q].key
  /\ pc \in {"copy", "place"} /\ call.name = "addKey" =>
       /\ \A p \in Used(nrAlloc, table) : table[p].key # call.key
       /\ \A q \in Remaining : oldTable[q].key # call.key

\* What probing has passed.
Passed ==
  /\ pc = "probe" =>
       \A p \in Places : OnWay(Home(call.key), p, i) => ~IsEmpty(p) /\ table[p].key # call.key
  /\ pc = "place" =>
       \A p \in Places : OnWay(Home(item.key), p, i) => ~IsEmpty(p)

\* q lies between the gap and the place to look at next.
Scanned(q) == IF i < k THEN i < q /\ q < k ELSE i < q \/ q < k

\* While the gap is being closed it lies on no way to a place already looked at.
Ways ==
  pc = "close" =>
    \A q \in Used(nrAlloc, table) : \A p \in Places :
      OnWay(Home(table[q].key), p, q) => ~IsEmpty(p) \/ (p = i /\ ~Scanned(q))

Counted == Cardinality(Used(nrAlloc, table)) = nrUsed

\* While a table is copied, no more is in the new one than places have been read.
Sized ==
  /\ nrUsed < nrAlloc
  /\ pc = "copy" => nrUsed =< k /\ nrAlloc = 2 * oldAlloc + 1
  /\ pc = "place" =>
       \/ k < oldAlloc /\ nrUsed =< k /\ nrAlloc = 2 * oldAlloc + 1
       \/ k = oldAlloc /\ nrUsed + 1 < nrAlloc

IInv == TypeOK /\ Coherent /\ Unique /\ Passed /\ NoGap /\ Ways /\ Counted /\ Sized

-----------------------------------------------------------------------------

LEMMA InitIInv == Init => IInv
<1> SUFFICES ASSUME Init PROVE IInv
  OBVIOUS
<1>1. TypeOK /\ Coherent /\ Unique /\ Passed /\ NoGap /\ Ways
  BY SizeAssumption
     DEF Init, TypeOK, Coherent, Unique, Passed, NoGap, Ways, EmptyTable, Used,
         Remaining, Added, NoCall, Entries
<1>2. Counted /\ Sized
  <2>1. Used(nrAlloc, table) = {}
    BY SizeAssumption DEF Init, EmptyTable, Used
  <2>2. QED
    BY <2>1, SizeAssumption, FS_EmptySet DEF Init, Counted, Sized
<1>3. QED
  BY <1>1, <1>2 DEF IInv

\* A probe that ends at a free place has not missed the key.
LEMMA ProbeComplete ==
  ASSUME IInv, pc = "probe", IsEmpty(i)
  PROVE  \A q \in Used(nrAlloc, table) : table[q].key # call.key
<1> SUFFICES ASSUME NEW q \in Used(nrAlloc, table), table[q].key = call.key
             PROVE  FALSE
  OBVIOUS
<1>1. i \in Places /\ q \in Places /\ q # i /\ nrAlloc \in Nat \ {0}
  BY DEF IInv, TypeOK, Used, IsEmpty, Places
<1>2. call.key \in Keys
  BY DEF IInv, Coherent, Calls
<1>3. ~OnWay(Home(call.key), q, i)
  BY <1>1 DEF IInv, Passed
<1>4. OnWay(Home(call.key), i, q)
  BY <1>1, <1>2, <1>3, HomeIs, OneWay DEF Places
<1>5. QED
  BY <1>1, <1>4 DEF IInv, NoGap, Places

-----------------------------------------------------------------------------
(* Types and the coherence of the phases. *)

LEMMA EmptyTableType ==
  ASSUME NEW n \in Nat
  PROVE  EmptyTable(n) \in [0..(n - 1) -> Entries] /\ Used(n, EmptyTable(n)) = {}
BY DEF EmptyTable, Entries, Used

LEMMA CallParts ==
  ASSUME NEW c \in Calls
  PROVE  /\ c.key \in Keys
         /\ c.name \in {"find", "remove", "addElement", "addKey"}
         /\ c.name \in {"addElement", "addKey"} =>
              c.element \in Elements /\ c.element.key = c.key /\ c.overwrite \in BOOLEAN
BY DEF Calls

LEMMA ElementParts ==
  ASSUME NEW e \in Elements
  PROVE  e.key \in Keys /\ e # NoElement /\ e \in Entries
BY NoElementAssumption DEF Elements, Entries

LEMMA AfterPlace ==
  ASSUME nrAlloc \in Nat \ {0}, NEW p \in Places
  PROVE  After(p) \in Nat /\ After(p) < nrAlloc
BY AfterIs DEF Places

LEMMA HomePlace ==
  ASSUME nrAlloc \in Nat \ {0}, NEW key \in Keys
  PROVE  Home(key) \in Nat /\ Home(key) < nrAlloc
BY HomeIs

Answers == [found : Entries, added : BOOLEAN]

LEMMA AnswerType ==
  /\ \A e \in Entries : FoundElement(e) \in Answers
  /\ \A b \in BOOLEAN : Added(b) \in Answers
BY DEF FoundElement, Added, Entries, Answers

LEMMA UsedFinite ==
  ASSUME nrAlloc \in Nat
  PROVE  IsFiniteSet(Used(nrAlloc, table))
<1>1. IsFiniteSet(0..(nrAlloc - 1))
  BY FS_Interval
<1>2. Used(nrAlloc, table) \subseteq 0..(nrAlloc - 1)
  BY DEF Used
<1>3. QED
  BY <1>1, <1>2, FS_Subset

LEMMA LeaveType ==
  ASSUME Leave
  PROVE  /\ call' \in Calls \cup {NoCall} /\ item' \in Entries /\ i' \in Nat
         /\ pc' = "idle"
BY DEF Leave, Entries

LEMMA ReturnType ==
  ASSUME NEW v \in Answers, Return(v)
  PROVE  Leave /\ answer' \in Answers
BY DEF Return

LEMMA EnlargeType ==
  ASSUME TypeOK, NEW old \in [0..(nrAlloc - 1) -> Entries], Enlarge(old)
  PROVE  /\ nrAlloc' \in Nat \ {0} /\ nrUsed' \in Nat /\ k' \in Nat
         /\ table' \in [0..(nrAlloc' - 1) -> Entries]
         /\ oldAlloc' \in Nat /\ oldTable' \in [0..(oldAlloc' - 1) -> Entries]
         /\ pc' = "copy"
         /\ oldTable' = old /\ oldAlloc' = nrAlloc /\ k' = 0 /\ nrUsed' = 0
         /\ Used(nrAlloc', table') = {}
<1>1. nrAlloc \in Nat \ {0} /\ 2 * nrAlloc + 1 \in Nat \ {0}
  BY DEF TypeOK
<1>2. QED
  BY <1>1, EmptyTableType DEF Enlarge

LEMMA TypeStep == IInv /\ [Next]_vars => TypeOK'
<1> SUFFICES ASSUME IInv, [Next]_vars PROVE TypeOK'
  OBVIOUS
<1> USE DEF IInv, arrayVars, copyVars
<1>1. nrAlloc \in Nat \ {0} /\ NoElement \in Entries
  BY DEF TypeOK, Entries
<1>2. ASSUME NEW c \in Calls, Call(c) PROVE TypeOK'
  BY <1>1, <1>2, CallParts, HomePlace DEF Call, TypeOK
<1>3. CASE Clear
  BY <1>1, <1>3, EmptyTableType DEF Clear, TypeOK
<1>4. CASE ProbeNext
  BY <1>1, <1>4, AfterPlace DEF ProbeNext, TypeOK, Places
<1>5. CASE Found
  BY <1>1, <1>5 DEF Found, Return, Leave, FoundElement, TypeOK, NoCall
<1>6. CASE AddPresent
  <2>1. call.element \in Entries
    BY <1>6, CallParts, ElementParts DEF Coherent, AddPresent
  <2>2. QED
    BY <1>1, <1>6, <2>1 DEF AddPresent, Return, Leave, Added, TypeOK
<1>7. CASE AddElement
  <2>1. call.element \in Entries
    BY <1>7, CallParts, ElementParts DEF Coherent, AddElement
  <2>2. [table EXCEPT ![i] = call.element] \in [0..(nrAlloc - 1) -> Entries]
    BY <2>1 DEF TypeOK
  <2>3. CASE MoreThanHalf(nrUsed + 1)
    <3>1. Enlarge([table EXCEPT ![i] = call.element])
      BY <1>7, <2>3 DEF AddElement
    <3>2. answer' = Added(TRUE) /\ call' = call /\ item' = item /\ i' = i
      BY <1>7, <2>3 DEF AddElement
    <3>3. answer' \in Answers
      BY <3>2, AnswerType
    <3>4. QED
      BY <1>1, <2>2, <3>1, <3>2, <3>3, EnlargeType DEF TypeOK, Answers
  <2>4. CASE ~MoreThanHalf(nrUsed + 1)
    <3>1. Return(Added(TRUE))
      BY <1>7, <2>4 DEF AddElement
    <3>2. Leave /\ answer' \in Answers
      BY <3>1, AnswerType, ReturnType
    <3>3. /\ table' = [table EXCEPT ![i] = call.element] /\ nrUsed' = nrUsed + 1
          /\ UNCHANGED <<nrAlloc, copyVars>>
      BY <1>7, <2>4 DEF AddElement
    <3>4. QED
      BY <1>1, <2>2, <3>2, <3>3, LeaveType DEF TypeOK, Answers
  <2>5. QED
    BY <2>3, <2>4
<1>8. CASE AddKey
  <2>1. call.element \in Entries /\ call.key \in Keys
    BY <1>8, CallParts, ElementParts DEF Coherent, AddKey
  <2>2. CASE MoreThanHalf(nrUsed + 1)
    BY <1>1, <1>8, <2>2, EnlargeType DEF AddKey, TypeOK
  <2>3. CASE ~MoreThanHalf(nrUsed + 1)
    BY <1>1, <1>8, <2>1, <2>3, HomePlace DEF AddKey, Place, TypeOK
  <2>4. QED
    BY <2>2, <2>3
<1>9. CASE CopyEmpty
  BY <1>9 DEF CopyEmpty, TypeOK
<1>10. CASE Copy
  <2>1. oldTable[k] \in Elements
    BY <1>10 DEF Copy, TypeOK, Entries
  <2>2. QED
    BY <1>1, <1>10, <2>1, ElementParts, HomePlace DEF Copy, Place, TypeOK
<1>11. CASE CopyEnd
  <2>1. call.element \in Entries /\ call.key \in Keys
    BY <1>11, CallParts, ElementParts DEF Coherent, CopyEnd, Adding
  <2>2. oldTable' \in [0..(oldAlloc' - 1) -> Entries] /\ oldAlloc' \in Nat /\ k' \in Nat
    BY <1>11, EmptyTableType DEF CopyEnd, DropOldTable
  <2>3. CASE call.name = "addElement"
    BY <1>1, <1>11, <2>2, <2>3, LeaveType DEF CopyEnd, TypeOK
  <2>4. CASE call.name = "addKey"
    BY <1>1, <1>11, <2>1, <2>2, <2>4, HomePlace DEF CopyEnd, Place, TypeOK
  <2>5. QED
    BY <1>11, <2>3, <2>4 DEF CopyEnd
<1>12. CASE PlaceNext
  BY <1>1, <1>12, AfterPlace DEF PlaceNext, TypeOK, Places
<1>13. CASE PlaceCopied
  <2>1. [table EXCEPT ![i] = item] \in [0..(nrAlloc - 1) -> Entries]
    BY DEF TypeOK
  <2>2. QED
    BY <1>1, <1>13, <2>1 DEF PlaceCopied, PutItem, TypeOK
<1>14. CASE PlaceNew
  <2>1. [table EXCEPT ![i] = item] \in [0..(nrAlloc - 1) -> Entries]
    BY DEF TypeOK
  <2>2. Leave /\ answer' \in Answers
    BY <1>14, AnswerType, ReturnType DEF PlaceNew
  <2>3. QED
    BY <1>1, <1>14, <2>1, <2>2, LeaveType DEF PlaceNew, PutItem, TypeOK, Answers
<1>15. CASE RemoveAbsent
  BY <1>1, <1>15, AnswerType DEF RemoveAbsent, Return, Leave, TypeOK, Answers
<1>16. CASE RemovePresent
  <2>1. i \in Used(nrAlloc, table) /\ i \in Places
    BY <1>1, <1>16 DEF RemovePresent, IsKey, IsEmpty, Used, TypeOK, Places
  <2>2. nrUsed - 1 \in Nat
    BY <1>1, <2>1, UsedFinite, FS_EmptySet DEF Counted, TypeOK
  <2>3. [table EXCEPT ![i] = NoElement] \in [0..(nrAlloc - 1) -> Entries] /\ table[i] \in Entries
    BY <1>1, <2>1 DEF TypeOK, Places
  <2>4. QED
    BY <1>1, <1>16, <2>1, <2>2, <2>3, AfterPlace, AnswerType DEF RemovePresent, TypeOK, Answers
<1>17. CASE MoveBack
  <2>1. k \in Places /\ i \in Nat
    BY <1>1, <1>17 DEF MoveBack, TypeOK, Coherent, Places
  <2>2. [table EXCEPT ![i] = table[k], ![k] = NoElement] \in [0..(nrAlloc - 1) -> Entries]
    BY <1>1, <2>1 DEF TypeOK, Places
  <2>3. k < nrAlloc /\ k \in Nat
    BY <1>1, <2>1 DEF Places
  <2>4. QED
    BY <1>1, <1>17, <2>1, <2>2, <2>3, AfterPlace DEF MoveBack, TypeOK
<1>18. CASE LeaveThere
  <2>1. k \in Places
    BY <1>1, <1>18 DEF LeaveThere, TypeOK, Coherent, Places
  <2>2. QED
    BY <1>1, <1>18, <2>1, AfterPlace DEF LeaveThere, TypeOK
<1>19. CASE Closed
  BY <1>1, <1>19 DEF Closed, Leave, TypeOK
<1>20. CASE UNCHANGED vars
  BY <1>20 DEF vars, TypeOK
<1>21. QED
  BY <1>14, <1>2, <1>3, <1>4, <1>5, <1>6, <1>7, <1>8, <1>9, <1>10, <1>11, <1>12, <1>13, <1>15,
     <1>16, <1>17, <1>18, <1>19, <1>20 DEF Next, Step

LEMMA CoherentStep == IInv /\ [Next]_vars => Coherent'
<1> SUFFICES ASSUME IInv, [Next]_vars PROVE Coherent'
  OBVIOUS
<1> USE DEF IInv, arrayVars, copyVars, Coherent, Adding
<1>1. nrAlloc \in Nat \ {0} /\ k \in Nat /\ oldAlloc \in Nat /\ i \in Nat
  BY DEF TypeOK
<1>2. ASSUME NEW c \in Calls, Call(c) PROVE Coherent'
  BY <1>2 DEF Call
<1>3. CASE Clear
  BY <1>3 DEF Clear
<1>4. CASE ProbeNext
  BY <1>4 DEF ProbeNext
<1>5. CASE Found \/ AddPresent \/ RemoveAbsent
  BY <1>5 DEF Found, AddPresent, RemoveAbsent, Return, Leave
<1>6. CASE AddElement
  <2>1. CASE MoreThanHalf(nrUsed + 1)
    <3>1. /\ pc' = "copy" /\ oldAlloc' = nrAlloc /\ k' = 0 /\ call' = call
          /\ pc = "probe" /\ call.name = "addElement"
      BY <1>6, <2>1 DEF AddElement, Enlarge
    <3>2. QED
      BY <1>1, <3>1
  <2>2. CASE ~MoreThanHalf(nrUsed + 1)
    BY <1>6, <2>2 DEF AddElement, Return, Leave
  <2>3. QED
    BY <2>1, <2>2
<1>7. CASE AddKey
  <2>1. call.element \in Elements
    BY <1>7, CallParts DEF AddKey
  <2>2. QED
    BY <1>1, <1>7, <2>1 DEF AddKey, Enlarge, Place
<1>8. CASE CopyEmpty
  BY <1>1, <1>8 DEF CopyEmpty
<1>9. CASE Copy
  <2>1. oldTable[k] \in Elements
    BY <1>1, <1>9 DEF Copy, TypeOK, Entries
  <2>2. QED
    BY <1>1, <1>9, <2>1 DEF Copy, Place
<1>10. CASE CopyEnd
  <2>1. call.element \in Elements
    BY <1>10, CallParts DEF CopyEnd
  <2>2. CASE call.name = "addElement"
    BY <1>10, <2>2 DEF CopyEnd, DropOldTable, Leave
  <2>3. CASE call.name = "addKey"
    BY <1>10, <2>1, <2>3 DEF CopyEnd, DropOldTable, Place
  <2>4. QED
    BY <1>10, <2>2, <2>3 DEF CopyEnd
<1>11. CASE PlaceNext
  BY <1>11 DEF PlaceNext
<1>12. CASE PlaceCopied
  BY <1>1, <1>12 DEF PlaceCopied, PutItem
<1>13. CASE PlaceNew
  <2>1. k = 0 /\ oldAlloc = 0
    BY <1>1, <1>13 DEF PlaceNew, PutItem
  <2>2. QED
    BY <1>13, <2>1 DEF PlaceNew, PutItem, Return, Leave
<1>14. CASE RemovePresent
  <2>1. i \in Places
    BY <1>1, <1>14 DEF RemovePresent, TypeOK, Places
  <2>2. table'[i] = NoElement
    BY <1>14, <2>1 DEF RemovePresent, TypeOK, Places
  <2>3. QED
    BY <1>1, <1>14, <2>1, <2>2, AfterPlace DEF RemovePresent, IsEmpty
<1>15. CASE MoveBack
  <2>1. k \in Places
    BY <1>1, <1>15 DEF MoveBack, Places
  <2>2. table'[k] = NoElement
    BY <1>15, <2>1 DEF MoveBack, TypeOK, Places
  <2>3. QED
    BY <1>1, <1>15, <2>1, <2>2, AfterPlace DEF MoveBack, IsEmpty
<1>16. CASE LeaveThere
  <2>1. k \in Places
    BY <1>1, <1>16 DEF LeaveThere, Places
  <2>2. QED
    BY <1>1, <1>16, <2>1, AfterPlace DEF LeaveThere, IsEmpty
<1>17. CASE Closed
  BY <1>17 DEF Closed, Leave
<1>18. CASE UNCHANGED vars
  BY <1>18 DEF vars, IsEmpty
<1>19. QED
  BY <1>13, <1>2, <1>3, <1>4, <1>5, <1>6, <1>7, <1>8, <1>9, <1>10, <1>11, <1>12, <1>14, <1>15,
     <1>16, <1>17, <1>18 DEF Next, Step

-----------------------------------------------------------------------------
(* No key is in the array twice. *)

LEMMA PutUsed ==
  ASSUME TypeOK, NEW p \in Places, NEW e \in Elements
  PROVE  LET t == [table EXCEPT ![p] = e]
         IN /\ Used(nrAlloc, t) = Used(nrAlloc, table) \cup {p}
            /\ t[p] = e /\ \A q \in Places \ {p} : t[q] = table[q]
BY ElementParts DEF TypeOK, Used, Places

LEMMA TablePut ==
  ASSUME TypeOK, NEW p \in Places, NEW e \in Elements, table' = [table EXCEPT ![p] = e]
  PROVE  /\ Used(nrAlloc, table') = Used(nrAlloc, table) \cup {p}
         /\ table'[p] = e /\ \A q \in Places \ {p} : table'[q] = table[q]
BY ElementParts DEF TypeOK, Used, Places

LEMMA TableCleared ==
  ASSUME TypeOK, NEW p \in Places, table' = [table EXCEPT ![p] = NoElement]
  PROVE  /\ Used(nrAlloc, table') = Used(nrAlloc, table) \ {p}
         /\ table'[p] = NoElement /\ \A q \in Places \ {p} : table'[q] = table[q]
BY DEF TypeOK, Used, Places

LEMMA TableMoved ==
  ASSUME TypeOK, NEW p \in Places, NEW q \in Places, p # q, IsEmpty(p), ~IsEmpty(q),
         table' = [table EXCEPT ![p] = table[q], ![q] = NoElement]
  PROVE  /\ Used(nrAlloc, table') = (Used(nrAlloc, table) \ {q}) \cup {p}
         /\ table'[p] = table[q] /\ table'[q] = NoElement
         /\ \A r \in Places \ {p, q} : table'[r] = table[r]
BY DEF TypeOK, Used, Places, IsEmpty

LEMMA UsedPlaces ==
  /\ Used(nrAlloc, table) \subseteq Places
  /\ \A p \in Places : p \in Used(nrAlloc, table) <=> ~IsEmpty(p)
BY DEF Used, Places, IsEmpty

LEMMA NothingRemains ==
  ASSUME oldAlloc = 0
  PROVE  Remaining = {}
BY DEF Remaining, Used

LEMMA UniqueStep == IInv /\ [Next]_vars => Unique'
<1> SUFFICES ASSUME IInv, [Next]_vars PROVE Unique'
  OBVIOUS
<1> USE DEF IInv, arrayVars, copyVars
<1>1. nrAlloc \in Nat \ {0} /\ k \in Nat /\ oldAlloc \in Nat /\ i \in Nat
  BY DEF TypeOK
<1>2. CASE /\ UNCHANGED <<table, nrAlloc, oldTable, oldAlloc, call>>
           /\ Remaining' \subseteq Remaining
           /\ pc' \in {"copy", "place"} => pc \in {"copy", "place"}
  BY <1>2 DEF Unique, Used
<1>3. CASE /\ UNCHANGED <<table, nrAlloc, oldTable, oldAlloc, k>>
           /\ pc' \notin {"copy", "place"}
  BY <1>3 DEF Unique, Used, Remaining
<1>4. ASSUME NEW c \in Calls, Call(c) PROVE Unique'
  BY <1>3, <1>4 DEF Call
<1>5. CASE Clear
  <2>1. Used(nrAlloc', table') = {}
    BY <1>1, <1>5, EmptyTableType DEF Clear
  <2>2. Remaining' = {} /\ pc' = "idle"
    BY <1>5 DEF Clear, Coherent, Remaining, Used
  <2>3. QED
    BY <2>1, <2>2 DEF Unique
<1>6. CASE ProbeNext \/ Found \/ RemoveAbsent
  BY <1>3, <1>6 DEF ProbeNext, Found, RemoveAbsent, Return, Leave
<1>7. CASE AddPresent
  <2>1. i \in Places /\ call.element \in Elements /\ call.element.key = call.key
    BY <1>7, CallParts DEF AddPresent, Coherent, TypeOK, Places
  <2>2. Remaining = {} /\ Remaining' = {} /\ pc' = "idle" /\ nrAlloc' = nrAlloc
    BY <1>7 DEF AddPresent, Coherent, Remaining, Used, Return, Leave
  <2>3. i \in Used(nrAlloc, table) /\ table[i].key = call.key
    BY <1>7, <2>1, UsedPlaces DEF AddPresent, IsKey
  <2>4. CASE table' = table
    BY <2>2, <2>4 DEF Unique
  <2>5. CASE table' = [table EXCEPT ![i] = call.element]
    <3>1. /\ Used(nrAlloc, table') = Used(nrAlloc, table) \cup {i}
          /\ table'[i] = call.element
          /\ \A q \in Places \ {i} : table'[q] = table[q]
      BY <2>1, <2>5, TablePut
    <3>2. /\ Used(nrAlloc, table') = Used(nrAlloc, table)
          /\ \A q \in Used(nrAlloc, table) : table'[q].key = table[q].key
      BY <2>1, <2>3, <3>1, UsedPlaces
    <3>3. QED
      BY <2>2, <3>2 DEF Unique
  <2>6. QED
    BY <1>7, <2>4, <2>5 DEF AddPresent
<1>8. CASE AddElement
  <2>1. i \in Places /\ call.element \in Elements /\ call.element.key = call.key
    BY <1>8, CallParts DEF AddElement, Coherent, TypeOK, Places
  <2>2. \A q \in Used(nrAlloc, table) : table[q].key # call.key
    BY <1>8, ProbeComplete DEF AddElement
  <2> DEFINE t == [table EXCEPT ![i] = call.element]
  <2>3. /\ Used(nrAlloc, t) = Used(nrAlloc, table) \cup {i} /\ i \notin Used(nrAlloc, table)
        /\ t[i] = call.element /\ \A q \in Used(nrAlloc, table) : t[q] = table[q]
    BY <1>8, <2>1, PutUsed, UsedPlaces DEF AddElement
  <2>4. \A p, q \in Used(nrAlloc, t) : t[p].key = t[q].key => p = q
    BY <2>1, <2>2, <2>3 DEF Unique
  <2>5. CASE MoreThanHalf(nrUsed + 1)
    <3>1. Enlarge(t) /\ call' = call /\ call.name = "addElement"
      BY <1>8, <2>5 DEF AddElement
    <3>2. t \in [0..(nrAlloc - 1) -> Entries]
      BY <2>1, ElementParts DEF TypeOK
    <3>3. Used(nrAlloc', table') = {} /\ oldTable' = t /\ oldAlloc' = nrAlloc /\ k' = 0
      BY <3>1, <3>2, EnlargeType
    <3>4. Remaining' \subseteq Used(nrAlloc, t)
      BY <3>3 DEF Remaining
    <3>5. QED
      BY <2>4, <3>1, <3>3, <3>4 DEF Unique
  <2>6. CASE ~MoreThanHalf(nrUsed + 1)
    <3>1. /\ table' = [table EXCEPT ![i] = call.element]
          /\ nrAlloc' = nrAlloc /\ oldAlloc' = oldAlloc /\ pc' = "idle"
      BY <1>8, <2>6 DEF AddElement, Return, Leave
    <3>2. Remaining' = {}
      BY <1>8, <3>1 DEF AddElement, Coherent, Remaining, Used
    <3>3. /\ Used(nrAlloc', table') = Used(nrAlloc, table) \cup {i}
          /\ table'[i] = call.element
          /\ \A q \in Places \ {i} : table'[q] = table[q]
      BY <2>1, <3>1, TablePut
    <3>4. \A p, q \in Used(nrAlloc', table') : table'[p].key = table'[q].key => p = q
      BY <2>1, <2>2, <3>3, UsedPlaces DEF Unique
    <3>5. QED
      BY <3>1, <3>2, <3>4 DEF Unique
  <2>7. QED
    BY <2>5, <2>6
<1>9. CASE AddKey
  <2>2. \A q \in Used(nrAlloc, table) : table[q].key # call.key
    BY <1>9, ProbeComplete DEF AddKey
  <2>3. CASE MoreThanHalf(nrUsed + 1)
    <3>1. Enlarge(table) /\ call' = call
      BY <1>9, <2>3 DEF AddKey
    <3>2. table \in [0..(nrAlloc - 1) -> Entries]
      BY DEF TypeOK
    <3>3. Used(nrAlloc', table') = {} /\ oldTable' = table /\ oldAlloc' = nrAlloc /\ k' = 0
      BY <3>1, <3>2, EnlargeType
    <3>4. Remaining' \subseteq Used(nrAlloc, table)
      BY <3>3 DEF Remaining
    <3>5. QED
      BY <2>2, <3>1, <3>3, <3>4 DEF Unique
  <2>4. CASE ~MoreThanHalf(nrUsed + 1)
    <3>1. UNCHANGED <<table, nrAlloc, oldTable, oldAlloc, k, call>>
      BY <1>9, <2>4 DEF AddKey
    <3>2. Remaining' = {}
      BY <1>9, <3>1 DEF AddKey, Coherent, Remaining, Used
    <3>3. QED
      BY <2>2, <3>1, <3>2 DEF Unique
  <2>5. QED
    BY <2>3, <2>4
<1>10. CASE CopyEmpty
  <2>1. Remaining' \subseteq Remaining
    BY <1>1, <1>10 DEF CopyEmpty, Remaining, Used
  <2>2. QED
    BY <1>2, <1>10, <2>1 DEF CopyEmpty
<1>11. CASE Copy \/ PlaceNext
  <2>1. Remaining' \subseteq Remaining
    BY <1>11 DEF Copy, PlaceNext, Remaining, Used
  <2>2. QED
    BY <1>2, <1>11, <2>1 DEF Copy, PlaceNext
<1>12. CASE CopyEnd
  <2>1. Remaining' = {} /\ UNCHANGED <<table, nrAlloc>>
    BY <1>12 DEF CopyEnd, DropOldTable, Remaining, Used
  <2>2. pc' \in {"copy", "place"} /\ call'.name = "addKey" => call' = call /\ pc = "copy"
    BY <1>12 DEF CopyEnd, Leave, Place
  <2>3. QED
    BY <2>1, <2>2 DEF Unique
<1>13. CASE PlaceCopied
  <2>1. i \in Places /\ item \in Elements /\ item = oldTable[k] /\ k \in Remaining
    BY <1>1, <1>13, ElementParts DEF PlaceCopied, PutItem, Coherent, TypeOK, Places, Remaining, Used
  <2>2. /\ Used(nrAlloc', table') = Used(nrAlloc, table) \cup {i} /\ i \notin Used(nrAlloc, table)
        /\ table'[i] = item /\ \A q \in Used(nrAlloc, table) : table'[q] = table[q]
    <3>1. table' = [table EXCEPT ![i] = item] /\ nrAlloc' = nrAlloc /\ IsEmpty(i)
      BY <1>13 DEF PlaceCopied, PutItem
    <3>2. /\ Used(nrAlloc, table') = Used(nrAlloc, table) \cup {i}
          /\ table'[i] = item /\ \A q \in Places \ {i} : table'[q] = table[q]
      BY <2>1, <3>1, TablePut
    <3>3. QED
      BY <2>1, <3>1, <3>2, UsedPlaces
  <2>3. Remaining' \subseteq Remaining \ {k} /\ oldTable' = oldTable
    BY <1>1, <1>13 DEF PlaceCopied, PutItem, Remaining, Used
  <2>4. call' = call /\ pc = "place"
    BY <1>13 DEF PlaceCopied, PutItem
  <2>5. QED
    BY <2>1, <2>2, <2>3, <2>4 DEF Unique
<1>14. CASE PlaceNew
  <2>1. i \in Places /\ item \in Elements /\ item.key = call.key
        /\ call.name = "addKey" /\ oldAlloc = 0
    BY <1>1, <1>14, CallParts DEF PlaceNew, PutItem, Coherent, TypeOK, Places
  <2>2. /\ Used(nrAlloc', table') = Used(nrAlloc, table) \cup {i} /\ i \notin Used(nrAlloc, table)
        /\ table'[i] = item /\ \A q \in Used(nrAlloc, table) : table'[q] = table[q]
    <3>1. table' = [table EXCEPT ![i] = item] /\ nrAlloc' = nrAlloc /\ IsEmpty(i)
      BY <1>14 DEF PlaceNew, PutItem
    <3>2. /\ Used(nrAlloc, table') = Used(nrAlloc, table) \cup {i}
          /\ table'[i] = item /\ \A q \in Places \ {i} : table'[q] = table[q]
      BY <2>1, <3>1, TablePut
    <3>3. QED
      BY <2>1, <3>1, <3>2, UsedPlaces
  <2>3. Remaining' = {} /\ pc' = "idle" /\ pc = "place"
    BY <1>14, <2>1 DEF PlaceNew, PutItem, Return, Leave, Remaining, Used
  <2>4. QED
    BY <2>1, <2>2, <2>3 DEF Unique
<1>15. CASE RemovePresent
  <2>1. i \in Places /\ oldAlloc' = 0 /\ pc' = "close"
    BY <1>15 DEF RemovePresent, Coherent, TypeOK, Places
  <2>2. /\ Used(nrAlloc', table') = Used(nrAlloc, table) \ {i}
        /\ \A q \in Used(nrAlloc, table) \ {i} : table'[q] = table[q]
    BY <1>15, <2>1, TableCleared, UsedPlaces DEF RemovePresent
  <2>3. Remaining' = {}
    BY <2>1 DEF Remaining, Used
  <2>4. QED
    BY <2>1, <2>2, <2>3 DEF Unique
<1>16. CASE MoveBack
  <2>1. i \in Places /\ k \in Places /\ i # k /\ oldAlloc' = 0 /\ pc' = "close" /\ IsEmpty(i)
    BY <1>1, <1>16 DEF MoveBack, Coherent, TypeOK, Places
  <2>2. /\ Used(nrAlloc', table') = (Used(nrAlloc, table) \ {k}) \cup {i}
        /\ k \in Used(nrAlloc, table) /\ table'[i] = table[k]
        /\ \A q \in Used(nrAlloc, table) \ {k} : q # i /\ table'[q] = table[q]
    <3>1. table' = [table EXCEPT ![i] = table[k], ![k] = NoElement] /\ nrAlloc' = nrAlloc
          /\ ~IsEmpty(k)
      BY <1>16 DEF MoveBack
    <3>2. /\ Used(nrAlloc, table') = (Used(nrAlloc, table) \ {k}) \cup {i}
          /\ table'[i] = table[k] /\ \A q \in Places \ {i, k} : table'[q] = table[q]
      BY <2>1, <3>1, TableMoved
    <3>3. QED
      BY <2>1, <3>1, <3>2, UsedPlaces
  <2>3. Remaining' = {}
    BY <2>1 DEF Remaining, Used
  <2>4. QED
    BY <2>1, <2>2, <2>3 DEF Unique
<1>17. CASE LeaveThere
  <2>1. Remaining' = {} /\ pc' = "close" /\ UNCHANGED <<table, nrAlloc>>
    BY <1>17 DEF LeaveThere, Coherent, Remaining, Used
  <2>2. QED
    BY <2>1 DEF Unique
<1>18. CASE Closed
  <2>1. Remaining' = {} /\ pc' = "idle" /\ UNCHANGED <<table, nrAlloc>>
    BY <1>18 DEF Closed, Leave, Coherent, Remaining, Used
  <2>2. QED
    BY <2>1 DEF Unique
<1>19. CASE UNCHANGED vars
  BY <1>2, <1>19 DEF vars, Remaining, Used
<1>20. QED
  BY <1>4, <1>5, <1>6, <1>7, <1>8, <1>9, <1>10, <1>11, <1>12, <1>13, <1>14, <1>15, <1>16,
     <1>17, <1>18, <1>19 DEF Next, Step

-----------------------------------------------------------------------------
(* What probing has passed. *)

LEMMA WayBegins ==
  \A h \in Nat, p \in Nat : ~OnWay(h, p, h)
BY DEF OnWay

LEMMA PassedStep == IInv /\ [Next]_vars => Passed'
<1> SUFFICES ASSUME IInv, [Next]_vars PROVE Passed'
  OBVIOUS
<1> USE DEF IInv, arrayVars, copyVars
<1>1. nrAlloc \in Nat \ {0} /\ k \in Nat /\ oldAlloc \in Nat /\ i \in Nat
  BY DEF TypeOK
<1>2. CASE pc' \notin {"probe", "place"}
  BY <1>2 DEF Passed
<1>3. ASSUME NEW c \in Calls, Call(c) PROVE Passed'
  <2>1. Home(c.key) \in Nat /\ c.key \in Keys
    BY <1>1, CallParts, HomePlace
  <2>2. i' = Home(c.key) /\ call' = c /\ pc' = "probe" /\ UNCHANGED <<table, nrAlloc>>
    BY <1>3 DEF Call
  <2>3. \A p \in Places : ~OnWay(Home(c.key), p, i')
    BY <1>1, <2>1, <2>2, WayBegins DEF Places
  <2>4. QED
    BY <2>2, <2>3 DEF Passed, Home, Places
<1>4. CASE ProbeNext
  <2>1. /\ i' = After(i) /\ ~IsEmpty(i) /\ table[i].key # call.key /\ pc = "probe"
        /\ pc' = "probe" /\ UNCHANGED <<table, nrAlloc, call>>
    BY <1>4 DEF ProbeNext, IsKey
  <2>2. i \in Places /\ call.key \in Keys
    BY <2>1, CallParts DEF Coherent, TypeOK, Places
  <2>3. Home(call.key) \in Places
    BY <1>1, <2>2, HomeIs DEF Places
  <2>4. ASSUME NEW p \in Places, OnWay(Home(call.key), p, After(i))
        PROVE  ~IsEmpty(p) /\ table[p].key # call.key
    <3>1. p = i \/ OnWay(Home(call.key), p, i)
      BY <1>1, <2>2, <2>3, <2>4, WayOn DEF Places
    <3>2. QED
      BY <2>1, <3>1 DEF Passed
  <2>5. QED
    BY <2>1, <2>4 DEF Passed, Home, Places, IsEmpty
<1>5. ASSUME NEW e \in Elements, Place(e, Home(e.key)), UNCHANGED <<table, nrAlloc>>
      PROVE  Passed'
  <2>1. Home(e.key) \in Nat
    BY <1>1, ElementParts, HomePlace
  <2>2. \A p \in Places : ~OnWay(Home(e.key), p, i')
    BY <1>1, <1>5, <2>1, WayBegins DEF Place, Places
  <2>3. QED
    BY <1>5, <2>2 DEF Place, Passed, Home, Places
<1>6. CASE AddKey
  <2>1. call.element \in Elements /\ call.element.key = call.key
    BY <1>6, CallParts DEF AddKey, Coherent
  <2>2. CASE MoreThanHalf(nrUsed + 1)
    BY <1>2, <1>6, <2>2 DEF AddKey, Enlarge
  <2>3. CASE ~MoreThanHalf(nrUsed + 1)
    BY <1>5, <1>6, <2>1, <2>3 DEF AddKey
  <2>4. QED
    BY <2>2, <2>3
<1>7. CASE Copy
  <2>1. oldTable[k] \in Elements
    BY <1>1, <1>7 DEF Copy, TypeOK, Entries
  <2>2. QED
    BY <1>5, <1>7, <2>1 DEF Copy
<1>8. CASE CopyEnd
  <2>1. call.element \in Elements /\ call.element.key = call.key
    BY <1>8, CallParts DEF CopyEnd, Coherent, Adding
  <2>2. CASE call.name = "addElement"
    BY <1>2, <1>8, <2>2 DEF CopyEnd, Leave
  <2>3. CASE call.name = "addKey"
    BY <1>5, <1>8, <2>1, <2>3 DEF CopyEnd
  <2>4. QED
    BY <1>8, <2>2, <2>3 DEF CopyEnd
<1>9. CASE PlaceNext
  <2>1. /\ i' = After(i) /\ ~IsEmpty(i) /\ pc = "place"
        /\ pc' = "place" /\ UNCHANGED <<table, nrAlloc, item>>
    BY <1>9 DEF PlaceNext
  <2>2. i \in Places /\ item.key \in Keys
    BY <2>1, ElementParts DEF Coherent, TypeOK, Places
  <2>3. Home(item.key) \in Places
    BY <1>1, <2>2, HomeIs DEF Places
  <2>4. ASSUME NEW p \in Places, OnWay(Home(item.key), p, After(i))
        PROVE  ~IsEmpty(p)
    <3>1. p = i \/ OnWay(Home(item.key), p, i)
      BY <1>1, <2>2, <2>3, <2>4, WayOn DEF Places
    <3>2. QED
      BY <2>1, <3>1 DEF Passed
  <2>5. QED
    BY <2>1, <2>4 DEF Passed, Home, Places, IsEmpty
<1>10. CASE UNCHANGED vars
  BY <1>10 DEF vars, Passed, Home, Places, IsEmpty
<1>11. CASE Clear \/ Found \/ AddPresent \/ RemoveAbsent \/ PlaceNew \/ Closed
  BY <1>2, <1>11 DEF Clear, Found, AddPresent, RemoveAbsent, PlaceNew, Closed, Return, Leave
<1>12. CASE CopyEmpty \/ PlaceCopied \/ RemovePresent \/ MoveBack \/ LeaveThere
  BY <1>2, <1>12 DEF CopyEmpty, PlaceCopied, RemovePresent, MoveBack, LeaveThere
<1>13. CASE AddElement
  BY <1>2, <1>13 DEF AddElement, Enlarge, Return, Leave
<1>14. QED
  BY <1>3, <1>4, <1>6, <1>7, <1>8, <1>9, <1>10, <1>11, <1>12, <1>13 DEF Next, Step

-----------------------------------------------------------------------------
(* No free place on a way. *)

\* An element put where probing for it has come leaves no gap.
LEMMA PutNoGap ==
  ASSUME IInv, pc # "close", NEW p \in Places, NEW e \in Elements,
         table' = [table EXCEPT ![p] = e], nrAlloc' = nrAlloc,
         \A r \in Places : OnWay(Home(e.key), r, p) => ~IsEmpty(r)
  PROVE  NoGap'
<1>1. /\ Used(nrAlloc, table') = Used(nrAlloc, table) \cup {p}
      /\ table'[p] = e /\ \A q \in Places \ {p} : table'[q] = table[q]
  BY TablePut DEF IInv
<1>2. \A r \in Places : ~IsEmpty(r) => table'[r] # NoElement
  BY <1>1, ElementParts DEF IsEmpty
<1>3. ASSUME NEW q \in Used(nrAlloc, table'), NEW r \in Places,
             OnWay(Home(table'[q].key), r, q)
      PROVE  table'[r] # NoElement
  <2>1. CASE q = p
    BY <1>1, <1>2, <1>3, <2>1
  <2>2. CASE q # p
    <3>1. q \in Used(nrAlloc, table) /\ table'[q] = table[q]
      BY <1>1, <2>2, UsedPlaces
    <3>2. ~IsEmpty(r)
      BY <1>3, <3>1 DEF IInv, NoGap, Places
    <3>3. QED
      BY <1>2, <3>2
  <2>3. QED
    BY <2>1, <2>2
<1>4. QED
  BY <1>3 DEF NoGap, Home, Places, IsEmpty

\* The next place to look at does not lie behind the gap.
LEMMA NothingScanned ==
  ASSUME nrAlloc \in Nat \ {0}, NEW gap \in Places, NEW q \in Places
  PROVE  ~(IF gap < After(gap) THEN gap < q /\ q < After(gap) ELSE gap < q \/ q < After(gap))
BY AfterIs DEF Places

LEMMA NoGapStep == IInv /\ [Next]_vars => NoGap'
<1> SUFFICES ASSUME IInv, [Next]_vars PROVE NoGap'
  OBVIOUS
<1> USE DEF IInv, arrayVars, copyVars
<1>1. nrAlloc \in Nat \ {0} /\ k \in Nat /\ oldAlloc \in Nat /\ i \in Nat
  BY DEF TypeOK
<1>2. CASE UNCHANGED <<table, nrAlloc>> /\ pc # "close"
  BY <1>2 DEF NoGap, Used, Home, IsEmpty
<1>3. CASE Used(nrAlloc', table') = {}
  BY <1>3 DEF NoGap
<1>4. CASE pc' = "close"
  BY <1>4 DEF NoGap
<1>5. ASSUME NEW c \in Calls, Call(c) PROVE NoGap'
  BY <1>2, <1>5 DEF Call
<1>6. CASE Clear
  BY <1>1, <1>3, <1>6, EmptyTableType DEF Clear
<1>7. CASE \/ ProbeNext \/ Found \/ CopyEmpty \/ Copy \/ CopyEnd \/ PlaceNext \/ RemoveAbsent
  BY <1>2, <1>7 DEF ProbeNext, Found, CopyEmpty, Copy, CopyEnd, PlaceNext, RemoveAbsent
<1>8. CASE AddPresent
  <2>1. i \in Places /\ call.element \in Elements /\ call.element.key = call.key
        /\ pc = "probe" /\ nrAlloc' = nrAlloc
    BY <1>8, CallParts DEF AddPresent, Coherent, TypeOK, Places
  <2>2. \A r \in Places : OnWay(Home(call.element.key), r, i) => ~IsEmpty(r)
    BY <2>1 DEF Passed
  <2>3. CASE table' = table
    BY <1>2, <2>1, <2>3
  <2>4. CASE table' = [table EXCEPT ![i] = call.element]
    BY <2>1, <2>2, <2>4, PutNoGap
  <2>5. QED
    BY <1>8, <2>3, <2>4 DEF AddPresent
<1>9. CASE AddElement
  <2>1. i \in Places /\ call.element \in Elements /\ call.element.key = call.key /\ pc = "probe"
    BY <1>9, CallParts DEF AddElement, Coherent, TypeOK, Places
  <2>2. CASE MoreThanHalf(nrUsed + 1)
    <3>1. Enlarge([table EXCEPT ![i] = call.element])
      BY <1>9, <2>2 DEF AddElement
    <3>2. [table EXCEPT ![i] = call.element] \in [0..(nrAlloc - 1) -> Entries]
      BY <2>1, ElementParts DEF TypeOK
    <3>3. QED
      BY <1>3, <3>1, <3>2, EnlargeType
  <2>3. CASE ~MoreThanHalf(nrUsed + 1)
    <3>1. table' = [table EXCEPT ![i] = call.element] /\ nrAlloc' = nrAlloc
      BY <1>9, <2>3 DEF AddElement
    <3>2. \A r \in Places : OnWay(Home(call.element.key), r, i) => ~IsEmpty(r)
      BY <2>1 DEF Passed
    <3>3. QED
      BY <2>1, <3>1, <3>2, PutNoGap
  <2>4. QED
    BY <2>2, <2>3
<1>10. CASE AddKey
  <2>1. CASE MoreThanHalf(nrUsed + 1)
    <3>1. Enlarge(table)
      BY <1>10, <2>1 DEF AddKey
    <3>2. QED
      BY <1>3, <3>1, EnlargeType DEF TypeOK
  <2>2. CASE ~MoreThanHalf(nrUsed + 1)
    BY <1>2, <1>10, <2>2 DEF AddKey
  <2>3. QED
    BY <2>1, <2>2
<1>11. CASE PlaceCopied \/ PlaceNew
  <2>1. /\ pc = "place" /\ table' = [table EXCEPT ![i] = item] /\ nrAlloc' = nrAlloc
    BY <1>11 DEF PlaceCopied, PlaceNew, PutItem
  <2>2. i \in Places /\ item \in Elements
    BY <2>1 DEF Coherent, TypeOK, Places
  <2>3. \A r \in Places : OnWay(Home(item.key), r, i) => ~IsEmpty(r)
    BY <2>1 DEF Passed
  <2>4. QED
    BY <2>1, <2>2, <2>3, PutNoGap
<1>12. CASE RemovePresent \/ MoveBack \/ LeaveThere
  BY <1>4, <1>12 DEF RemovePresent, MoveBack, LeaveThere
<1>13. CASE Closed
  <2>1. IsEmpty(k) /\ IsEmpty(i) /\ i \in Places /\ k \in Places /\ pc = "close"
        /\ UNCHANGED <<table, nrAlloc>>
    BY <1>1, <1>13 DEF Closed, Coherent, TypeOK, Places
  <2>2. ASSUME NEW q \in Used(nrAlloc, table), NEW p \in Places,
               OnWay(Home(table[q].key), p, q), IsEmpty(p)
        PROVE  FALSE
    <3>1. table[q].key \in Keys /\ q \in Places /\ q # i /\ q # k
      BY <2>1, ElementParts DEF TypeOK, Used, Entries, IsEmpty, Places
    <3>2. Home(table[q].key) \in Places
      BY <1>1, <3>1, HomeIs DEF Places
    <3>3. p = i /\ ~Scanned(q)
      BY <2>1, <2>2 DEF Ways
    <3>4. i # k
      BY <1>1, <2>1, <3>1, <3>3 DEF Scanned, Places
    <3>5. OnWay(Home(table[q].key), k, q)
      BY <1>1, <2>1, <2>2, <3>1, <3>2, <3>3, <3>4 DEF Scanned, OnWay, Places
    <3>6. QED
      BY <2>1, <3>4, <3>5 DEF Ways
  <2>3. QED
    BY <2>1, <2>2 DEF NoGap, Used, Home, IsEmpty, Places
<1>14. CASE UNCHANGED vars
  BY <1>14 DEF vars, NoGap, Used, Home, IsEmpty
<1>15. QED
  BY <1>5, <1>6, <1>7, <1>8, <1>9, <1>10, <1>11, <1>12, <1>13, <1>14 DEF Next, Step

LEMMA WaysStep == IInv /\ [Next]_vars => Ways'
<1> SUFFICES ASSUME IInv, [Next]_vars PROVE Ways'
  OBVIOUS
<1> USE DEF IInv, arrayVars, copyVars
<1>1. nrAlloc \in Nat \ {0} /\ k \in Nat /\ oldAlloc \in Nat /\ i \in Nat
  BY DEF TypeOK
<1>2. CASE pc' # "close"
  BY <1>2 DEF Ways
<1>3. CASE RemovePresent
  <2>1. /\ i \in Places /\ pc = "probe" /\ nrAlloc' = nrAlloc /\ i' = i /\ k' = After(i)
        /\ table' = [table EXCEPT ![i] = NoElement]
    BY <1>1, <1>3 DEF RemovePresent, TypeOK, Places
  <2>2. /\ Used(nrAlloc, table') = Used(nrAlloc, table) \ {i}
        /\ \A q \in Places \ {i} : table'[q] = table[q]
    BY <2>1, TableCleared
  <2>3. ASSUME NEW q \in Used(nrAlloc, table'), NEW p \in Places,
               OnWay(Home(table'[q].key), p, q)
        PROVE  table'[p] # NoElement \/ (p = i' /\ ~Scanned(q)')
    <3>1. q \in Used(nrAlloc, table) /\ table'[q] = table[q] /\ q \in Places
      BY <2>2, UsedPlaces
    <3>2. ~IsEmpty(p)
      BY <2>1, <2>3, <3>1 DEF NoGap, Places
    <3>3. CASE p = i
      BY <1>1, <2>1, <3>1, <3>3, NothingScanned DEF Scanned
    <3>4. CASE p # i
      BY <2>2, <3>2, <3>4 DEF IsEmpty
    <3>5. QED
      BY <3>3, <3>4
  <2>4. QED
    BY <2>1, <2>3 DEF Ways, Home, IsEmpty, Places
<1>4. CASE MoveBack
  <2>1. /\ i \in Places /\ k \in Places /\ i # k /\ pc = "close" /\ nrAlloc' = nrAlloc
        /\ i' = k /\ k' = After(k) /\ IsEmpty(i) /\ ~IsEmpty(k) /\ Moves(Home(table[k].key))
        /\ table' = [table EXCEPT ![i] = table[k], ![k] = NoElement]
    BY <1>1, <1>4 DEF MoveBack, Coherent, TypeOK, Places
  <2>2. /\ Used(nrAlloc, table') = (Used(nrAlloc, table) \ {k}) \cup {i}
        /\ table'[i] = table[k]
        /\ \A q \in Places \ {i, k} : table'[q] = table[q]
    BY <2>1, TableMoved
  <2>3. \A p \in Places \ {k} : ~IsEmpty(p) \/ p = i => table'[p] # NoElement
    BY <2>1, <2>2 DEF IsEmpty
  <2>4. table[k].key \in Keys /\ k \in Used(nrAlloc, table)
    BY <2>1, ElementParts, UsedPlaces DEF TypeOK, Entries, IsEmpty, Places
  <2>5. Home(table[k].key) \in Places
    BY <1>1, <2>4, HomeIs DEF Places
  <2>6. ASSUME NEW q \in Used(nrAlloc, table'), NEW p \in Places \ {k},
               OnWay(Home(table'[q].key), p, q)
        PROVE  ~IsEmpty(p) \/ p = i
    <3>1. CASE q = i
      <4>1. p # i /\ OnWay(Home(table[k].key), p, k)
        BY <1>1, <2>1, <2>2, <2>5, <2>6, <3>1 DEF Moves, OnWay, Places
      <4>2. QED
        BY <2>1, <2>4, <4>1 DEF Ways
    <3>2. CASE q # i
      <4>1. q \in Used(nrAlloc, table) /\ table'[q] = table[q]
        BY <2>2, <3>2, UsedPlaces
      <4>2. QED
        BY <2>1, <2>6, <4>1 DEF Ways
    <3>3. QED
      BY <3>1, <3>2
  <2>7. \A q \in Places : ~Scanned(q)'
    BY <1>1, <2>1, NothingScanned DEF Scanned
  <2>8. Used(nrAlloc, table') \subseteq Places
    BY DEF Used, Places
  <2>9. ASSUME NEW q \in Used(nrAlloc, table'), NEW p \in Places,
               OnWay(Home(table'[q].key), p, q)
        PROVE  table'[p] # NoElement \/ (p = i' /\ ~Scanned(q)')
    <3>1. CASE p = k
      BY <2>1, <2>7, <2>8, <3>1
    <3>2. CASE p # k
      BY <2>3, <2>6, <2>9, <3>2
    <3>3. QED
      BY <3>1, <3>2
  <2>10. QED
    BY <2>1, <2>9 DEF Ways, Home, IsEmpty, Places
<1>5. CASE LeaveThere
  <2>1. /\ i \in Places /\ k \in Places /\ i # k /\ pc = "close" /\ k' = After(k)
        /\ ~IsEmpty(k) /\ ~Moves(Home(table[k].key)) /\ UNCHANGED <<table, nrAlloc, i>>
    BY <1>1, <1>5 DEF LeaveThere, Coherent, TypeOK, Places
  <2>2. ASSUME NEW q \in Used(nrAlloc, table), NEW p \in Places,
               OnWay(Home(table[q].key), p, q), IsEmpty(p)
        PROVE  p = i /\ ~Scanned(q)'
    <3>1. table[q].key \in Keys /\ q \in Places
      BY ElementParts DEF TypeOK, Used, Entries, Places
    <3>2. Home(table[q].key) \in Places
      BY <1>1, <3>1, HomeIs DEF Places
    <3>3. p = i /\ ~Scanned(q)
      BY <2>1, <2>2 DEF Ways
    <3>4. q # k
      <4>1. SUFFICES ASSUME q = k PROVE FALSE
        OBVIOUS
      <4>2. QED
        BY <1>1, <2>1, <2>2, <3>2, <3>3, <4>1 DEF Moves, OnWay, Places
    <3>5. ~Scanned(q)'
      BY <1>1, <2>1, <3>1, <3>3, <3>4, AfterIs DEF Scanned, Places
    <3>6. QED
      BY <3>3, <3>5
  <2>3. QED
    BY <2>1, <2>2 DEF Ways, Home, IsEmpty, Used, Places
<1>6. CASE UNCHANGED vars
  BY <1>6 DEF vars, Ways, Used, Home, IsEmpty, Places, Scanned
<1>7. ASSUME NEW c \in Calls, Call(c) PROVE Ways'
  BY <1>2, <1>7 DEF Call
<1>8. CASE Clear \/ ProbeNext \/ Found \/ AddPresent \/ RemoveAbsent \/ Closed
  BY <1>2, <1>8 DEF Clear, ProbeNext, Found, AddPresent, RemoveAbsent, Closed, Return, Leave
<1>9. CASE AddElement \/ AddKey
  BY <1>2, <1>9 DEF AddElement, AddKey, Enlarge, Place, Return, Leave
<1>10. CASE CopyEmpty \/ Copy \/ CopyEnd
  BY <1>2, <1>10 DEF CopyEmpty, Copy, CopyEnd, Place, Leave
<1>11. CASE PlaceNext \/ PlaceCopied \/ PlaceNew
  BY <1>2, <1>11 DEF PlaceNext, PlaceCopied, PlaceNew, Return, Leave
<1>12. QED
  BY <1>3, <1>4, <1>5, <1>6, <1>7, <1>8, <1>9, <1>10, <1>11 DEF Next, Step

-----------------------------------------------------------------------------
(* The count of used places, and the free place. *)

LEMMA CountedStep == IInv /\ [Next]_vars => Counted'
<1> SUFFICES ASSUME IInv, [Next]_vars PROVE Counted'
  OBVIOUS
<1> USE DEF IInv, arrayVars, copyVars
<1>1. /\ nrAlloc \in Nat \ {0} /\ nrUsed \in Nat /\ k \in Nat /\ oldAlloc \in Nat /\ i \in Nat
      /\ IsFiniteSet(Used(nrAlloc, table)) /\ Cardinality(Used(nrAlloc, table)) = nrUsed
  BY UsedFinite DEF TypeOK, Counted
<1>2. CASE UNCHANGED arrayVars
  BY <1>2 DEF Counted, Used
<1>3. CASE Used(nrAlloc', table') = {} /\ nrUsed' = 0
  BY <1>3, FS_EmptySet DEF Counted
<1>4. ASSUME NEW p \in Places, NEW e \in Elements, IsEmpty(p), nrAlloc' = nrAlloc,
             table' = [table EXCEPT ![p] = e], nrUsed' = nrUsed + 1
      PROVE  Counted'
  <2>1. Used(nrAlloc, table') = Used(nrAlloc, table) \cup {p} /\ p \notin Used(nrAlloc, table)
    BY <1>4, TablePut, UsedPlaces
  <2>2. Cardinality(Used(nrAlloc, table) \cup {p}) = nrUsed + 1
    BY <1>1, <2>1, FS_AddElement
  <2>3. QED
    BY <1>4, <2>1, <2>2 DEF Counted
<1>5. ASSUME NEW c \in Calls, Call(c) PROVE Counted'
  BY <1>2, <1>5 DEF Call
<1>6. CASE Clear
  BY <1>1, <1>3, <1>6, EmptyTableType DEF Clear
<1>7. CASE ProbeNext \/ Found \/ RemoveAbsent \/ CopyEmpty \/ Copy \/ CopyEnd \/ PlaceNext
  BY <1>2, <1>7 DEF ProbeNext, Found, RemoveAbsent, CopyEmpty, Copy, CopyEnd, PlaceNext
<1>8. CASE LeaveThere \/ Closed
  BY <1>2, <1>8 DEF LeaveThere, Closed
<1>9. CASE AddPresent
  <2>1. /\ i \in Places /\ call.element \in Elements /\ ~IsEmpty(i)
        /\ nrAlloc' = nrAlloc /\ nrUsed' = nrUsed
    BY <1>9, CallParts DEF AddPresent, Coherent, TypeOK, Places, IsKey
  <2>2. CASE table' = table
    BY <1>2, <2>1, <2>2
  <2>3. CASE table' = [table EXCEPT ![i] = call.element]
    <3>1. Used(nrAlloc, table') = Used(nrAlloc, table) \cup {i}
      BY <2>1, <2>3, TablePut
    <3>2. Used(nrAlloc, table') = Used(nrAlloc, table)
      BY <2>1, <3>1, UsedPlaces
    <3>3. QED
      BY <1>1, <2>1, <3>2 DEF Counted
  <2>4. QED
    BY <1>9, <2>2, <2>3 DEF AddPresent
<1>10. CASE AddElement
  <2>1. i \in Places /\ call.element \in Elements /\ IsEmpty(i)
    BY <1>10, CallParts DEF AddElement, Coherent, TypeOK, Places
  <2>2. CASE MoreThanHalf(nrUsed + 1)
    <3>1. Enlarge([table EXCEPT ![i] = call.element])
      BY <1>10, <2>2 DEF AddElement
    <3>2. [table EXCEPT ![i] = call.element] \in [0..(nrAlloc - 1) -> Entries]
      BY <2>1, ElementParts DEF TypeOK
    <3>3. QED
      BY <1>3, <3>1, <3>2, EnlargeType
  <2>3. CASE ~MoreThanHalf(nrUsed + 1)
    <3>1. /\ table' = [table EXCEPT ![i] = call.element] /\ nrAlloc' = nrAlloc
          /\ nrUsed' = nrUsed + 1
      BY <1>10, <2>3 DEF AddElement
    <3>2. QED
      BY <1>4, <2>1, <3>1
  <2>4. QED
    BY <2>2, <2>3
<1>11. CASE AddKey
  <2>1. CASE MoreThanHalf(nrUsed + 1)
    <3>1. Enlarge(table)
      BY <1>11, <2>1 DEF AddKey
    <3>2. QED
      BY <1>3, <3>1, EnlargeType DEF TypeOK
  <2>2. CASE ~MoreThanHalf(nrUsed + 1)
    BY <1>2, <1>11, <2>2 DEF AddKey
  <2>3. QED
    BY <2>1, <2>2
<1>12. CASE PlaceCopied \/ PlaceNew
  <2>1. /\ pc = "place" /\ IsEmpty(i) /\ table' = [table EXCEPT ![i] = item]
        /\ nrAlloc' = nrAlloc /\ nrUsed' = nrUsed + 1
    BY <1>12 DEF PlaceCopied, PlaceNew, PutItem
  <2>2. i \in Places /\ item \in Elements
    BY <2>1 DEF Coherent, TypeOK, Places
  <2>3. QED
    BY <1>4, <2>1, <2>2
<1>13. CASE RemovePresent
  <2>1. /\ i \in Places /\ ~IsEmpty(i) /\ table' = [table EXCEPT ![i] = NoElement]
        /\ nrAlloc' = nrAlloc /\ nrUsed' = nrUsed - 1
    BY <1>13 DEF RemovePresent, IsKey, TypeOK, Places
  <2>2. Used(nrAlloc, table') = Used(nrAlloc, table) \ {i} /\ i \in Used(nrAlloc, table)
    BY <2>1, TableCleared, UsedPlaces
  <2>3. Cardinality(Used(nrAlloc, table) \ {i}) = nrUsed - 1
    BY <1>1, <2>2, FS_RemoveElement
  <2>4. QED
    BY <2>1, <2>2, <2>3 DEF Counted
<1>14. CASE MoveBack
  <2>1. /\ i \in Places /\ k \in Places /\ i # k /\ nrAlloc' = nrAlloc /\ nrUsed' = nrUsed
        /\ IsEmpty(i) /\ ~IsEmpty(k)
        /\ table' = [table EXCEPT ![i] = table[k], ![k] = NoElement]
    BY <1>1, <1>14 DEF MoveBack, Coherent, TypeOK, Places
  <2> DEFINE rest == Used(nrAlloc, table) \ {k}
  <2>2. Used(nrAlloc, table') = rest \cup {i} /\ i \notin rest /\ k \in Used(nrAlloc, table)
    BY <2>1, TableMoved, UsedPlaces
  <2>3. IsFiniteSet(rest) /\ Cardinality(rest) = nrUsed - 1
    BY <1>1, <2>2, FS_RemoveElement
  <2>4. Cardinality(rest \cup {i}) = nrUsed
    <3> HIDE DEF rest
    <3>1. Cardinality(rest \cup {i}) = Cardinality(rest) + 1
      BY <2>2, <2>3, FS_AddElement
    <3>2. QED
      BY <1>1, <2>3, <3>1
  <2>5. QED
    BY <2>1, <2>2, <2>4 DEF Counted
<1>15. CASE UNCHANGED vars
  BY <1>2, <1>15 DEF vars
<1>16. QED
  BY <1>5, <1>6, <1>7, <1>8, <1>9, <1>10, <1>11, <1>12, <1>13, <1>14, <1>15 DEF Next, Step

LEMMA SizedStep == IInv /\ [Next]_vars => Sized'
<1> SUFFICES ASSUME IInv, [Next]_vars PROVE Sized'
  OBVIOUS
<1> USE DEF IInv, arrayVars, copyVars
<1>1. /\ nrAlloc \in Nat \ {0} /\ nrUsed \in Nat /\ k \in Nat /\ oldAlloc \in Nat
      /\ nrUsed < nrAlloc
  BY DEF TypeOK, Sized
<1>2. CASE UNCHANGED arrayVars /\ pc' \notin {"copy", "place"}
  BY <1>1, <1>2 DEF Sized
<1>3. ASSUME NEW c \in Calls, Call(c) PROVE Sized'
  BY <1>2, <1>3 DEF Call
<1>4. CASE Clear
  BY <1>1, <1>4 DEF Clear, Sized, Coherent
<1>5. CASE ProbeNext \/ Found \/ RemoveAbsent
  BY <1>2, <1>5 DEF ProbeNext, Found, RemoveAbsent, Return, Leave
<1>6. CASE AddPresent
  BY <1>1, <1>6 DEF AddPresent, Return, Leave, Sized
<1>7. CASE AddElement
  <2>1. CASE MoreThanHalf(nrUsed + 1)
    <3>1. /\ nrUsed' = 0 /\ k' = 0 /\ nrAlloc' = 2 * nrAlloc + 1 /\ oldAlloc' = nrAlloc
          /\ pc' = "copy"
      BY <1>7, <2>1 DEF AddElement, Enlarge
    <3>2. QED
      BY <1>1, <3>1 DEF Sized
  <2>2. CASE ~MoreThanHalf(nrUsed + 1)
    <3>1. nrUsed' = nrUsed + 1 /\ nrAlloc' = nrAlloc /\ pc' = "idle"
      BY <1>7, <2>2 DEF AddElement, Return, Leave
    <3>2. nrUsed + 1 < nrAlloc
      BY <1>1, <2>2 DEF MoreThanHalf
    <3>3. QED
      BY <3>1, <3>2 DEF Sized
  <2>3. QED
    BY <2>1, <2>2
<1>8. CASE AddKey
  <2>1. CASE MoreThanHalf(nrUsed + 1)
    <3>1. /\ nrUsed' = 0 /\ k' = 0 /\ nrAlloc' = 2 * nrAlloc + 1 /\ oldAlloc' = nrAlloc
          /\ pc' = "copy"
      BY <1>8, <2>1 DEF AddKey, Enlarge
    <3>2. QED
      BY <1>1, <3>1 DEF Sized
  <2>2. CASE ~MoreThanHalf(nrUsed + 1)
    <3>1. UNCHANGED <<arrayVars, copyVars>> /\ pc' = "place" /\ pc = "probe"
      BY <1>8, <2>2 DEF AddKey, Place
    <3>2. nrUsed + 1 < nrAlloc
      BY <1>1, <2>2 DEF MoreThanHalf
    <3>3. k = oldAlloc
      BY <3>1 DEF Coherent
    <3>4. QED
      BY <1>1, <3>1, <3>2, <3>3 DEF Sized
  <2>3. QED
    BY <2>1, <2>2
<1>9. CASE CopyEmpty \/ Copy
  BY <1>1, <1>9 DEF CopyEmpty, Copy, Place, Sized
<1>10. CASE CopyEnd
  <2>1. nrUsed =< oldAlloc /\ nrAlloc = 2 * oldAlloc + 1 /\ oldAlloc > 0
    BY <1>1, <1>10 DEF CopyEnd, Sized, Coherent
  <2>2. UNCHANGED arrayVars /\ k' = 0 /\ oldAlloc' = 0 /\ pc' \in {"idle", "place"}
    BY <1>10 DEF CopyEnd, DropOldTable, Leave, Place
  <2>3. QED
    BY <1>1, <2>1, <2>2 DEF Sized
<1>11. CASE PlaceNext
  BY <1>1, <1>11 DEF PlaceNext, Sized
<1>12. CASE PlaceCopied
  BY <1>1, <1>12 DEF PlaceCopied, PutItem, Sized
<1>13. CASE PlaceNew
  BY <1>1, <1>13 DEF PlaceNew, PutItem, Return, Leave, Sized
<1>14. CASE RemovePresent
  BY <1>1, <1>14 DEF RemovePresent, Sized
<1>15. CASE MoveBack
  BY <1>1, <1>15 DEF MoveBack, Sized
<1>16. CASE LeaveThere \/ Closed
  BY <1>2, <1>16 DEF LeaveThere, Closed, Leave
<1>17. CASE UNCHANGED vars
  BY <1>17 DEF vars, Sized
<1>18. QED
  BY <1>3, <1>4, <1>5, <1>6, <1>7, <1>8, <1>9, <1>10, <1>11, <1>12, <1>13, <1>14, <1>15,
     <1>16, <1>17 DEF Next, Step

-----------------------------------------------------------------------------

\* The invariant: what probing has passed, where the gap of a removal may lie, which
\* places of the old table are still to be copied, and how many places are used.
THEOREM Invariance == Spec => []IInv
<1>1. IInv /\ [Next]_vars => IInv'
  BY TypeStep, CoherentStep, UniqueStep, PassedStep, NoGapStep, WaysStep, CountedStep, SizedStep
     DEF IInv
<1>2. QED
  BY InitIInv, <1>1, PTL DEF Spec

\* The variables of the table keep their types in every call (addElement, findKey,
\* removeKey and clear), and nrUsed never falls below zero.
THEOREM TypeCorrect == Spec => []TypeOK
<1>1. IInv => TypeOK
  BY DEF IInv
<1>2. QED
  BY Invariance, <1>1, PTL

\* Every element is found from its home: no removal and no copy leaves a free place on
\* the way that findKey takes to it.
THEOREM NoGapEver == Spec => []NoGap
<1>1. IInv => NoGap
  BY DEF IInv
<1>2. QED
  BY Invariance, <1>1, PTL

\* nrUsed counts the used places and stays below nrAlloc, so that every probe loop
\* meets a free place.
THEOREM PlaceAlwaysFree == Spec => []PlaceFree
<1>1. IInv => PlaceFree
  BY DEF IInv, Counted, Sized, PlaceFree
<1>2. QED
  BY Invariance, <1>1, PTL

-----------------------------------------------------------------------------
(* The array implements the map. *)

Stored == {table[p] : p \in Used(nrAlloc, table)}
Left == {oldTable[p] : p \in Remaining}

LEMMA ContentsParts == Contents = Stored \cup Left
BY DEF Contents, Stored, Left, Remaining

LEMMA NothingLeft ==
  ASSUME oldAlloc = 0
  PROVE  Contents = Stored
BY ContentsParts, NothingRemains DEF Left

\* An element put at a free place joins the others, one put over its predecessor
\* replaces it.
LEMMA PutStored ==
  ASSUME TypeOK, NEW p \in Places, NEW e \in Elements, IsEmpty(p)
  PROVE  LET t == [table EXCEPT ![p] = e]
         IN {t[q] : q \in Used(nrAlloc, t)} = Stored \cup {e}
<1> DEFINE t == [table EXCEPT ![p] = e]
<1>1. /\ Used(nrAlloc, t) = Used(nrAlloc, table) \cup {p} /\ p \notin Used(nrAlloc, table)
      /\ t[p] = e /\ \A q \in Used(nrAlloc, table) : t[q] = table[q]
  BY PutUsed, UsedPlaces
<1> HIDE DEF t
<1>2. {t[q] : q \in Used(nrAlloc, t)} = Stored \cup {e}
  BY <1>1 DEF Stored
<1>3. QED
  BY <1>2 DEF t

LEMMA StoredPut ==
  ASSUME TypeOK, NEW p \in Places, NEW e \in Elements, IsEmpty(p), nrAlloc' = nrAlloc,
         table' = [table EXCEPT ![p] = e]
  PROVE  Stored' = Stored \cup {e}
<1>1. /\ Used(nrAlloc, table') = Used(nrAlloc, table) \cup {p} /\ p \notin Used(nrAlloc, table)
      /\ table'[p] = e /\ \A q \in Used(nrAlloc, table) : table'[q] = table[q]
  BY TablePut, UsedPlaces
<1> DEFINE U == Used(nrAlloc, table)
<1>2. Stored' = {table'[q] : q \in U \cup {p}} /\ Stored = {table[q] : q \in U}
  BY <1>1 DEF Stored
<1>3. \A q \in U : table'[q] = table[q]
  BY <1>1
<1> HIDE DEF U
<1>4. {table'[q] : q \in U \cup {p}} = {table[q] : q \in U} \cup {e}
  BY <1>1, <1>3
<1>5. QED
  BY <1>2, <1>4

\* What is left of the elements of a table when the one of a key goes.
LEMMA WithoutKey ==
  ASSUME NEW U, NEW f, NEW g, NEW p \in U, NEW key,
         \A q \in U \ {p} : g[q] = f[q], \A q \in U : q # p <=> f[q].key # key
  PROVE  {g[q] : q \in U \ {p}} = {e \in {f[q] : q \in U} : e.key # key}
<1>1. ASSUME NEW q \in U \ {p} PROVE g[q] \in {e \in {f[r] : r \in U} : e.key # key}
  OBVIOUS
<1>2. ASSUME NEW e \in {f[r] : r \in U}, e.key # key PROVE e \in {g[q] : q \in U \ {p}}
  <2>1. PICK q \in U : e = f[q]
    BY <1>2
  <2>2. q \in U \ {p} /\ g[q] = e
    BY <1>2, <2>1
  <2>3. QED
    BY <2>2
<1>3. QED
  BY <1>1, <1>2

LEMMA AbstractInit == Init => Map!Init
<1> SUFFICES ASSUME Init PROVE Map!Init
  OBVIOUS
<1>1. Used(nrAlloc, table) = {} /\ Used(oldAlloc, oldTable) = {}
  BY SizeAssumption, EmptyTableType DEF Init
<1>2. Contents = {}
  BY <1>1 DEF Contents
<1>3. Unanswered = Map!NoCall
  BY DEF Init, Unanswered, Settled, NoCall, Map!NoCall
<1>4. QED
  BY <1>2, <1>3 DEF Init, Added, Map!Init

\* The calls are those of the map.
LEMMA SameCalls == Map!Calls = Calls /\ Map!NoCall = NoCall /\ Map!Elements = Elements
<1>1. Map!Elements = Elements
  BY DEF Map!Elements, Elements
<1>2. Map!Calls = Calls
  BY <1>1 DEF Map!Calls, Calls
<1>3. QED
  BY <1>1, <1>2 DEF Map!NoCall, NoCall

\* Where a call is answered: not before its probing ends, and not after it.
LEMMA CallInProgress ==
  ASSUME Coherent
  PROVE  /\ pc = "idle" => Unanswered = NoCall
         /\ pc = "probe" => Unanswered = call
         /\ pc \in {"copy", "place"} =>
              Unanswered = IF call.name = "addElement" THEN NoCall ELSE call
         /\ pc = "close" => Unanswered = NoCall
BY DEF Coherent, Unanswered, Settled

\* The answer for an element found and the answer for none.
LEMMA AnswersElement ==
  ASSUME Unanswered' = NoCall,
         \/ \E e \in Contents : e.key = Unanswered.key /\ answer' = FoundElement(e)
         \/ /\ \A e \in Contents : e.key # Unanswered.key
            /\ answer' = FoundElement(NoElement)
  PROVE  Map!AnswerElement
BY SameCalls DEF Map!AnswerElement, Map!Answer, Map!Present, FoundElement

LEMMA AnswersNew ==
  ASSUME Unanswered.name \in {"addElement", "addKey"}, Unanswered' = NoCall,
         \A e \in Contents : e.key # Unanswered.key,
         Contents' = Contents \cup {Unanswered.element}, answer' = Added(TRUE)
  PROVE  Map!Next
<1>1. Map!AddNew
  BY SameCalls DEF Map!AddNew, Map!Answer, Map!Present, Added
<1>2. QED
  BY <1>1 DEF Map!Next

LEMMA AbstractStep ==
  IInv /\ IInv' /\ [Next]_vars => [Map!Next]_<<Contents, Unanswered, answer>>
<1> SUFFICES ASSUME IInv, IInv', [Next]_vars
             PROVE  [Map!Next]_<<Contents, Unanswered, answer>>
  OBVIOUS
<1>0. Coherent /\ Coherent'
  BY DEF IInv
<1> USE DEF IInv, arrayVars, copyVars
<1>1. /\ nrAlloc \in Nat \ {0} /\ k \in Nat /\ oldAlloc \in Nat /\ i \in Nat
  BY DEF TypeOK
<1>2. CASE /\ UNCHANGED <<table, nrAlloc, oldTable, oldAlloc, k, answer>>
           /\ Unanswered' = Unanswered
  BY <1>2 DEF Contents, Used
<1>3. CASE /\ UNCHANGED <<table, nrAlloc, answer>> /\ oldAlloc = 0 /\ oldAlloc' = 0
           /\ Unanswered' = Unanswered
  <2>1. Contents = Stored /\ Contents' = Stored'
    BY <1>3, NothingLeft DEF Contents, Stored, Used
  <2>2. QED
    BY <1>3, <2>1 DEF Stored, Used
<1>4. ASSUME NEW c \in Calls, Call(c) PROVE Map!Next
  <2>1. /\ pc = "idle" /\ pc' = "probe" /\ call' = c
        /\ UNCHANGED <<table, nrAlloc, oldTable, oldAlloc, k, answer>>
    BY <1>4 DEF Call
  <2>2. Contents' = Contents
    BY <2>1 DEF Contents, Used
  <2>3. Unanswered = NoCall /\ Unanswered' = c
    BY <1>0, <2>1, CallInProgress DEF Unanswered, Settled
  <2>4. Map!Call(c)
    BY <2>1, <2>2, <2>3, SameCalls DEF Map!Call
  <2>5. QED
    BY <2>4, SameCalls DEF Map!Next
<1>5. CASE Clear
  <2>1. /\ Used(nrAlloc', table') = {} /\ oldAlloc' = 0 /\ answer' = answer
        /\ pc = "idle" /\ pc' = "idle"
    BY <1>0, <1>1, <1>5, EmptyTableType DEF Clear, Coherent
  <2>2. Contents' = {}
    BY <2>1 DEF Contents, Used
  <2>3. Unanswered = NoCall /\ Unanswered' = NoCall
    BY <1>0, <1>5, <2>1, CallInProgress DEF Clear, Unanswered, Settled
  <2>4. QED
    BY <2>1, <2>2, <2>3, SameCalls DEF Map!Next, Map!Clear
<1>6. CASE ProbeNext \/ Copy \/ PlaceNext
  <2>1. UNCHANGED <<table, nrAlloc, oldTable, oldAlloc, k, answer>>
    BY <1>6 DEF ProbeNext, Copy, Place, PlaceNext
  <2>2. Unanswered' = Unanswered
    BY <1>6 DEF ProbeNext, Copy, Place, PlaceNext, Unanswered, Settled
  <2>3. QED
    BY <1>2, <2>1, <2>2
<1>7. CASE LeaveThere \/ Closed
  <2>1. UNCHANGED <<table, nrAlloc, answer>> /\ oldAlloc = 0 /\ oldAlloc' = 0
    BY <1>0, <1>7 DEF LeaveThere, Closed, Leave, Coherent
  <2>2. Unanswered' = Unanswered
    BY <1>7 DEF LeaveThere, Closed, Leave, Unanswered, Settled
  <2>3. QED
    BY <1>3, <2>1, <2>2
<1>8. CASE Found
  <2>1. /\ pc = "probe" /\ pc' = "idle" /\ call' = NoCall /\ call.name = "find"
        /\ answer' = FoundElement(table[i])
        /\ UNCHANGED <<table, nrAlloc, oldTable, oldAlloc, k>>
    BY <1>8 DEF Found, Return, Leave
  <2>2. Contents = Stored /\ Contents' = Contents
    BY <1>0, <2>1, NothingLeft DEF Coherent, Contents, Used
  <2>3. Unanswered = call /\ Unanswered' = NoCall
    BY <1>0, <2>1, CallInProgress DEF Unanswered, Settled
  <2>4. i \in Places
    BY <1>1, <2>1 DEF TypeOK, Places
  <2>5. CASE IsKey(i, call.key)
    <3>1. table[i] \in Contents /\ table[i].key = call.key
      BY <2>2, <2>4, <2>5, UsedPlaces DEF Stored, IsKey
    <3>2. Map!AnswerElement
      BY <2>1, <2>3, <3>1, AnswersElement
    <3>3. QED
      BY <2>1, <2>2, <2>3, <3>2 DEF Map!Next, Map!Find
  <2>6. CASE IsEmpty(i)
    <3>1. \A e \in Contents : e.key # call.key
      BY <2>1, <2>2, <2>6, ProbeComplete DEF Stored
    <3>2. Map!AnswerElement
      BY <2>1, <2>3, <2>6, <3>1, AnswersElement DEF IsEmpty
    <3>3. QED
      BY <2>1, <2>2, <2>3, <3>2 DEF Map!Next, Map!Find
  <2>7. QED
    BY <1>8, <2>5, <2>6 DEF Found
<1>9. CASE RemoveAbsent
  <2>1. /\ pc = "probe" /\ pc' = "idle" /\ call' = NoCall /\ call.name = "remove"
        /\ answer' = FoundElement(NoElement) /\ IsEmpty(i)
        /\ UNCHANGED <<table, nrAlloc, oldTable, oldAlloc, k>>
    BY <1>9 DEF RemoveAbsent, Return, Leave
  <2>2. Contents = Stored /\ Contents' = Contents
    BY <1>0, <2>1, NothingLeft DEF Coherent, Contents, Used
  <2>3. Unanswered = call /\ Unanswered' = NoCall
    BY <1>0, <2>1, CallInProgress DEF Unanswered, Settled
  <2>4. \A e \in Contents : e.key # call.key
    BY <2>1, <2>2, ProbeComplete DEF Stored
  <2>5. Map!AnswerElement
    BY <2>1, <2>3, <2>4, AnswersElement
  <2>6. Contents' = Map!Without(call.key)
    BY <2>2, <2>4 DEF Map!Without
  <2>7. QED
    BY <2>1, <2>3, <2>5, <2>6 DEF Map!Next, Map!Remove
<1>10. CASE AddPresent
  <2>1. /\ i \in Places /\ call.element \in Elements /\ call.element.key = call.key
        /\ call.overwrite \in BOOLEAN /\ ~IsEmpty(i) /\ table[i].key = call.key
        /\ UNCHANGED <<nrAlloc, oldTable, oldAlloc, k>> /\ oldAlloc = 0
        /\ answer' = Added(FALSE) /\ pc = "probe" /\ pc' = "idle" /\ call' = NoCall
        /\ call.name \in {"addElement", "addKey"}
        /\ table' = IF call.overwrite THEN [table EXCEPT ![i] = call.element] ELSE table
    BY <1>10, CallParts DEF AddPresent, Coherent, TypeOK, Places, IsKey, Return, Leave
  <2>2. Contents = Stored /\ Contents' = Stored'
    BY <2>1, NothingLeft DEF Contents, Stored, Used
  <2>3. table[i] \in Contents /\ i \in Used(nrAlloc, table)
    BY <2>1, <2>2, UsedPlaces DEF Stored
  <2>4. Map!Present(call.key)
    BY <2>1, <2>3 DEF Map!Present
  <2>5. Contents' = IF call.overwrite THEN Map!Without(call.key) \cup {call.element}
                    ELSE Contents
    <3>1. CASE ~call.overwrite
      BY <2>1, <2>2, <3>1 DEF Stored, Used
    <3>2. CASE call.overwrite
      <4>1. /\ table' = [table EXCEPT ![i] = call.element]
        BY <2>1, <3>2
      <4>2. /\ Used(nrAlloc, table') = Used(nrAlloc, table) \cup {i} /\ table'[i] = call.element
            /\ \A q \in Places \ {i} : table'[q] = table[q]
        BY <2>1, <4>1, TablePut
      <4>3. \A q \in Used(nrAlloc, table) : q # i <=> table[q].key # call.key
        BY <2>1, <2>3 DEF Unique
      <4>4. Stored' = {e \in Stored : e.key # call.key} \cup {call.element}
        <5> DEFINE U == Used(nrAlloc, table)
        <5>1. i \in U /\ U \subseteq Places /\ Used(nrAlloc, table') = U
          BY <2>3, <4>2, UsedPlaces
        <5>2. Stored = {table[q] : q \in U} /\ Stored' = {table'[q] : q \in U}
          BY <2>1, <5>1 DEF Stored
        <5>3. \A q \in U \ {i} : table'[q] = table[q]
          BY <4>2, <5>1
        <5> HIDE DEF U
        <5>4. {table'[q] : q \in U \ {i}} = {e \in {table[q] : q \in U} : e.key # call.key}
          BY <4>3, <5>1, <5>3, WithoutKey DEF U
        <5>5. {table'[q] : q \in U} = {table'[q] : q \in U \ {i}} \cup {call.element}
          BY <4>2, <5>1
        <5>6. QED
          BY <5>2, <5>4, <5>5
      <4>5. QED
        BY <2>1, <2>2, <3>2, <4>4 DEF Map!Without
    <3>3. QED
      BY <3>1, <3>2
  <2>6. Unanswered = call /\ Unanswered' = NoCall
    BY <1>0, <2>1, CallInProgress DEF Unanswered, Settled
  <2>7. Map!AddPresent
    BY <2>1, <2>4, <2>5, <2>6, SameCalls DEF Map!AddPresent, Map!Answer, Added
  <2>8. QED
    BY <2>7 DEF Map!Next
<1>11. CASE AddElement
  <2> DEFINE t == [table EXCEPT ![i] = call.element]
  <2>1. /\ i \in Places /\ call.element \in Elements /\ call.element.key = call.key
        /\ call.name = "addElement" /\ pc = "probe" /\ IsEmpty(i) /\ oldAlloc = 0
    BY <1>11, CallParts DEF AddElement, Coherent, TypeOK, Places
  <2>2. Contents = Stored
    BY <2>1, NothingLeft
  <2>3. \A e \in Contents : e.key # call.key
    BY <2>1, <2>2, ProbeComplete DEF Stored
  <2>4. {t[q] : q \in Used(nrAlloc, t)} = Stored \cup {call.element}
    BY <2>1, PutStored
  <2>5. Contents' = Contents \cup {call.element} /\ answer' = Added(TRUE)
    <3>1. CASE MoreThanHalf(nrUsed + 1)
      <4>1. Enlarge(t) /\ answer' = Added(TRUE)
        BY <1>11, <3>1 DEF AddElement
      <4>2. t \in [0..(nrAlloc - 1) -> Entries]
        BY <2>1, ElementParts DEF TypeOK
      <4>3. Used(nrAlloc', table') = {} /\ oldTable' = t /\ oldAlloc' = nrAlloc /\ k' = 0
        BY <4>1, <4>2, EnlargeType
      <4>4. Contents' = {t[q] : q \in Used(nrAlloc, t) \cap 0..nrAlloc}
        BY <4>3 DEF Contents
      <4>5. Used(nrAlloc, t) \cap 0..nrAlloc = Used(nrAlloc, t)
        BY <1>1 DEF Used
      <4>6. QED
        BY <2>2, <2>4, <4>1, <4>4, <4>5
    <3>2. CASE ~MoreThanHalf(nrUsed + 1)
      <4>1. /\ table' = t /\ UNCHANGED <<nrAlloc, oldTable, oldAlloc, k>>
            /\ answer' = Added(TRUE)
        BY <1>11, <3>2 DEF AddElement, Return
      <4>2. Contents' = {t[q] : q \in Used(nrAlloc, t)}
        BY <2>1, <4>1 DEF Contents, Used
      <4>3. QED
        BY <2>2, <2>4, <4>1, <4>2
    <3>3. QED
      BY <3>1, <3>2
  <2>6. Unanswered = call /\ Unanswered' = NoCall
    BY <1>0, <1>11, <2>1, CallInProgress
       DEF AddElement, Enlarge, Return, Leave, Unanswered, Settled
  <2>7. QED
    BY <2>1, <2>3, <2>5, <2>6, AnswersNew
<1>12. CASE AddKey
  <2>0. Unanswered' = Unanswered
    BY <1>12 DEF AddKey, Enlarge, Place, Unanswered, Settled
  <2>1. oldAlloc = 0 /\ answer' = answer
    BY <1>12 DEF AddKey, Coherent
  <2>2. CASE MoreThanHalf(nrUsed + 1)
    <3>1. Enlarge(table)
      BY <1>12, <2>2 DEF AddKey
    <3>2. Used(nrAlloc', table') = {} /\ oldTable' = table /\ oldAlloc' = nrAlloc /\ k' = 0
      BY <3>1, EnlargeType DEF TypeOK
    <3>3. Contents' = {table[q] : q \in Used(nrAlloc, table) \cap 0..nrAlloc}
      BY <3>2 DEF Contents
    <3>4. Used(nrAlloc, table) \cap 0..nrAlloc = Used(nrAlloc, table)
      BY <1>1 DEF Used
    <3>5. Contents = Stored
      BY <2>1, NothingLeft
    <3>6. QED
      BY <2>0, <2>1, <3>3, <3>4, <3>5 DEF Stored
  <2>3. CASE ~MoreThanHalf(nrUsed + 1)
    BY <1>2, <1>12, <2>0, <2>3 DEF AddKey
  <2>4. QED
    BY <2>2, <2>3
<1>13. CASE CopyEmpty
  <2>1. /\ k < oldAlloc /\ oldTable[k] = NoElement /\ k' = k + 1
        /\ UNCHANGED <<table, nrAlloc, oldTable, oldAlloc, answer>>
    BY <1>13 DEF CopyEmpty
  <2>2. Remaining' = Remaining
    BY <1>1, <2>1 DEF Remaining, Used
  <2>3. Contents' = Contents
    BY <2>1, <2>2, ContentsParts DEF Contents, Remaining, Used
  <2>4. Unanswered' = Unanswered
    BY <1>13 DEF CopyEmpty, Unanswered, Settled
  <2>5. QED
    BY <2>1, <2>3, <2>4
<1>14. CASE CopyEnd
  <2>1. Remaining = {}
    BY <1>1, <1>14 DEF CopyEnd, Remaining, Used
  <2>2. Remaining' = {} /\ UNCHANGED <<table, nrAlloc, answer>>
    BY <1>14 DEF CopyEnd, DropOldTable, Remaining, Used
  <2>3. Contents = Stored /\ Contents' = Stored'
    BY <2>1, <2>2 DEF Contents, Stored, Remaining, Used
  <2>4. Unanswered' = Unanswered
    BY <1>14 DEF CopyEnd, Leave, Place, Unanswered, Settled
  <2>5. QED
    BY <2>2, <2>3, <2>4 DEF Stored, Used
<1>15. CASE PlaceCopied
  <2>1. /\ i \in Places /\ item \in Elements /\ item = oldTable[k] /\ k \in Remaining
        /\ IsEmpty(i) /\ table' = [table EXCEPT ![i] = item] /\ k' = k + 1
        /\ UNCHANGED <<nrAlloc, oldTable, oldAlloc, answer>>
    BY <1>1, <1>15, ElementParts
       DEF PlaceCopied, PutItem, Coherent, TypeOK, Places, Remaining, Used
  <2>2. Stored' = Stored \cup {item}
    BY <2>1, StoredPut
  <2>3. Remaining = Remaining' \cup {k}
    BY <1>1, <2>1 DEF Remaining, Used
  <2>4. Left = Left' \cup {item}
    BY <2>1, <2>3 DEF Left
  <2>5. Contents' = Stored' \cup Left'
    BY DEF Contents, Stored, Left, Remaining
  <2>6. Unanswered' = Unanswered
    BY <1>15 DEF PlaceCopied, PutItem, Unanswered, Settled
  <2>7. QED
    BY <2>1, <2>2, <2>4, <2>5, <2>6, ContentsParts
<1>16. CASE PlaceNew
  <2>1. /\ i \in Places /\ item = call.element /\ call.element \in Elements
        /\ call.element.key = call.key /\ pc' = "idle" /\ call' = NoCall
        /\ call.name = "addKey" /\ oldAlloc = 0 /\ pc = "place" /\ oldAlloc' = 0
        /\ IsEmpty(i) /\ table' = [table EXCEPT ![i] = item] /\ nrAlloc' = nrAlloc
        /\ answer' = Added(TRUE)
    BY <1>1, <1>16, CallParts DEF PlaceNew, PutItem, Coherent, TypeOK, Places, Return, Leave
  <2>2. Contents = Stored /\ Contents' = Stored'
    BY <2>1, NothingLeft DEF Contents, Stored, Used
  <2>3. \A e \in Contents : e.key # call.key
    BY <2>1, <2>2 DEF Unique, Stored
  <2>4. Stored' = Stored \cup {call.element}
    BY <2>1, StoredPut
  <2>5. Unanswered = call /\ Unanswered' = NoCall
    BY <1>0, <2>1, CallInProgress DEF Unanswered, Settled
  <2>6. QED
    BY <2>1, <2>2, <2>3, <2>4, <2>5, AnswersNew
<1>17. CASE RemovePresent
  <2>1. /\ i \in Places /\ ~IsEmpty(i) /\ table[i].key = call.key /\ call.key \in Keys
        /\ oldAlloc = 0 /\ oldAlloc' = 0 /\ answer' = FoundElement(table[i])
        /\ table' = [table EXCEPT ![i] = NoElement] /\ nrAlloc' = nrAlloc
        /\ pc = "probe" /\ pc' = "close" /\ call.name = "remove"
    BY <1>17, CallParts DEF RemovePresent, IsKey, Coherent, TypeOK, Places
  <2>2. Contents = Stored /\ Contents' = Stored'
    BY <2>1, NothingLeft DEF Contents, Stored, Used
  <2>3. /\ Used(nrAlloc, table') = Used(nrAlloc, table) \ {i}
        /\ \A q \in Places \ {i} : table'[q] = table[q]
    BY <2>1, TableCleared
  <2>4. i \in Used(nrAlloc, table) /\ table[i] \in Contents
    BY <2>1, <2>2, UsedPlaces DEF Stored
  <2>5. \A q \in Used(nrAlloc, table) : q # i <=> table[q].key # call.key
    BY <2>1, <2>4 DEF Unique
  <2>6. Stored' = {e \in Stored : e.key # call.key}
    <3> DEFINE U == Used(nrAlloc, table)
    <3>1. Stored = {table[q] : q \in U} /\ Stored' = {table'[q] : q \in U \ {i}}
      BY <2>1, <2>3 DEF Stored
    <3>2. i \in U /\ \A q \in U \ {i} : table'[q] = table[q]
      BY <2>3, <2>4, UsedPlaces
    <3> HIDE DEF U
    <3>3. {table'[q] : q \in U \ {i}} = {e \in {table[q] : q \in U} : e.key # call.key}
      BY <2>5, <3>2, WithoutKey DEF U
    <3>4. QED
      BY <3>1, <3>3
  <2>7. Unanswered = call /\ Unanswered' = NoCall
    BY <1>0, <2>1, CallInProgress DEF Unanswered, Settled
  <2>8. Map!AnswerElement
    BY <2>1, <2>4, <2>7, AnswersElement
  <2>9. Map!Remove
    BY <2>1, <2>2, <2>6, <2>7, <2>8 DEF Map!Remove, Map!Without
  <2>10. QED
    BY <2>9 DEF Map!Next
<1>18. CASE MoveBack
  <2>1. /\ i \in Places /\ k \in Places /\ i # k /\ nrAlloc' = nrAlloc /\ answer' = answer
        /\ IsEmpty(i) /\ ~IsEmpty(k) /\ oldAlloc = 0 /\ oldAlloc' = 0
        /\ table' = [table EXCEPT ![i] = table[k], ![k] = NoElement]
    BY <1>1, <1>18 DEF MoveBack, Coherent, TypeOK, Places
  <2>2. Contents = Stored /\ Contents' = Stored'
    BY <2>1, NothingLeft DEF Contents, Stored, Used
  <2>3. /\ Used(nrAlloc, table') = (Used(nrAlloc, table) \ {k}) \cup {i}
        /\ table'[i] = table[k] /\ \A q \in Places \ {i, k} : table'[q] = table[q]
    BY <2>1, TableMoved
  <2>4. k \in Used(nrAlloc, table) /\ i \notin Used(nrAlloc, table)
    BY <2>1, UsedPlaces
  <2>5. Stored' = Stored
    BY <2>1, <2>3, <2>4, UsedPlaces DEF Stored
  <2>6. Unanswered' = Unanswered
    BY <1>18 DEF MoveBack, Unanswered, Settled
  <2>7. QED
    BY <2>1, <2>2, <2>5, <2>6
<1>19. CASE UNCHANGED vars
  <2>1. Unanswered' = Unanswered
    BY <1>19 DEF vars, Unanswered, Settled
  <2>2. QED
    BY <1>2, <1>19, <2>1 DEF vars
<1>20. QED
  BY <1>4, <1>5, <1>6, <1>7, <1>8, <1>9, <1>10, <1>11, <1>12, <1>13, <1>14, <1>15, <1>16,
     <1>17, <1>18, <1>19 DEF Next, Step

\* Every call of the array is answered once, for its own key, element and flag, as
\* the map of TableMap would, and takes its effect in that step and in no other, also
\* over an enlargement and over the moves of a removal.
THEOREM Implements == Spec => Refinement
  BY Invariance, AbstractInit, AbstractStep, PTL DEF Spec, Refinement, Map!Spec

=============================================================================
