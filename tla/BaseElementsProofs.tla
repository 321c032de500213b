------------------------- MODULE BaseElementsProofs -------------------------
(***************************************************************************)
(* Theorems about the two ways in which the base elements of an element    *)
(* are kept.                                                               *)
(*                                                                         *)
(* WeightedRanges, for every list of entries.  Position adds to the shape  *)
(* of the ranges how far consolidate has come: behind the range it is at   *)
(* all are single identifiers, and in front of it no two can be joined.    *)
(* Added says what the entries handed over so far have come to.  The       *)
(* refinement and the sums rest on what a step does to the weights the     *)
(* ranges stand for.                                                       *)
(*                                                                         *)
(* AggregationMap, for every dimension, every area and all sizes that      *)
(* decide when the index turns into a vector.  The invariant says what     *)
(* base2ParentMap holds of the elements handed over so far (MapBuilt), and *)
(* that the index, in both of its forms, leads each compacted source to    *)
(* its row in the flat buffers (Compacted).                                *)
(***************************************************************************)
EXTENDS WeightedRanges, AggregationMap, SharedLemmas, SequenceTheorems

-----------------------------------------------------------------------------
(* WeightedRanges. *)

Single(r) == r[1] = r[2]
Settled(r, s) == r[2] + 1 = s[1] => RangeWeight(r[1]) # RangeWeight(s[1])

Position ==
  /\ pc = "add" => \A r \in ranges : Single(r)
  /\ pc = "consolidate" =>
       /\ it \in ranges /\ weight = RangeWeight(it[1])
       /\ \A r \in ranges : r[1] > it[1] => Single(r)
       /\ \A r, s \in ranges : r[1] < it[1] => Settled(r, s)
  /\ pc \in {"begin", "read", "end"} => \A r, s \in ranges : Settled(r, s)
  /\ pc = "read" => it \in ranges /\ reader \in it[1]..it[2]

Counted == IsFiniteSet(Covered) /\ siz = Cardinality(Covered)

Shape == TypeOK /\ WellFormed /\ Position

LEMMA Numbers ==
  ASSUME TypeOK
  PROVE  /\ \A r \in ranges : r \in Nat \X Nat /\ r[1] \in Nat /\ r[2] \in Nat /\ r = <<r[1], r[2]>>
         /\ \A n \in Nat : RangeWeight(n) \in Int
         /\ \A x \in Entries : x.id \in Nat /\ x.weight \in Int
  BY EntriesAssumption DEF TypeOK, RangeWeight

\* Two ranges with the same low end are one.
LEMMA LowsDiffer ==
  ASSUME TypeOK, WellFormed, NEW r \in ranges, NEW s \in ranges, r[1] = s[1]
  PROVE  r = s
  BY Numbers DEF WellFormed

LEMMA FirstBehind ==
  ASSUME TypeOK, WellFormed, it \in ranges, NEW next \in FirstOf(Behind(it[1]))
  PROVE  /\ next \in ranges /\ it[2] < next[1] /\ it # next
         /\ \A r \in ranges : r[1] =< it[1] \/ r = next \/ next[2] < r[1]
<1>1. next \in ranges /\ next[1] > it[1] /\ \A r \in ranges : r[1] > it[1] => next[1] =< r[1]
  BY DEF FirstOf, Behind
<1>2. it[2] < next[1]
  BY <1>1, Numbers DEF WellFormed
<1>3. ASSUME NEW r \in ranges, r[1] > it[1], r # next
      PROVE  next[2] < r[1]
  BY <1>1, <1>3, Numbers DEF WellFormed
<1>4. QED
  BY <1>1, <1>2, <1>3, Numbers

-----------------------------------------------------------------------------
(* The shape of the ranges is kept by every step. *)

LEMMA InitShape == Init => Shape
<1> SUFFICES ASSUME Init PROVE Shape
  OBVIOUS
<1>1. list \in Seq(Entries)
  BY ListsAssumption DEF Init
<1>2. TypeOK
  BY <1>1 DEF Init, TypeOK, None
<1>3. QED
  BY <1>2 DEF Init, Shape, WellFormed, Position

\* What is in the sequence still to be added.
LEMMA NextEntry ==
  ASSUME TypeOK, todo # << >>
  PROVE  Head(todo) \in Entries /\ Tail(todo) \in Seq(Entries)
  BY DEF TypeOK

LEMMA FastAddNewShape ==
  ASSUME Shape, FastAddNew
  PROVE  Shape'
<1> DEFINE x == Head(todo)
<1>1. /\ pc = "add" /\ pc' = "add" /\ x \in Entries /\ Tail(todo) \in Seq(Entries)
      /\ ranges' = ranges \cup {<<x.id, x.id>>} /\ <<x.id, x.id>> \notin ranges
      /\ weights' = IF x.weight = 1 THEN weights ELSE With(weights, x.id, x.weight)
      /\ todo' = Tail(todo) /\ siz' = siz + 1 /\ UNCHANGED <<list, it, weight, reader, read>>
  BY NextEntry DEF FastAddNew, Shape
<1>2. x.id \in Nat /\ x.weight \in Int
  BY <1>1, Numbers DEF Shape
<1> HIDE DEF x
<1>3. DOMAIN weights' \subseteq DOMAIN weights \cup {x.id}
  BY <1>1 DEF With
<1>4. \A low \in DOMAIN weights' :
        \/ low \in DOMAIN weights /\ weights'[low] = weights[low]
        \/ low = x.id /\ weights'[low] = x.weight /\ x.weight # 1
  BY <1>1, <1>3 DEF With
<1>5. TypeOK'
  BY <1>1, <1>2, <1>3, <1>4, SMTT(30) DEF Shape, TypeOK
<1>6. \A r \in ranges : Single(r) /\ r[1] # x.id
  BY <1>1, Numbers DEF Shape, Position, Single
<1>7. WellFormed'
  <2>1. \A r \in ranges' : r[1] =< r[2]
    BY <1>1, <1>2 DEF Shape, WellFormed
  <2>2. \A r, s \in ranges' : r # s => r[2] < s[1] \/ s[2] < r[1]
    <3>1. \A r \in ranges : r[1] \in Nat /\ r[2] = r[1] /\ r[1] # x.id
      BY <1>6, Numbers DEF Shape, Single
    <3>2. \A r \in ranges' : r \in ranges \/ (r[1] = x.id /\ r[2] = x.id /\ r = <<x.id, x.id>>)
      BY <1>1
    <3>3. QED
      BY <1>2, <3>1, <3>2 DEF Shape, WellFormed
  <2>3. \A low \in DOMAIN weights' : weights'[low] # 1 /\ \E r \in ranges' : r[1] = low
    BY <1>1, <1>4 DEF Shape, WellFormed
  <2>4. QED
    BY <2>1, <2>2, <2>3 DEF WellFormed
<1>8. Position'
  BY <1>1, <1>6 DEF Position, Single
<1>9. QED
  BY <1>5, <1>7, <1>8 DEF Shape

LEMMA FastAddAgainShape ==
  ASSUME Shape, FastAddAgain
  PROVE  Shape'
<1> DEFINE x == Head(todo)
<1>1. /\ pc = "add" /\ pc' = "add" /\ x \in Entries /\ Tail(todo) \in Seq(Entries)
      /\ <<x.id, x.id>> \in ranges /\ weights' = Store(x.id, SumWeight(x))
      /\ todo' = Tail(todo) /\ UNCHANGED <<list, ranges, siz, it, weight, reader, read>>
  BY NextEntry DEF FastAddAgain, Shape
<1>2. x.id \in Nat /\ SumWeight(x) \in Int
  BY <1>1, Numbers DEF Shape, SumWeight
<1> HIDE DEF x
<1>3. \A low \in DOMAIN weights' :
        \/ low \in DOMAIN weights /\ weights'[low] = weights[low]
        \/ low = x.id /\ weights'[low] = SumWeight(x) /\ SumWeight(x) # 1
  BY <1>1 DEF Store, With, Without, Restrict
<1>4. TypeOK'
  BY <1>1, <1>2, <1>3 DEF Shape, TypeOK
<1>5. WellFormed'
  BY <1>1, <1>3 DEF Shape, WellFormed
<1>6. Position'
  BY <1>1 DEF Shape, Position, Single
<1>7. QED
  BY <1>4, <1>5, <1>6 DEF Shape

LEMMA ConsolidateShape ==
  ASSUME Shape, Consolidate
  PROVE  Shape'
<1>1. PICK r \in FirstOf(ranges) \cup {r \in {None} : ranges = {}} :
        it' = r /\ weight' = RangeWeight(r[1])
  BY DEF Consolidate
<1>2. /\ pc = "add" /\ pc' = IF ranges = {} THEN "begin" ELSE "consolidate"
      /\ UNCHANGED <<list, todo, ranges, weights, siz, reader, read>>
  BY DEF Consolidate
<1>3. r \in Nat \X Nat /\ r[1] \in Nat
  BY <1>1 DEF Shape, TypeOK, FirstOf, None
<1>4. TypeOK'
  BY <1>1, <1>2, <1>3, Numbers DEF Shape, TypeOK
<1>5. WellFormed'
  BY <1>2 DEF Shape, WellFormed
<1>6. Position'
  <2>1. CASE ranges = {}
    BY <1>2, <2>1 DEF Position
  <2>2. CASE ranges # {}
    <3>1. r \in ranges /\ \A s \in ranges : r[1] =< s[1]
      BY <1>1, <2>2 DEF FirstOf
    <3>2. weight' = RangeWeight(it[1])' /\ it' \in ranges'
      BY <1>1, <1>2, <3>1 DEF RangeWeight
    <3>3. \A s \in ranges' : ~ (s[1] < it'[1])
      BY <1>1, <1>2, <1>3, <3>1, Numbers DEF Shape
    <3>4. QED
      BY <1>1, <1>2, <2>2, <3>2, <3>3 DEF Shape, Position, Single
  <2>3. QED
    BY <2>1, <2>2
<1>7. QED
  BY <1>4, <1>5, <1>6 DEF Shape

\* What Join does, with the next range named.
LEMMA JoinEffect ==
  ASSUME Shape, Join
  PROVE  \E next \in ranges :
           /\ it \in ranges /\ it # next /\ next[1] = it[2] + 1 /\ next[2] = it[2] + 1
           /\ RangeWeight(next[1]) = RangeWeight(it[1])
           /\ \A r \in ranges : r[1] =< it[1] \/ r = next \/ next[2] < r[1]
           /\ ranges' = (ranges \ {next, it}) \cup {Joined} /\ it' = Joined
           /\ DOMAIN weights' = DOMAIN weights \ {next[1]}
           /\ \A low \in DOMAIN weights' : weights'[low] = weights[low]
<1>1. PICK next \in FirstOf(Behind(it[1])) :
        /\ Joinable(next)
        /\ weights' = Without(weights, next[1])
        /\ it' = Joined
        /\ ranges' = (ranges \ {next, it}) \cup {Joined}
  BY DEF Join
<1>2. it \in ranges /\ weight = RangeWeight(it[1])
  BY DEF Shape, Position, Join
<1>3. /\ next \in ranges /\ it[2] < next[1] /\ it # next
      /\ \A r \in ranges : r[1] =< it[1] \/ r = next \/ next[2] < r[1]
  BY <1>2, FirstBehind DEF Shape
<1>4. next[1] = it[2] + 1 /\ RangeWeight(next[1]) = RangeWeight(it[1])
  BY <1>1, <1>2 DEF Joinable
<1>5. next[1] > it[1]
  BY <1>1 DEF FirstOf, Behind
<1>6. next[2] = next[1]
  BY <1>3, <1>5 DEF Shape, Position, Join, Single
<1>7. /\ DOMAIN weights' = DOMAIN weights \ {next[1]}
      /\ \A low \in DOMAIN weights' : weights'[low] = weights[low]
  BY <1>1 DEF Without, Restrict
<1>8. QED
  BY <1>1, <1>2, <1>3, <1>4, <1>6, <1>7

LEMMA JoinShape ==
  ASSUME Shape, Join
  PROVE  Shape'
<1>1. PICK next \in ranges :
        /\ it \in ranges /\ it # next /\ next[1] = it[2] + 1 /\ next[2] = it[2] + 1
        /\ RangeWeight(next[1]) = RangeWeight(it[1])
        /\ \A r \in ranges : r[1] =< it[1] \/ r = next \/ next[2] < r[1]
        /\ ranges' = (ranges \ {next, it}) \cup {Joined} /\ it' = Joined
        /\ DOMAIN weights' = DOMAIN weights \ {next[1]}
        /\ \A low \in DOMAIN weights' : weights'[low] = weights[low]
  BY JoinEffect
<1>2. pc = "consolidate" /\ UNCHANGED <<list, todo, siz, weight, reader, read, pc>>
  BY DEF Join
<1>3. /\ Joined \in Nat \X Nat /\ Joined[1] = it[1] /\ Joined[2] = it[2] + 1
      /\ it[1] \in Nat /\ it[2] \in Nat /\ it[1] =< it[2]
  BY <1>1, Numbers DEF Joined, Shape, WellFormed
<1>4. \A r \in ranges' : r = Joined \/ (r \in ranges /\ r # next /\ r # it)
  BY <1>1
<1>5. \A r \in ranges : r[1] \in Nat /\ r[2] \in Nat /\ r[1] =< r[2]
  BY Numbers DEF Shape, WellFormed
<1>6. \A r \in ranges : r # it /\ r # next => r[2] < it[1] \/ it[2] + 1 < r[1]
  BY <1>1, <1>3, <1>5, LowsDiffer DEF Shape, WellFormed
<1>7. TypeOK'
  BY <1>1, <1>2, <1>3 DEF Shape, TypeOK
<1>8. WellFormed'
  <2>1. \A r \in ranges' : r[1] =< r[2]
    BY <1>3, <1>4, <1>5
  <2>2. \A r, s \in ranges' : r # s => r[2] < s[1] \/ s[2] < r[1]
    BY <1>3, <1>4, <1>5, <1>6 DEF Shape, WellFormed
  <2>3. \A low \in DOMAIN weights' : weights'[low] # 1 /\ \E r \in ranges' : r[1] = low
    BY <1>1, <1>3 DEF Shape, WellFormed
  <2>4. QED
    BY <2>1, <2>2, <2>3 DEF WellFormed
<1>9. \A low : low # next[1] => RangeWeight(low)' = RangeWeight(low)
  BY <1>1 DEF RangeWeight
<1>10. \A r \in ranges' : r[1] # next[1] /\ RangeWeight(r[1])' = RangeWeight(r[1])
  BY <1>1, <1>3, <1>4, <1>5, <1>6, <1>9
<1>11. Position'
  <2>1. it' \in ranges' /\ weight' = RangeWeight(it[1])'
    BY <1>1, <1>2, <1>3, <1>10 DEF Shape, Position
  <2>2. \A r \in ranges' : r[1] > it'[1] => Single(r)
    BY <1>1, <1>2, <1>3, <1>4 DEF Shape, Position
  <2>3. \A r, s \in ranges' : r[1] < it'[1] => Settled(r, s)'
    <3> SUFFICES ASSUME NEW r \in ranges', NEW s \in ranges', r[1] < it'[1], r[2] + 1 = s[1]
                 PROVE  RangeWeight(r[1]) # RangeWeight(s[1])
      BY <1>10 DEF Settled
    <3>1. r \in ranges /\ r[1] < it[1]
      BY <1>1, <1>3, <1>4
    <3>2. CASE s \in ranges
      BY <1>2, <3>1, <3>2 DEF Shape, Position, Settled
    <3>3. CASE s = Joined
      BY <1>1, <1>2, <1>3, <3>1, <3>3 DEF Shape, Position, Settled
    <3>4. QED
      BY <1>4, <3>2, <3>3
  <2>4. QED
    BY <1>2, <2>1, <2>2, <2>3 DEF Position, Single
<1>12. QED
  BY <1>7, <1>8, <1>11 DEF Shape

LEMMA NextRangeShape ==
  ASSUME Shape, NextRange
  PROVE  Shape'
<1>1. PICK next \in FirstOf(Behind(it[1])) :
        ~Joinable(next) /\ it' = next /\ weight' = RangeWeight(next[1])
  BY DEF NextRange
<1>2. /\ pc = "consolidate" /\ UNCHANGED <<list, todo, ranges, weights, siz, reader, read, pc>>
      /\ it \in ranges /\ weight = RangeWeight(it[1])
  BY DEF NextRange, Shape, Position
<1>3. /\ next \in ranges /\ it[2] < next[1] /\ it # next
      /\ \A r \in ranges : r[1] =< it[1] \/ r = next \/ next[2] < r[1]
  BY <1>2, FirstBehind DEF Shape
<1>4. /\ \A r \in ranges : r \in Nat \X Nat /\ r[1] \in Nat /\ r[2] \in Nat /\ r[1] =< r[2]
      /\ RangeWeight(next[1]) \in Int
  BY <1>3, Numbers DEF Shape, WellFormed
<1>5. TypeOK'
  BY <1>1, <1>2, <1>3, <1>4 DEF Shape, TypeOK
<1>6. WellFormed'
  BY <1>2 DEF Shape, WellFormed
<1>7. \A n : RangeWeight(n)' = RangeWeight(n)
  BY <1>2 DEF RangeWeight
<1>8. \A r, s \in ranges : r[1] < next[1] => Settled(r, s)
  <2> SUFFICES ASSUME NEW r \in ranges, NEW s \in ranges, r[1] < next[1]
               PROVE  Settled(r, s)
    OBVIOUS
  <2>1. CASE r[1] < it[1]
    BY <1>2, <2>1 DEF Shape, Position
  <2>2. CASE r[1] = it[1]
    <3>1. r = it
      BY <1>2, <2>2, LowsDiffer DEF Shape
    <3>2. s[1] = it[2] + 1 => s = next
      BY <1>2, <1>3, <1>4
    <3>3. QED
      BY <1>1, <1>2, <3>1, <3>2 DEF Joinable, Settled
  <2>3. QED
    BY <1>2, <1>3, <1>4, <2>1, <2>2
<1>9. Position'
  BY <1>1, <1>2, <1>3, <1>4, <1>7, <1>8 DEF Shape, Position, Settled, Single
<1>10. QED
  BY <1>5, <1>6, <1>9 DEF Shape

LEMMA ConsolidateEndsShape ==
  ASSUME Shape, ConsolidateEnds
  PROVE  Shape'
<1>1. /\ pc = "consolidate" /\ pc' = "begin" /\ it \in ranges
      /\ UNCHANGED <<list, todo, ranges, weights, siz, it, weight, reader, read>>
      /\ \A r \in ranges : ~ (r[1] > it[1])
  BY DEF ConsolidateEnds, Behind, Shape, Position
<1>2. \A r, s \in ranges : Settled(r, s)
  <2> SUFFICES ASSUME NEW r \in ranges, NEW s \in ranges PROVE Settled(r, s)
    OBVIOUS
  <2>1. CASE r[1] < it[1]
    BY <1>1, <2>1 DEF Shape, Position
  <2>2. CASE r[1] = it[1]
    <3>1. r = it /\ it[1] =< it[2]
      BY <1>1, <2>2, LowsDiffer DEF Shape, WellFormed
    <3>2. s[1] # it[2] + 1
      BY <1>1, <3>1, Numbers DEF Shape
    <3>3. QED
      BY <3>1, <3>2 DEF Settled
  <2>3. QED
    BY <1>1, <2>1, <2>2, Numbers DEF Shape
<1>3. TypeOK'
  BY <1>1 DEF Shape, TypeOK
<1>4. WellFormed'
  BY <1>1 DEF Shape, WellFormed
<1>5. Position'
  BY <1>1, <1>2 DEF Position, Settled, RangeWeight
<1>6. QED
  BY <1>3, <1>4, <1>5 DEF Shape

LEMMA BeginShape ==
  ASSUME Shape, Begin
  PROVE  Shape'
<1>1. PICK r \in FirstOf(ranges) \cup {r \in {None} : ranges = {}} : it' = r /\ reader' = r[1]
  BY DEF Begin
<1>2. /\ pc = "begin" /\ pc' = IF ranges = {} THEN "end" ELSE "read"
      /\ UNCHANGED <<list, todo, ranges, weights, siz, weight, read>>
  BY DEF Begin
<1>3. r \in Nat \X Nat /\ r[1] \in Nat /\ (ranges # {} => r \in ranges)
  BY <1>1 DEF Shape, TypeOK, FirstOf, None
<1>4. TypeOK'
  BY <1>1, <1>2, <1>3 DEF Shape, TypeOK
<1>5. WellFormed'
  BY <1>2 DEF Shape, WellFormed
<1>6. ranges # {} => r[1] \in r[1]..r[2]
  BY <1>3, Numbers DEF Shape, WellFormed
<1>7. Position'
  BY <1>1, <1>2, <1>3, <1>6 DEF Shape, Position, Settled, RangeWeight
<1>8. QED
  BY <1>4, <1>5, <1>7 DEF Shape

LEMMA ReadShape ==
  ASSUME Shape, Read
  PROVE  Shape'
<1>1. /\ pc = "read" /\ it \in ranges /\ reader \in it[1]..it[2]
      /\ read' = With(read, reader, RangeWeight(it[1]))
      /\ UNCHANGED <<list, todo, ranges, weights, siz, weight>>
  BY DEF Read, Shape, Position
<1>2. /\ it[1] \in Nat /\ it[2] \in Nat /\ reader \in Nat /\ RangeWeight(it[1]) \in Int
  BY <1>1, Numbers DEF Shape, TypeOK
<1>3. /\ DOMAIN read' \subseteq Nat
      /\ \A id \in DOMAIN read' : read'[id] \in Int
  BY <1>1, <1>2 DEF With, Shape, TypeOK
<1>4. \/ reader + 1 \in it[1]..it[2] /\ reader' = reader + 1 /\ it' = it /\ pc' = pc
      \/ \E next \in ranges : it' = next /\ reader' = next[1] /\ pc' = pc
      \/ pc' = "end" /\ UNCHANGED <<it, reader>>
  BY <1>1, <1>2 DEF Read, FirstOf, Behind
<1>5. \A r \in ranges : r \in Nat \X Nat /\ r[1] \in Nat /\ r[1] \in r[1]..r[2]
  BY Numbers DEF Shape, WellFormed
<1>6. it' \in Nat \X Nat /\ reader' \in Nat /\ pc' \in {"read", "end"}
  BY <1>1, <1>2, <1>4, <1>5
<1>7. TypeOK'
  BY <1>1, <1>3, <1>6 DEF Shape, TypeOK
<1>8. WellFormed'
  BY <1>1 DEF Shape, WellFormed
<1>9. pc' = "read" => it' \in ranges /\ reader' \in it'[1]..it'[2]
  BY <1>1, <1>4, <1>5
<1>10. Position'
  BY <1>1, <1>6, <1>9 DEF Shape, Position, Settled, RangeWeight
<1>11. QED
  BY <1>7, <1>8, <1>10 DEF Shape

LEMMA StepShape ==
  ASSUME Shape, [Next]_vars
  PROVE  Shape'
<1>1. CASE UNCHANGED vars
  BY <1>1 DEF vars, Shape, TypeOK, WellFormed, Position, Settled, RangeWeight
<1>2. CASE Next
  BY <1>2, FastAddNewShape, FastAddAgainShape, ConsolidateShape, JoinShape, NextRangeShape,
     ConsolidateEndsShape, BeginShape, ReadShape DEF Next
<1>3. QED
  BY <1>1, <1>2

-----------------------------------------------------------------------------
(* What the ranges cover, and the weights they stand for. *)

LEMMA CoveredBy ==
  ASSUME TypeOK
  PROVE  \A id : id \in Covered <=> id \in Nat /\ \E r \in ranges : r[1] =< id /\ id =< r[2]
  BY Numbers DEF Covered

LEMMA MeaningAt ==
  ASSUME TypeOK, WellFormed, NEW r \in ranges, NEW id \in Nat, r[1] =< id, id =< r[2]
  PROVE  id \in Covered /\ RangeOf(id) = r /\ Meaning[id] = RangeWeight(r[1])
<1>1. id \in Covered
  BY CoveredBy
<1>2. \A s \in ranges : s[1] =< id /\ id =< s[2] => s = r
  BY Numbers DEF WellFormed
<1>3. RangeOf(id) = r
  BY <1>2 DEF RangeOf
<1>4. QED
  BY <1>1, <1>3 DEF Meaning

\* A new identifier is covered by its own range and nothing else changes.
LEMMA FastAddNewMeaning ==
  ASSUME Shape, FastAddNew, NEW x, x = Head(todo)
  PROVE  /\ x \in Entries /\ x.id \notin Covered
         /\ Covered' = Covered \cup {x.id}
         /\ Meaning' = [id \in Covered \cup {x.id} |->
                          IF id = x.id THEN x.weight ELSE Meaning[id]]
<1>1. /\ pc = "add" /\ x \in Entries
      /\ ranges' = ranges \cup {<<x.id, x.id>>} /\ <<x.id, x.id>> \notin ranges
      /\ weights' = IF x.weight = 1 THEN weights ELSE With(weights, x.id, x.weight)
  BY NextEntry DEF FastAddNew, Shape
<1>2. x.id \in Nat /\ x.weight \in Int
  BY <1>1, Numbers DEF Shape
<1>3. Shape'
  BY FastAddNewShape
<1>4. \A r \in ranges : r[1] \in Nat /\ r[2] = r[1] /\ r[1] # x.id
  BY <1>1, Numbers DEF Shape, Position, Single
<1>5. x.id \notin Covered
  BY <1>2, <1>4, CoveredBy DEF Shape
<1>6. \A id : id \in Covered' <=> id \in Nat /\ \E r \in ranges' : r[1] =< id /\ id =< r[2]
  BY <1>3, CoveredBy, SMTT(30) DEF Shape, Covered, TypeOK
<1>7. Covered' = Covered \cup {x.id}
  BY <1>1, <1>2, <1>6, CoveredBy DEF Shape
<1>8. x.id \notin DOMAIN weights
  BY <1>4 DEF Shape, WellFormed
<1>9. RangeWeight(x.id)' = x.weight /\ \A id : id # x.id => RangeWeight(id)' = RangeWeight(id)
  <2>1. CASE x.weight = 1
    BY <1>1, <1>8, <2>1 DEF RangeWeight
  <2>2. CASE x.weight # 1
    BY <1>1, <2>2 DEF RangeWeight, With
  <2>3. QED
    BY <2>1, <2>2
<1>s. \A r \in ranges' : r[1] \in Nat /\ r[2] = r[1] /\ r = <<r[1], r[1]>>
  <2>1. \A r \in ranges : r = <<r[1], r[1]>>
    BY <1>4, Numbers DEF Shape
  <2>2. QED
    BY <1>1, <1>2, <1>4, <2>1
<1>10. ASSUME NEW id \in Covered'
       PROVE  Meaning'[id] = IF id = x.id THEN x.weight ELSE Meaning[id]
  <2>1. PICK r \in ranges' : id \in Nat /\ r[1] =< id /\ id =< r[2]
    BY <1>6
  <2>2. \A s \in ranges' : s[1] =< id /\ id =< s[2] => s = r
    <3>1. r[1] = id /\ \A s \in ranges' : s[1] =< id /\ id =< s[2] => s[1] = id
      BY <1>s, <2>1
    <3>2. QED
      BY <1>s, <3>1
  <2>3. RangeOf(id)' = r
    BY <2>1, <2>2 DEF RangeOf
  <2>4. Meaning'[id] = RangeWeight(r[1])'
    BY <2>3 DEF Meaning
  <2>5. CASE r = <<x.id, x.id>>
    <3>1. r[1] = x.id /\ id = x.id
      BY <1>2, <2>1, <2>5
    <3>2. QED
      BY <1>9, <2>4, <3>1
  <2>6. CASE r \in ranges
    <3>1. Meaning[id] = RangeWeight(r[1])
      BY <2>1, <2>6, MeaningAt DEF Shape
    <3>2. QED
      BY <1>4, <1>9, <2>1, <2>4, <2>6, <3>1
  <2>7. QED
    BY <1>1, <2>5, <2>6
<1>11. Meaning' = [id \in Covered \cup {x.id} |-> IF id = x.id THEN x.weight ELSE Meaning[id]]
  BY <1>7, <1>10 DEF Meaning
<1>12. QED
  BY <1>1, <1>5, <1>7, <1>11

\* An identifier that is added again gets a new weight and nothing else changes.
LEMMA FastAddAgainMeaning ==
  ASSUME Shape, FastAddAgain, NEW x, x = Head(todo)
  PROVE  /\ x \in Entries /\ x.id \in Covered
         /\ Covered' = Covered
         /\ Meaning' = [id \in Covered |->
                          IF id = x.id THEN Meaning[x.id] + x.weight ELSE Meaning[id]]
<1>1. /\ pc = "add" /\ x \in Entries /\ <<x.id, x.id>> \in ranges /\ ranges' = ranges
      /\ weights' = Store(x.id, RangeWeight(x.id) + x.weight)
  BY NextEntry DEF FastAddAgain, Shape, SumWeight
<1>2. x.id \in Nat /\ x.weight \in Int
  BY <1>1, Numbers DEF Shape
<1>3. x.id \in Covered /\ Meaning[x.id] = RangeWeight(x.id)
  BY <1>1, <1>2, MeaningAt DEF Shape
<1>4. /\ RangeWeight(x.id)' = RangeWeight(x.id) + x.weight
      /\ \A id : id # x.id => RangeWeight(id)' = RangeWeight(id)
  <2>1. CASE RangeWeight(x.id) + x.weight = 1
    BY <1>1, <2>1 DEF RangeWeight, Store, Without, Restrict
  <2>2. CASE RangeWeight(x.id) + x.weight # 1
    BY <1>1, <2>2 DEF RangeWeight, Store, With
  <2>3. QED
    BY <2>1, <2>2
<1>5. Covered' = Covered /\ \A id : RangeOf(id)' = RangeOf(id)
  BY <1>1 DEF Covered, RangeOf
<1>6. ASSUME NEW id \in Covered
      PROVE  Meaning'[id] = IF id = x.id THEN Meaning[x.id] + x.weight ELSE Meaning[id]
  <2>1. PICK r \in ranges : id \in Nat /\ r[1] =< id /\ id =< r[2]
    BY CoveredBy DEF Shape
  <2>2. RangeOf(id) = r /\ Meaning[id] = RangeWeight(r[1])
    BY <2>1, MeaningAt DEF Shape
  <2>3. Meaning'[id] = RangeWeight(r[1])'
    BY <1>5, <2>2 DEF Meaning
  <2>4. r[1] = id
    BY <1>1, <2>1, Numbers DEF Shape, Position, Single
  <2>5. QED
    BY <1>3, <1>4, <2>2, <2>3, <2>4
<1>7. Meaning' = [id \in Covered |-> IF id = x.id THEN Meaning[x.id] + x.weight ELSE Meaning[id]]
  BY <1>5, <1>6 DEF Meaning
<1>8. QED
  BY <1>1, <1>3, <1>5, <1>7

\* Joining two ranges of equal weight changes nothing of what they stand for.
LEMMA JoinMeaning ==
  ASSUME Shape, Join
  PROVE  Covered' = Covered /\ Meaning' = Meaning
<1>1. PICK next \in ranges :
        /\ it \in ranges /\ it # next /\ next[1] = it[2] + 1 /\ next[2] = it[2] + 1
        /\ RangeWeight(next[1]) = RangeWeight(it[1])
        /\ \A r \in ranges : r[1] =< it[1] \/ r = next \/ next[2] < r[1]
        /\ ranges' = (ranges \ {next, it}) \cup {Joined} /\ it' = Joined
        /\ DOMAIN weights' = DOMAIN weights \ {next[1]}
        /\ \A low \in DOMAIN weights' : weights'[low] = weights[low]
  BY JoinEffect
<1>2. PICK old, new : old = it /\ new = Joined
  OBVIOUS
<1>3. /\ new[1] = old[1] /\ new[2] = old[2] + 1 /\ old \in ranges /\ new \in ranges'
      /\ old[1] \in Nat /\ old[2] \in Nat /\ old[1] =< old[2]
      /\ \A r \in ranges' : r = new \/ (r \in ranges /\ r # next /\ r # old)
      /\ \A r \in ranges : r = next \/ r = old \/ r \in ranges'
  BY <1>1, <1>2, Numbers DEF Joined, Shape, WellFormed
<1>4. \A r \in ranges : r[1] \in Nat /\ r[2] \in Nat /\ r[1] =< r[2]
  BY Numbers DEF Shape, WellFormed
<1>5. Shape'
  BY JoinShape
<1>6. \A id : id \in Covered' <=> id \in Nat /\ \E r \in ranges' : r[1] =< id /\ id =< r[2]
  BY <1>5, CoveredBy, SMTT(30) DEF Shape, Covered, TypeOK
<1>7. \A id \in Nat : (\E r \in ranges' : r[1] =< id /\ id =< r[2])
                        <=> (\E r \in ranges : r[1] =< id /\ id =< r[2])
  <2> TAKE id \in Nat
  <2>1. new[1] =< id /\ id =< new[2]
          <=> (old[1] =< id /\ id =< old[2]) \/ (next[1] =< id /\ id =< next[2])
    BY <1>1, <1>2, <1>3
  <2>2. QED
    BY <1>3, <2>1
<1>8. Covered' = Covered
  BY <1>6, <1>7, CoveredBy DEF Shape
<1>9. \A low : low # next[1] => RangeWeight(low)' = RangeWeight(low)
  BY <1>1 DEF RangeWeight
<1>10. ASSUME NEW id \in Covered
       PROVE  Meaning'[id] = Meaning[id]
  <2>1. PICK r \in ranges' : id \in Nat /\ r[1] =< id /\ id =< r[2]
    BY <1>6, <1>8
  <2>2. \A s \in ranges' : s[1] =< id /\ id =< s[2] => s = r
    <3>1. \A s, t \in ranges' : s # t => s[2] < t[1] \/ t[2] < s[1]
      BY <1>5 DEF Shape, WellFormed
    <3>2. \A s \in ranges' : s[1] \in Nat /\ s[2] \in Nat
      BY <1>3, <1>4
    <3>3. QED
      BY <2>1, <3>1, <3>2
  <2>3. RangeOf(id)' = r
    BY <2>1, <2>2 DEF RangeOf
  <2>4. Meaning'[id] = RangeWeight(r[1])'
    BY <1>8, <2>3 DEF Meaning
  <2>5. r[1] # next[1]
    <3>1. new[1] # next[1]
      BY <1>1, <1>2, <1>3
    <3>2. \A s \in ranges : s # next => s[1] # next[1]
      BY LowsDiffer DEF Shape
    <3>3. QED
      BY <1>3, <3>1, <3>2
  <2>6. Meaning'[id] = RangeWeight(r[1])
    BY <1>9, <2>4, <2>5
  <2>7. CASE r = new
    <3>1. (old[1] =< id /\ id =< old[2]) \/ (next[1] =< id /\ id =< next[2])
      BY <1>1, <1>2, <1>3, <2>1, <2>7
    <3>2. Meaning[id] = RangeWeight(old[1])
      BY <1>1, <1>2, <1>3, <2>1, <3>1, MeaningAt DEF Shape
    <3>3. QED
      BY <1>3, <2>6, <2>7, <3>2
  <2>8. CASE r \in ranges
    BY <2>1, <2>6, <2>8, MeaningAt DEF Shape
  <2>9. QED
    BY <1>3, <2>7, <2>8
<1>11. Meaning' = Meaning
  BY <1>8, <1>10 DEF Meaning
<1>12. QED
  BY <1>8, <1>11

\* Nothing else changes the ranges.
LEMMA OtherMeaning ==
  ASSUME [Next]_vars
  PROVE  FastAddNew \/ FastAddAgain \/ Join \/ UNCHANGED <<ranges, weights, siz>>
  BY DEF Next, vars, Consolidate, NextRange, ConsolidateEnds, Begin, Read

LEMMA SameMeaning ==
  ASSUME UNCHANGED <<ranges, weights>>
  PROVE  Covered' = Covered /\ Meaning' = Meaning
<1>1. Covered' = Covered /\ \A id : RangeOf(id)' = RangeOf(id) /\ RangeWeight(id)' = RangeWeight(id)
  BY DEF Covered, RangeOf, RangeWeight
<1>2. QED
  BY <1>1 DEF Meaning

LEMMA StepCounted ==
  ASSUME Shape, Counted, [Next]_vars
  PROVE  Counted'
<1>1. CASE FastAddNew
  <2>1. PICK x : x = Head(todo)
    OBVIOUS
  <2>2. Covered' = Covered \cup {x.id} /\ x.id \notin Covered /\ siz' = siz + 1
    BY <1>1, <2>1, FastAddNewMeaning DEF FastAddNew
  <2>3. QED
    BY <2>2, FS_AddElement DEF Counted
<1>2. CASE FastAddAgain
  <2>1. Covered' = Covered /\ siz' = siz
    BY <1>2, FastAddAgainMeaning DEF FastAddAgain
  <2>2. QED
    BY <2>1 DEF Counted
<1>3. CASE Join
  <2>1. Covered' = Covered /\ siz' = siz
    BY <1>3, JoinMeaning DEF Join
  <2>2. QED
    BY <2>1 DEF Counted
<1>4. CASE UNCHANGED <<ranges, weights, siz>>
  BY <1>4, SameMeaning DEF Counted
<1>5. QED
  BY <1>1, <1>2, <1>3, <1>4, OtherMeaning

-----------------------------------------------------------------------------
(* The walk over the set. *)

\* What has been read is what the set stands for, up to the identifier the reader
\* is at.
Walked ==
  /\ pc \in {"add", "consolidate", "begin"} => read = << >>
  /\ pc = "read" => /\ DOMAIN read = {id \in Covered : id < reader}
                    /\ \A id \in DOMAIN read : read[id] = Meaning[id]
  /\ pc = "end" => read = Meaning

LEMMA ReadWalked ==
  ASSUME Shape, Walked, Read
  PROVE  Walked'
<1>1. /\ pc = "read" /\ it \in ranges /\ reader \in it[1]..it[2]
      /\ read' = With(read, reader, RangeWeight(it[1]))
      /\ UNCHANGED <<ranges, weights>>
  BY DEF Read, Shape, Position
<1>2. /\ it[1] \in Nat /\ it[2] \in Nat /\ reader \in Nat
      /\ \A r \in ranges : r[1] \in Nat /\ r[2] \in Nat
  BY <1>1, Numbers DEF Shape, TypeOK
<1>3. Covered' = Covered /\ Meaning' = Meaning
  BY <1>1, SameMeaning
<1>4. reader \in Covered /\ Meaning[reader] = RangeWeight(it[1])
  BY <1>1, <1>2, MeaningAt DEF Shape
<1>5. /\ DOMAIN read' = {id \in Covered : id < reader} \cup {reader}
      /\ \A id \in DOMAIN read' : read'[id] = Meaning[id]
  BY <1>1, <1>4 DEF With, Walked
<1>6. Covered \subseteq Nat
  BY CoveredBy DEF Shape
<1>d. \A id : id \in DOMAIN read' <=> id \in Covered /\ (id < reader \/ id = reader)
  BY <1>4, <1>5
<1>7. CASE reader < it[2] /\ reader' = reader + 1 /\ pc' = "read"
  <2>1. DOMAIN read' = {id \in Covered : id < reader + 1}
    <3>1. \A id \in Covered : id < reader \/ id = reader <=> id < reader + 1
      BY <1>2, <1>6
    <3>2. QED
      BY <1>d, <3>1
  <2>2. QED
    BY <1>3, <1>5, <1>7, <2>1 DEF Walked
<1>8. ASSUME reader >= it[2], NEW next \in FirstOf(Behind(it[1])), reader' = next[1], pc' = "read"
      PROVE  Walked'
  <2>1. /\ next \in ranges /\ it[2] < next[1]
        /\ \A r \in ranges : r[1] =< it[1] \/ r = next \/ next[2] < r[1]
    BY <1>1, FirstBehind DEF Shape
  <2>2. \A id \in Covered : id < next[1] <=> id =< reader
    <3> TAKE id \in Covered
    <3>1. PICK r \in ranges : r[1] =< id /\ id =< r[2]
      BY CoveredBy DEF Shape
    <3>2. id \in Nat /\ reader = it[2]
      BY <1>1, <1>2, <1>6, <1>8
    <3>3. CASE r[1] =< it[1]
      <4>1. r[2] =< it[2]
        BY <1>1, <1>2, <3>3 DEF Shape, WellFormed
      <4>2. QED
        BY <1>2, <2>1, <3>1, <3>2, <4>1
    <3>4. CASE r = next
      BY <1>2, <2>1, <3>1, <3>2, <3>4
    <3>5. CASE next[2] < r[1]
      <4>1. next[1] =< next[2]
        BY <2>1 DEF Shape, WellFormed
      <4>2. QED
        BY <1>2, <2>1, <3>1, <3>2, <3>5, <4>1
    <3>6. QED
      BY <2>1, <3>3, <3>4, <3>5
  <2>3. DOMAIN read' = {id \in Covered : id < next[1]}
    <3>1. \A id \in Covered : id < reader \/ id = reader <=> id =< reader
      BY <1>2, <1>6
    <3>2. QED
      BY <1>d, <2>2, <3>1
  <2>4. QED
    BY <1>3, <1>5, <1>8, <2>3 DEF Walked
<1>9. CASE reader >= it[2] /\ Behind(it[1]) = {} /\ pc' = "end"
  <2>1. \A id \in Covered : id =< reader
    <3> TAKE id \in Covered
    <3>1. PICK r \in ranges : r[1] =< id /\ id =< r[2]
      BY CoveredBy DEF Shape
    <3>2. r[1] =< it[1]
      BY <1>2, <1>9, <1>1 DEF Behind
    <3>3. r[2] =< it[2]
      BY <1>1, <1>2, <3>2 DEF Shape, WellFormed
    <3>4. QED
      BY <1>1, <1>2, <1>6, <1>9, <3>1, <3>3
  <2>2. DOMAIN read' = Covered
    <3>1. \A id \in Covered : id < reader \/ id = reader
      BY <1>2, <1>6, <2>1
    <3>2. QED
      BY <1>d, <3>1
  <2>3. read' = [id \in Covered |-> Meaning[id]]
    BY <1>1, <1>5, <2>2 DEF With
  <2>4. read' = Meaning
    BY <2>3 DEF Meaning
  <2>5. QED
    BY <1>3, <1>9, <2>4 DEF Walked
<1>10. QED
  BY <1>1, <1>7, <1>8, <1>9 DEF Read

LEMMA BeginWalked ==
  ASSUME Shape, Walked, Begin
  PROVE  Walked'
<1>1. PICK r \in FirstOf(ranges) \cup {r \in {None} : ranges = {}} : it' = r /\ reader' = r[1]
  BY DEF Begin
<1>2. /\ pc' = IF ranges = {} THEN "end" ELSE "read"
      /\ read' = << >> /\ UNCHANGED <<ranges, weights>>
  BY DEF Begin, Walked
<1>3. Covered' = Covered /\ Meaning' = Meaning
  BY <1>2, SameMeaning
<1>4. CASE ranges = {}
  <2>1. Covered = {}
    BY <1>4 DEF Covered
  <2>2. Meaning = << >>
    BY <2>1 DEF Meaning
  <2>3. QED
    BY <1>2, <1>3, <1>4, <2>2 DEF Walked
<1>5. CASE ranges # {}
  <2>1. r \in ranges /\ \A s \in ranges : r[1] =< s[1]
    BY <1>1, <1>5 DEF FirstOf
  <2>2. \A id \in Covered : ~ (id < r[1])
    <3> TAKE id \in Covered
    <3>1. PICK s \in ranges : s[1] =< id /\ id \in Nat
      BY CoveredBy DEF Shape
    <3>2. QED
      BY <2>1, <3>1, Numbers DEF Shape
  <2>3. DOMAIN read' = {id \in Covered : id < r[1]}
    BY <1>2, <2>2
  <2>4. QED
    BY <1>1, <1>2, <1>3, <1>5, <2>2, <2>3 DEF Walked
<1>6. QED
  BY <1>4, <1>5

LEMMA StepWalked ==
  ASSUME Shape, Walked, [Next]_vars
  PROVE  Walked'
<1>1. CASE FastAddNew \/ FastAddAgain \/ Consolidate \/ Join \/ NextRange
  BY <1>1 DEF Walked, FastAddNew, FastAddAgain, Consolidate, Join, NextRange
<1>2. CASE ConsolidateEnds
  BY <1>2 DEF Walked, ConsolidateEnds
<1>3. CASE UNCHANGED vars
  <2>1. Covered' = Covered /\ Meaning' = Meaning
    BY <1>3, SameMeaning DEF vars
  <2>2. QED
    BY <1>3, <2>1 DEF Walked, vars
<1>4. QED
  BY <1>1, <1>2, <1>3, ReadWalked, BeginWalked DEF Next

-----------------------------------------------------------------------------
(* The sums: the ranges stand for the entries added so far. *)

ListWeights == [i \in DOMAIN list |-> list[i].weight]
AddedNow == Len(list) - Len(todo)
Occurrences(n, id) == {i \in 1..n : list[i].id = id}

\* What is to be added is the rest of the list, and each identifier of the entries
\* before it has the sum of its weights.
Added ==
  /\ AddedNow \in Nat
  /\ \A i \in 1..Len(todo) : todo[i] = list[AddedNow + i]
  /\ pc # "add" => todo = << >>
  /\ Covered = {list[i].id : i \in 1..AddedNow}
  /\ \A id \in Covered : Meaning[id] = SumFunctionOnSet(ListWeights, Occurrences(AddedNow, id))

LEMMA InitAdded == Init => Added
<1> SUFFICES ASSUME Init PROVE Added
  OBVIOUS
<1>1. list \in Seq(Entries) /\ todo = list /\ pc = "add" /\ Covered = {}
  BY ListsAssumption DEF Init, Covered
<1>2. AddedNow = 0
  BY <1>1 DEF AddedNow
<1>3. QED
  BY <1>1, <1>2 DEF Added

\* The weights of the occurrences of an identifier among the first entries.
LEMMA OccurrencesType ==
  ASSUME TypeOK, NEW n \in 0..Len(list), NEW id
  PROVE  /\ IsFiniteSet(Occurrences(n, id)) /\ Occurrences(n, id) \subseteq 1..n
         /\ \A i \in 1..n : ListWeights[i] \in Int /\ ListWeights[i] = list[i].weight
<1>1. list \in Seq(Entries)
  BY ListsAssumption DEF TypeOK
<1>2. \A i \in 1..n : i \in DOMAIN list /\ list[i] \in Entries
  BY <1>1
<1>3. \A i \in 1..n : ListWeights[i] = list[i].weight /\ ListWeights[i] \in Int
  BY <1>2, Numbers DEF ListWeights
<1>4. IsFiniteSet(1..n)
  BY <1>1, FS_Interval
<1>5. Occurrences(n, id) \subseteq 1..n
  BY DEF Occurrences
<1>6. IsFiniteSet(Occurrences(n, id))
  BY <1>4, <1>5, FS_Subset
<1>7. QED
  BY <1>3, <1>5, <1>6

\* What a call of fastAdd takes from the list.
LEMMA TakesNextEntry ==
  ASSUME TypeOK, Added, FastAddNew \/ FastAddAgain
  PROVE  /\ AddedNow + 1 \in 1..Len(list) /\ Head(todo) = list[AddedNow + 1]
         /\ AddedNow' = AddedNow + 1 /\ list' = list /\ pc' = "add" /\ pc = "add"
         /\ \A i \in 1..Len(todo') : todo'[i] = list[AddedNow' + i]
<1>1. list \in Seq(Entries) /\ todo \in Seq(Entries) /\ todo # << >> /\ list' = list
      /\ todo' = Tail(todo) /\ pc' = pc /\ pc = "add"
  BY ListsAssumption DEF TypeOK, FastAddNew, FastAddAgain
<1>2. Len(list) \in Nat /\ Len(todo) \in Nat /\ Len(todo) > 0 /\ Len(todo') = Len(todo) - 1
      /\ todo[1] = Head(todo)
  BY <1>1
<1>3. AddedNow' = AddedNow + 1
  BY <1>1, <1>2 DEF AddedNow
<1>4. AddedNow + 1 \in 1..Len(list)
  BY <1>2 DEF AddedNow, Added
<1>5. Head(todo) = list[AddedNow + 1]
  BY <1>2 DEF Added
<1>6. ASSUME NEW i \in 1..Len(todo') PROVE todo'[i] = list[AddedNow' + i]
  <2>1. todo'[i] = todo[i + 1] /\ i + 1 \in 1..Len(todo)
    BY <1>1, <1>2
  <2>2. AddedNow' + i = AddedNow + (i + 1)
    BY <1>2, <1>3 DEF AddedNow
  <2>3. QED
    BY <2>1, <2>2 DEF Added
<1>7. QED
  BY <1>1, <1>3, <1>4, <1>5, <1>6

\* One more entry adds its weight to the sum of its identifier.
LEMMA OccurrencesStep ==
  ASSUME TypeOK, NEW n \in Nat, n + 1 \in 1..Len(list), NEW id
  PROVE  /\ id # list[n + 1].id => Occurrences(n + 1, id) = Occurrences(n, id)
         /\ id = list[n + 1].id =>
              SumFunctionOnSet(ListWeights, Occurrences(n + 1, id))
                = SumFunctionOnSet(ListWeights, Occurrences(n, id)) + list[n + 1].weight
         /\ SumFunctionOnSet(ListWeights, {}) = 0
         /\ list[n + 1].weight \in Int
<1>1. PICK S, m, f : S = Occurrences(n, id) /\ m = n + 1 /\ f = ListWeights
  OBVIOUS
<1>2. n \in 0..Len(list) /\ m \in 0..Len(list) /\ 1..m = 1..n \cup {m} /\ m \notin 1..n
  BY <1>1, ListsAssumption DEF TypeOK
<1>3. S \subseteq 1..n /\ IsFiniteSet(S)
  BY <1>1, <1>2, OccurrencesType
<1>4. \A i \in 1..m : f[i] \in Int /\ f[i] = list[i].weight
  BY <1>1, <1>2, OccurrencesType
<1>5. m \notin S /\ \A i \in S \cup {m} : f[i] \in Int
  BY <1>2, <1>3, <1>4
<1>6. SumFunctionOnSet(f, S \cup {m}) = f[m] + SumFunctionOnSet(f, S)
  BY <1>3, <1>5, SumStep
<1>7. SumFunctionOnSet(f, S) \in Int /\ SumFunctionOnSet(f, {}) = 0
  BY <1>3, <1>5, SumType
<1>8. id = list[m].id => Occurrences(m, id) = S \cup {m}
  BY <1>1, <1>2 DEF Occurrences
<1>9. id # list[m].id => Occurrences(m, id) = S
  BY <1>1, <1>2 DEF Occurrences
<1>10. f[m] = list[m].weight /\ f[m] \in Int
  BY <1>2, <1>4
<1>11. SumFunctionOnSet(f, S \cup {m}) = SumFunctionOnSet(f, S) + f[m]
  BY <1>6, <1>7, <1>10
<1>12. id = list[m].id => SumFunctionOnSet(f, Occurrences(m, id)) = SumFunctionOnSet(f, S) + list[m].weight
  BY <1>8, <1>10, <1>11
<1>13. QED
  BY <1>1, <1>7, <1>9, <1>10, <1>12

LEMMA FastAddAdded ==
  ASSUME Shape, Added, FastAddNew \/ FastAddAgain
  PROVE  Added'
<1>1. PICK x, n, f : x = Head(todo) /\ n = AddedNow /\ f = ListWeights
  OBVIOUS
<1>2. /\ n \in Nat /\ n + 1 \in 1..Len(list) /\ x = list[n + 1] /\ AddedNow' = n + 1 /\ list' = list
      /\ pc' = "add" /\ \A i \in 1..Len(todo') : todo'[i] = list[AddedNow' + i]
  BY <1>1, TakesNextEntry DEF Shape, Added
<1>3. ListWeights' = f /\ \A m, id : Occurrences(m, id)' = Occurrences(m, id)
  BY <1>1, <1>2 DEF ListWeights, Occurrences
<1>4. Covered = {list[i].id : i \in 1..n}
      /\ \A id \in Covered : Meaning[id] = SumFunctionOnSet(f, Occurrences(n, id))
  BY <1>1 DEF Added
<1>5. Covered' = Covered \cup {x.id}
      /\ \A id \in Covered' : Meaning'[id] = IF id = x.id
                                THEN (IF x.id \in Covered THEN Meaning[x.id] ELSE 0) + x.weight
                                ELSE Meaning[id]
  <2>1. x.weight \in Int
    BY <1>1, <1>2, OccurrencesStep DEF Shape
  <2>2. CASE FastAddNew
    <3>1. /\ x.id \notin Covered /\ Covered' = Covered \cup {x.id}
          /\ Meaning' = [id \in Covered \cup {x.id} |-> IF id = x.id THEN x.weight ELSE Meaning[id]]
      BY <1>1, <2>2, FastAddNewMeaning
    <3>2. 0 + x.weight = x.weight
      BY <2>1
    <3>3. QED
      BY <3>1, <3>2
  <2>3. CASE FastAddAgain
    BY <1>1, <2>1, <2>3, FastAddAgainMeaning
  <2>4. QED
    BY <2>2, <2>3
<1>6. Covered' = {list[i].id : i \in 1..(n + 1)}
  <2>1. 1..(n + 1) = 1..n \cup {n + 1}
    BY <1>2
  <2>2. QED
    BY <1>2, <1>4, <1>5, <2>1
<1>7. ASSUME NEW id \in Covered'
      PROVE  Meaning'[id] = SumFunctionOnSet(f, Occurrences(n + 1, id))
  <2>1. CASE id # x.id
    <3>1. Occurrences(n + 1, id) = Occurrences(n, id)
      BY <1>2, <2>1, OccurrencesStep DEF Shape
    <3>2. QED
      BY <1>4, <1>5, <1>7, <2>1, <3>1
  <2>2. CASE id = x.id
    <3>1. SumFunctionOnSet(f, Occurrences(n + 1, id))
            = SumFunctionOnSet(f, Occurrences(n, id)) + x.weight
      BY <1>1, <1>2, <2>2, OccurrencesStep DEF Shape
    <3>2. CASE x.id \in Covered
      BY <1>4, <1>5, <1>7, <2>2, <3>1, <3>2
    <3>3. CASE x.id \notin Covered
      <4>1. Occurrences(n, id) = {}
        BY <1>4, <2>2, <3>3 DEF Occurrences
      <4>2. SumFunctionOnSet(f, {}) = 0
        BY <1>1, <1>2, OccurrencesStep DEF Shape
      <4>3. QED
        BY <1>5, <1>7, <2>2, <3>1, <3>3, <4>1, <4>2
    <3>4. QED
      BY <3>2, <3>3
  <2>3. QED
    BY <2>1, <2>2
<1>8. QED
  BY <1>2, <1>3, <1>6, <1>7 DEF Added

LEMMA StepAdded ==
  ASSUME Shape, Added, [Next]_vars
  PROVE  Added'
<1>1. ASSUME UNCHANGED <<list, todo>>, pc = "add" \/ pc' # "add", pc' = "add" \/ todo = << >>,
             Covered' = Covered, Meaning' = Meaning
      PROVE  Added'
  <2>1. AddedNow' = AddedNow /\ ListWeights' = ListWeights
        /\ \A m, id : Occurrences(m, id)' = Occurrences(m, id)
    BY <1>1 DEF AddedNow, ListWeights, Occurrences
  <2>2. QED
    BY <1>1, <2>1 DEF Added
<1>2. CASE FastAddNew \/ FastAddAgain
  BY <1>2, FastAddAdded
<1>3. CASE Consolidate \/ NextRange \/ ConsolidateEnds \/ Begin \/ Read
  <2>1. Covered' = Covered /\ Meaning' = Meaning
    BY <1>3, SameMeaning DEF Consolidate, NextRange, ConsolidateEnds, Begin, Read
  <2>2. QED
    BY <1>1, <1>3, <2>1 DEF Consolidate, NextRange, ConsolidateEnds, Begin, Read, Added
<1>4. CASE Join
  <2>1. Covered' = Covered /\ Meaning' = Meaning
    BY <1>4, JoinMeaning
  <2>2. QED
    BY <1>1, <1>4, <2>1 DEF Join, Added
<1>5. CASE UNCHANGED vars
  <2>1. Covered' = Covered /\ Meaning' = Meaning
    BY <1>5, SameMeaning DEF vars
  <2>2. QED
    BY <1>1, <1>5, <2>1 DEF vars, Added
<1>6. QED
  BY <1>2, <1>3, <1>4, <1>5 DEF Next

-----------------------------------------------------------------------------

IInv == Shape /\ Counted /\ Walked /\ Added

LEMMA InitIInv == Init => IInv
<1> SUFFICES ASSUME Init PROVE IInv
  OBVIOUS
<1>1. Covered = {} /\ siz = 0
  BY DEF Init, Covered
<1>2. Counted
  BY <1>1, FS_EmptySet DEF Counted
<1>3. Walked
  BY DEF Init, Walked
<1>4. QED
  BY <1>2, <1>3, InitShape, InitAdded DEF IInv

LEMMA Invariance == Spec => []IInv
<1>1. Init => IInv
  BY InitIInv
<1>2. IInv /\ [Next]_vars => IInv'
  BY StepShape, StepCounted, StepWalked, StepAdded DEF IInv
<1>3. QED
  BY <1>1, <1>2, PTL DEF Spec

\* At every step of fastAdd and consolidate the ranges are disjoint and carry the
\* weights that belong to them, the size is the number of identifiers, and after
\* consolidate no two ranges are left that could be joined, for every list.
THEOREM AlwaysInOrder == Spec => []RangesInOrder
<1>1. IInv => RangesInOrder
  BY DEF IInv, Shape, RangesInOrder, Counted, Consolidated, Position, Settled
<1>2. QED
  BY <1>1, Invariance, PTL

\* const_iterator walks over exactly the identifiers of the set, each with the
\* weight the set has for it, however consolidate has joined them.
THEOREM WalkIsFaithful == Spec => [](pc = "end" => read = Meaning)
<1>1. IInv => (pc = "end" => read = Meaning)
  BY DEF IInv, Walked
<1>2. QED
  BY <1>1, Invariance, PTL

\* A walk over the set sees every identifier of the list with the sum of its
\* weights, in whatever order and however often they were added, for every list.
THEOREM WalkReadsSums == Spec => []ReadsSums
<1>1. IInv => ReadsSums
  <2> SUFFICES ASSUME IInv, pc = "end"
               PROVE  read = [id \in {list[i].id : i \in DOMAIN list} |-> Sum(id)]
    BY DEF ReadsSums
  <2>1. TypeOK /\ Added /\ read = Meaning /\ todo = << >>
    BY DEF IInv, Shape, Walked, Added
  <2>2. list \in Seq(Entries) /\ AddedNow = Len(list) /\ DOMAIN list = 1..Len(list)
    BY <2>1, ListsAssumption DEF TypeOK, AddedNow
  <2>3. \A id : Sum(id) = SumFunctionOnSet(ListWeights, Occurrences(AddedNow, id))
    BY <2>2 DEF Sum, SumFunctionOnSet, ListWeights, Occurrences
  <2>4. Covered = {list[i].id : i \in DOMAIN list} /\ \A id \in Covered : Meaning[id] = Sum(id)
    BY <2>1, <2>2, <2>3 DEF Added
  <2>5. Meaning = [id \in Covered |-> Meaning[id]]
    BY DEF Meaning
  <2>6. QED
    BY <2>1, <2>4, <2>5
<1>2. QED
  BY <1>1, Invariance, PTL

-----------------------------------------------------------------------------
(* The map. *)

LEMMA AbstractInit == Init => Abstract!Init
<1> SUFFICES ASSUME Init PROVE Abstract!Init
  OBVIOUS
<1>1. Covered = {}
  BY DEF Init, Covered
<1>2. Meaning = << >>
  BY <1>1 DEF Meaning
<1>3. QED
  BY <1>2 DEF Abstract!Init

LEMMA AbstractStep == IInv /\ [Next]_vars => [Abstract!Next]_Meaning
<1> SUFFICES ASSUME IInv, [Next]_vars PROVE [Abstract!Next]_Meaning
  OBVIOUS
<1> USE DEF IInv
<1>d. DOMAIN Meaning = Covered
  BY DEF Meaning
<1>1. CASE FastAddNew
  <2>1. PICK x : x = Head(todo)
    OBVIOUS
  <2>2. /\ x \in Entries /\ x.id \notin Covered
        /\ Meaning' = [id \in Covered \cup {x.id} |->
                         IF id = x.id THEN x.weight ELSE Meaning[id]]
    BY <1>1, <2>1, FastAddNewMeaning
  <2>3. Abstract!WeightIn(x.id) + x.weight = x.weight
    BY <1>d, <2>2, Numbers DEF Abstract!WeightIn, Shape
  <2>4. Abstract!Add(x.id, x.weight)
    BY <1>d, <2>2, <2>3 DEF Abstract!Add
  <2>5. QED
    BY <2>2, <2>4 DEF Abstract!Next
<1>2. CASE FastAddAgain
  <2>1. PICK x : x = Head(todo)
    OBVIOUS
  <2>2. /\ x \in Entries /\ x.id \in Covered
        /\ Meaning' = [id \in Covered |->
                         IF id = x.id THEN Meaning[x.id] + x.weight ELSE Meaning[id]]
    BY <1>2, <2>1, FastAddAgainMeaning
  <2>3. Abstract!WeightIn(x.id) = Meaning[x.id] /\ Covered \cup {x.id} = Covered
    BY <1>d, <2>2 DEF Abstract!WeightIn
  <2>4. Abstract!Add(x.id, x.weight)
    BY <1>d, <2>2, <2>3 DEF Abstract!Add
  <2>5. QED
    BY <2>2, <2>4 DEF Abstract!Next
<1>3. CASE Join
  BY <1>3, JoinMeaning
<1>4. CASE UNCHANGED <<ranges, weights, siz>>
  BY <1>4, SameMeaning
<1>5. QED
  BY <1>1, <1>2, <1>3, <1>4, OtherMeaning

\* Filling the ranges is filling a map, and consolidating and reading them change
\* nothing of what they stand for, for every list of entries.
THEOREM RangesAreAMap == Spec => Refinement
  BY Invariance, AbstractInit, AbstractStep, PTL DEF Spec, Refinement, Abstract!Spec


-----------------------------------------------------------------------------
(* AggregationMap: sets of identifiers. *)

LEMMA Identifiers ==
  ASSUME NEW S, S \subseteq Bases \cup Targets
  PROVE  S \subseteq Nat /\ IsFiniteSet(S)
<1>1. S \subseteq Nat /\ \A x \in S : x =< NoIdentifier
  BY IdAssumption
<1>2. QED
  BY <1>1, IdAssumption, FS_BoundedSetOfNaturals

LEMMA MinIs ==
  ASSUME NEW S, S \subseteq Nat, S # {}
  PROVE  Min(S) \in S /\ \A x \in S : Min(S) =< x
  BY MinExists DEF Min

LEMMA MaxIs ==
  ASSUME NEW S, S \subseteq Nat, S # {}, NEW n \in Nat, \A x \in S : x =< n
  PROVE  Max(S) \in S /\ \A x \in S : x =< Max(S)
<1> DEFINE room == {n - x : x \in S}
<1>0. \A x \in S : n - x \in Nat
  OBVIOUS
<1>1. room \subseteq Nat /\ room # {}
  BY <1>0, Zenon
<1> HIDE DEF room
<1>2. PICK m \in room : \A y \in room : m =< y
  BY <1>1, MinExists
<1>3. PICK x \in S : m = n - x
  BY <1>2 DEF room
<1>4. \A y \in S : m =< n - y
  BY <1>2 DEF room
<1>5. \A y \in S : y =< x
  BY <1>3, <1>4
<1>6. QED
  BY <1>5 DEF Max

-----------------------------------------------------------------------------
(* The invariant. *)

Built == DOMAIN descElems \ toBuild

MapBuilt ==
  /\ DOMAIN descElems \subseteq Targets
  /\ \A t \in DOMAIN descElems : descElems[t] \subseteq Bases
  /\ toBuild \subseteq DOMAIN descElems
  /\ DOMAIN base2ParentMap = UNION {descElems[t] : t \in Built}
  /\ \A b \in DOMAIN base2ParentMap :
       base2ParentMap[b] = [t \in {u \in Built : b \in descElems[u]} |-> WeightOf[t][b]]
  /\ minBaseId \in Bases \cup {NoIdentifier} /\ maxBaseId \in Bases \cup {0}
  /\ \A b \in DOMAIN base2ParentMap : minBaseId =< b /\ b =< maxBaseId
  /\ toStore \subseteq DOMAIN base2ParentMap

Untouched ==
  /\ targetIdBuffer = << >> /\ weightBuffer = << >> /\ distributionMap = << >>
  /\ source2TargetMap = << >> /\ source2TargetVector = << >>

\* The kth distribution sequence is the row of a source.
Stands(k, source) ==
  LET seq == distributionMap[k]
      ids == Ascending(DOMAIN base2ParentMap[source])
  IN /\ k \in DOMAIN distributionMap
     /\ seq.length = Len(ids) /\ seq.start + seq.length =< Len(targetIdBuffer)
     /\ \A i \in 1..seq.length :
          /\ targetIdBuffer[seq.start + i] = ids[i]
          /\ weightBuffer[seq.start + i] = base2ParentMap[source][ids[i]]

BuffersOK ==
  /\ targetIdBuffer \in Seq(Targets) /\ weightBuffer \in Seq(Int)
  /\ Len(weightBuffer) = Len(targetIdBuffer)
  /\ distributionMap \in Seq([start : Nat, length : Nat])

\* The index while it is a list: one item per compacted source, in order.
ListOK ==
  /\ source2TargetMap \in Seq([begin : Bases, dist : Nat])
  /\ Len(source2TargetMap) = Len(distributionMap)
  /\ \A k \in DOMAIN source2TargetMap :
       /\ source2TargetMap[k].begin \in Stored
       /\ source2TargetMap[k].dist = k - 1
       /\ Stands(k, source2TargetMap[k].begin)
  /\ \A s \in Stored : \E k \in DOMAIN source2TargetMap : source2TargetMap[k].begin = s
  /\ \A j, k \in DOMAIN source2TargetMap :
       j < k => source2TargetMap[j].begin < source2TargetMap[k].begin

\* The index when it is a vector.
VectorOK ==
  /\ source2TargetMap = << >>
  /\ source2TargetVector \in Seq(Nat) /\ Len(source2TargetVector) = VectorLen
  /\ \A s \in Stored : Stands(source2TargetVector[s - minBaseId + 1] + 1, s)

Compacted ==
  /\ toBuild # {} => toStore = {} /\ Untouched
  /\ BuffersOK
  /\ \A s \in Stored, u \in toStore : s < u
  /\ IF source2TargetVector = << >> THEN ListOK ELSE VectorOK

MapIInv == MapBuilt /\ Compacted

-----------------------------------------------------------------------------
(* What the invariant says of one row. *)

\* A row of the map holds the elements built so far that aggregate the source,
\* and its ascending list is a sequence of targets.
LEMMA Rows ==
  ASSUME MapBuilt, NEW b \in DOMAIN base2ParentMap
  PROVE  LET row == base2ParentMap[b]
             ids == Ascending(DOMAIN row)
         IN /\ b \in Bases /\ b \in Nat
            /\ minBaseId \in Nat /\ maxBaseId \in Nat /\ minBaseId =< b /\ b =< maxBaseId
            /\ DOMAIN row = {u \in Built : b \in descElems[u]}
            /\ DOMAIN row \subseteq Targets
            /\ \A t \in DOMAIN row : row[t] = WeightOf[t][b] /\ row[t] \in Int
            /\ Len(ids) = Cardinality(DOMAIN row) /\ Len(ids) \in Nat
            /\ ids \in Seq(Targets) /\ DOMAIN ids = 1..Len(ids)
            /\ \A i \in 1..Len(ids) : ids[i] \in DOMAIN row
            /\ \A t \in DOMAIN row : \E i \in 1..Len(ids) : ids[i] = t
<1> DEFINE row == base2ParentMap[b]
           ids == Ascending(DOMAIN row)
<1>1. b \in Bases /\ b \in Nat
  <2>1. PICK t \in Built : b \in descElems[t]
    BY DEF MapBuilt
  <2>2. descElems[t] \subseteq Bases
    BY <2>1 DEF MapBuilt, Built
  <2>3. QED
    BY <2>1, <2>2, IdAssumption
<1>2. minBaseId \in Nat /\ maxBaseId \in Nat /\ minBaseId =< b /\ b =< maxBaseId
  BY IdAssumption DEF MapBuilt
<1>3. row = [t \in {u \in Built : b \in descElems[u]} |-> WeightOf[t][b]]
  BY DEF MapBuilt
<1>4. DOMAIN row = {u \in Built : b \in descElems[u]}
  BY <1>3
<1>5. DOMAIN row \subseteq Targets
  BY <1>4 DEF MapBuilt, Built
<1>6. \A t \in DOMAIN row : row[t] = WeightOf[t][b] /\ row[t] \in Int
  <2> TAKE t \in DOMAIN row
  <2>1. row[t] = WeightOf[t][b]
    BY <1>3, <1>4
  <2>2. QED
    BY <2>1, <1>1, <1>5, WeightAssumption
<1> HIDE DEF row
<1>7. DOMAIN row \in SUBSET Nat /\ IsFiniteSet(DOMAIN row)
  BY <1>5, Identifiers
<1>8. /\ Len(ids) = Cardinality(DOMAIN row) /\ Len(ids) \in Nat
      /\ ids \in Seq(DOMAIN row)
      /\ \A t \in DOMAIN row : \E i \in 1..Len(ids) : ids[i] = t
  BY <1>7, AscendingLists
<1> HIDE DEF ids
<1>9. ids \in Seq(Targets) /\ DOMAIN ids = 1..Len(ids)
      /\ \A i \in 1..Len(ids) : ids[i] \in DOMAIN row
  BY <1>5, <1>8
<1>10. QED
  BY <1>1, <1>2, <1>4, <1>5, <1>6, <1>8, <1>9 DEF row, ids

\* In a list of items ordered by where they begin, the last one that begins at
\* or before an item is that item.
LEMMA LastBegun ==
  ASSUME NEW items \in Seq([begin : Bases, dist : Nat]), NEW p \in DOMAIN items,
         \A j, k \in DOMAIN items : j < k => items[j].begin < items[k].begin
  PROVE  Max({k \in DOMAIN items : items[k].begin =< items[p].begin}) = p
<1> DEFINE begun == {k \in DOMAIN items : items[k].begin =< items[p].begin}
<1>1. DOMAIN items = 1..Len(items) /\ Len(items) \in Nat
  OBVIOUS
<1>2. \A k \in DOMAIN items : items[k].begin \in Nat
  <2>1. \A k \in DOMAIN items : items[k] \in [begin : Bases, dist : Nat]
    BY <1>1, ElementOfSeq
  <2>2. QED
    BY <2>1, IdAssumption
<1>3. p \in begun /\ begun \subseteq Nat /\ \A k \in begun : k =< Len(items)
  BY <1>1, <1>2
<1>4. \A k \in begun : k =< p
  BY <1>1, <1>2
<1> HIDE DEF begun
<1>5. Max(begun) \in begun /\ \A k \in begun : k =< Max(begun)
  <2>1. begun \subseteq Nat /\ begun # {} /\ Len(items) \in Nat
    BY <1>1, <1>3
  <2>2. QED
    BY <2>1, <1>3, MaxIs
<1>6. Max(begun) = p
  BY <1>1, <1>3, <1>4, <1>5
<1>7. QED
  BY <1>6 DEF begun

-----------------------------------------------------------------------------
(* The first state, and the step that fills the map. *)

LEMMA MapInitIInv == MapInit => MapIInv
<1> SUFFICES ASSUME MapInit PROVE MapIInv
  OBVIOUS
<1>1. PICK A \in SUBSET Targets : descElems \in [A -> SUBSET Bases]
  BY DEF MapInit
<1>2. DOMAIN descElems \subseteq Targets /\ \A t \in DOMAIN descElems : descElems[t] \subseteq Bases
  BY <1>1
<1>3. Built = {} /\ UNION {descElems[t] : t \in Built} = {}
  BY DEF MapInit, Built
<1>4. DOMAIN base2ParentMap = {}
  BY DEF MapInit
<1>5. MapBuilt
  BY <1>2, <1>3, <1>4 DEF MapInit, MapBuilt
<1>6. Stored = {}
  BY <1>4 DEF MapInit, Stored
<1>7. BuffersOK /\ ListOK
  BY <1>6 DEF MapInit, BuffersOK, ListOK
<1>8. Compacted
  BY <1>6, <1>7 DEF MapInit, Compacted, Untouched
<1>9. QED
  BY <1>5, <1>8 DEF MapIInv

LEMMA BuildKeepsMap ==
  ASSUME MapIInv, NEW parent \in Targets, BuildBaseToParentMap(parent)
  PROVE  MapBuilt'
<1> DEFINE desc == descElems[parent]
<1>1. /\ parent \in toBuild /\ parent \in DOMAIN descElems /\ desc \subseteq Bases
      /\ descElems' = descElems /\ toBuild' = toBuild \ {parent}
      /\ parent \notin Built
  BY DEF MapIInv, MapBuilt, BuildBaseToParentMap, Built
<1>2. Built' = Built \cup {parent}
  BY <1>1 DEF Built
<1>3. base2ParentMap' = [b \in DOMAIN base2ParentMap \cup desc |->
                           IF b \in desc THEN RowWith(b, parent) ELSE base2ParentMap[b]]
  BY DEF BuildBaseToParentMap
<1>4. DOMAIN base2ParentMap' = UNION {descElems'[t] : t \in Built'}
  <2>1. DOMAIN base2ParentMap' = DOMAIN base2ParentMap \cup desc
    BY <1>3
  <2>2. DOMAIN base2ParentMap = UNION {descElems[t] : t \in Built}
    BY DEF MapIInv, MapBuilt
  <2>3. UNION {descElems[t] : t \in Built \cup {parent}}
          = (UNION {descElems[t] : t \in Built}) \cup desc
    <3>1. \A x : x \in UNION {descElems[t] : t \in Built \cup {parent}}
                   <=> (\E t \in Built \cup {parent} : x \in descElems[t])
      BY Zenon
    <3>2. \A x : x \in UNION {descElems[t] : t \in Built}
                   <=> (\E t \in Built : x \in descElems[t])
      BY Zenon
    <3>3. \A x : (\E t \in Built \cup {parent} : x \in descElems[t])
                   <=> (\E t \in Built : x \in descElems[t]) \/ x \in descElems[parent]
      BY Zenon
    <3> DEFINE U == UNION {descElems[t] : t \in Built \cup {parent}}
               V == UNION {descElems[t] : t \in Built}
    <3>4. \A x : x \in U <=> x \in V \/ x \in desc
      BY <3>1, <3>2, <3>3, Zenon
    <3> HIDE DEF U, V
    <3>5. U = V \cup desc
      BY <3>4
    <3>6. QED
      BY <3>5 DEF U, V
  <2>4. QED
    BY <1>1, <1>2, <2>1, <2>2, <2>3
<1>5. ASSUME NEW b \in DOMAIN base2ParentMap'
      PROVE  base2ParentMap'[b] =
               [t \in {u \in Built' : b \in descElems'[u]} |-> WeightOf[t][b]]
  <2>1. b \in DOMAIN base2ParentMap \cup desc
    BY <1>3
  <2>2. CASE b \notin desc
    <3>1. base2ParentMap'[b] = base2ParentMap[b] /\ b \in DOMAIN base2ParentMap
      BY <1>3, <2>1, <2>2
    <3>2. {u \in Built' : b \in descElems'[u]} = {u \in Built : b \in descElems[u]}
      BY <1>1, <1>2, <2>2
    <3>3. QED
      BY <3>1, <3>2 DEF MapIInv, MapBuilt
  <2>3. CASE b \in desc
    <3> DEFINE row == IF b \in DOMAIN base2ParentMap THEN base2ParentMap[b] ELSE << >>
               old == {u \in Built : b \in descElems[u]}
    <3>1. base2ParentMap'[b] = [t \in DOMAIN row \cup {parent} |->
            IF t = parent THEN WeightOf[parent][b] ELSE row[t]]
      BY <1>3, <2>1, <2>3 DEF RowWith
    <3>2. DOMAIN row = old /\ \A t \in old : row[t] = WeightOf[t][b]
      <4>1. CASE b \in DOMAIN base2ParentMap
        <5>1. row = [t \in old |-> WeightOf[t][b]]
          BY <4>1 DEF MapIInv, MapBuilt
        <5> HIDE DEF row, old
        <5>2. QED
          BY <5>1
      <4>2. CASE b \notin DOMAIN base2ParentMap
        <5>1. old = {}
          BY <4>2 DEF MapIInv, MapBuilt
        <5>2. row = << >>
          BY <4>2
        <5>3. QED
          BY <5>1, <5>2
      <4>3. QED
        BY <4>1, <4>2
    <3>3. {u \in Built' : b \in descElems'[u]} = old \cup {parent}
      BY <1>1, <1>2, <2>3
    <3>4. parent \notin old
      BY <1>1
    <3> HIDE DEF row, old
    <3>5. [t \in DOMAIN row \cup {parent} |->
            IF t = parent THEN WeightOf[parent][b] ELSE row[t]]
            = [t \in old \cup {parent} |-> WeightOf[t][b]]
      BY <3>2
    <3>6. QED
      BY <3>1, <3>3, <3>5
  <2>4. QED
    BY <2>2, <2>3
<1>6. /\ minBaseId' \in {minBaseId} \cup desc /\ \A x \in {minBaseId} \cup desc : minBaseId' =< x
      /\ maxBaseId' \in {maxBaseId} \cup desc /\ \A x \in {maxBaseId} \cup desc : x =< maxBaseId'
  <2>0. minBaseId \in Bases \cup {NoIdentifier} /\ maxBaseId \in Bases \cup {0}
    BY DEF MapIInv, MapBuilt
  <2>1. {minBaseId} \cup desc \subseteq Nat /\ {maxBaseId} \cup desc \subseteq Nat
    <3> HIDE DEF desc
    <3>1. desc \subseteq Nat /\ minBaseId \in Nat /\ maxBaseId \in Nat
      BY <1>1, <2>0, IdAssumption
    <3>2. QED
      BY <3>1
  <2>2. \A x \in {maxBaseId} \cup desc : x =< NoIdentifier
    BY <1>1, <2>0, IdAssumption
  <2>3. minBaseId' = Min({minBaseId} \cup desc) /\ maxBaseId' = Max({maxBaseId} \cup desc)
    BY DEF BuildBaseToParentMap
  <2>4. {minBaseId} \cup desc # {} /\ {maxBaseId} \cup desc # {}
    OBVIOUS
  <2>5. minBaseId' \in {minBaseId} \cup desc /\ \A x \in {minBaseId} \cup desc : minBaseId' =< x
    BY <2>1, <2>3, <2>4, MinIs, Zenon
  <2>6. maxBaseId' \in {maxBaseId} \cup desc /\ \A x \in {maxBaseId} \cup desc : x =< maxBaseId'
    BY <2>1, <2>2, <2>3, <2>4, MaxIs, IdAssumption, Zenon
  <2>7. QED
    BY <2>5, <2>6
<1>7. minBaseId' \in Bases \cup {NoIdentifier} /\ maxBaseId' \in Bases \cup {0}
  BY <1>1, <1>6 DEF MapIInv, MapBuilt
<1>8. \A b \in DOMAIN base2ParentMap' : minBaseId' =< b /\ b =< maxBaseId'
  <2> TAKE b \in DOMAIN base2ParentMap'
  <2>1. b \in DOMAIN base2ParentMap \cup desc
    BY <1>3
  <2>2. CASE b \in desc
    BY <1>6, <2>2
  <2>3. CASE b \in DOMAIN base2ParentMap
    <3>1. b \in Nat /\ minBaseId =< b /\ b =< maxBaseId
      BY <2>3, Rows DEF MapIInv
    <3>2. minBaseId' =< minBaseId /\ maxBaseId =< maxBaseId'
      BY <1>6
    <3>0. minBaseId \in Bases \cup {NoIdentifier} /\ maxBaseId \in Bases \cup {0}
      BY DEF MapIInv, MapBuilt
    <3>3. minBaseId \in Nat /\ maxBaseId \in Nat /\ minBaseId' \in Nat /\ maxBaseId' \in Nat
      BY <3>0, <1>7, IdAssumption
    <3>4. QED
      BY <3>1, <3>2, <3>3
  <2>4. QED
    BY <2>1, <2>2, <2>3
<1>9. toStore' \subseteq DOMAIN base2ParentMap'
  BY DEF BuildBaseToParentMap
<1>10. toBuild' \subseteq DOMAIN descElems' /\ DOMAIN descElems' \subseteq Targets
       /\ \A t \in DOMAIN descElems' : descElems'[t] \subseteq Bases
  BY <1>1 DEF MapIInv, MapBuilt
<1>11. QED
  BY <1>4, <1>5, <1>7, <1>8, <1>9, <1>10 DEF MapBuilt

LEMMA BuildKeepsIInv ==
  ASSUME MapIInv, NEW parent \in Targets, BuildBaseToParentMap(parent)
  PROVE  MapIInv'
<1>1. toBuild # {} /\ UNCHANGED <<buffers, index>>
  BY DEF BuildBaseToParentMap
<1>2. Untouched'
  BY <1>1 DEF MapIInv, Compacted, Untouched, buffers, index
<1>3. toBuild' # {} => toStore' = {}
  BY DEF BuildBaseToParentMap
<1>4. Stored' = {}
  BY DEF BuildBaseToParentMap, Stored
<1>5. BuffersOK' /\ ListOK'
  BY <1>2, <1>4 DEF BuffersOK, ListOK, Untouched
<1>6. Compacted'
  BY <1>2, <1>3, <1>4, <1>5 DEF Compacted, Untouched
<1>7. QED
  BY <1>6, BuildKeepsMap DEF MapIInv

-----------------------------------------------------------------------------
(* The step that compacts a source. *)

\* One list behind another.
LEMMA Concatenated ==
  ASSUME NEW S, NEW a \in Seq(S), NEW b \in Seq(S)
  PROVE  /\ a \o b \in Seq(S) /\ Len(a \o b) = Len(a) + Len(b)
         /\ \A i \in 1..Len(a) : (a \o b)[i] = a[i]
         /\ \A i \in 1..Len(b) : (a \o b)[Len(a) + i] = b[i]
<1>1. Len(a) \in Nat /\ Len(b) \in Nat
  OBVIOUS
<1>2. /\ a \o b \in Seq(S) /\ Len(a \o b) = Len(a) + Len(b)
      /\ \A i \in 1..Len(a) + Len(b) :
           (a \o b)[i] = IF i =< Len(a) THEN a[i] ELSE b[i - Len(a)]
  BY ConcatProperties
<1>3. \A n, l \in Nat : /\ \A i \in 1..n : i \in 1..n + l /\ i =< n
                       /\ \A i \in 1..l : n + i \in 1..n + l /\ ~(n + i =< n) /\ (n + i) - n = i
  OBVIOUS
<1>4. QED
  BY <1>1, <1>2, <1>3

\* The sequences stored before stay where they are, and the new one is the row
\* of the source.
LEMMA StoreFillsBuffers ==
  ASSUME MapIInv, NEW source \in Bases, StoreDistributionSequence(source)
  PROVE  /\ BuffersOK'
         /\ Len(distributionMap') = Len(distributionMap) + 1
         /\ \A k \in Nat : \A s \in DOMAIN base2ParentMap : Stands(k, s) => Stands(k, s)'
         /\ \A n : n = Len(distributionMap) + 1 => Stands(n, source)'
<1> DEFINE row == base2ParentMap[source]
           ids == Ascending(DOMAIN row)
           ws == [i \in DOMAIN ids |-> row[ids[i]]]
           seq == [start |-> Len(targetIdBuffer), length |-> Len(ids)]
<1>1. /\ source \in DOMAIN base2ParentMap /\ base2ParentMap' = base2ParentMap
      /\ distributionMap' = Append(distributionMap, seq)
      /\ weightBuffer' = PaddedWeights \o ws
      /\ targetIdBuffer' = targetIdBuffer \o ids
  BY DEF MapIInv, MapBuilt, StoreDistributionSequence
<1>2. /\ Len(ids) \in Nat /\ ids \in Seq(Targets) /\ DOMAIN ids = 1..Len(ids)
      /\ \A i \in 1..Len(ids) : ids[i] \in DOMAIN row
      /\ \A t \in DOMAIN row : row[t] \in Int
  BY <1>1, Rows DEF MapIInv
<1>3. BuffersOK
  BY DEF MapIInv, Compacted
<1>4. /\ Len(targetIdBuffer) \in Nat /\ Len(weightBuffer) = Len(targetIdBuffer)
      /\ Len(distributionMap) \in Nat /\ DOMAIN distributionMap = 1..Len(distributionMap)
      /\ targetIdBuffer \in Seq(Targets) /\ weightBuffer \in Seq(Int)
      /\ distributionMap \in Seq([start : Nat, length : Nat])
  BY <1>3 DEF BuffersOK
<1>5. PaddedWeights = weightBuffer
  <2> DEFINE pad == [i \in 1..(Len(targetIdBuffer) - Len(weightBuffer)) |-> 1]
  <2>1. 1..(Len(targetIdBuffer) - Len(weightBuffer)) = {}
    BY <1>4
  <2>2. pad = << >>
    <3>1. 1..(Len(targetIdBuffer) - Len(weightBuffer)) = 1..0
      BY <1>4
    <3>2. pad \in [1..0 -> Int]
      BY <3>1
    <3> HIDE DEF pad
    <3>3. pad \in Seq(Int) /\ Len(pad) = 0
      BY <3>2
    <3>4. QED
      BY <3>3, EmptySeq
  <2> HIDE DEF pad
  <2>3. weightBuffer \o pad = weightBuffer
    BY <1>4, <2>2
  <2>4. QED
    BY <2>3 DEF PaddedWeights, pad
<1>6. ws \in Seq(Int) /\ Len(ws) = Len(ids) /\ \A i \in 1..Len(ids) : ws[i] = row[ids[i]]
  <2> HIDE DEF ids, row
  <2>1. ws \in [1..Len(ids) -> Int]
    BY <1>2
  <2>2. QED
    BY <1>2, <2>1
<1>7. seq \in [start : Nat, length : Nat]
  BY <1>2, <1>4
<1>8. /\ targetIdBuffer' \in Seq(Targets)
      /\ Len(targetIdBuffer') = Len(targetIdBuffer) + Len(ids)
      /\ \A i \in 1..Len(targetIdBuffer) : targetIdBuffer'[i] = targetIdBuffer[i]
      /\ \A i \in 1..Len(ids) : targetIdBuffer'[Len(targetIdBuffer) + i] = ids[i]
  <2> HIDE DEF ids
  <2>1. targetIdBuffer \in Seq(Targets) /\ ids \in Seq(Targets)
    BY <1>2, <1>4
  <2>2. QED
    BY <1>1, <2>1, Concatenated
<1>9. /\ weightBuffer' \in Seq(Int)
      /\ Len(weightBuffer') = Len(targetIdBuffer) + Len(ids)
      /\ \A i \in 1..Len(targetIdBuffer) : weightBuffer'[i] = weightBuffer[i]
      /\ \A i \in 1..Len(ids) : weightBuffer'[Len(targetIdBuffer) + i] = ws[i]
  <2> HIDE DEF ids, ws, row
  <2>1. weightBuffer' = weightBuffer \o ws
    BY <1>1, <1>5
  <2>2. weightBuffer \in Seq(Int) /\ ws \in Seq(Int)
    BY <1>4, <1>6
  <2>3. Len(weightBuffer) = Len(targetIdBuffer) /\ Len(ws) = Len(ids)
    BY <1>4, <1>6
  <2>4. /\ weightBuffer \o ws \in Seq(Int)
        /\ Len(weightBuffer \o ws) = Len(weightBuffer) + Len(ws)
        /\ \A i \in 1..Len(weightBuffer) : (weightBuffer \o ws)[i] = weightBuffer[i]
        /\ \A i \in 1..Len(ws) : (weightBuffer \o ws)[Len(weightBuffer) + i] = ws[i]
    BY <2>2, Concatenated
  <2>5. QED
    BY <2>1, <2>3, <2>4
<1>10. /\ distributionMap' \in Seq([start : Nat, length : Nat])
       /\ Len(distributionMap') = Len(distributionMap) + 1
       /\ \A k \in 1..Len(distributionMap) : distributionMap'[k] = distributionMap[k]
       /\ distributionMap'[Len(distributionMap) + 1] = seq
  <2> HIDE DEF seq
  <2>1. QED
    BY <1>1, <1>4, <1>7, AppendProperties
<1>11. BuffersOK'
  BY <1>8, <1>9, <1>10 DEF BuffersOK
<1>12. ASSUME NEW k \in Nat, NEW s \in DOMAIN base2ParentMap, Stands(k, s)
       PROVE  Stands(k, s)'
  <2> DEFINE old == distributionMap[k]
             sids == Ascending(DOMAIN base2ParentMap[s])
  <2>1. /\ k \in 1..Len(distributionMap)
        /\ old.length = Len(sids) /\ old.start + old.length =< Len(targetIdBuffer)
        /\ \A i \in 1..old.length :
             /\ targetIdBuffer[old.start + i] = sids[i]
             /\ weightBuffer[old.start + i] = base2ParentMap[s][sids[i]]
    BY <1>4, <1>12 DEF Stands
  <2>2. distributionMap'[k] = old /\ k \in DOMAIN distributionMap'
    BY <1>10, <2>1, <1>4
  <2>3. old.start \in Nat /\ old.length \in Nat
    <3>1. old \in [start : Nat, length : Nat]
      BY <1>4, <2>1, ElementOfSeq
    <3>2. QED
      BY <3>1
  <2> HIDE DEF old, sids
  <2>4. \A i \in 1..old.length : old.start + i \in 1..Len(targetIdBuffer)
    <3>1. \A a, l, n \in Nat : a + l =< n => \A i \in 1..l : a + i \in 1..n
      OBVIOUS
    <3>2. old.start + old.length =< Len(targetIdBuffer)
      BY <2>1
    <3>3. QED
      BY <2>3, <3>1, <3>2, <1>4
  <2>5. \A i \in 1..old.length :
             /\ targetIdBuffer'[old.start + i] = sids[i]
             /\ weightBuffer'[old.start + i] = base2ParentMap[s][sids[i]]
    BY <2>1, <2>4, <1>8, <1>9
  <2>6. old.start + old.length =< Len(targetIdBuffer')
    BY <2>1, <2>3, <1>2, <1>4, <1>8, SMTT(30)
  <2>7. sids = Ascending(DOMAIN base2ParentMap'[s])
    BY <1>1 DEF sids
  <2>8. QED
    BY <1>1, <2>1, <2>2, <2>5, <2>6, <2>7 DEF Stands
<1>13. ASSUME NEW n, n = Len(distributionMap) + 1
       PROVE  Stands(n, source)'
  <2>1. n \in DOMAIN distributionMap' /\ distributionMap'[n] = seq
    BY <1>4, <1>10, <1>13
  <2>2. seq.start = Len(targetIdBuffer) /\ seq.length = Len(ids)
    OBVIOUS
  <2>3. ids = Ascending(DOMAIN base2ParentMap'[source]) /\ row = base2ParentMap'[source]
    BY <1>1
  <2> HIDE DEF ids, seq, ws, row
  <2>4. seq.start + seq.length =< Len(targetIdBuffer')
    BY <1>2, <1>4, <1>8, <2>2
  <2>5. \A i \in 1..seq.length : /\ targetIdBuffer'[seq.start + i] = ids[i]
                                 /\ weightBuffer'[seq.start + i] = row[ids[i]]
    BY <2>2, <1>6, <1>8, <1>9
  <2>6. QED
    BY <2>1, <2>2, <2>3, <2>4, <2>5 DEF Stands
<1>14. QED
  BY <1>10, <1>11, <1>12, <1>13

\* What else the step does: the source joins the stored ones, behind which it
\* lies, and the next source lies behind it.
LEMMA StoreFrame ==
  ASSUME MapIInv, NEW source \in Bases, StoreDistributionSequence(source)
  PROVE  /\ source \in DOMAIN base2ParentMap /\ Stored' = Stored \cup {source}
         /\ Stored \subseteq DOMAIN base2ParentMap
         /\ \A s \in Stored : s < source
         /\ \A s \in Stored', u \in toStore' : s < u
         /\ UNCHANGED <<descElems, toBuild, base2ParentMap, minBaseId, maxBaseId>>
         /\ MapBuilt'
<1>1. /\ toBuild = {} /\ source \in toStore /\ \A u \in toStore : source =< u
      /\ toStore' = toStore \ {source}
      /\ UNCHANGED <<descElems, toBuild, base2ParentMap, minBaseId, maxBaseId>>
  BY DEF StoreDistributionSequence
<1>2. toStore \subseteq DOMAIN base2ParentMap /\ \A s \in Stored, u \in toStore : s < u
  BY DEF MapIInv, MapBuilt, Compacted
<1>3. Stored = DOMAIN base2ParentMap \ toStore /\ Stored' = DOMAIN base2ParentMap \ toStore'
  BY <1>1 DEF Stored
<1>4. Stored' = Stored \cup {source}
  BY <1>1, <1>2, <1>3
<1>5. \A s \in Stored', u \in toStore' : s < u
  <2>1. ASSUME NEW u \in toStore' PROVE source < u
    <3>1. u \in Nat /\ source \in Nat /\ source =< u /\ u # source
      BY <1>1, <1>2, <2>1, Rows DEF MapIInv
    <3>2. QED
      BY <3>1
  <2>2. QED
    BY <1>1, <1>2, <1>4, <2>1
<1>6. MapBuilt'
  <2>1. Built' = Built
    BY <1>1 DEF Built
  <2>2. toStore' \subseteq DOMAIN base2ParentMap
    BY <1>1, <1>2
  <2>3. QED
    BY <1>1, <2>1, <2>2 DEF MapIInv, MapBuilt
<1>7. QED
  BY <1>1, <1>2, <1>3, <1>4, <1>5, <1>6

ListsAll(items, sources) == \A s \in sources : \E k \in DOMAIN items : items[k].begin = s

\* The item for the source goes behind the others.
LEMMA ItemsInOrder ==
  ASSUME MapIInv, source2TargetVector = << >>,
         NEW source \in Bases, StoreDistributionSequence(source),
         NEW items, items = Append(source2TargetMap, [begin |-> source, dist |-> Len(distributionMap)])
  PROVE  /\ items \in Seq([begin : Bases, dist : Nat])
         /\ Len(items) = Len(distributionMap) + 1 /\ Len(items) \in Nat
         /\ DOMAIN items = 1..Len(items)
         /\ \A k \in DOMAIN items :
              /\ items[k].begin \in Stored' /\ items[k].dist = k - 1
              /\ \A s : s = items[k].begin => Stands(k, s)'
         /\ ListsAll(items, Stored')
         /\ \A j, k \in DOMAIN items : j < k => items[j].begin < items[k].begin
<1> DEFINE old == source2TargetMap
           item == [begin |-> source, dist |-> Len(distributionMap)]
           n == Len(distributionMap)
<1>1. BuffersOK /\ ListOK
  BY DEF MapIInv, Compacted
<1>2. /\ old \in Seq([begin : Bases, dist : Nat]) /\ Len(old) = n /\ n \in Nat
      /\ DOMAIN old = 1..n
      /\ \A k \in 1..n : /\ old[k].begin \in Stored /\ old[k].dist = k - 1
                         /\ Stands(k, old[k].begin)
      /\ \A s \in Stored : \E k \in 1..n : old[k].begin = s
      /\ \A j, k \in 1..n : j < k => old[j].begin < old[k].begin
  <2>1. Len(distributionMap) \in Nat
    BY <1>1 DEF BuffersOK
  <2>2. DOMAIN source2TargetMap = 1..Len(source2TargetMap)
    BY <1>1 DEF ListOK
  <2>3. QED
    BY <1>1, <2>1, <2>2 DEF ListOK
<1>3. /\ Stored' = Stored \cup {source} /\ \A s \in Stored : s < source
      /\ Stored \subseteq DOMAIN base2ParentMap
  BY StoreFrame
<1>4. /\ \A k \in Nat : \A s \in DOMAIN base2ParentMap : Stands(k, s) => Stands(k, s)'
      /\ \A m : m = n + 1 => Stands(m, source)'
  BY StoreFillsBuffers
<1>5. item \in [begin : Bases, dist : Nat] /\ item.begin = source /\ item.dist = n
  BY <1>2
<1> HIDE DEF old, item, n
<1>6. /\ items \in Seq([begin : Bases, dist : Nat]) /\ Len(items) = n + 1
      /\ \A k \in 1..n : items[k] = old[k]
      /\ items[n + 1] = item
  <2> DEFINE Items == [begin : Bases, dist : Nat]
  <2>1. items = Append(old, item)
    BY DEF old, item
  <2>2. old \in Seq(Items) /\ item \in Items /\ Len(old) = n
    BY <1>2, <1>5
  <2> HIDE DEF Items
  <2>3. /\ Append(old, item) \in Seq(Items) /\ Len(Append(old, item)) = Len(old) + 1
        /\ \A k \in 1..Len(old) : Append(old, item)[k] = old[k]
        /\ Append(old, item)[Len(old) + 1] = item
    BY <2>2, AppendProperties, SMTT(30)
  <2>4. QED
    BY <2>1, <2>2, <2>3, Zenon DEF Items
<1>7. Len(items) \in Nat /\ DOMAIN items = 1..Len(items)
      /\ \A k \in DOMAIN items : k \in 1..n \/ k = n + 1
  BY <1>2, <1>6
<1>8. ASSUME NEW k \in DOMAIN items
      PROVE  /\ items[k].begin \in Stored' /\ items[k].dist = k - 1
             /\ \A s : s = items[k].begin => Stands(k, s)'
  <2>1. CASE k \in 1..n
    <3>1. PICK s \in Stored : old[k].begin = s
      BY <1>2, <2>1
    <3>2. Stands(k, s) /\ s \in DOMAIN base2ParentMap /\ k \in Nat
      BY <1>2, <1>3, <2>1, <3>1
    <3>3. Stands(k, s)'
      BY <1>4, <3>2
    <3>4. items[k].begin = s /\ items[k].dist = k - 1 /\ s \in Stored'
      BY <1>2, <1>3, <1>6, <2>1, <3>1
    <3>5. QED
      BY <3>3, <3>4
  <2>2. CASE k = n + 1
    <3>1. Stands(k, source)'
      BY <1>4, <2>2
    <3>2. items[k].begin = source /\ items[k].dist = k - 1
      BY <1>2, <1>5, <1>6, <2>2
    <3>3. QED
      BY <1>3, <3>1, <3>2
  <2>3. QED
    BY <1>7, <2>1, <2>2
<1>9. ASSUME NEW s \in Stored'
      PROVE  \E k \in DOMAIN items : items[k].begin = s
  <2>1. CASE s \in Stored
    <3>1. PICK k \in 1..n : old[k].begin = s
      BY <1>2, <2>1
    <3>2. k \in DOMAIN items
      BY <1>2, <1>6, <1>7
    <3>3. QED
      BY <1>6, <3>1, <3>2
  <2>2. CASE s = source
    <3>1. n + 1 \in DOMAIN items
      BY <1>2, <1>6, <1>7
    <3>2. QED
      BY <1>5, <1>6, <2>2, <3>1
  <2>3. QED
    BY <1>3, <2>1, <2>2
<1>10. ASSUME NEW j \in DOMAIN items, NEW k \in DOMAIN items, j < k
       PROVE  items[j].begin < items[k].begin
  <2>1. j \in 1..n
    BY <1>2, <1>7, <1>10
  <2>2. CASE k \in 1..n
    BY <1>2, <1>6, <1>10, <2>1, <2>2
  <2>3. CASE k = n + 1
    BY <1>2, <1>3, <1>5, <1>6, <2>1, <2>3
  <2>4. QED
    BY <1>7, <2>2, <2>3
<1>11. QED
  BY <1>6, <1>7, <1>8, <1>9, <1>10 DEF n, ListsAll

\* The vector has a place for every source of the map.
LEMMA Places ==
  ASSUME MapBuilt, NEW s \in DOMAIN base2ParentMap
  PROVE  /\ VectorLen \in Nat /\ VectorLen >= 1
         /\ s - minBaseId + 1 \in 1..VectorLen
         /\ s \in Nat /\ minBaseId \in Nat /\ maxBaseId \in Nat
<1>1. s \in Nat /\ minBaseId \in Nat /\ maxBaseId \in Nat /\ minBaseId =< s /\ s =< maxBaseId
  BY Rows
<1>2. QED
  BY <1>1 DEF VectorLen

\* The vector made of the items leads to each of them.
LEMMA VectorLeads ==
  ASSUME MapBuilt,
         NEW items \in Seq([begin : Bases, dist : Nat]),
         \A k \in DOMAIN items : items[k].begin \in DOMAIN base2ParentMap,
         \A j, k \in DOMAIN items : j < k => items[j].begin < items[k].begin
  PROVE  /\ VectorLen \in Nat => VectorOf(items) \in Seq(Nat) /\ Len(VectorOf(items)) = VectorLen
         /\ \A k \in DOMAIN items :
              VectorOf(items)[items[k].begin - minBaseId + 1] = items[k].dist
<1> DEFINE begun(i) == {k \in DOMAIN items : items[k].begin - minBaseId =< i - 1}
           value(i) == IF begun(i) = {} THEN 0 ELSE items[Max(begun(i))].dist
<1>1. VectorOf(items) = [i \in 1..VectorLen |-> value(i)]
  BY DEF VectorOf
<1>2. DOMAIN items = 1..Len(items) /\ Len(items) \in Nat
  OBVIOUS
<1>3. \A i : value(i) \in Nat
  <2> TAKE i
  <2>1. CASE begun(i) = {}
    BY <2>1
  <2>2. CASE begun(i) # {}
    <3> DEFINE B == begun(i)
    <3>1. B \subseteq Nat /\ B # {} /\ B \subseteq DOMAIN items /\ \A k \in B : k =< Len(items)
      BY <1>2, <2>2
    <3> HIDE DEF B
    <3>2. Max(B) \in DOMAIN items
      BY <1>2, <3>1, MaxIs
    <3>3. items[Max(B)] \in [begin : Bases, dist : Nat]
      BY <1>2, <3>2, ElementOfSeq
    <3>4. items[Max(begun(i))].dist \in Nat
      BY <3>3 DEF B
    <3>5. QED
      BY <2>2, <3>4
  <2>3. QED
    BY <2>1, <2>2
<1>4. ASSUME NEW k \in DOMAIN items
      PROVE  VectorOf(items)[items[k].begin - minBaseId + 1] = items[k].dist
  <2> DEFINE s == items[k].begin
             i == s - minBaseId + 1
  <2>1. i \in 1..VectorLen /\ s \in Nat /\ minBaseId \in Nat
    BY Places
  <2>2. \A j \in DOMAIN items : items[j].begin \in Nat
    BY Places
  <2>3. begun(i) = {j \in DOMAIN items : items[j].begin =< items[k].begin}
    <3>1. \A j \in DOMAIN items : items[j].begin - minBaseId =< i - 1 <=> items[j].begin =< items[k].begin
      BY <2>1, <2>2, SMTT(30)
    <3>2. QED
      BY <3>1
  <2>4. Max({j \in DOMAIN items : items[j].begin =< items[k].begin}) = k
    BY LastBegun
  <2>5. k \in begun(i)
    BY <2>2, <2>3
  <2>6. value(i) = items[k].dist
    BY <2>3, <2>4, <2>5
  <2> HIDE DEF value, begun, i
  <2>7. VectorOf(items)[i] = items[k].dist
    BY <1>1, <2>1, <2>6
  <2>8. QED
    BY <2>7 DEF i
<1>5. VectorLen \in Nat => VectorOf(items) \in Seq(Nat) /\ Len(VectorOf(items)) = VectorLen
  <2> HIDE DEF value
  <2>1. VectorOf(items) \in [1..VectorLen -> Nat]
    BY <1>1, <1>3
  <2>2. QED
    BY <2>1
<1>6. QED
  BY <1>4, <1>5

LEMMA StoreKeepsIInv ==
  ASSUME MapIInv, NEW source \in Bases, StoreDistributionSequence(source)
  PROVE  MapIInv'
<1>1. /\ source \in DOMAIN base2ParentMap /\ Stored' = Stored \cup {source}
      /\ Stored \subseteq DOMAIN base2ParentMap /\ \A s \in Stored : s < source
      /\ \A s \in Stored', u \in toStore' : s < u
      /\ UNCHANGED <<descElems, toBuild, base2ParentMap, minBaseId, maxBaseId>>
      /\ MapBuilt'
  BY StoreFrame
<1>2. toBuild' = {} /\ MapBuilt
  BY DEF MapIInv, StoreDistributionSequence
<1>3. BuffersOK' /\ Len(distributionMap') = Len(distributionMap) + 1
      /\ Len(distributionMap) \in Nat
  BY StoreFillsBuffers DEF MapIInv, Compacted, BuffersOK
<1>4. VectorLen' = VectorLen /\ minBaseId' = minBaseId
  BY <1>1 DEF VectorLen
<1>5. VectorLen \in Nat /\ VectorLen >= 1
  BY <1>1, <1>2, Places
<1> DEFINE next == IF toStore = {source} THEN source + 1 ELSE Min(toStore \ {source})
           till == Min({maxBaseId + 1, next})
<1>6. PICK items : items = Append(source2TargetMap, [begin |-> source, dist |-> Len(distributionMap)])
  OBVIOUS
<1>7. \/ /\ source2TargetVector = << >> /\ source2TargetMap' = items
         /\ source2TargetVector' = source2TargetVector
      \/ /\ source2TargetVector = << >> /\ source2TargetVector' = VectorOf(items)
         /\ source2TargetMap' = << >>
      \/ /\ source2TargetVector # << >>
         /\ source2TargetVector' = Fill(source2TargetVector, source - minBaseId,
                                        till - minBaseId, Len(distributionMap))
         /\ source2TargetMap' = source2TargetMap
  BY <1>6 DEF StoreDistributionSequence
<1>8. IF source2TargetVector' = << >> THEN ListOK' ELSE VectorOK'
  <2>1. CASE source2TargetVector = << >> /\ source2TargetMap' = items
             /\ source2TargetVector' = source2TargetVector
    <3>1. /\ items \in Seq([begin : Bases, dist : Nat])
          /\ Len(items) = Len(distributionMap')
          /\ \A k \in DOMAIN items :
              /\ items[k].begin \in Stored' /\ items[k].dist = k - 1
              /\ \A s : s = items[k].begin => Stands(k, s)'
          /\ \A s \in Stored' : \E k \in DOMAIN items : items[k].begin = s
          /\ \A j, k \in DOMAIN items : j < k => items[j].begin < items[k].begin
      <4>1. Len(items) = Len(distributionMap) + 1
        BY <1>6, <2>1, ItemsInOrder
      <4>2. Len(items) = Len(distributionMap')
        BY <1>3, <4>1
      <4>3. /\ items \in Seq([begin : Bases, dist : Nat])
            /\ \A j, k \in DOMAIN items : j < k => items[j].begin < items[k].begin
        BY <1>6, <2>1, ItemsInOrder
      <4>4. \A s \in Stored' : \E k \in DOMAIN items : items[k].begin = s
        <5>1. ListsAll(items, Stored')
          BY <1>6, <2>1, ItemsInOrder
        <5>2. QED
          BY <5>1 DEF ListsAll
      <4>5. \A k \in DOMAIN items :
              /\ items[k].begin \in Stored' /\ items[k].dist = k - 1
              /\ \A s : s = items[k].begin => Stands(k, s)'
        BY <1>6, <2>1, ItemsInOrder, Zenon
      <4>6. QED
        BY <4>2, <4>3, <4>4, <4>5
    <3>2. \A k \in DOMAIN items : Stands(k, source2TargetMap[k].begin)'
      <4> TAKE k \in DOMAIN items
      <4>1. PICK s \in Stored' : items[k].begin = s
        BY <3>1
      <4>2. Stands(k, s)'
        BY <3>1, <4>1
      <4>3. source2TargetMap'[k].begin = s
        BY <2>1, <4>1
      <4>4. QED
        BY <4>2, <4>3 DEF Stands
    <3>3. ListOK'
      BY <2>1, <3>1, <3>2 DEF ListOK
    <3>4. QED
      BY <2>1, <3>3
  <2>2. CASE source2TargetVector = << >> /\ source2TargetVector' = VectorOf(items)
             /\ source2TargetMap' = << >>
    <3>1. /\ items \in Seq([begin : Bases, dist : Nat])
          /\ \A k \in DOMAIN items :
              /\ items[k].begin \in Stored' /\ items[k].dist = k - 1
              /\ \A s : s = items[k].begin => Stands(k, s)'
          /\ \A s \in Stored' : \E k \in DOMAIN items : items[k].begin = s
          /\ \A j, k \in DOMAIN items : j < k => items[j].begin < items[k].begin
          /\ DOMAIN items \subseteq Nat
      <4>1. Len(items) \in Nat /\ DOMAIN items = 1..Len(items)
        BY <1>6, <2>2, ItemsInOrder
      <4>2. DOMAIN items \subseteq Nat
        BY <4>1
      <4>3. /\ items \in Seq([begin : Bases, dist : Nat])
            /\ \A j, k \in DOMAIN items : j < k => items[j].begin < items[k].begin
        BY <1>6, <2>2, ItemsInOrder
      <4>4. \A s \in Stored' : \E k \in DOMAIN items : items[k].begin = s
        <5>1. ListsAll(items, Stored')
          BY <1>6, <2>2, ItemsInOrder
        <5>2. QED
          BY <5>1 DEF ListsAll
      <4>5. \A k \in DOMAIN items :
              /\ items[k].begin \in Stored' /\ items[k].dist = k - 1
              /\ \A s : s = items[k].begin => Stands(k, s)'
        BY <1>6, <2>2, ItemsInOrder, Zenon
      <4>6. QED
        BY <4>2, <4>3, <4>4, <4>5
    <3>2. \A k \in DOMAIN items : items[k].begin \in DOMAIN base2ParentMap
      BY <1>1, <3>1
    <3>3. /\ VectorOf(items) \in Seq(Nat) /\ Len(VectorOf(items)) = VectorLen
          /\ \A k \in DOMAIN items :
              VectorOf(items)[items[k].begin - minBaseId + 1] = items[k].dist
      BY <1>2, <1>5, <3>1, <3>2, VectorLeads
    <3>4. ASSUME NEW s \in Stored'
          PROVE  Stands(source2TargetVector[s - minBaseId + 1] + 1, s)'
      <4>1. PICK k \in DOMAIN items : items[k].begin = s
        BY <3>1
      <4>2. source2TargetVector'[s - minBaseId' + 1] + 1 = k
        <5>1. source2TargetVector'[s - minBaseId' + 1] = VectorOf(items)[items[k].begin - minBaseId + 1]
          BY <1>4, <2>2, <4>1
        <5>2. source2TargetVector'[s - minBaseId' + 1] = k - 1 /\ k \in Nat
          BY <3>1, <3>3, <5>1
        <5>3. QED
          BY <5>2
      <4>3. Stands(k, s)'
        BY <3>1, <4>1
      <4>4. QED
        BY <4>2, <4>3 DEF Stands
    <3>5. VectorOK'
      BY <1>4, <2>2, <3>3, <3>4 DEF VectorOK
    <3>6. source2TargetVector' # << >>
      BY <1>5, <2>2, <3>3
    <3>7. QED
      BY <3>5, <3>6
  <2>3. CASE source2TargetVector # << >>
             /\ source2TargetVector' = Fill(source2TargetVector, source - minBaseId,
                                        till - minBaseId, Len(distributionMap))
             /\ source2TargetMap' = source2TargetMap
    <3>1. /\ source2TargetMap = << >> /\ source2TargetVector \in Seq(Nat)
          /\ Len(source2TargetVector) = VectorLen
          /\ \A s \in Stored : Stands(source2TargetVector[s - minBaseId + 1] + 1, s)
      BY <2>3 DEF MapIInv, Compacted, VectorOK
    <3>2. \A s \in DOMAIN base2ParentMap :
            s - minBaseId + 1 \in 1..VectorLen /\ s \in Nat /\ minBaseId \in Nat /\ maxBaseId \in Nat
      BY <1>2, Places
    <3>3. source < till /\ till \in Nat
      <4>1. next \in Nat /\ source < next
        <5>1. CASE toStore = {source}
          BY <1>1, <3>2, <5>1
        <5>2. CASE toStore # {source}
          <6>1. /\ toStore \ {source} \subseteq Nat /\ toStore \ {source} # {}
                /\ \A u \in toStore \ {source} : source < u
            <7>1. toStore' = toStore \ {source} /\ source \in toStore /\ toStore \subseteq DOMAIN base2ParentMap
              BY <1>2 DEF StoreDistributionSequence, MapBuilt
            <7>2. QED
              BY <1>1, <3>2, <5>2, <7>1
          <6>2. Min(toStore \ {source}) \in toStore \ {source}
            BY <6>1, MinIs
          <6>3. QED
            BY <5>2, <6>1, <6>2
        <5>3. QED
          BY <5>1, <5>2
      <4> HIDE DEF next
      <4>2. source =< maxBaseId /\ maxBaseId \in Nat /\ source \in Nat
        BY <1>1, <1>2, Rows
      <4>3. {maxBaseId + 1, next} \subseteq Nat /\ \A x \in {maxBaseId + 1, next} : source < x
        BY <4>1, <4>2
      <4>4. till \in {maxBaseId + 1, next}
        BY <4>3, MinIs
      <4> HIDE DEF till
      <4>5. QED
        BY <4>3, <4>4
    <3> HIDE DEF till, next
    <3>4. DOMAIN source2TargetVector = 1..VectorLen
          /\ \A i \in 1..VectorLen : source2TargetVector[i] \in Nat
      BY <1>5, <3>1, ElementOfSeq
    <3>5. source2TargetVector' = [i \in 1..VectorLen |->
            IF i - 1 >= source - minBaseId /\ i - 1 < till - minBaseId
            THEN Len(distributionMap) ELSE source2TargetVector[i]]
      BY <2>3, <3>4 DEF Fill
    <3>6. source2TargetVector' \in Seq(Nat) /\ Len(source2TargetVector') = VectorLen
      <4>1. source2TargetVector' \in [1..VectorLen -> Nat]
        BY <1>3, <3>4, <3>5
      <4>2. QED
        BY <1>5, <4>1
    <3>7. ASSUME NEW s \in Stored'
          PROVE  Stands(source2TargetVector[s - minBaseId + 1] + 1, s)'
      <4> DEFINE i == s - minBaseId + 1
      <4>1. s \in DOMAIN base2ParentMap /\ i \in 1..VectorLen
        BY <1>1, <3>2
      <4>2. s \in Nat /\ source \in Nat /\ minBaseId \in Nat
        BY <1>1, <3>2, <4>1
      <4>3. CASE s \in Stored
        <5>1. PICK k : k = source2TargetVector[i] + 1
          OBVIOUS
        <5>2. k \in Nat /\ Stands(k, s)
          BY <3>1, <3>4, <4>1, <4>3, <5>1
        <5>3. Stands(k, s)'
          BY <4>1, <5>2, StoreFillsBuffers
        <5>4. ~(i - 1 >= source - minBaseId)
          BY <1>1, <4>2, <4>3
        <5>5. source2TargetVector'[s - minBaseId' + 1] + 1 = k
          BY <1>4, <3>5, <4>1, <5>1, <5>4
        <5>6. QED
          BY <5>3, <5>5 DEF Stands
      <4>4. CASE s = source
        <5>1. PICK k : k = Len(distributionMap) + 1
          OBVIOUS
        <5>2. Stands(k, s)'
          BY <4>4, <5>1, StoreFillsBuffers
        <5>3. i - 1 >= source - minBaseId /\ i - 1 < till - minBaseId
          BY <3>3, <4>2, <4>4
        <5>4. source2TargetVector'[s - minBaseId' + 1] + 1 = k
          BY <1>4, <3>5, <4>1, <5>1, <5>3
        <5>5. QED
          BY <5>2, <5>4 DEF Stands
      <4>5. QED
        BY <1>1, <4>3, <4>4
    <3>8. VectorOK'
      BY <1>4, <2>3, <3>1, <3>6, <3>7 DEF VectorOK
    <3>9. source2TargetVector' # << >>
      BY <1>5, <3>6
    <3>10. QED
      BY <3>8, <3>9
  <2>4. QED
    BY <1>7, <2>1, <2>2, <2>3
<1>9. Compacted'
  BY <1>1, <1>2, <1>3, <1>8 DEF Compacted
<1>10. QED
  BY <1>1, <1>9 DEF MapIInv

-----------------------------------------------------------------------------
(* The theorems. *)

\* What stands at a position is what getTargets reads from there.
LEMMA ReadsRow ==
  ASSUME MapIInv, NEW source \in Stored
  PROVE  GetTargets(source) = RowOf(source)
<1> DEFINE ids == Ascending(DOMAIN base2ParentMap[source])
           begun == {k \in DOMAIN source2TargetMap : source2TargetMap[k].begin =< source}
           dist == IF source2TargetVector # << >>
                   THEN source2TargetVector[source - minBaseId + 1]
                   ELSE source2TargetMap[IF begun = {} THEN 1 ELSE Max(begun)].dist
           seq == distributionMap[dist + 1]
<1>1. source \in DOMAIN base2ParentMap /\ MapBuilt /\ BuffersOK
  BY DEF MapIInv, Stored, Compacted
<1>2. Stands(dist + 1, source)
  <2>1. CASE source2TargetVector # << >>
    BY <2>1 DEF MapIInv, Compacted, VectorOK
  <2>2. CASE source2TargetVector = << >>
    <3>1. ListOK
      BY <2>2 DEF MapIInv, Compacted
    <3>2. PICK k \in DOMAIN source2TargetMap : source2TargetMap[k].begin = source
      BY <3>1 DEF ListOK
    <3>3. Max({j \in DOMAIN source2TargetMap : source2TargetMap[j].begin =< source2TargetMap[k].begin}) = k
      BY <3>1, LastBegun DEF ListOK
    <3>4. Max(begun) = k
      BY <3>2, <3>3
    <3>5. begun # {}
      <4>1. source \in Nat
        BY <1>1, Rows
      <4>2. k \in begun
        BY <3>2, <4>1
      <4>3. QED
        BY <4>2
    <3>6. dist = source2TargetMap[k].dist
      BY <2>2, <3>4, <3>5
    <3>7. source2TargetMap[k].dist = k - 1 /\ Stands(k, source)
      BY <3>1, <3>2 DEF ListOK
    <3>8. k \in Nat
      BY <3>1 DEF ListOK
    <3>9. dist + 1 = k
      BY <3>6, <3>7, <3>8
    <3>10. QED
      BY <3>7, <3>9
  <2>3. QED
    BY <2>1, <2>2
<1>3. /\ dist + 1 \in DOMAIN distributionMap
      /\ seq.length = Len(ids) /\ seq.start + seq.length =< Len(targetIdBuffer)
      /\ \A i \in 1..seq.length :
           /\ targetIdBuffer[seq.start + i] = ids[i]
           /\ weightBuffer[seq.start + i] = base2ParentMap[source][ids[i]]
  BY <1>2 DEF Stands
<1>4. seq.start \in Nat /\ seq.length \in Nat
  <2>1. distributionMap \in Seq([start : Nat, length : Nat])
    BY <1>1 DEF BuffersOK
  <2> HIDE DEF dist
  <2>2. dist + 1 \in 1..Len(distributionMap)
    BY <1>3, <2>1
  <2>3. seq \in [start : Nat, length : Nat]
    BY <2>1, <2>2, ElementOfSeq
  <2> HIDE DEF seq
  <2>4. QED
    BY <2>3
<1>5. Len(weightBuffer) = Len(targetIdBuffer) /\ Len(weightBuffer) \in Nat
  BY <1>1 DEF BuffersOK
<1>6. DOMAIN ids = 1..Len(ids)
  BY <1>1, Rows
<1>7. GetTargets(source) = [i \in 1..seq.length |->
        <<targetIdBuffer[seq.start + i],
          IF Len(weightBuffer) =< seq.start THEN 1 ELSE weightBuffer[seq.start + i]>>]
  BY DEF GetTargets
<1> HIDE DEF seq, dist, ids
<1>8. \A i \in 1..seq.length : ~(Len(weightBuffer) =< seq.start)
  <2>1. \A a, l, n \in Nat : a + l =< n => \A i \in 1..l : ~(n =< a)
    OBVIOUS
  <2>2. QED
    BY <1>3, <1>4, <1>5, <2>1
<1>9. GetTargets(source) =
        [i \in 1..seq.length |-> <<ids[i], base2ParentMap[source][ids[i]]>>]
  BY <1>3, <1>7, <1>8
<1>10. RowOf(source) = [i \in DOMAIN ids |-> <<ids[i], base2ParentMap[source][ids[i]]>>]
  BY DEF RowOf, ids
<1>11. QED
  BY <1>3, <1>6, <1>9, <1>10

\* In the finished map a row is what the area asks for.
LEMMA RowIsAsked ==
  ASSUME MapIInv, Done, NEW b \in UNION Range(descElems)
  PROVE  LET parents == {t \in DOMAIN descElems : b \in descElems[t]}
         IN /\ b \in Stored
            /\ Range(RowOf(b)) = {<<t, WeightOf[t][b]>> : t \in parents}
            /\ Len(RowOf(b)) = Cardinality(parents)
<1> DEFINE parents == {t \in DOMAIN descElems : b \in descElems[t]}
           row == base2ParentMap[b]
           ids == Ascending(DOMAIN row)
           pair(t) == <<t, WeightOf[t][b]>>
<1>1. toBuild = {} /\ toStore = {}
  BY DEF Done
<1>2. Built = DOMAIN descElems /\ Stored = DOMAIN base2ParentMap
  BY <1>1 DEF Built, Stored
<1>3. PICK t \in DOMAIN descElems : b \in descElems[t]
  BY DEF Range
<1>4. b \in DOMAIN base2ParentMap
  BY <1>2, <1>3 DEF MapIInv, MapBuilt
<1>5. /\ DOMAIN row = parents /\ \A u \in DOMAIN row : row[u] = WeightOf[u][b]
      /\ Len(ids) = Cardinality(DOMAIN row) /\ Len(ids) \in Nat
      /\ DOMAIN ids = 1..Len(ids) /\ \A i \in 1..Len(ids) : ids[i] \in DOMAIN row
      /\ \A u \in DOMAIN row : \E i \in 1..Len(ids) : ids[i] = u
  BY <1>2, <1>4, Rows DEF MapIInv
<1>6. RowOf(b) = [i \in DOMAIN ids |-> <<ids[i], row[ids[i]]>>]
  BY DEF RowOf
<1> HIDE DEF ids, row, parents
<1>7. RowOf(b) = [i \in 1..Len(ids) |-> pair(ids[i])]
  BY <1>5, <1>6
<1> HIDE DEF pair
<1>8. Range(RowOf(b)) = {pair(u) : u \in parents}
  <2>1. Range(RowOf(b)) = {pair(ids[i]) : i \in 1..Len(ids)}
    BY <1>7 DEF Range
  <2>2. \A i \in 1..Len(ids) : ids[i] \in parents
    BY <1>5
  <2>3. \A u \in parents : \E i \in 1..Len(ids) : ids[i] = u
    BY <1>5
  <2>4. {pair(ids[i]) : i \in 1..Len(ids)} \subseteq {pair(u) : u \in parents}
    BY <2>2, Zenon
  <2>5. {pair(u) : u \in parents} \subseteq {pair(ids[i]) : i \in 1..Len(ids)}
    BY <2>3, Zenon
  <2>6. QED
    BY <2>1, <2>4, <2>5, Zenon
<1>9. Len(RowOf(b)) = Cardinality(parents)
  <2>1. Len(RowOf(b)) = Len(ids)
    BY <1>5, <1>7
  <2>2. QED
    BY <1>5, <2>1
<1>10. QED
  BY <1>2, <1>4, <1>8, <1>9 DEF parents, pair

LEMMA IInvImpliesTypeOK == MapIInv => MapTypeOK
<1> SUFFICES ASSUME MapIInv PROVE MapTypeOK
  OBVIOUS
<1>1. MapBuilt /\ BuffersOK /\ (IF source2TargetVector = << >> THEN ListOK ELSE VectorOK)
  BY DEF MapIInv, Compacted
<1>2. \A b \in DOMAIN base2ParentMap : b \in Bases /\ DOMAIN base2ParentMap[b] \subseteq Targets
  BY <1>1, Rows
<1>3. /\ source2TargetMap \in Seq([begin : Bases, dist : Nat])
      /\ source2TargetVector \in Seq(Nat)
      /\ Len(source2TargetVector) \in {0, VectorLen}
      /\ source2TargetMap = << >> \/ source2TargetVector = << >>
  <2>1. CASE source2TargetVector = << >>
    BY <1>1, <2>1 DEF ListOK
  <2>2. CASE source2TargetVector # << >>
    BY <1>1, <2>2 DEF VectorOK
  <2>3. QED
    BY <2>1, <2>2
<1>4. QED
  BY <1>1, <1>2, <1>3 DEF MapTypeOK, MapBuilt, BuffersOK

LEMMA IInvImpliesIndexRight == MapIInv => IndexRight
<1> SUFFICES ASSUME MapIInv PROVE IndexRight
  OBVIOUS
<1>1. ReadBack
  BY ReadsRow DEF ReadBack
<1>2. MapFaithful
  <2> SUFFICES ASSUME Done, NEW b \in UNION Range(descElems)
               PROVE  LET parents == {t \in DOMAIN descElems : b \in descElems[t]}
                      IN /\ Range(GetTargets(b)) = {<<t, WeightOf[t][b]>> : t \in parents}
                         /\ Len(GetTargets(b)) = Cardinality(parents)
    BY DEF MapFaithful
  <2>1. b \in Stored
    BY RowIsAsked
  <2>2. GetTargets(b) = RowOf(b)
    BY <2>1, ReadsRow
  <2>3. QED
    BY <2>2, RowIsAsked
<1>3. QED
  BY <1>1, <1>2, IInvImpliesTypeOK DEF IndexRight

\* The invariant holds in every state of the compaction.
LEMMA IInvAlways == MapSpec => []MapIInv
<1>1. MapIInv /\ [MapNext]_mapVars => MapIInv'
  <2> SUFFICES ASSUME MapIInv, [MapNext]_mapVars PROVE MapIInv'
    OBVIOUS
  <2>1. ASSUME NEW parent \in Targets, BuildBaseToParentMap(parent) PROVE MapIInv'
    BY <2>1, BuildKeepsIInv
  <2>2. ASSUME NEW source \in Bases, StoreDistributionSequence(source) PROVE MapIInv'
    BY <2>2, StoreKeepsIInv
  <2>3. CASE UNCHANGED mapVars
    <3>1. /\ UNCHANGED <<descElems, toBuild, toStore, base2ParentMap, minBaseId, maxBaseId>>
          /\ UNCHANGED <<targetIdBuffer, weightBuffer, distributionMap>>
          /\ UNCHANGED <<source2TargetMap, source2TargetVector>>
      BY <2>3 DEF mapVars, buffers, index
    <3>2. MapBuilt'
      BY <3>1 DEF MapIInv, MapBuilt, Built
    <3>3. Stored' = Stored /\ VectorLen' = VectorLen
      BY <3>1 DEF Stored, VectorLen
    <3>4. BuffersOK' /\ Untouched' = Untouched
      BY <3>1 DEF MapIInv, Compacted, BuffersOK, Untouched
    <3>5. CASE source2TargetVector = << >>
      <4>1. ListOK
        BY <3>5 DEF MapIInv, Compacted
      <4>2. ASSUME NEW k \in DOMAIN source2TargetMap
            PROVE  Stands(k, source2TargetMap[k].begin)'
        <5>1. PICK s : s = source2TargetMap[k].begin
          OBVIOUS
        <5>2. Stands(k, s)
          BY <4>1, <5>1 DEF ListOK
        <5>3. Stands(k, s)' /\ source2TargetMap'[k].begin = s
          BY <3>1, <5>1, <5>2 DEF Stands
        <5>4. QED
          BY <5>3 DEF Stands
      <4>3. /\ source2TargetMap \in Seq([begin : Bases, dist : Nat])
            /\ Len(source2TargetMap) = Len(distributionMap)
            /\ \A k \in DOMAIN source2TargetMap :
                 source2TargetMap[k].begin \in Stored /\ source2TargetMap[k].dist = k - 1
            /\ \A j, k \in DOMAIN source2TargetMap :
                 j < k => source2TargetMap[j].begin < source2TargetMap[k].begin
        BY <4>1 DEF ListOK
      <4>4. ListsAll(source2TargetMap, Stored)
        BY <4>1 DEF ListOK, ListsAll
      <4>5. ListsAll(source2TargetMap', Stored')
        BY <3>1, <3>3, <4>4
      <4>6. ListOK'
        BY <3>1, <3>3, <4>2, <4>3, <4>5 DEF ListOK, ListsAll
      <4>7. QED
        BY <3>1, <3>2, <3>3, <3>4, <3>5, <4>6 DEF MapIInv, Compacted
    <3>6. CASE source2TargetVector # << >>
      <4>1. VectorOK
        BY <3>6 DEF MapIInv, Compacted
      <4>2. VectorOK'
        BY <3>1, <3>3, <4>1 DEF VectorOK, Stands
      <4>3. QED
        BY <3>1, <3>2, <3>3, <3>4, <3>6, <4>2 DEF MapIInv, Compacted
    <3>7. QED
      BY <3>5, <3>6
  <2>4. QED
    BY <2>1, <2>2, <2>3 DEF MapNext
<1>2. QED
  BY <1>1, MapInitIInv, PTL DEF MapSpec

\* At every moment of the compaction each stored source reads back as its row of
\* base2ParentMap, whether the index is a list or a vector or has just turned from
\* one into the other, and the finished map sends every base element to exactly
\* the elements of the area it is aggregated into, each once and with its weight
\* (storeDistributionSequence, getTargets, buildBaseToParentMap).
THEOREM MapReadsBack == MapSpec => []IndexRight
BY IInvAlways, IInvImpliesIndexRight, PTL

=============================================================================
