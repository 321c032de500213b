-------------------------- MODULE AggregationProofs --------------------------
(***************************************************************************)
(* Theorems about Aggregation, for any number of dimensions, any hierarchy *)
(* of finitely many elements, any cube and any area: types, the reader     *)
(* cache, the odometer, that the odometer shows every combination of       *)
(* targets exactly once, that the answer is the weighted sum that was      *)
(* asked for, and the refinement of AbstractAggregation.                   *)
(***************************************************************************)
EXTENDS Aggregation, SharedLemmas

Unread == [d \in Dims |-> NoIdentifier]
Row(d) == parentMaps[d][key[d]]
InLoop == pc \in {"init", "add", "next"}

\* expandBase has run.
Prepared ==
  /\ srcArea = [d \in Dims |-> SourcesOf(d, calcArea[d])]
  /\ parentMaps = [d \in Dims |-> ParentMap(d, calcArea[d])]

\* The reader in use for dimension d stands in the row of the current cell.
ReaderOK(d) ==
  /\ currentTarget[d].row = Row(d)
  /\ currentTarget[d].pos \in 1..Len(Row(d))
  /\ parentKey[d] = Id(currentTarget[d])

\* multiDims holds the dimensions before dim that have several targets, ascending.
MultiDimsOK ==
  /\ \A i \in DOMAIN multiDims : multiDims[i] < dim /\ Len(Row(multiDims[i])) > 1
  /\ \A d \in 1..(dim - 1) : Len(Row(d)) > 1 => \E i \in DOMAIN multiDims : multiDims[i] = d
  /\ \A i, j \in DOMAIN multiDims : i < j => multiDims[i] < multiDims[j]

\* The readers that nextParentKey has sent back to their first target.
ResetsOK ==
  /\ pc = "init" => \A d \in 1..(dim - 1) : currentTarget[d].pos = 1
  /\ pc = "next" =>
       \A i \in (changeMultiDim + 1)..Len(multiDims) : currentTarget[multiDims[i]].pos = 1

ControlOK ==
  /\ pc = "expand" => prevSourceKey = Unread
  /\ pc # "expand" => Prepared
  /\ InLoop => key \in Keys /\ \A d \in Dims : key[d] \in SourcesOf(d, calcArea[d])
  /\ pc = "init" => dim \in Dims
  /\ pc \in {"add", "next"} => dim = N + 1
  /\ pc \notin {"add", "next"} => changeMultiDim = 0

IInv ==
  /\ TypeOK /\ CacheFresh
  /\ ControlOK
  /\ InLoop => (\A d \in 1..(dim - 1) : ReaderOK(d)) /\ MultiDimsOK
  /\ ResetsOK

-----------------------------------------------------------------------------
(* The rows of the parent maps. *)

LEMMA SourcesAreElements ==
  ASSUME NEW A \in Areas, NEW d \in Dims
  PROVE  A[d] \subseteq DOMAIN BaseElements[d] /\ SourcesOf(d, A[d]) \subseteq Elements
BY CubeAssumption, ElementAssumption DEF SourcesOf

\* A row is a non-empty sequence of targets with their weights.
LEMMA RowType ==
  ASSUME NEW A \in Areas, NEW d \in Dims, NEW b \in SourcesOf(d, A[d])
  PROVE  /\ DOMAIN ParentMap(d, A[d]) = SourcesOf(d, A[d])
         /\ ParentMap(d, A[d])[b] \in Rows
         /\ Len(ParentMap(d, A[d])[b]) >= 1
<1> DEFINE T == TargetsIn(d, A[d], b)
           ids == Ascending(T)
           n == Cardinality(T)
<1>1. T \in SUBSET Nat /\ IsFiniteSet(T) /\ T # {}
  <2>1. T \subseteq Elements /\ T # {}
    BY SourcesAreElements, ElementAssumption DEF TargetsIn, SourcesOf
  <2>2. QED
    BY <2>1, ElementAssumption, FS_Subset
<1>2. n \in Nat /\ n # 0
  BY <1>1, FS_CardinalityType, FS_EmptySet
<1>3. \A i \in 1..n : ids[i] \in T
  BY <1>1, AscendingMembers
<1>4. DOMAIN ids = 1..n
  BY DEF Ascending
<1> DEFINE row == [i \in 1..n |-> <<ids[i], BaseElements[d][ids[i]][b]>>]
<1>5. DOMAIN ParentMap(d, A[d]) = SourcesOf(d, A[d]) /\ ParentMap(d, A[d])[b] = row
  BY <1>4 DEF ParentMap
<1>6. \A t \in T : t \in Elements /\ BaseElements[d][t][b] \in Int
  BY SourcesAreElements, ElementAssumption DEF TargetsIn
<1> HIDE DEF T, ids, n
<1>7. \A i \in 1..n : <<ids[i], BaseElements[d][ids[i]][b]>> \in Elements \X Int
  BY <1>3, <1>6
<1> DEFINE val(i) == <<ids[i], BaseElements[d][ids[i]][b]>>
<1> HIDE DEF val
<1>8. row = [i \in 1..n |-> val(i)]
  BY DEF val
<1>9. row \in Seq(Elements \X Int) /\ Len(row) = n
  <2>1. \A i \in 1..n : val(i) \in Elements \X Int
    BY <1>7 DEF val
  <2> HIDE DEF row
  <2>2. QED
    BY <1>2, <1>8, <2>1
<1>10. QED
  BY <1>2, <1>5, <1>9 DEF Rows

\* What a reader yields.
LEMMA ReaderType ==
  ASSUME NEW row \in Rows, NEW pos \in 1..Len(row)
  PROVE  /\ [row |-> row, pos |-> pos] \in [row : Rows, pos : Nat \ {0}]
         /\ Id([row |-> row, pos |-> pos]) \in Elements
         /\ WeightAt([row |-> row, pos |-> pos]) \in Int
<1>1. row[pos] \in Elements \X Int
  BY DEF Rows
<1>2. QED
  BY <1>1 DEF Id, WeightAt

\* In a loop over a source cell every row has its type.
LEMMA RowsInLoop ==
  ASSUME TypeOK, ControlOK, InLoop, NEW d \in Dims
  PROVE  /\ key[d] \in Elements /\ key[d] # NoIdentifier
         /\ key[d] \in DOMAIN parentMaps[d]
         /\ Row(d) \in Rows /\ Len(Row(d)) >= 1
<1>1. calcArea \in Areas
  BY DEF TypeOK
<1>2. parentMaps = [e \in Dims |-> ParentMap(e, calcArea[e])] /\ key[d] \in SourcesOf(d, calcArea[d])
  BY DEF ControlOK, Prepared, InLoop
<1>3. parentMaps[d] = ParentMap(d, calcArea[d])
  BY <1>2
<1>4. key[d] \in Elements /\ key[d] # NoIdentifier
  BY <1>1, <1>2, SourcesAreElements, DimAssumption
<1>5. QED
  BY <1>1, <1>2, <1>3, <1>4, RowType DEF Row

-----------------------------------------------------------------------------
(* One lemma per action. *)

LEMMA InitInvariant == Init => IInv
<1> SUFFICES ASSUME Init PROVE IInv
  OBVIOUS
<1> USE DEF Init
<1>1. << >> \in Rows
  BY DEF Rows
<1>2. TypeOK
  <2>1. 1 \in 1..(N + 1) /\ 0 \in 0..Len(multiDims) /\ multiDims \in Seq(Dims)
    BY DimAssumption
  <2>2. /\ currentTarget \in [Dims -> [row : Rows, pos : Nat \ {0}]]
        /\ lastTargets \in [Dims -> [row : Rows, pos : Nat \ {0}]]
    BY <1>1 DEF NewReader
  <2>3. srcArea \in [Dims -> SUBSET Elements]
    OBVIOUS
  <2>4. DOMAIN resultStorage \subseteq Keys
    OBVIOUS
  <2>5. QED
    BY <1>1, <2>1, <2>2, <2>3, <2>4 DEF TypeOK
<1>3. CacheFresh
  BY DEF CacheFresh
<1>4. ControlOK /\ ~InLoop /\ ResetsOK
  BY DEF ControlOK, InLoop, ResetsOK, Unread
<1>5. QED
  BY <1>2, <1>3, <1>4 DEF IInv

LEMMA ExpandBaseInvariant ==
  ASSUME IInv, ExpandBase
  PROVE  IInv'
<1> USE DEF ExpandBase, request, cache, odometer
<1>1. pc' \in {"scan", "done"} /\ pc = "expand"
  OBVIOUS
<1>2. Prepared'
  BY DEF Prepared, SourcesOf, ParentMap, TargetsIn
<1>3. srcArea' \in [Dims -> SUBSET Elements]
  BY SourcesAreElements DEF IInv, TypeOK
<1>4. TypeOK'
  BY <1>1, <1>3 DEF IInv, TypeOK, Rows
<1>5. CacheFresh'
  BY <1>1 DEF IInv, ControlOK, CacheFresh, Unread
<1>6. ControlOK' /\ ~InLoop' /\ ResetsOK'
  BY <1>1, <1>2 DEF IInv, ControlOK, InLoop, ResetsOK
<1>7. QED
  BY <1>4, <1>5, <1>6 DEF IInv

LEMMA SkipCellInvariant ==
  ASSUME IInv, NEW cell \in unvisited, SkipCell(cell)
  PROVE  IInv'
<1> USE DEF SkipCell, request, prepared, cache, odometer
<1>1. TypeOK'
  BY DEF IInv, TypeOK, Rows
<1>2. CacheFresh' /\ ControlOK' /\ ~InLoop' /\ ResetsOK'
  BY DEF IInv, CacheFresh, ControlOK, InLoop, ResetsOK, Prepared
<1>3. QED
  BY <1>1, <1>2 DEF IInv

LEMMA EnterCellInvariant ==
  ASSUME IInv, NEW cell \in unvisited, EnterCell(cell)
  PROVE  IInv'
<1> USE DEF EnterCell, request, prepared, cache, odometer
<1>1. cell \in Keys /\ \A d \in Dims : cell[d] \in SourcesOf(d, calcArea[d])
  BY CubeAssumption DEF IInv, TypeOK, ControlOK, Prepared, IsInArea
<1>2. Prepared'
  BY DEF IInv, ControlOK, Prepared
<1>3. multiDims' = << >> /\ dim' = 1 /\ changeMultiDim' = 0
  BY DEF IInv, ControlOK
<1>4. TypeOK'
  <2>1. changeMultiDim' \in 0..Len(multiDims') /\ multiDims' \in Seq(Dims)
    BY <1>3
  <2>2. dim' \in 1..(N + 1) /\ key' \in Keys
    BY <1>1, DimAssumption
  <2>3. QED
    BY <2>1, <2>2 DEF IInv, TypeOK, Rows
<1>5. CacheFresh'
  BY DEF IInv, CacheFresh
<1>6. ControlOK'
  BY <1>1, <1>2, <1>3, DimAssumption DEF ControlOK, InLoop, Dims
<1>7. (\A d \in 1..(dim' - 1) : ReaderOK(d)') /\ MultiDimsOK' /\ ResetsOK'
  BY <1>3 DEF MultiDimsOK, ResetsOK
<1>8. QED
  BY <1>4, <1>5, <1>6, <1>7 DEF IInv

LEMMA LeaveInvariant ==
  ASSUME IInv, FinishScan \/ LeaveCell
  PROVE  IInv'
<1> USE DEF FinishScan, LeaveCell, request, prepared, cache, odometer
<1>1. TypeOK'
  BY DEF IInv, TypeOK, Rows
<1>2. CacheFresh' /\ ControlOK' /\ ~InLoop' /\ ResetsOK'
  BY DEF IInv, CacheFresh, ControlOK, InLoop, ResetsOK, Prepared
<1>3. QED
  BY <1>1, <1>2 DEF IInv

\* The reader of the loop, kept or looked up, stands at the beginning of its row.
LEMMA ReaderOfKey ==
  ASSUME TypeOK, CacheFresh, ControlOK, InLoop, NEW d \in Dims
  PROVE  TargetsOfKey(d) = [row |-> Row(d), pos |-> 1]
<1>1. key[d] # NoIdentifier
  BY RowsInLoop
<1>2. prevSourceKey[d] = key[d] => lastTargets[d] = NewReader(parentMaps[d][key[d]])
  BY <1>1 DEF CacheFresh
<1>3. QED
  BY <1>2 DEF TargetsOfKey, Row, NewReader

LEMMA InitParentKeyInvariant ==
  ASSUME IInv, InitParentKey
  PROVE  IInv'
<1> DEFINE reader == TargetsOfKey(dim)
           targets == reader.row
<1>1. pc = "init" /\ dim \in Dims /\ TypeOK /\ CacheFresh /\ ControlOK /\ InLoop /\ ResetsOK
      /\ (\A d \in 1..(dim - 1) : ReaderOK(d)) /\ MultiDimsOK
  BY DEF InitParentKey, IInv, ControlOK, InLoop
<1>2. reader = [row |-> Row(dim), pos |-> 1] /\ targets = Row(dim)
      /\ key[dim] # NoIdentifier /\ key[dim] \in Elements
      /\ key[dim] \in DOMAIN parentMaps[dim] /\ targets \in Rows /\ Len(targets) >= 1
  <2>1. reader = [row |-> Row(dim), pos |-> 1]
    BY <1>1, ReaderOfKey
  <2>2. QED
    BY <1>1, <2>1, RowsInLoop
<1>3. 1 \in 1..Len(targets) /\ Len(targets) \in Nat
  BY <1>2 DEF Rows
<1>4. reader \in [row : Rows, pos : Nat \ {0}] /\ Id(reader) \in Elements /\ WeightAt(reader) \in Int
  BY <1>2, <1>3, ReaderType
<1>5. /\ prevSourceKey' = [prevSourceKey EXCEPT ![dim] = key[dim]]
      /\ lastTargets' = [lastTargets EXCEPT ![dim] = reader]
      /\ parentKey' = [parentKey EXCEPT ![dim] = Id(reader)]
      /\ currentTarget' = [currentTarget EXCEPT ![dim] = reader]
      /\ dim' = dim + 1
      /\ pc' = IF dim = N THEN "add" ELSE "init"
      /\ UNCHANGED <<storage, calcArea, srcArea, parentMaps, unvisited, key, changeMultiDim, resultStorage>>
      /\ \/ Len(targets) > 1 /\ multiDims' = Append(multiDims, dim) /\ fixedWeight' = fixedWeight
         \/ Len(targets) =< 1 /\ fixedWeight' = fixedWeight * WeightAt(reader) /\ multiDims' = multiDims
  BY DEF InitParentKey, request, prepared
<1>6. multiDims \in Seq(Dims) /\ fixedWeight \in Int /\ changeMultiDim = 0 /\ N \in Nat
  BY <1>1, DimAssumption DEF TypeOK, ControlOK
<1>7. \A d \in Dims : Row(d)' = Row(d)
  BY <1>5 DEF Row
<1> HIDE DEF targets, reader
<1>8. TypeOK'
  <2>1. multiDims' \in Seq(Dims) /\ fixedWeight' \in Int
    <3>1. Append(multiDims, dim) \in Seq(Dims)
      BY <1>1, <1>6
    <3>2. \A x, y \in Int : x * y \in Int
      OBVIOUS
    <3>3. fixedWeight * WeightAt(reader) \in Int
      BY <1>4, <1>6, <3>2
    <3>4. QED
      BY <1>5, <1>6, <3>1, <3>3
  <2>2. changeMultiDim' \in 0..Len(multiDims')
    BY <2>1, <1>5, <1>6
  <2>3. dim' \in 1..(N + 1) /\ pc' \in {"add", "init"}
    BY <1>1, <1>5, <1>6 DEF Dims
  <2>4. currentTarget' \in [Dims -> [row : Rows, pos : Nat \ {0}]]
    BY <1>1, <1>4, <1>5 DEF TypeOK
  <2>5. prevSourceKey' \in [Dims -> Elements \cup {NoIdentifier}] 
        /\ lastTargets' \in [Dims -> [row : Rows, pos : Nat \ {0}]]
        /\ parentKey' \in [Dims -> Elements \cup {NoIdentifier}]
    BY <1>1, <1>2, <1>4, <1>5 DEF TypeOK
  <2>6. QED
    BY <1>1, <1>5, <2>1, <2>2, <2>3, <2>4, <2>5 DEF TypeOK
<1>9. CacheFresh'
  BY <1>1, <1>2, <1>5 DEF CacheFresh, TypeOK, Row, NewReader
<1>10. ControlOK'
  <2>1. pc' = "init" => dim' \in Dims
    BY <1>1, <1>5, <1>6 DEF Dims
  <2>2. pc' = "add" => dim' = N + 1
    BY <1>5, <1>6
  <2>3. QED
    BY <1>1, <1>5, <1>6, <2>1, <2>2 DEF ControlOK, InLoop, Prepared
<1>11. \A d \in 1..(dim' - 1) : ReaderOK(d)'
  <2> SUFFICES ASSUME NEW d \in 1..(dim' - 1) PROVE ReaderOK(d)'
    OBVIOUS
  <2>1. d \in Dims
    BY <1>1, <1>5, <1>6 DEF Dims
  <2>2. CASE d = dim
    <3>1. currentTarget'[d] = reader /\ parentKey'[d] = Id(reader)
      BY <1>1, <1>5, <2>2 DEF TypeOK, Keys
    <3>2. reader.row = Row(d) /\ reader.pos \in 1..Len(Row(d))
      BY <1>2, <1>3, <2>2
    <3>3. QED
      BY <1>7, <2>1, <3>1, <3>2 DEF ReaderOK, Id
  <2>3. CASE d # dim
    <3>1. ReaderOK(d)
      BY <1>1, <1>5, <2>1, <2>3 DEF Dims
    <3>2. currentTarget'[d] = currentTarget[d] /\ parentKey'[d] = parentKey[d]
      BY <1>1, <1>5, <2>1, <2>3 DEF TypeOK
    <3>3. QED
      BY <1>7, <2>1, <3>1, <3>2 DEF ReaderOK, Id
  <2>4. QED
    BY <2>2, <2>3
<1>12. MultiDimsOK'
  <2>1. \A i \in DOMAIN multiDims : multiDims[i] \in Dims
    BY <1>6
  <2>2. CASE Len(targets) > 1
    <3>1. multiDims' = Append(multiDims, dim)
      BY <1>2, <1>3, <1>5, <2>2
    <3>2. Len(multiDims') = Len(multiDims) + 1 /\ DOMAIN multiDims' = 1..(Len(multiDims) + 1)
          /\ (\A i \in 1..Len(multiDims) : multiDims'[i] = multiDims[i])
          /\ multiDims'[Len(multiDims) + 1] = dim /\ DOMAIN multiDims = 1..Len(multiDims)
          /\ Len(multiDims) \in Nat
      BY <1>1, <1>6, <3>1
    <3>3. \A i \in DOMAIN multiDims' : multiDims'[i] < dim' /\ Len(Row(multiDims'[i])) > 1
      BY <1>1, <1>2, <1>5, <1>7, <2>1, <2>2, <3>2 DEF MultiDimsOK, Dims
    <3>4. \A d \in 1..(dim' - 1) : Len(Row(d)) > 1 => \E i \in DOMAIN multiDims' : multiDims'[i] = d
      <4> SUFFICES ASSUME NEW d \in 1..(dim' - 1), Len(Row(d)) > 1
                   PROVE  \E i \in DOMAIN multiDims' : multiDims'[i] = d
        OBVIOUS
      <4>1. CASE d = dim
        BY <3>2, <4>1
      <4>2. CASE d # dim
        <5>1. d \in 1..(dim - 1) /\ d \in Dims
          BY <1>1, <1>5, <1>6, <4>2 DEF Dims
        <5>2. PICK i \in DOMAIN multiDims : multiDims[i] = d
          BY <1>1, <1>7, <5>1 DEF MultiDimsOK
        <5>3. QED
          BY <3>2, <5>2
      <4>3. QED
        BY <4>1, <4>2
    <3>5. \A i, j \in DOMAIN multiDims' : i < j => multiDims'[i] < multiDims'[j]
      BY <1>1, <2>1, <3>2 DEF MultiDimsOK, Dims
    <3>6. QED
      BY <1>5, <3>3, <3>4, <3>5 DEF MultiDimsOK, Row
  <2>3. CASE ~(Len(targets) > 1)
    <3>1. multiDims' = multiDims /\ ~(Len(Row(dim)) > 1)
      BY <1>2, <1>3, <1>5, <2>3
    <3>2. \A i \in DOMAIN multiDims : multiDims[i] < dim' /\ Len(Row(multiDims[i])) > 1
      BY <1>1, <1>5, <1>7, <2>1 DEF MultiDimsOK, Dims
    <3>3. \A d \in 1..(dim' - 1) : Len(Row(d)) > 1 => d \in 1..(dim - 1) /\ d \in Dims
      BY <1>1, <1>5, <1>6, <1>7, <3>1 DEF Dims
    <3>4. \A d \in 1..(dim' - 1) : Len(Row(d)) > 1 => \E i \in DOMAIN multiDims : multiDims[i] = d
      BY <1>1, <1>7, <3>3 DEF MultiDimsOK
    <3>5. QED
      BY <1>1, <1>5, <3>1, <3>2, <3>4 DEF MultiDimsOK, Row
  <2>4. QED
    BY <2>2, <2>3
<1>13. ResetsOK'
  <2> SUFFICES ASSUME pc' = "init", NEW d \in 1..(dim' - 1) PROVE currentTarget'[d].pos = 1
    BY <1>5 DEF ResetsOK
  <2>1. d \in Dims /\ (d # dim => d \in 1..(dim - 1))
    BY <1>1, <1>5, <1>6 DEF Dims
  <2>2. QED
    BY <1>1, <1>2, <1>5, <2>1 DEF ResetsOK, TypeOK
<1>14. QED
  BY <1>8, <1>9, <1>10, <1>11, <1>12, <1>13 DEF IInv

LEMMA AddValueInvariant ==
  ASSUME IInv, AddValue
  PROVE  IInv'
<1>1. pc = "add" /\ TypeOK /\ CacheFresh /\ ControlOK /\ InLoop /\ dim = N + 1
      /\ (\A d \in 1..(dim - 1) : ReaderOK(d)) /\ MultiDimsOK
  BY DEF AddValue, IInv, ControlOK, InLoop
<1>2. /\ UNCHANGED <<storage, calcArea, srcArea, parentMaps, unvisited, key, dim, prevSourceKey,
                     lastTargets, currentTarget, parentKey, multiDims, fixedWeight>>
      /\ changeMultiDim' = Len(multiDims) /\ pc' = "next"
      /\ DOMAIN resultStorage' = DOMAIN resultStorage \cup {parentKey}
  BY DEF AddValue, request, prepared, cache, TurnFrom
<1>3. parentKey \in Keys
  <2>1. \A d \in Dims : parentKey[d] \in Elements
    <3> SUFFICES ASSUME NEW d \in Dims PROVE parentKey[d] \in Elements
      OBVIOUS
    <3>1. ReaderOK(d)
      BY <1>1, DimAssumption DEF Dims
    <3>2. Row(d) \in Rows
      BY <1>1, RowsInLoop
    <3>3. currentTarget[d] = [row |-> Row(d), pos |-> currentTarget[d].pos]
      BY <1>1, <3>1 DEF TypeOK, ReaderOK
    <3>4. QED
      BY <3>1, <3>2, <3>3, ReaderType DEF ReaderOK
  <2>2. QED
    BY <1>1, <2>1 DEF TypeOK, Keys
<1>4. TypeOK'
  BY <1>1, <1>2, <1>3 DEF TypeOK, Rows
<1>5. CacheFresh' /\ ControlOK' /\ MultiDimsOK'
  BY <1>1, <1>2 DEF CacheFresh, ControlOK, InLoop, MultiDimsOK, Prepared, Row
<1>6. \A d \in 1..(dim' - 1) : ReaderOK(d)'
  BY <1>1, <1>2 DEF ReaderOK, Row, Id
<1>7. ResetsOK'
  BY <1>1, <1>2 DEF ResetsOK, TypeOK
<1>8. QED
  BY <1>4, <1>5, <1>6, <1>7 DEF IInv

LEMMA TurnReaderInvariant ==
  ASSUME IInv, TurnReader
  PROVE  IInv'
<1> DEFINE d == multiDims[changeMultiDim]
           atEnd == currentTarget[d].pos = Len(currentTarget[d].row)
           pos == IF atEnd THEN 1 ELSE currentTarget[d].pos + 1
           turned == [row |-> Row(d), pos |-> pos]
<1>1. pc = "next" /\ changeMultiDim > 0 /\ TypeOK /\ CacheFresh /\ ControlOK /\ InLoop /\ dim = N + 1
      /\ (\A e \in 1..(dim - 1) : ReaderOK(e)) /\ MultiDimsOK /\ ResetsOK
  BY DEF TurnReader, TurnCurrent, IInv, ControlOK, InLoop
<1>2. changeMultiDim \in 1..Len(multiDims) /\ multiDims \in Seq(Dims) /\ Len(multiDims) \in Nat
      /\ \A i \in 1..Len(multiDims) : multiDims[i] \in Dims
  BY <1>1 DEF TypeOK
<1>3. d \in Dims /\ ReaderOK(d)
  BY <1>1, <1>2, DimAssumption DEF Dims
<1>4. Row(d) \in Rows /\ Len(Row(d)) >= 1 /\ Len(Row(d)) \in Nat
  BY <1>1, <1>3, RowsInLoop DEF Rows
<1>5. pos \in 1..Len(Row(d))
  BY <1>3, <1>4 DEF ReaderOK
<1>6. [currentTarget[d] EXCEPT !.pos = IF atEnd THEN 1 ELSE @ + 1] = turned
  BY <1>1, <1>3 DEF TypeOK, ReaderOK
<1>7. /\ currentTarget' = [currentTarget EXCEPT ![d] = turned]
      /\ parentKey' = [parentKey EXCEPT ![d] = Id(turned)]
      /\ changeMultiDim' = (IF atEnd THEN changeMultiDim - 1 ELSE changeMultiDim)
      /\ pc' = (IF atEnd THEN "next" ELSE "add")
      /\ UNCHANGED <<storage, calcArea, srcArea, parentMaps, unvisited, key, dim, prevSourceKey,
                     lastTargets, multiDims, fixedWeight, resultStorage>>
  BY <1>6 DEF TurnReader, TurnCurrent, KeyAfter, request, prepared, cache
<1>8. turned \in [row : Rows, pos : Nat \ {0}] /\ Id(turned) \in Elements
  BY <1>4, <1>5, ReaderType
<1> HIDE DEF turned, atEnd, pos
<1>9. TypeOK'
  <2>1. changeMultiDim' \in 0..Len(multiDims')
    BY <1>2, <1>7
  <2>2. currentTarget' \in [Dims -> [row : Rows, pos : Nat \ {0}]]
        /\ parentKey' \in [Dims -> Elements \cup {NoIdentifier}]
    BY <1>1, <1>3, <1>7, <1>8 DEF TypeOK
  <2>3. QED
    BY <1>1, <1>7, <2>1, <2>2 DEF TypeOK, Rows
<1>10. CacheFresh' /\ MultiDimsOK'
  BY <1>1, <1>7 DEF CacheFresh, MultiDimsOK, Row
<1>11. ControlOK'
  BY <1>1, <1>7 DEF ControlOK, InLoop, Prepared
<1>12. \A e \in 1..(dim' - 1) : ReaderOK(e)'
  <2> SUFFICES ASSUME NEW e \in 1..(dim' - 1) PROVE ReaderOK(e)'
    OBVIOUS
  <2>1. e \in Dims /\ ReaderOK(e) /\ Row(e)' = Row(e)
    BY <1>1, <1>7, DimAssumption DEF Dims, Row
  <2>2. CASE e = d
    <3>1. currentTarget'[e] = turned /\ parentKey'[e] = Id(turned)
      BY <1>1, <1>3, <1>7, <2>2 DEF TypeOK
    <3>2. QED
      BY <1>5, <2>1, <2>2, <3>1 DEF ReaderOK, turned, Id
  <2>3. CASE e # d
    <3>1. currentTarget'[e] = currentTarget[e] /\ parentKey'[e] = parentKey[e]
      BY <1>1, <1>7, <2>1, <2>3 DEF TypeOK
    <3>2. QED
      BY <2>1, <3>1 DEF ReaderOK, Id
  <2>4. QED
    BY <2>2, <2>3
<1>13. ResetsOK'
  <2> SUFFICES ASSUME pc' = "next", NEW i \in (changeMultiDim' + 1)..Len(multiDims')
               PROVE  currentTarget'[multiDims'[i]].pos = 1
    BY <1>7 DEF ResetsOK
  <2>1. atEnd /\ i \in changeMultiDim..Len(multiDims) /\ multiDims' = multiDims
    BY <1>2, <1>7
  <2>2. CASE i = changeMultiDim
    BY <1>1, <1>3, <1>7, <2>1, <2>2 DEF TypeOK, turned, pos
  <2>3. CASE i # changeMultiDim
    <3>1. i \in (changeMultiDim + 1)..Len(multiDims)
      BY <1>2, <2>1, <2>3
    <3>2. multiDims[i] # d /\ multiDims[i] \in Dims
      BY <1>1, <1>2, <3>1, SMTT(30) DEF MultiDimsOK, Dims
    <3>3. QED
      BY <1>1, <1>7, <2>1, <3>1, <3>2 DEF ResetsOK, TypeOK
  <2>4. QED
    BY <2>2, <2>3
<1>14. QED
  BY <1>9, <1>10, <1>11, <1>12, <1>13 DEF IInv

LEMMA StutterInvariant ==
  ASSUME IInv, UNCHANGED vars
  PROVE  IInv'
BY DEF IInv, TypeOK, CacheFresh, ControlOK, InLoop, MultiDimsOK, ReaderOK, ResetsOK, Prepared, Row,
       Rows, Id, vars, request, prepared, cache, odometer

-----------------------------------------------------------------------------

\* The inductive invariant: expandBase has prepared every row before the scan
\* starts, the dimensions initParentKey has set up have their reader in the row of
\* the current cell, multiDims lists those with several targets in order, and the
\* readers nextParentKey has passed stand at their first target again.
THEOREM Invariance == Spec => []IInv
<1>1. IInv /\ [Next]_vars => IInv'
  <2> SUFFICES ASSUME IInv, [Next]_vars PROVE IInv'
    OBVIOUS
  <2>1. ASSUME ExpandBase PROVE IInv'
    BY <2>1, ExpandBaseInvariant
  <2>2. ASSUME NEW cell \in unvisited, SkipCell(cell) \/ EnterCell(cell) PROVE IInv'
    BY <2>2, SkipCellInvariant, EnterCellInvariant
  <2>3. ASSUME FinishScan \/ LeaveCell PROVE IInv'
    BY <2>3, LeaveInvariant
  <2>4. ASSUME InitParentKey PROVE IInv'
    BY <2>4, InitParentKeyInvariant
  <2>5. ASSUME AddValue \/ TurnReader PROVE IInv'
    BY <2>5, AddValueInvariant, TurnReaderInvariant
  <2>6. ASSUME UNCHANGED vars PROVE IInv'
    BY <2>6, StutterInvariant
  <2>7. QED
    BY <2>1, <2>2, <2>3, <2>4, <2>5, <2>6 DEF Next
<1>2. QED
  BY <1>1, InitInvariant, PTL DEF Spec

\* The processor keeps its types: readers always point into the elements, the
\* position in multiDims never leaves it, and target cells are cells of the cube.
THEOREM TypeCorrect == Spec => []TypeOK
<1>1. IInv => TypeOK
  BY DEF IInv
<1>2. QED
  BY <1>1, Invariance, PTL

\* The reader that initParentKey keeps per dimension is always the reader of the
\* coordinate it is kept for.
THEOREM CacheIsFresh == Spec => []CacheFresh
<1>1. IInv => CacheFresh
  BY DEF IInv
<1>2. QED
  BY <1>1, Invariance, PTL

\* Whenever aggregateCell adds a value, target key, readers, source cell and
\* multiDims agree.
THEOREM OdometerIsCoherent == Spec => []OdometerCoherent
<1>1. IInv => OdometerCoherent
  <2> SUFFICES ASSUME IInv, pc = "add", NEW d \in Dims
               PROVE  /\ currentTarget[d].row = parentMaps[d][key[d]]
                      /\ currentTarget[d].pos \in DOMAIN currentTarget[d].row
                      /\ parentKey[d] = Id(currentTarget[d])
                      /\ d \in Range(multiDims) <=> Len(currentTarget[d].row) > 1
    BY DEF OdometerCoherent
  <2>1. InLoop /\ TypeOK /\ ControlOK /\ dim = N + 1 /\ MultiDimsOK
    BY DEF IInv, ControlOK, InLoop
  <2>2. ReaderOK(d) /\ d \in 1..(dim - 1)
    BY <2>1, DimAssumption DEF IInv, Dims
  <2>3. Row(d) \in Rows
    BY <2>1, RowsInLoop
  <2>4. DOMAIN Row(d) = 1..Len(Row(d))
    BY <2>3 DEF Rows
  <2>5. d \in Range(multiDims) <=> Len(Row(d)) > 1
    BY <2>1, <2>2 DEF MultiDimsOK, Range
  <2>6. QED
    BY <2>2, <2>4, <2>5 DEF ReaderOK, Row
<1>2. QED
  BY <1>1, Invariance, PTL

-----------------------------------------------------------------------------
(* The odometer as an order on vectors of positions: c comes after p, as far *)
(* as the first n of the dimensions m tell.                                  *)

Beyond(c, p, m, n) ==
  \E i \in 1..n : c[m[i]] > p[m[i]] /\ \A j \in 1..(i - 1) : c[m[j]] = p[m[j]]

\* Behind a common prefix the vector with every later position 1 is the first.
LEMMA FirstOfPrefix ==
  ASSUME NEW m \in Seq(Dims), NEW k \in 0..Len(m),
         NEW c \in [Dims -> Nat \ {0}], NEW p \in [Dims -> Nat \ {0}],
         \A j \in 1..k : c[m[j]] = p[m[j]],
         \A j \in (k + 1)..Len(m) : p[m[j]] = 1,
         \A d \in Dims : c[d] # p[d] => \E i \in 1..Len(m) : m[i] = d
  PROVE  c = p \/ Beyond(c, p, m, Len(m))
<1> DEFINE differs == {j \in 1..Len(m) : c[m[j]] # p[m[j]]}
<1>1. CASE differs = {}
  <2>1. \A d \in Dims : c[d] = p[d]
    BY <1>1, SMTT(60)
  <2>2. QED
    BY <2>1
<1>2. CASE differs # {}
  <2>1. PICK i \in differs : \A j \in differs : i =< j
    <3>1. differs \subseteq Nat
      OBVIOUS
    <3> HIDE DEF differs
    <3>2. QED
      BY <1>2, <3>1, MinExists
  <2>2. i \in 1..Len(m) /\ i \in (k + 1)..Len(m) /\ m[i] \in Dims
    BY <2>1
  <2>3. \A j \in 1..(i - 1) : c[m[j]] = p[m[j]]
    BY <2>1, <2>2
  <2>4. c[m[i]] > p[m[i]]
    BY <2>1, <2>2
  <2>5. QED
    BY <2>2, <2>3, <2>4 DEF Beyond
<1>3. QED
  BY <1>1, <1>2

\* Taking one step at position k, behind which every position is 1, passes over
\* nothing: what comes after p is the new vector and what comes after that.
LEMMA NextVector ==
  ASSUME NEW m \in Seq(Dims), NEW k \in 1..Len(m),
         NEW c \in [Dims -> Nat \ {0}], NEW p \in [Dims -> Nat \ {0}],
         \A i, j \in 1..Len(m) : i # j => m[i] # m[j],
         \A j \in (k + 1)..Len(m) : p[m[j]] = 1,
         \A d \in Dims : c[d] # p[d] => \E i \in 1..Len(m) : m[i] = d,
         NEW q, q = [p EXCEPT ![m[k]] = p[m[k]] + 1]
  PROVE  Beyond(c, p, m, k) <=> c = q \/ Beyond(c, q, m, Len(m))
<1>1. Len(m) \in Nat /\ k \in Nat /\ \A i \in 1..Len(m) : m[i] \in Dims
  OBVIOUS
<1>2. q \in [Dims -> Nat \ {0}] /\ q[m[k]] = p[m[k]] + 1
  BY <1>1
<1>3. \A i \in 1..Len(m) : i # k => q[m[i]] = p[m[i]]
  BY <1>1
<1>4. ASSUME Beyond(c, p, m, k) PROVE c = q \/ Beyond(c, q, m, Len(m))
  <2>1. PICK i \in 1..k : c[m[i]] > p[m[i]] /\ \A j \in 1..(i - 1) : c[m[j]] = p[m[j]]
    BY <1>4 DEF Beyond
  <2>2. i \in 1..Len(m) /\ \A j \in 1..(i - 1) : c[m[j]] = q[m[j]]
    <3>1. \A j \in 1..(i - 1) : j \in 1..Len(m) /\ j # k /\ c[m[j]] = p[m[j]]
      BY <1>1, <2>1, SMTT(60)
    <3>2. \A j \in 1..(i - 1) : c[m[j]] = q[m[j]]
      BY <1>3, <3>1
    <3>3. i \in 1..Len(m)
      BY <1>1
    <3>4. QED
      BY <3>2, <3>3
  <2>3. CASE i # k \/ c[m[k]] > q[m[k]]
    BY <1>3, <2>1, <2>2, <2>3 DEF Beyond
  <2>4. CASE i = k /\ c[m[k]] = q[m[k]]
    <3>1. \A j \in 1..k : c[m[j]] = q[m[j]]
      BY <2>2, <2>4, SMTT(60)
    <3>2. \A j \in (k + 1)..Len(m) : q[m[j]] = 1
      BY <1>3
    <3>3. \A d \in Dims : c[d] # q[d] => \E j \in 1..Len(m) : m[j] = d
      BY <1>1
    <3>4. k \in 0..Len(m)
      OBVIOUS
    <3>5. QED
      BY <1>2, <3>1, <3>2, <3>3, <3>4, FirstOfPrefix, ZenonT(60)
  <2>5. QED
    BY <1>1, <1>2, <2>1, <2>3, <2>4
<1>5. ASSUME c = q PROVE Beyond(c, p, m, k)
  BY <1>1, <1>2, <1>3, <1>5, SMTT(30) DEF Beyond
<1>6. ASSUME Beyond(c, q, m, Len(m)) PROVE Beyond(c, p, m, k)
  <2>1. PICK i \in 1..Len(m) : c[m[i]] > q[m[i]] /\ \A j \in 1..(i - 1) : c[m[j]] = q[m[j]]
    BY <1>6 DEF Beyond
  <2>2. CASE i =< k
    <3>1. c[m[i]] > p[m[i]]
      BY <1>1, <1>2, <1>3, <2>1
    <3>2. \A j \in 1..(i - 1) : c[m[j]] = p[m[j]]
      <4>1. \A j \in 1..(i - 1) : j \in 1..Len(m) /\ j # k /\ c[m[j]] = q[m[j]]
        BY <1>1, <2>1, <2>2, SMTT(60)
      <4>2. QED
        BY <1>3, <4>1
    <3>3. QED
      BY <2>2, <3>1, <3>2 DEF Beyond
  <2>3. CASE i > k
    <3>1. c[m[k]] > p[m[k]]
      BY <1>1, <1>2, <2>1, <2>3
    <3>2. \A j \in 1..(k - 1) : c[m[j]] = p[m[j]]
      <4>1. \A j \in 1..(k - 1) : j \in 1..Len(m) /\ j # k /\ c[m[j]] = q[m[j]]
        BY <1>1, <2>1, <2>3, SMTT(60)
      <4>2. QED
        BY <1>3, <4>1
    <3>3. QED
      BY <3>1, <3>2 DEF Beyond
  <2>4. QED
    BY <2>2, <2>3
<1>7. QED
  BY <1>4, <1>5, <1>6

\* When position k is at its end, the vectors after p differ before k.
LEMMA CarryVector ==
  ASSUME NEW m \in Seq(Dims), NEW k \in 1..Len(m),
         NEW c \in [Dims -> Nat \ {0}], NEW p \in [Dims -> Nat \ {0}],
         \A i, j \in 1..Len(m) : i # j => m[i] # m[j],
         c[m[k]] =< p[m[k]],
         NEW q, q = [p EXCEPT ![m[k]] = 1]
  PROVE  Beyond(c, p, m, k) <=> Beyond(c, q, m, k - 1)
<1>1. Len(m) \in Nat /\ k \in Nat /\ \A i \in 1..Len(m) : m[i] \in Dims
  OBVIOUS
<1>2. \A i \in 1..(k - 1) : q[m[i]] = p[m[i]]
  BY <1>1
<1>3. ASSUME Beyond(c, p, m, k) PROVE Beyond(c, q, m, k - 1)
  <2>1. PICK i \in 1..k : c[m[i]] > p[m[i]] /\ \A j \in 1..(i - 1) : c[m[j]] = p[m[j]]
    BY <1>3 DEF Beyond
  <2>2. i \in 1..(k - 1)
    BY <1>1, <2>1
  <2>3. QED
    <3>1. \A j \in 1..(i - 1) : j \in 1..(k - 1) /\ c[m[j]] = q[m[j]]
      BY <1>1, <1>2, <2>1, <2>2, SMTT(60)
    <3>2. c[m[i]] > q[m[i]]
      BY <1>2, <2>1, <2>2
    <3>3. QED
      BY <2>2, <3>1, <3>2 DEF Beyond
<1>4. ASSUME Beyond(c, q, m, k - 1) PROVE Beyond(c, p, m, k)
  <2>1. PICK i \in 1..(k - 1) : c[m[i]] > q[m[i]] /\ \A j \in 1..(i - 1) : c[m[j]] = q[m[j]]
    BY <1>4 DEF Beyond
  <2>2. QED
    <3>1. \A j \in 1..(i - 1) : j \in 1..(k - 1) /\ c[m[j]] = p[m[j]]
      <4>1. \A j \in 1..(i - 1) : j \in 1..(k - 1) /\ c[m[j]] = q[m[j]]
        BY <1>1, <2>1
      <4>2. QED
        BY <1>2, <4>1
    <3>2. c[m[i]] > p[m[i]] /\ i \in 1..k
      BY <1>1, <1>2, <2>1
    <3>3. QED
      BY <3>1, <3>2 DEF Beyond
<1>5. QED
  BY <1>3, <1>4

-----------------------------------------------------------------------------
(* What remains of a cell, in terms of that order.                           *)

LEMMA CombinationsAre ==
  ASSUME TypeOK, ControlOK, InLoop
  PROVE  Combinations(parentMaps, key) =
           {c \in [Dims -> Nat \ {0}] : \A d \in Dims : c[d] =< Len(Row(d))}
<1> DEFINE lengths == [d \in Dims |-> Len(Row(d))]
<1>1. \A d \in Dims : Len(Row(d)) \in Nat
  BY RowsInLoop DEF Rows
<1>2. Combinations(parentMaps, key) =
        {c \in [Dims -> UNION {1..lengths[d] : d \in Dims}] : \A d \in Dims : c[d] =< lengths[d]}
  BY DEF Combinations, Row
<1>3. ASSUME NEW c \in [Dims -> Nat \ {0}], \A d \in Dims : c[d] =< Len(Row(d))
      PROVE  c \in [Dims -> UNION {1..lengths[d] : d \in Dims}]
  <2>1. \A d \in Dims : c[d] \in 1..lengths[d]
    BY <1>1, <1>3
  <2>2. QED
    BY <2>1
<1>4. [Dims -> UNION {1..lengths[d] : d \in Dims}] \subseteq [Dims -> Nat \ {0}]
  BY <1>1, SMTT(30)
<1>5. QED
  BY <1>2, <1>3, <1>4

LEMMA AfterIsBeyond ==
  ASSUME TypeOK, NEW n \in 0..Len(multiDims), NEW c
  PROVE  After(c, n) <=> Beyond(c, Positions, multiDims, n)
<1>1. \A i \in 1..n : multiDims[i] \in Dims /\ Positions[multiDims[i]] = currentTarget[multiDims[i]].pos
  BY DEF TypeOK, Positions
<1>2. QED
  BY <1>1 DEF After, Beyond

LEMMA AtIsPositions ==
  ASSUME NEW c, c \in [Dims -> Nat \ {0}]
  PROVE  At(c) <=> c = Positions
BY DEF At, Positions

\* When all readers of the cell are set up: positions in their rows, and outside
\* multiDims there is only one.
LEMMA PositionsType ==
  ASSUME IInv, pc \in {"add", "next"}
  PROVE  /\ Positions \in Combinations(parentMaps, key) /\ Positions \in [Dims -> Nat \ {0}]
         /\ \A c \in Combinations(parentMaps, key) :
              /\ c \in [Dims -> Nat \ {0}]
              /\ \A d \in Dims : c[d] # Positions[d] => \E i \in 1..Len(multiDims) : multiDims[i] = d
<1>1. InLoop /\ TypeOK /\ ControlOK /\ dim = N + 1 /\ MultiDimsOK /\ N \in Nat
      /\ \A d \in 1..(dim - 1) : ReaderOK(d)
  BY DimAssumption DEF IInv, ControlOK, InLoop
<1>2. \A d \in Dims : d \in 1..(dim - 1) /\ ReaderOK(d) /\ Len(Row(d)) \in Nat
  BY <1>1, RowsInLoop DEF Dims, Rows
<1>3. \A d \in Dims : Positions[d] \in 1..Len(Row(d))
  BY <1>2 DEF ReaderOK, Positions
<1>4. Positions \in [Dims -> Nat \ {0}]
  BY <1>1 DEF TypeOK, Positions
<1>5. Positions \in Combinations(parentMaps, key)
  BY <1>1, <1>2, <1>3, <1>4, CombinationsAre
<1>6. ASSUME NEW c \in Combinations(parentMaps, key)
      PROVE  /\ c \in [Dims -> Nat \ {0}]
             /\ \A d \in Dims : c[d] # Positions[d] => \E i \in 1..Len(multiDims) : multiDims[i] = d
  <2>1. c \in [Dims -> Nat \ {0}] /\ \A d \in Dims : c[d] =< Len(Row(d))
    BY <1>1, <1>6, CombinationsAre
  <2>2. \A d \in Dims : c[d] # Positions[d] => Len(Row(d)) > 1
    BY <1>2, <1>3, <2>1
  <2>3. DOMAIN multiDims = 1..Len(multiDims)
    BY <1>1 DEF TypeOK
  <2>4. QED
    BY <1>1, <1>2, <2>1, <2>2, <2>3 DEF MultiDimsOK
<1>7. QED
  BY <1>4, <1>5, <1>6

LEMMA SetUpRemains ==
  ASSUME IInv, IInv', InitParentKey
  PROVE  Remaining' = Remaining
<1> DEFINE combos == Combinations(parentMaps, key)
<1>1. pc = "init" /\ dim \in Dims /\ InLoop /\ TypeOK /\ ControlOK /\ ResetsOK /\ dim' = dim + 1
      /\ pc' = (IF dim = N THEN "add" ELSE "init") /\ parentMaps' = parentMaps /\ key' = key
      /\ currentTarget' = [currentTarget EXCEPT ![dim] = [row |-> Row(dim), pos |-> 1]]
  <2>1. pc = "init" /\ dim \in Dims /\ InLoop /\ TypeOK /\ CacheFresh /\ ControlOK /\ ResetsOK
    BY DEF IInv, ControlOK, InLoop, InitParentKey
  <2>2. TargetsOfKey(dim) = [row |-> Row(dim), pos |-> 1]
    BY <2>1, ReaderOfKey
  <2>3. QED
    BY <2>1, <2>2 DEF InitParentKey, prepared
<1>2. Remaining = combos /\ combos' = combos
  BY <1>1 DEF Remaining, Pending, Combinations
<1>3. CASE dim # N
  <2>1. Remaining' = combos'
    BY <1>1, <1>3 DEF Remaining, Pending
  <2>2. QED
    BY <1>2, <2>1
<1>4. CASE dim = N
  <2>1. pc' = "add" /\ InLoop' /\ TypeOK' /\ MultiDimsOK' /\ dim' = N + 1 /\ N \in Nat
    BY <1>1, <1>4, DimAssumption DEF IInv, InLoop
  <2>2. \A d \in Dims : currentTarget'[d].pos = 1
    <3>1. currentTarget \in [Dims -> [row : Rows, pos : Nat \ {0}]]
      BY <1>1 DEF TypeOK
    <3>2. \A d \in Dims : d # dim => currentTarget[d].pos = 1
      BY <1>1, <1>4, DimAssumption DEF ResetsOK, Dims
    <3>3. QED
      BY <1>1, <3>1, <3>2
  <2>3. Positions' \in [Dims -> Nat \ {0}] /\ \A d \in Dims : Positions'[d] = 1
    BY <2>2 DEF Positions
  <2>4. multiDims' \in Seq(Dims) /\ Len(multiDims') \in Nat
    BY <2>1 DEF TypeOK
  <2> DEFINE n == Len(multiDims')
  <2>5. ASSUME NEW c \in combos
        PROVE  At(c)' \/ (After(c, Len(multiDims)))'
    <3>1. c \in [Dims -> Nat \ {0}] /\ \A d \in Dims : c[d] =< Len(Row(d))
      BY <1>1, <2>5, CombinationsAre
    <3>2. \A d \in Dims : Len(Row(d)) \in Nat
      BY <1>1, RowsInLoop DEF Rows
    <3>3. \A d \in Dims : c[d] # Positions'[d] => Len(Row(d)) > 1 /\ d \in 1..(dim' - 1)
      BY <2>1, <2>3, <3>1, <3>2 DEF Dims
    <3>4. \A d \in Dims : c[d] # Positions'[d] => \E i \in 1..n : multiDims'[i] = d
      <4>1. \A d \in 1..(dim' - 1) : Len(Row(d)) > 1 => \E i \in DOMAIN multiDims' : multiDims'[i] = d
        BY <1>1, <2>1 DEF MultiDimsOK, Row
      <4>2. DOMAIN multiDims' = 1..n
        BY <2>4
      <4>3. QED
        BY <3>3, <4>1, <4>2
    <3>5. 0 \in 0..n /\ (\A j \in 1..0 : c[multiDims'[j]] = Positions'[multiDims'[j]])
          /\ \A j \in (0 + 1)..n : Positions'[multiDims'[j]] = 1
      BY <2>3, <2>4
    <3>6. c = Positions' \/ Beyond(c, Positions', multiDims', n)
      BY <2>3, <2>4, <3>1, <3>4, <3>5, FirstOfPrefix
    <3>7. \A i \in 1..n : multiDims'[i] \in Dims /\ Positions'[multiDims'[i]] = currentTarget'[multiDims'[i]].pos
      BY <2>4 DEF Positions
    <3>8. CASE c = Positions'
      BY <3>8 DEF At, Positions
    <3>9. CASE Beyond(c, Positions', multiDims', n)
      <4>1. PICK i \in 1..n : /\ c[multiDims'[i]] > Positions'[multiDims'[i]]
                              /\ \A j \in 1..(i - 1) : c[multiDims'[j]] = Positions'[multiDims'[j]]
        BY <3>9 DEF Beyond
      <4>2. c[multiDims'[i]] > currentTarget'[multiDims'[i]].pos
        BY <3>7, <4>1
      <4>3. \A j \in 1..(i - 1) : j \in 1..n
        BY <2>4, <4>1
      <4>4. \A j \in 1..(i - 1) : c[multiDims'[j]] = currentTarget'[multiDims'[j]].pos
        BY <3>7, <4>1, <4>3
      <4>5. QED
        BY <4>2, <4>4 DEF After
    <3>10. QED
      BY <3>6, <3>8, <3>9
  <2>6. Remaining' = {c \in combos' : At(c)' \/ (After(c, Len(multiDims)))'}
    BY <2>1 DEF Remaining, Pending, At, After
  <2> HIDE DEF combos
  <2>7. QED
    BY <1>2, <2>5, <2>6
<1>5. QED
  BY <1>3, <1>4

LEMMA AddTakesNext ==
  ASSUME IInv, AddValue
  PROVE  Positions \in Remaining /\ Remaining' = Remaining \ {Positions}
<1> DEFINE combos == Combinations(parentMaps, key)
           n == Len(multiDims)
<1>1. pc = "add" /\ TypeOK /\ pc' = "next" /\ changeMultiDim' = n
      /\ parentMaps' = parentMaps /\ key' = key /\ multiDims' = multiDims /\ currentTarget' = currentTarget
  BY DEF IInv, AddValue, TurnFrom, prepared
<1>2. Positions \in combos /\ \A c \in combos : c \in [Dims -> Nat \ {0}]
  BY <1>1, PositionsType
<1>3. Remaining = {c \in combos : At(c) \/ After(c, n)}
  BY <1>1 DEF Remaining, Pending
<1>4. Remaining' = {c \in combos : After(c, n)}
  <2>1. combos' = combos
    BY <1>1 DEF Combinations
  <2>2. Remaining' = {c \in combos' : (After(c, changeMultiDim))'}
    BY <1>1 DEF Remaining, Pending, After
  <2>3. \A c \in combos : (After(c, changeMultiDim))' <=> After(c, n)
    BY <1>1 DEF After
  <2> HIDE DEF combos
  <2>4. QED
    BY <2>1, <2>2, <2>3
<1>5. \A c \in combos : At(c) <=> c = Positions
  BY <1>2, AtIsPositions
<1>6. ~After(Positions, n)
  <2>1. n \in 0..Len(multiDims) /\ \A i \in 1..n : multiDims[i] \in Dims
    BY <1>1 DEF TypeOK
  <2>2. \A d \in Dims : Positions[d] \in Nat /\ Positions[d] = currentTarget[d].pos
    BY <1>1 DEF TypeOK, Positions
  <2>3. QED
    BY <2>1, <2>2 DEF After
<1> HIDE DEF combos, n
<1>7. QED
  BY <1>2, <1>3, <1>4, <1>5, <1>6

LEMMA TurnLosesNothing ==
  ASSUME IInv, TurnReader
  PROVE  Remaining' = Remaining
<1> DEFINE combos == Combinations(parentMaps, key)
           n == Len(multiDims)
           k == changeMultiDim
           d == multiDims[k]
           atEnd == currentTarget[d].pos = Len(currentTarget[d].row)
           P == Positions
           Q == Positions'
<1>1. pc = "next" /\ k > 0 /\ TypeOK /\ ControlOK /\ InLoop /\ dim = N + 1 /\ N \in Nat
      /\ MultiDimsOK /\ ResetsOK /\ (\A e \in 1..(dim - 1) : ReaderOK(e))
  BY DimAssumption DEF TurnReader, TurnCurrent, IInv, ControlOK, InLoop
<1>2. k \in 1..n /\ multiDims \in Seq(Dims) /\ n \in Nat /\ \A i \in 1..n : multiDims[i] \in Dims
  BY <1>1 DEF TypeOK
<1>3. /\ currentTarget' = [currentTarget EXCEPT ![d] =
                             [currentTarget[d] EXCEPT !.pos = IF atEnd THEN 1 ELSE @ + 1]]
      /\ changeMultiDim' = (IF atEnd THEN k - 1 ELSE k)
      /\ pc' = (IF atEnd THEN "next" ELSE "add")
      /\ parentMaps' = parentMaps /\ key' = key /\ multiDims' = multiDims
  BY DEF TurnReader, TurnCurrent, prepared
<1>4. d \in Dims /\ ReaderOK(d) /\ P \in [Dims -> Nat \ {0}]
  BY <1>1, <1>2, PositionsType DEF Dims
<1>5. Q = [P EXCEPT ![d] = IF atEnd THEN 1 ELSE P[d] + 1]
  <2>1. currentTarget \in [Dims -> [row : Rows, pos : Nat \ {0}]]
    BY <1>1 DEF TypeOK
  <2>2. \A e \in Dims : currentTarget'[e].pos =
          IF e = d THEN (IF atEnd THEN 1 ELSE currentTarget[e].pos + 1) ELSE currentTarget[e].pos
    BY <1>3, <1>4, <2>1
  <2> HIDE DEF d, atEnd
  <2>3. QED
    BY <1>4, <2>2 DEF Positions
<1>6. \A i, j \in 1..n : i # j => multiDims[i] # multiDims[j]
  <2>1. \A i, j \in 1..n : i < j => multiDims[i] < multiDims[j]
    BY <1>1, <1>2 DEF MultiDimsOK
  <2>2. \A i \in 1..n : multiDims[i] \in Nat
    BY <1>2 DEF Dims
  <2>3. QED
    BY <1>2, <2>1, <2>2
<1>7. combos' = combos /\ \A c \in combos :
        /\ c \in [Dims -> Nat \ {0}] /\ c[d] =< Len(Row(d))
        /\ \A e \in Dims : c[e] # P[e] => \E i \in 1..n : multiDims[i] = e
  <2>1. combos' = combos
    BY <1>3 DEF Combinations
  <2>2. \A c \in combos : c[d] =< Len(Row(d))
    BY <1>1, <1>4, CombinationsAre
  <2>3. QED
    BY <1>1, <2>1, <2>2, PositionsType
<1>8. Remaining = {c \in combos : Beyond(c, P, multiDims, k)}
  <2>1. Remaining = {c \in combos : After(c, k)}
    BY <1>1 DEF Remaining, Pending
  <2>2. \A c \in combos : After(c, k) <=> Beyond(c, P, multiDims, k)
    BY <1>1, <1>2, AfterIsBeyond
  <2> HIDE DEF combos, P, k
  <2>3. QED
    BY <2>1, <2>2
<1>9. \A i \in 1..n : Q[multiDims[i]] = currentTarget'[multiDims[i]].pos
  BY <1>2 DEF Positions
<1>10. CASE atEnd
  <2>1. Remaining' = {c \in combos' : (After(c, changeMultiDim))'}
    BY <1>3, <1>10 DEF Remaining, Pending, After
  <2>2. \A c \in combos : (After(c, changeMultiDim))' <=> Beyond(c, Q, multiDims, k - 1)
    <3>1. changeMultiDim' = k - 1 /\ multiDims' = multiDims
      BY <1>3, <1>10
    <3>2. \A i \in 1..(k - 1) : Q[multiDims[i]] = currentTarget'[multiDims[i]].pos
      BY <1>2, <1>9
    <3>3. \A i \in 1..(k - 1) : \A j \in 1..(i - 1) : j \in 1..(k - 1)
      BY <1>2
    <3> HIDE DEF combos, k, Q
    <3>4. QED
      BY <3>1, <3>2, <3>3 DEF After, Beyond
  <2>3. ASSUME NEW c \in combos
        PROVE  Beyond(c, P, multiDims, k) <=> Beyond(c, Q, multiDims, k - 1)
    <3>1. c \in [Dims -> Nat \ {0}] /\ c[d] =< P[d]
      BY <1>4, <1>7, <1>10 DEF ReaderOK, Positions
    <3>2. Q = [P EXCEPT ![multiDims[k]] = 1]
      BY <1>5, <1>10
    <3> HIDE DEF combos, n, k, P, Q, atEnd
    <3>3. k \in 1..Len(multiDims) /\ \A i, j \in 1..Len(multiDims) : i # j => multiDims[i] # multiDims[j]
      BY <1>2, <1>6 DEF n
    <3>4. QED
      BY <1>2, <1>4, <3>1, <3>2, <3>3, CarryVector
  <2> HIDE DEF combos, n, k, P, Q, atEnd
  <2>4. QED
    BY <1>7, <1>8, <2>1, <2>2, <2>3
<1>11. CASE ~atEnd
  <2>1. Remaining' = {c \in combos' : At(c)' \/ (After(c, Len(multiDims)))'}
    BY <1>3, <1>11 DEF Remaining, Pending, At, After
  <2>2. \A c \in combos : (After(c, Len(multiDims)))' <=> Beyond(c, Q, multiDims, n)
    BY <1>2, <1>3, <1>9 DEF After, Beyond
  <2>3. \A c \in combos : At(c)' <=> c = Q
    BY <1>7 DEF At, Positions
  <2>4. ASSUME NEW c \in combos
        PROVE  Beyond(c, P, multiDims, k) <=> c = Q \/ Beyond(c, Q, multiDims, n)
    <3>1. c \in [Dims -> Nat \ {0}]
          /\ \A e \in Dims : c[e] # P[e] => \E i \in 1..n : multiDims[i] = e
      BY <1>7
    <3>2. Q = [P EXCEPT ![multiDims[k]] = P[multiDims[k]] + 1]
      BY <1>5, <1>11
    <3>3. \A j \in (k + 1)..n : P[multiDims[j]] = 1
      BY <1>1, <1>2 DEF ResetsOK, Positions
    <3>4. /\ k \in 1..Len(multiDims)
          /\ \A i, j \in 1..Len(multiDims) : i # j => multiDims[i] # multiDims[j]
          /\ \A j \in (k + 1)..Len(multiDims) : P[multiDims[j]] = 1
          /\ \A e \in Dims : c[e] # P[e] => \E i \in 1..Len(multiDims) : multiDims[i] = e
      BY <1>2, <1>6, <3>1, <3>3
    <3> HIDE DEF combos, k, P, Q, atEnd
    <3>5. QED
      BY <1>2, <1>4, <3>1, <3>2, <3>4, NextVector
  <2> HIDE DEF combos, n, k, P, Q, atEnd
  <2>5. QED
    BY <1>7, <1>8, <2>1, <2>2, <2>3, <2>4
<1>12. QED
  BY <1>10, <1>11

\* The odometer adds every combination of targets of every source cell exactly
\* once, for any number of dimensions and any number of targets in each.
THEOREM CombinationsAddedOnce == Spec => CombinationsOnce
<1> DEFINE A == /\ pc \in {"init", "next"} => Remaining' = Remaining
                /\ pc = "add" => Positions \in Remaining /\ Remaining' = Remaining \ {Positions}
<1>1. ASSUME IInv, IInv', [Next]_vars PROVE [A]_vars
  <2> SUFFICES ASSUME Next PROVE A
    BY <1>1
  <2>1. ASSUME InitParentKey PROVE A
    BY <1>1, <2>1, SetUpRemains DEF InitParentKey
  <2>2. ASSUME AddValue PROVE A
    BY <1>1, <2>2, AddTakesNext DEF AddValue
  <2>3. ASSUME TurnReader PROVE A
    BY <1>1, <2>3, TurnLosesNothing DEF TurnReader, TurnCurrent
  <2>4. ASSUME LeaveCell PROVE A
    <3>1. pc = "next" /\ pc' = "scan" /\ changeMultiDim = 0
      BY <2>4 DEF LeaveCell
    <3>2. Remaining' = {}
      BY <3>1 DEF Remaining
    <3>3. \A c : ~After(c, 0)
      BY DEF After
    <3>4. Remaining = {}
      BY <3>1, <3>3 DEF Remaining, Pending
    <3>5. QED
      BY <3>1, <3>2, <3>4
  <2>5. ASSUME \/ ExpandBase \/ FinishScan
               \/ \E cell \in unvisited : SkipCell(cell) \/ EnterCell(cell)
        PROVE  A
    BY <2>5 DEF ExpandBase, FinishScan, SkipCell, EnterCell
  <2>6. QED
    BY <2>1, <2>2, <2>3, <2>4, <2>5 DEF Next
<1>2. QED
  BY <1>1, Invariance, PTL DEF Spec, CombinationsOnce

-----------------------------------------------------------------------------
(* The rows of a source cell and the cells they lead to.                     *)

\* A row has every target of base element b once, with the weight of b under it.
ListsTargets(row, d, A, b) ==
  /\ Len(row) \in Nat
  /\ \A i \in 1..Len(row) : row[i][1] \in TargetsIn(d, A, b)
  /\ \A i \in 1..Len(row) : row[i][2] = BaseElements[d][row[i][1]][b]
  /\ \A t \in TargetsIn(d, A, b) : \E i \in 1..Len(row) : row[i][1] = t
  /\ \A i, j \in 1..Len(row) : row[i][1] = row[j][1] => i = j

LEMMA RowLists ==
  ASSUME NEW A \in Areas, NEW d \in Dims, NEW b \in SourcesOf(d, A[d])
  PROVE  ListsTargets(ParentMap(d, A[d])[b], d, A[d], b)
<1> DEFINE T == TargetsIn(d, A[d], b)
           ids == Ascending(T)
           n == Cardinality(T)
           row == ParentMap(d, A[d])[b]
<1>1. T \in SUBSET Nat /\ IsFiniteSet(T)
  <2>1. T \subseteq Elements
    BY SourcesAreElements, ElementAssumption DEF TargetsIn
  <2>2. QED
    BY <2>1, ElementAssumption, FS_Subset
<1>2. n \in Nat
  BY <1>1, FS_CardinalityType
<1>3. \A i \in 1..n : ids[i] \in T /\ Cardinality(Below(T, ids[i])) = i - 1
  BY <1>1, AscendingMembers
<1>4. \A x \in T : \E i \in 1..n : ids[i] = x
  BY <1>1, AscendingLists
<1>5. row = [i \in 1..n |-> <<ids[i], BaseElements[d][ids[i]][b]>>]
  <2>1. DOMAIN ids = 1..n
    BY DEF Ascending
  <2>2. QED
    BY <2>1 DEF ParentMap
<1> HIDE DEF T, ids, n
<1>6. Len(row) = n
  <2> DEFINE val(i) == <<ids[i], BaseElements[d][ids[i]][b]>>
  <2> HIDE DEF val
  <2>1. row = [i \in 1..n |-> val(i)]
    BY <1>5 DEF val
  <2>2. QED
    BY <1>2, <2>1
<1>7. \A i \in 1..n : row[i][1] = ids[i] /\ row[i][2] = BaseElements[d][ids[i]][b]
  BY <1>5
<1>8. \A i, j \in 1..n : ids[i] = ids[j] => i = j
  <2> SUFFICES ASSUME NEW i \in 1..n, NEW j \in 1..n, ids[i] = ids[j] PROVE i = j
    OBVIOUS
  <2>1. i - 1 = j - 1
    BY <1>3
  <2>2. QED
    BY <1>2, <2>1
<1> HIDE DEF row
<1>9. ListsTargets(row, d, A[d], b)
  <2>1. \A i \in 1..n : row[i][1] \in T /\ row[i][2] = BaseElements[d][row[i][1]][b]
    BY <1>3, <1>7
  <2>2. \A t \in T : \E i \in 1..n : row[i][1] = t
    BY <1>4, <1>7
  <2>3. \A i, j \in 1..n : row[i][1] = row[j][1] => i = j
    BY <1>7, <1>8
  <2>4. QED
    BY <1>2, <1>6, <2>1, <2>2, <2>3 DEF ListsTargets, T
<1>10. QED
  BY <1>9 DEF row

\* The combinations of a cell, position by position.
LEMMA CombinationsOf ==
  ASSUME NEW maps, NEW cell, \A d \in Dims : Len(maps[d][cell[d]]) \in Nat
  PROVE  Combinations(maps, cell) =
           {c \in [Dims -> Nat \ {0}] : \A d \in Dims : c[d] =< Len(maps[d][cell[d]])}
<1> DEFINE lengths == [d \in Dims |-> Len(maps[d][cell[d]])]
<1>1. Combinations(maps, cell) =
        {c \in [Dims -> UNION {1..lengths[d] : d \in Dims}] : \A d \in Dims : c[d] =< lengths[d]}
  BY DEF Combinations
<1>2. ASSUME NEW c \in [Dims -> Nat \ {0}], \A d \in Dims : c[d] =< Len(maps[d][cell[d]])
      PROVE  c \in [Dims -> UNION {1..lengths[d] : d \in Dims}]
  <2>1. \A d \in Dims : c[d] \in 1..lengths[d]
    BY <1>2
  <2>2. QED
    BY <2>1
<1>3. [Dims -> UNION {1..lengths[d] : d \in Dims}] \subseteq [Dims -> Nat \ {0}]
  OBVIOUS
<1>4. QED
  BY <1>1, <1>2, <1>3

\* Where a combination leads to.
TargetOf(cell, c) == [d \in Dims |-> parentMaps[d][cell[d]][c[d]][1]]

\* A cell of the source area.
IsSource(cell) == cell \in Keys /\ \A d \in Dims : cell[d] \in DOMAIN parentMaps[d]

Feeds(cell, path) == \A d \in Dims : cell[d] \in DOMAIN BaseElements[d][path[d]]

\* The rows of the source cells, when expandBase has prepared them.
LEMMA SourceRows ==
  ASSUME TypeOK, Prepared, NEW cell, IsSource(cell), NEW d \in Dims
  PROVE  ListsTargets(parentMaps[d][cell[d]], d, calcArea[d], cell[d])
<1>1. calcArea \in Areas /\ parentMaps[d] = ParentMap(d, calcArea[d])
  BY DEF TypeOK, Prepared
<1>2. cell[d] \in SourcesOf(d, calcArea[d])
  BY <1>1 DEF IsSource, ParentMap
<1>3. QED
  BY <1>1, <1>2, RowLists

\* Every cell that a source cell counts into is the target of one combination of
\* its rows, and of no other; and every combination leads to such a cell.
LEMMA TargetsOfSource ==
  ASSUME TypeOK, Prepared, NEW cell, IsSource(cell)
  PROVE  /\ \A c \in Combinations(parentMaps, cell) :
              /\ c \in [Dims -> Nat \ {0}]
              /\ \A d \in Dims : c[d] \in 1..Len(parentMaps[d][cell[d]])
              /\ TargetOf(cell, c) \in Paths(calcArea) /\ Feeds(cell, TargetOf(cell, c))
         /\ \A c, e \in Combinations(parentMaps, cell) :
              TargetOf(cell, c) = TargetOf(cell, e) => c = e
         /\ \A path \in Paths(calcArea) : Feeds(cell, path) =>
              \E c \in Combinations(parentMaps, cell) : TargetOf(cell, c) = path
<1> DEFINE row(d) == parentMaps[d][cell[d]]
           all == {c \in [Dims -> Nat \ {0}] : \A d \in Dims : c[d] =< Len(row(d))}
<1>1. \A d \in Dims : ListsTargets(row(d), d, calcArea[d], cell[d])
  BY SourceRows
<1>2. Combinations(parentMaps, cell) = all
  BY <1>1, CombinationsOf DEF ListsTargets
<1>3. \A c \in all : \A d \in Dims : c[d] \in 1..Len(row(d))
  BY <1>1 DEF ListsTargets
<1> HIDE DEF row
<1>4. \A c : TargetOf(cell, c) = [d \in Dims |-> row(d)[c[d]][1]]
  BY DEF TargetOf, row
<1>5. ASSUME NEW c \in all
      PROVE  TargetOf(cell, c) \in Paths(calcArea) /\ Feeds(cell, TargetOf(cell, c))
  <2>1. \A d \in Dims : TargetOf(cell, c)[d] \in TargetsIn(d, calcArea[d], cell[d])
    BY <1>1, <1>3, <1>4 DEF ListsTargets
  <2>2. calcArea \in Areas
    BY DEF TypeOK
  <2>3. \A d \in Dims : TargetOf(cell, c)[d] \in Elements
    BY <2>1, <2>2, SourcesAreElements, ElementAssumption DEF TargetsIn
  <2>4. TargetOf(cell, c) \in Keys
    BY <1>4, <2>3 DEF Keys
  <2>5. QED
    BY <2>1, <2>4 DEF Paths, Feeds, TargetsIn
<1>6. ASSUME NEW c \in all, NEW e \in all, TargetOf(cell, c) = TargetOf(cell, e)
      PROVE  c = e
  <2>1. \A d \in Dims : row(d)[c[d]][1] = row(d)[e[d]][1]
    BY <1>4, <1>6
  <2>2. \A d \in Dims : c[d] = e[d]
    BY <1>1, <1>3, <2>1 DEF ListsTargets
  <2>3. QED
    BY <2>2
<1>7. ASSUME NEW path \in Paths(calcArea), Feeds(cell, path)
      PROVE  \E c \in all : TargetOf(cell, c) = path
  <2> DEFINE c == [d \in Dims |-> CHOOSE i \in 1..Len(row(d)) : row(d)[i][1] = path[d]]
  <2>1. \A d \in Dims : path[d] \in TargetsIn(d, calcArea[d], cell[d])
    BY <1>7 DEF Paths, Feeds, TargetsIn
  <2>2. \A d \in Dims : \E i \in 1..Len(row(d)) : row(d)[i][1] = path[d]
    BY <1>1, <2>1 DEF ListsTargets
  <2>3. \A d \in Dims : c[d] \in 1..Len(row(d)) /\ row(d)[c[d]][1] = path[d]
    BY <2>2
  <2>4. c \in all
    BY <1>1, <2>3 DEF ListsTargets
  <2>5. path = [d \in Dims |-> path[d]]
    BY DEF Paths, Keys
  <2>6. TargetOf(cell, c) = path
    <3> HIDE DEF c
    <3>1. QED
      BY <1>4, <2>3, <2>5
  <2>7. QED
    BY <2>4, <2>6
<1>8. \A c \in all : c \in [Dims -> Nat \ {0}] /\ \A d \in Dims : c[d] \in 1..Len(parentMaps[d][cell[d]])
  BY <1>3 DEF row
<1> HIDE DEF all
<1>9. QED
  BY <1>2, <1>5, <1>6, <1>7, <1>8

-----------------------------------------------------------------------------
(* The sums: the result holds, for every path, the sum over the source cells *)
(* whose contribution has been added.                                        *)

\* The product of the weights of a source cell under a path, and what it adds.
Weight(path, cell) == ProductOver([d \in Dims |-> BaseElements[d][path[d]][cell[d]]], Dims)
Amounts(path) == [cell \in SourceCells(path) |-> Weight(path, cell) * storage[cell]]

\* The source cells of a path whose contribution is in the result already.
Counted(path) ==
  {cell \in SourceCells(path) \ unvisited :
     InLoop /\ cell = key => \A c \in Remaining : TargetOf(key, c) # path}

ReaderWeights == [d \in Dims |-> WeightAt(currentTarget[d])]

ScanOK ==
  /\ pc = "expand" => unvisited = DOMAIN storage /\ resultStorage = << >>
  /\ InLoop => key \in DOMAIN storage \ unvisited
  /\ InLoop => fixedWeight = ProductOver(ReaderWeights, 1..(dim - 1) \ Range(multiDims))
  /\ pc = "done" => unvisited = {} \/ \A path \in Paths(calcArea) : IsBase(path)

SumsOK ==
  \A path \in Paths(calcArea) :
    /\ path \in DOMAIN resultStorage <=> Counted(path) # {}
    /\ path \in DOMAIN resultStorage =>
         resultStorage[path] = SumFunctionOnSet(Amounts(path), Counted(path))

LEMMA DimsFinite == IsFiniteSet(Dims) /\ \A D \in SUBSET Dims : IsFiniteSet(D)
<1>1. IsFiniteSet(Dims)
  BY DimAssumption, FS_Interval DEF Dims
<1>2. QED
  BY <1>1, FS_Subset

LEMMA AmountsType ==
  ASSUME TypeOK, NEW path \in Paths(calcArea)
  PROVE  /\ IsFiniteSet(SourceCells(path))
         /\ \A cell \in SourceCells(path) : Amounts(path)[cell] \in Int
<1>1. calcArea \in Areas /\ storage \in Storages
  BY DEF TypeOK
<1>2. IsFiniteSet(SourceCells(path))
  <2>1. SourceCells(path) \in SUBSET DOMAIN storage
    BY DEF SourceCells
  <2>2. IsFiniteSet(DOMAIN storage)
    BY <1>1, CubeAssumption
  <2>3. QED
    BY <2>1, <2>2, FS_Subset
<1>3. ASSUME NEW cell \in SourceCells(path)
      PROVE  Amounts(path)[cell] \in Int
  <2> DEFINE w == [d \in Dims |-> BaseElements[d][path[d]][cell[d]]]
  <2>1. \A d \in Dims : path[d] \in calcArea[d] /\ cell[d] \in DOMAIN BaseElements[d][path[d]]
    BY <1>3 DEF Paths, SourceCells
  <2>2. \A d \in Dims : path[d] \in DOMAIN BaseElements[d]
    BY <1>1, <2>1, CubeAssumption
  <2>3. \A d \in Dims : w[d] \in Int
    BY <2>1, <2>2, ElementAssumption
  <2> HIDE DEF w
  <2>4. ProductOver(w, Dims) \in Int
    BY <2>3, DimsFinite, ProductType
  <2>5. storage[cell] \in Int
    BY <1>1, <1>3, CubeAssumption DEF SourceCells
  <2>6. \A x, y \in Int : x * y \in Int
    OBVIOUS
  <2>7. ProductOver(w, Dims) * storage[cell] \in Int
    BY <2>4, <2>5, <2>6
  <2>8. QED
    BY <1>3, <2>7 DEF Amounts, Weight, w
<1>4. QED
  BY <1>2, <1>3

LEMMA CountedIn == \A path : Counted(path) \subseteq SourceCells(path)
BY DEF Counted

\* A step that leaves the result and the counted cells alone keeps the sums.
LEMMA SumsKept ==
  ASSUME SumsOK, UNCHANGED <<storage, calcArea, resultStorage>>,
         \A path \in Paths(calcArea) : Counted(path)' = Counted(path)
  PROVE  SumsOK'
<1>1. Paths(calcArea)' = Paths(calcArea)
  BY DEF Paths
<1>2. \A path : Amounts(path)' = Amounts(path)
  BY DEF Amounts, SourceCells
<1>3. ASSUME NEW path \in Paths(calcArea)
      PROVE  /\ path \in DOMAIN resultStorage' <=> Counted(path)' # {}
             /\ path \in DOMAIN resultStorage' =>
                  resultStorage'[path] = SumFunctionOnSet(Amounts(path)', Counted(path)')
  BY <1>2 DEF SumsOK
<1>4. QED
  BY <1>1, <1>3 DEF SumsOK

LEMMA InitSums == Init => ScanOK /\ SumsOK
<1> SUFFICES ASSUME Init PROVE ScanOK /\ SumsOK
  OBVIOUS
<1>1. pc = "expand" /\ unvisited = DOMAIN storage /\ resultStorage = << >>
  BY DEF Init
<1>2. ScanOK
  BY <1>1 DEF ScanOK, InLoop
<1>3. \A path : Counted(path) = {}
  BY <1>1 DEF Counted, SourceCells
<1>4. DOMAIN resultStorage = {}
  BY <1>1
<1>5. QED
  BY <1>2, <1>3, <1>4 DEF SumsOK

LEMMA ExpandBaseSums ==
  ASSUME IInv, ScanOK, SumsOK, ExpandBase
  PROVE  ScanOK' /\ SumsOK'
<1>1. /\ UNCHANGED <<storage, calcArea, unvisited, key, resultStorage>>
      /\ pc = "expand" /\ pc' \in {"scan", "done"}
      /\ pc' = "done" => \A path \in Paths(calcArea) : IsBase(path)
  BY DEF ExpandBase, request
<1>2. ScanOK'
  BY <1>1 DEF ScanOK, InLoop, Paths, IsBase
<1>3. ~InLoop /\ ~InLoop'
  BY <1>1 DEF InLoop
<1>4. \A path : Counted(path) = SourceCells(path) \ unvisited
  BY <1>3 DEF Counted
<1>5. \A path : Counted(path)' = SourceCells(path)' \ unvisited'
  BY <1>3 DEF Counted
<1>6. \A path : Counted(path)' = Counted(path)
  BY <1>1, <1>4, <1>5 DEF SourceCells
<1>7. QED
  BY <1>1, <1>2, <1>6, SumsKept

LEMMA SkipCellSums ==
  ASSUME IInv, ScanOK, SumsOK, NEW cell \in unvisited, SkipCell(cell)
  PROVE  ScanOK' /\ SumsOK'
<1>1. /\ UNCHANGED <<storage, calcArea, srcArea, key, resultStorage, pc>>
      /\ pc = "scan" /\ unvisited' = unvisited \ {cell} /\ ~IsInArea(srcArea, cell)
  BY DEF SkipCell, request, prepared
<1>2. ScanOK'
  BY <1>1 DEF ScanOK, InLoop
<1>3. ~InLoop /\ ~InLoop' /\ Prepared
  BY <1>1 DEF InLoop, IInv, ControlOK
<1>4. \A path : Counted(path) = SourceCells(path) \ unvisited
  BY <1>3 DEF Counted
<1>5. \A path : Counted(path)' = SourceCells(path)' \ unvisited'
  BY <1>3 DEF Counted
<1>6. ASSUME NEW path \in Paths(calcArea) PROVE cell \notin SourceCells(path)
  <2>1. PICK d \in Dims : cell[d] \notin SourcesOf(d, calcArea[d])
    BY <1>1, <1>3 DEF IsInArea, Prepared
  <2>2. path[d] \in calcArea[d]
    BY <1>6 DEF Paths
  <2>3. QED
    BY <2>1, <2>2 DEF SourcesOf, SourceCells
<1>7. \A path \in Paths(calcArea) : Counted(path)' = Counted(path)
  BY <1>1, <1>4, <1>5, <1>6 DEF SourceCells
<1>8. QED
  BY <1>1, <1>2, <1>7, SumsKept

\* Nothing is counted of a cell that is entered: every path it feeds has a
\* combination that remains.
LEMMA EnterCellSums ==
  ASSUME IInv, ScanOK, SumsOK, NEW cell \in unvisited, EnterCell(cell)
  PROVE  ScanOK' /\ SumsOK'
<1>1. /\ UNCHANGED <<storage, calcArea, srcArea, parentMaps, resultStorage>>
      /\ pc = "scan" /\ pc' = "init" /\ IsInArea(srcArea, cell)
      /\ unvisited' = unvisited \ {cell} /\ key' = cell
      /\ dim' = 1 /\ multiDims' = << >> /\ fixedWeight' = 1
  BY DEF EnterCell, request, prepared
<1>2. TypeOK /\ Prepared /\ ~InLoop /\ InLoop' /\ cell \in DOMAIN storage /\ cell \in Keys
  BY <1>1, CubeAssumption DEF InLoop, IInv, ControlOK, TypeOK
<1>3. ScanOK'
  <2>1. 1..(dim' - 1) \ Range(multiDims') = {}
    BY <1>1
  <2>2. ProductOver(ReaderWeights', {}) = 1
    BY FS_EmptySet, ProductType
  <2>3. fixedWeight' = ProductOver(ReaderWeights', 1..(dim' - 1) \ Range(multiDims'))
    BY <1>1, <2>1, <2>2
  <2>4. QED
    BY <1>1, <1>2, <2>3 DEF ScanOK
<1>4. IsSource(cell)
  BY <1>1, <1>2 DEF IsSource, IsInArea, Prepared, ParentMap
<1>5. Remaining' = Combinations(parentMaps, cell)
  <2>1. Remaining' = Combinations(parentMaps', key')
    BY <1>1 DEF Remaining, Pending
  <2>2. QED
    BY <1>1, <2>1
<1>6. \A c : TargetOf(key, c)' = TargetOf(cell, c)
  BY <1>1 DEF TargetOf
<1>7. ASSUME NEW path \in Paths(calcArea) PROVE Counted(path)' = Counted(path)
  <2>1. Counted(path) = SourceCells(path) \ unvisited
    BY <1>2 DEF Counted
  <2>2. Counted(path)' = {k \in SourceCells(path)' \ unvisited' :
                            k = cell => \A c \in Remaining' : TargetOf(cell, c) # path}
    BY <1>1, <1>2, <1>6 DEF Counted
  <2>3. SourceCells(path)' = SourceCells(path)
    BY <1>1 DEF SourceCells
  <2>4. cell \in SourceCells(path) => \E c \in Remaining' : TargetOf(cell, c) = path
    <3>1. cell \in SourceCells(path) => Feeds(cell, path)
      BY DEF SourceCells, Feeds
    <3>2. QED
      BY <1>2, <1>4, <1>5, <3>1, TargetsOfSource
  <2>5. QED
    BY <1>1, <2>1, <2>2, <2>3, <2>4
<1>8. QED
  BY <1>1, <1>3, <1>7, SumsKept

\* A reader that is set up yields the weight of the current cell under its target.
LEMMA ReaderWeightsType ==
  ASSUME IInv, InLoop, NEW d \in 1..(dim - 1)
  PROVE  /\ d \in Dims /\ ReaderWeights[d] \in Int
         /\ parentKey[d] = TargetOf(key, Positions)[d]
         /\ ReaderWeights[d] = BaseElements[d][parentKey[d]][key[d]]
<1>1. TypeOK /\ ControlOK /\ Prepared /\ dim \in 1..(N + 1) /\ N \in Nat /\ ReaderOK(d)
  BY DimAssumption DEF IInv, ControlOK, InLoop, TypeOK
<1>2. d \in Dims
  BY <1>1 DEF Dims
<1>3. Row(d) \in Rows /\ IsSource(key)
  BY <1>1, <1>2, RowsInLoop DEF IsSource, ControlOK
<1> DEFINE p == currentTarget[d].pos
<1>4. currentTarget[d].row = Row(d) /\ p \in 1..Len(Row(d)) /\ parentKey[d] = Row(d)[p][1]
  BY <1>1 DEF ReaderOK, Id
<1>5. ReaderWeights[d] = Row(d)[p][2]
  BY <1>2, <1>4 DEF ReaderWeights, WeightAt
<1>6. ListsTargets(Row(d), d, calcArea[d], key[d])
  BY <1>1, <1>2, <1>3, SourceRows DEF Row
<1>7. Row(d)[p] \in Elements \X Int
  BY <1>3, <1>4 DEF Rows
<1>8. parentKey[d] = TargetOf(key, Positions)[d]
  BY <1>2, <1>4 DEF TargetOf, Positions, Row
<1>9. ReaderWeights[d] \in Int
  BY <1>5, <1>7
<1>10. Row(d)[p][2] = BaseElements[d][Row(d)[p][1]][key[d]]
  BY <1>4, <1>6 DEF ListsTargets
<1>11. QED
  BY <1>2, <1>4, <1>5, <1>8, <1>9, <1>10

LEMMA InitParentKeySums ==
  ASSUME IInv, IInv', ScanOK, SumsOK, InitParentKey
  PROVE  ScanOK' /\ SumsOK'
<1> DEFINE reader == TargetsOfKey(dim)
           targets == reader.row
           S == 1..(dim - 1) \ Range(multiDims)
<1>1. /\ UNCHANGED <<storage, calcArea, parentMaps, unvisited, key, resultStorage>>
      /\ pc = "init" /\ pc' \in {"add", "init"} /\ dim' = dim + 1
      /\ currentTarget' = [currentTarget EXCEPT ![dim] = reader]
      /\ \/ Len(targets) > 1 /\ multiDims' = Append(multiDims, dim) /\ fixedWeight' = fixedWeight
         \/ Len(targets) =< 1 /\ fixedWeight' = fixedWeight * WeightAt(reader) /\ multiDims' = multiDims
  BY DEF InitParentKey, request, prepared
<1>2. InLoop /\ InLoop' /\ TypeOK /\ ControlOK /\ MultiDimsOK /\ dim \in Dims /\ N \in Nat
      /\ multiDims \in Seq(Dims)
  BY <1>1, DimAssumption DEF InLoop, IInv, ControlOK, TypeOK
<1>3. Remaining' = Remaining
  BY SetUpRemains
<1>4. \A path : Counted(path)' = Counted(path)
  <2>1. \A c : TargetOf(key, c)' = TargetOf(key, c)
    BY <1>1 DEF TargetOf
  <2>2. QED
    BY <1>1, <1>2, <1>3, <2>1 DEF Counted, SourceCells
<1>5. S \in SUBSET Dims /\ dim \notin S /\ IsFiniteSet(S)
  <2>1. S \in SUBSET Dims /\ dim \notin S
    BY <1>2 DEF Dims
  <2> HIDE DEF S
  <2>2. QED
    BY <2>1, DimsFinite
<1>6. dim' - 1 = dim /\ dim \in 1..(dim' - 1) /\ \A d \in S : d \in 1..(dim - 1) /\ d \in 1..(dim' - 1)
  BY <1>1, <1>2 DEF Dims
<1>7. \A d \in S : ReaderWeights[d] \in Int
  BY <1>2, <1>6, ReaderWeightsType
<1>8. /\ \A d \in S : ReaderWeights'[d] = ReaderWeights[d]
      /\ ReaderWeights'[dim] = WeightAt(reader) /\ ReaderWeights'[dim] \in Int
  <2>1. currentTarget'[dim] = reader /\ \A d \in S : currentTarget'[d] = currentTarget[d]
    BY <1>1, <1>2, <1>5 DEF TypeOK
  <2>2. reader = [row |-> targets, pos |-> 1] /\ targets \in Rows /\ 1 \in 1..Len(targets)
    <3>1. key[dim] # NoIdentifier /\ Row(dim) \in Rows /\ Len(Row(dim)) >= 1
      BY <1>2, RowsInLoop
    <3>2. reader = [row |-> Row(dim), pos |-> 1]
      BY <1>2, ReaderOfKey DEF IInv
    <3>3. QED
      BY <3>1, <3>2 DEF Rows
  <2>3. WeightAt(reader) \in Int
    BY <2>2, ReaderType
  <2> HIDE DEF S, reader
  <2>4. \A d \in Dims : ReaderWeights'[d] = WeightAt(currentTarget'[d])
    BY DEF ReaderWeights, WeightAt
  <2>5. \A d \in Dims : ReaderWeights[d] = WeightAt(currentTarget[d])
    BY DEF ReaderWeights
  <2>6. QED
    BY <1>2, <1>5, <2>1, <2>2, <2>3, <2>4, <2>5
<1>9. fixedWeight = ProductOver(ReaderWeights, S) /\ key \in DOMAIN storage \ unvisited
  BY <1>2 DEF ScanOK
<1>10. fixedWeight' = ProductOver(ReaderWeights', 1..(dim' - 1) \ Range(multiDims'))
  <2>1. 1..(dim' - 1) = 1..(dim - 1) \cup {dim}
    BY <1>2, <1>6 DEF Dims
  <2>2. dim \notin Range(multiDims)
    <3>1. \A i \in DOMAIN multiDims : multiDims[i] < dim
      BY <1>2 DEF MultiDimsOK
    <3>2. dim \in Nat
      BY <1>2 DEF Dims
    <3>3. QED
      BY <3>1, <3>2 DEF Range
  <2>3. CASE multiDims' = Append(multiDims, dim) /\ fixedWeight' = fixedWeight
    <3>1. Range(multiDims') = Range(multiDims) \cup {dim}
      BY <1>2, <2>3 DEF Range
    <3>2. 1..(dim' - 1) \ Range(multiDims') = S
      BY <1>5, <2>1, <3>1
    <3> HIDE DEF S
    <3>3. ProductOver(ReaderWeights', S) = ProductOver(ReaderWeights, S)
      BY <1>5, <1>7, <1>8, ProductSame
    <3>4. QED
      BY <1>9, <2>3, <3>2, <3>3
  <2>4. CASE fixedWeight' = fixedWeight * WeightAt(reader) /\ multiDims' = multiDims
    <3>1. 1..(dim' - 1) \ Range(multiDims') = S \cup {dim}
      BY <1>5, <2>1, <2>2, <2>4
    <3> HIDE DEF S, reader
    <3>2. \A d \in S \cup {dim} : ReaderWeights'[d] \in Int
      BY <1>7, <1>8
    <3>3. ProductOver(ReaderWeights', S \cup {dim}) = ReaderWeights'[dim] * ProductOver(ReaderWeights, S)
      <4>1. IsFiniteSet(S) /\ dim \notin S /\ \A y \in S : ReaderWeights[y] = ReaderWeights'[y]
        BY <1>5, <1>8
      <4> DEFINE x == dim
                 f == ReaderWeights'
                 e == ReaderWeights
      <4> HIDE DEF x, f, e
      <4>2. IsFiniteSet(S) /\ x \notin S /\ (\A y \in S \cup {x} : f[y] \in Int)
            /\ \A y \in S : e[y] = f[y]
        BY <3>2, <4>1 DEF x, f, e
      <4>3. ProductOver(f, S \cup {x}) = f[x] * ProductOver(e, S)
        BY <4>2, ProductStep
      <4>4. QED
        BY <4>3 DEF x, f, e
    <3>4. \A x, y \in Int : x * y = y * x
      OBVIOUS
    <3>5. fixedWeight \in Int
      BY <1>2 DEF TypeOK
    <3>6. QED
      BY <1>8, <1>9, <2>4, <3>1, <3>3, <3>4, <3>5
  <2>5. QED
    BY <1>1, <2>3, <2>4
<1>11. ScanOK'
  BY <1>1, <1>2, <1>9, <1>10 DEF ScanOK
<1>12. QED
  BY <1>1, <1>4, <1>11, SumsKept

LEMMA TurnReaderSums ==
  ASSUME IInv, ScanOK, SumsOK, TurnReader
  PROVE  ScanOK' /\ SumsOK'
<1> DEFINE d == multiDims[changeMultiDim]
           S == 1..(dim - 1) \ Range(multiDims)
<1>1. /\ UNCHANGED <<storage, calcArea, parentMaps, unvisited, key, dim, multiDims, fixedWeight,
                     resultStorage>>
      /\ pc = "next" /\ pc' \in {"add", "next"} /\ changeMultiDim > 0
      /\ \E turned : currentTarget' = [currentTarget EXCEPT ![d] = turned]
  BY DEF TurnReader, TurnCurrent, request, prepared
<1>2. InLoop /\ InLoop' /\ TypeOK /\ ControlOK /\ dim = N + 1 /\ N \in Nat
  BY <1>1, DimAssumption DEF InLoop, IInv, ControlOK
<1>3. Remaining' = Remaining
  BY TurnLosesNothing
<1>4. \A path : Counted(path)' = Counted(path)
  <2>1. \A c : TargetOf(key, c)' = TargetOf(key, c)
    BY <1>1 DEF TargetOf
  <2>2. QED
    BY <1>1, <1>2, <1>3, <2>1 DEF Counted, SourceCells
<1>5. changeMultiDim \in DOMAIN multiDims /\ d \in Range(multiDims)
  BY <1>1, <1>2 DEF TypeOK, Range
<1>6. S \in SUBSET Dims /\ d \notin S
  BY <1>2, <1>5 DEF Dims
<1>7. \A e \in S : e \in 1..(dim - 1)
  OBVIOUS
<1>8. \A e \in S : ReaderWeights[e] \in Int
  BY <1>2, <1>7, ReaderWeightsType
<1>9. fixedWeight = ProductOver(ReaderWeights, S) /\ key \in DOMAIN storage \ unvisited
  BY <1>2 DEF ScanOK
<1> HIDE DEF S, d
<1>10. \A e \in S : ReaderWeights'[e] = ReaderWeights[e]
  <2>1. \A e \in S : currentTarget'[e] = currentTarget[e]
    BY <1>1, <1>2, <1>6 DEF TypeOK
  <2>2. \A e \in Dims : ReaderWeights'[e] = WeightAt(currentTarget'[e])
    BY DEF ReaderWeights, WeightAt
  <2>3. \A e \in Dims : ReaderWeights[e] = WeightAt(currentTarget[e])
    BY DEF ReaderWeights
  <2>4. QED
    BY <1>6, <2>1, <2>2, <2>3
<1>11. ProductOver(ReaderWeights', S) = ProductOver(ReaderWeights, S)
  <2>1. IsFiniteSet(S)
    BY <1>6, DimsFinite
  <2>2. QED
    BY <1>8, <1>10, <2>1, ProductSame
<1>12. fixedWeight' = ProductOver(ReaderWeights', 1..(dim' - 1) \ Range(multiDims'))
  BY <1>1, <1>9, <1>11 DEF S
<1>13. ScanOK'
  BY <1>1, <1>2, <1>9, <1>12 DEF ScanOK
<1>14. QED
  BY <1>1, <1>4, <1>13, SumsKept

LEMMA LeaveSums ==
  ASSUME IInv, ScanOK, SumsOK, FinishScan \/ LeaveCell
  PROVE  ScanOK' /\ SumsOK'
<1>1. UNCHANGED <<storage, calcArea, parentMaps, unvisited, key, resultStorage>>
  BY DEF FinishScan, LeaveCell, request, prepared
<1>2. ~InLoop' /\ ScanOK'
  BY <1>1 DEF FinishScan, LeaveCell, InLoop, ScanOK
<1>3. InLoop => Remaining = {}
  <2>1. FinishScan => ~InLoop
    BY DEF FinishScan, InLoop
  <2>2. LeaveCell => Remaining = {}
    <3>1. \A c : ~After(c, 0)
      BY DEF After
    <3>2. QED
      BY <3>1 DEF LeaveCell, Remaining, Pending
  <2>3. QED
    BY <2>1, <2>2
<1>4. \A path : Counted(path) = SourceCells(path) \ unvisited
  BY <1>3 DEF Counted
<1>5. \A path : Counted(path)' = SourceCells(path)' \ unvisited'
  BY <1>2 DEF Counted
<1>6. \A path : Counted(path)' = Counted(path)
  BY <1>1, <1>4, <1>5 DEF SourceCells
<1>7. QED
  BY <1>1, <1>2, <1>6, SumsKept

\* The reader positions are the combination of the target cell, which the current
\* cell feeds with the weight that is added.
LEMMA AddedAmount ==
  ASSUME IInv, ScanOK, pc = "add"
  PROVE  /\ IsSource(key) /\ key \in SourceCells(parentKey) /\ key \notin unvisited
         /\ parentKey \in Paths(calcArea) /\ Feeds(key, parentKey)
         /\ Positions \in Combinations(parentMaps, key) /\ TargetOf(key, Positions) = parentKey
         /\ WeightOfDims(currentTarget, Dims) = Weight(parentKey, key)
         /\ fixedWeight * WeightOfDims(currentTarget, Range(multiDims)) = Weight(parentKey, key)
<1>1. InLoop /\ TypeOK /\ ControlOK /\ Prepared /\ dim = N + 1 /\ N \in Nat
  BY DimAssumption DEF InLoop, IInv, ControlOK
<1>2. IsSource(key)
  BY <1>1, RowsInLoop DEF IsSource, ControlOK
<1>3. Positions \in Combinations(parentMaps, key)
  BY PositionsType
<1>4. \A d \in Dims : d \in 1..(dim - 1)
  BY <1>1 DEF Dims
<1>5. \A d \in Dims : /\ ReaderWeights[d] \in Int
                      /\ parentKey[d] = TargetOf(key, Positions)[d]
                      /\ ReaderWeights[d] = BaseElements[d][parentKey[d]][key[d]]
  BY <1>1, <1>4, ReaderWeightsType
<1>6. TargetOf(key, Positions) = parentKey
  <2>1. DOMAIN TargetOf(key, Positions) = Dims /\ DOMAIN parentKey = Dims
        /\ parentKey = [d \in Dims |-> parentKey[d]]
    BY <1>1 DEF TargetOf, TypeOK
  <2>2. TargetOf(key, Positions) = [d \in Dims |-> TargetOf(key, Positions)[d]]
    BY DEF TargetOf
  <2>3. QED
    BY <1>5, <2>1, <2>2
<1>7. parentKey \in Paths(calcArea) /\ Feeds(key, parentKey)
  BY <1>1, <1>2, <1>3, <1>6, TargetsOfSource
<1>8. key \in SourceCells(parentKey) /\ key \notin unvisited
  BY <1>1, <1>7 DEF ScanOK, SourceCells, Feeds
<1>9. ReaderWeights = [d \in Dims |-> BaseElements[d][parentKey[d]][key[d]]]
  <2>1. ReaderWeights = [d \in Dims |-> ReaderWeights[d]]
    BY DEF ReaderWeights
  <2>2. QED
    BY <1>5, <2>1
<1>10. ProductOver(ReaderWeights, Dims) = Weight(parentKey, key)
  BY <1>9 DEF Weight
<1>11. \A D : WeightOfDims(currentTarget, D) = ProductOver(ReaderWeights, D)
  BY DEF WeightOfDims, ProductOver, ReaderWeights
<1>12. fixedWeight * ProductOver(ReaderWeights, Range(multiDims)) = ProductOver(ReaderWeights, Dims)
  <2> DEFINE M == Range(multiDims)
             S == Dims \ M
  <2>1. M \in SUBSET Dims /\ S \in SUBSET Dims /\ S \cap M = {} /\ S \cup M = Dims
    BY <1>1 DEF TypeOK, Range
  <2>2. fixedWeight = ProductOver(ReaderWeights, S)
    <3>1. 1..(dim - 1) = Dims
      BY <1>1 DEF Dims
    <3>2. QED
      BY <1>1, <3>1 DEF ScanOK
  <2> HIDE DEF M, S
  <2>3. IsFiniteSet(M) /\ IsFiniteSet(S)
    BY <2>1, DimsFinite
  <2>4. \A x \in S \cup M : ReaderWeights[x] \in Int
    BY <1>5, <2>1
  <2>5. ProductOver(ReaderWeights, S \cup M) = ProductOver(ReaderWeights, S) * ProductOver(ReaderWeights, M)
    BY <2>1, <2>3, <2>4, ProductUnion
  <2>6. QED
    BY <2>1, <2>2, <2>5 DEF M
<1>13. QED
  BY <1>2, <1>3, <1>6, <1>7, <1>8, <1>10, <1>11, <1>12

\* Adding a value counts the current cell into the target cell, and nothing else.
LEMMA AddValueSums ==
  ASSUME IInv, ScanOK, SumsOK, AddValue
  PROVE  ScanOK' /\ SumsOK'
<1> DEFINE amount == fixedWeight * WeightOfDims(currentTarget, Range(multiDims)) * storage[key]
           old == IF parentKey \in DOMAIN resultStorage THEN resultStorage[parentKey] ELSE 0
<1>1. /\ UNCHANGED <<storage, calcArea, parentMaps, unvisited, key, dim, currentTarget, parentKey,
                     multiDims, fixedWeight>>
      /\ pc = "add" /\ pc' = "next"
      /\ resultStorage' = [t \in DOMAIN resultStorage \cup {parentKey} |->
                             IF t = parentKey THEN old + amount ELSE resultStorage[t]]
  BY DEF AddValue, request, prepared, cache
<1>2. InLoop /\ InLoop' /\ TypeOK /\ Prepared
  BY <1>1 DEF InLoop, IInv, ControlOK
<1>3. Positions \in Remaining /\ Remaining' = Remaining \ {Positions}
  BY AddTakesNext
<1>4. /\ IsSource(key) /\ key \in SourceCells(parentKey) /\ key \notin unvisited
      /\ parentKey \in Paths(calcArea)
      /\ Positions \in Combinations(parentMaps, key) /\ TargetOf(key, Positions) = parentKey
      /\ amount = Weight(parentKey, key) * storage[key]
  BY <1>1, AddedAmount
<1>5. amount = Amounts(parentKey)[key]
  BY <1>4 DEF Amounts
<1>6. \A c \in Remaining : TargetOf(key, c) = parentKey => c = Positions
  <2>1. \A c \in Remaining : c \in Combinations(parentMaps, key)
    BY <1>1 DEF Remaining, Pending
  <2>2. \A c, e \in Combinations(parentMaps, key) : TargetOf(key, c) = TargetOf(key, e) => c = e
    BY <1>2, <1>4, TargetsOfSource
  <2>3. QED
    BY <1>4, <2>1, <2>2
<1>7. \A c : TargetOf(key, c)' = TargetOf(key, c)
  BY <1>1 DEF TargetOf
<1>8. \A path : SourceCells(path)' = SourceCells(path) /\ Amounts(path)' = Amounts(path)
  BY <1>1 DEF SourceCells, Amounts
<1>9. \A path : Counted(path) = {cell \in SourceCells(path) \ unvisited :
                   cell = key => \A c \in Remaining : TargetOf(key, c) # path}
  BY <1>2 DEF Counted
<1>10. \A path : Counted(path)' = {cell \in SourceCells(path) \ unvisited :
                   cell = key => \A c \in Remaining \ {Positions} : TargetOf(key, c) # path}
  BY <1>1, <1>2, <1>3, <1>7, <1>8 DEF Counted
<1>11. PICK t : t = parentKey
  OBVIOUS
<1>12. /\ key \in SourceCells(t) /\ t \in Paths(calcArea) /\ TargetOf(key, Positions) = t
       /\ amount = Amounts(t)[key]
       /\ old = IF t \in DOMAIN resultStorage THEN resultStorage[t] ELSE 0
       /\ resultStorage' = [p \in DOMAIN resultStorage \cup {t} |->
                             IF p = t THEN old + amount ELSE resultStorage[p]]
       /\ \A c \in Remaining : TargetOf(key, c) = t => c = Positions
  BY <1>1, <1>4, <1>5, <1>6, <1>11
<1>13. \A path : path # t => Counted(path)' = Counted(path)
  BY <1>3, <1>4, <1>12, <1>9, <1>10
<1>14. key \notin Counted(t) /\ Counted(t)' = Counted(t) \cup {key}
  BY <1>3, <1>4, <1>12, <1>6, <1>9, <1>10
<1> HIDE DEF amount, old
<1>15. old = SumFunctionOnSet(Amounts(t), Counted(t))
  <2>1. CASE t \in DOMAIN resultStorage
    BY <1>4, <1>12, <2>1 DEF SumsOK
  <2>2. CASE t \notin DOMAIN resultStorage
    <3>1. Counted(t) = {}
      BY <1>4, <1>12, <2>2 DEF SumsOK
    <3>2. SumFunctionOnSet(Amounts(t), {}) = 0
      BY FS_EmptySet, SumType
    <3>3. QED
      BY <2>2, <1>12, <3>1, <3>2
  <2>3. QED
    BY <2>1, <2>2
<1>16. SumFunctionOnSet(Amounts(t), Counted(t)')
         = amount + SumFunctionOnSet(Amounts(t), Counted(t))
  <2> DEFINE S == Counted(t)
             f == Amounts(t)
  <2>1. S \subseteq SourceCells(t)
    BY CountedIn
  <2>2. IsFiniteSet(SourceCells(t)) /\ \A cell \in SourceCells(t) : f[cell] \in Int
    BY <1>2, <1>4, <1>12, AmountsType
  <2> HIDE DEF S, f
  <2>3. IsFiniteSet(S) /\ \A cell \in S \cup {key} : f[cell] \in Int
    BY <1>4, <1>12, <2>1, <2>2, FS_Subset
  <2>4. key \notin S
    BY <1>14 DEF S
  <2> DEFINE x == key
  <2> HIDE DEF x
  <2>5. x \notin S /\ \A cell \in S \cup {x} : f[cell] \in Int
    BY <2>3, <2>4 DEF x
  <2>6. SumFunctionOnSet(f, S \cup {x}) = f[x] + SumFunctionOnSet(f, S)
    BY <2>3, <2>5, SumStep, SMTT(30)
  <2>7. QED
    BY <1>14, <1>12, <2>6 DEF S, f, x
<1>17. old + amount = amount + old
  <2>1. old \in Int
    <3>1. \A cell \in Counted(t) : Amounts(t)[cell] \in Int
      BY <1>2, <1>4, <1>12, AmountsType, CountedIn
    <3>2. IsFiniteSet(Counted(t))
      BY <1>2, <1>4, <1>12, AmountsType, CountedIn, FS_Subset
    <3>3. QED
      BY <1>15, <3>1, <3>2, SumType
  <2>2. amount \in Int
    BY <1>2, <1>4, <1>12, <1>5, AmountsType
  <2>3. QED
    BY <2>1, <2>2
<1>18. SumsOK'
  <2>1. Paths(calcArea)' = Paths(calcArea)
    BY <1>1 DEF Paths
  <2>2. ASSUME NEW path \in Paths(calcArea)
        PROVE  /\ path \in DOMAIN resultStorage' <=> Counted(path)' # {}
               /\ path \in DOMAIN resultStorage' =>
                    resultStorage'[path] = SumFunctionOnSet(Amounts(path)', Counted(path)')
    <3>1. CASE path = t
      <4>1. path \in DOMAIN resultStorage' /\ resultStorage'[path] = old + amount
        BY <1>12, <3>1
      <4>2. Counted(path)' # {}
        BY <1>14, <3>1
      <4>3. Amounts(path)' = Amounts(t) /\ Counted(path)' = Counted(t)'
        BY <1>8, <3>1
      <4>4. resultStorage'[path] = SumFunctionOnSet(Amounts(path)', Counted(path)')
        BY <1>15, <1>16, <1>17, <4>1, <4>3
      <4>5. QED
        BY <4>1, <4>2, <4>4
    <3>2. CASE path # t
      <4>1. /\ path \in DOMAIN resultStorage' <=> path \in DOMAIN resultStorage
            /\ path \in DOMAIN resultStorage => resultStorage'[path] = resultStorage[path]
        BY <1>12, <3>2
      <4>2. Amounts(path)' = Amounts(path) /\ Counted(path)' = Counted(path)
        BY <1>8, <1>13, <3>2
      <4>3. QED
        BY <4>1, <4>2 DEF SumsOK
    <3>3. QED
      BY <3>1, <3>2
  <2>3. QED
    BY <2>1, <2>2 DEF SumsOK
<1>19. ScanOK'
  <2>1. ReaderWeights' = ReaderWeights
    BY <1>1 DEF ReaderWeights, WeightAt
  <2>2. QED
    BY <1>1, <1>2, <2>1 DEF ScanOK
<1>20. QED
  BY <1>18, <1>19

LEMMA StutterSums ==
  ASSUME ScanOK, SumsOK, UNCHANGED vars
  PROVE  ScanOK' /\ SumsOK'
<1>1. /\ UNCHANGED <<storage, calcArea, parentMaps, unvisited, key, dim, currentTarget, multiDims,
                     changeMultiDim, fixedWeight, resultStorage, pc>>
  BY DEF vars, request, prepared, odometer
<1>2. InLoop' = InLoop /\ ReaderWeights' = ReaderWeights
  BY <1>1 DEF InLoop, ReaderWeights, WeightAt
<1>3. ScanOK'
  BY <1>1, <1>2 DEF ScanOK, Paths, IsBase
<1>4. Remaining' = Remaining /\ \A c : TargetOf(key, c)' = TargetOf(key, c)
  BY <1>1 DEF Remaining, Pending, Combinations, At, After, TargetOf
<1>5. \A path : Counted(path)' = Counted(path)
  BY <1>1, <1>2, <1>4 DEF Counted, SourceCells
<1>6. QED
  BY <1>1, <1>3, <1>5, SumsKept

\* While the scan runs, fixedWeight is the product of the weights of the dimensions
\* set up that have one target, and the result holds for every requested path the
\* sum over its source cells whose contribution the odometer has passed.
THEOREM SumsInvariance == Spec => [](ScanOK /\ SumsOK)
<1> DEFINE Sums == ScanOK /\ SumsOK
<1>1. IInv /\ IInv' /\ Sums /\ [Next]_vars => Sums'
  <2> SUFFICES ASSUME IInv, IInv', ScanOK, SumsOK, [Next]_vars PROVE ScanOK' /\ SumsOK'
    OBVIOUS
  <2>1. ASSUME ExpandBase PROVE ScanOK' /\ SumsOK'
    BY <2>1, ExpandBaseSums
  <2>2. ASSUME NEW cell \in unvisited, SkipCell(cell) \/ EnterCell(cell) PROVE ScanOK' /\ SumsOK'
    BY <2>2, SkipCellSums, EnterCellSums
  <2>3. ASSUME FinishScan \/ LeaveCell PROVE ScanOK' /\ SumsOK'
    BY <2>3, LeaveSums
  <2>4. ASSUME InitParentKey PROVE ScanOK' /\ SumsOK'
    BY <2>4, InitParentKeySums
  <2>5. ASSUME AddValue PROVE ScanOK' /\ SumsOK'
    BY <2>5, AddValueSums
  <2>6. ASSUME TurnReader PROVE ScanOK' /\ SumsOK'
    BY <2>6, TurnReaderSums
  <2>7. ASSUME UNCHANGED vars PROVE ScanOK' /\ SumsOK'
    BY <2>7, StutterSums
  <2>8. QED
    BY <2>1, <2>2, <2>3, <2>4, <2>5, <2>6, <2>7 DEF Next
<1>2. Init => Sums
  BY InitSums
<1>3. QED
  BY <1>1, <1>2, Invariance, PTL DEF Spec

LEMMA WeightedSumIs ==
  ASSUME NEW path
  PROVE  WeightedSum(path) = SumFunctionOnSet(Amounts(path), SourceCells(path))
<1> DEFINE weight(c) == FoldFunction(LAMBDA x, y : x * y, 1,
                                     [d \in Dims |-> BaseElements[d][path[d]][c[d]]])
<1>1. \A c : weight(c) = Weight(path, c)
  BY DEF Weight, ProductOver, FoldFunction
<1> HIDE DEF weight
<1>2. Amounts(path) = [c \in SourceCells(path) |-> weight(c) * storage[c]]
  BY <1>1 DEF Amounts
<1>3. WeightedSum(path) = SumFunction([c \in SourceCells(path) |-> weight(c) * storage[c]])
  BY DEF WeightedSum, weight
<1>4. DOMAIN Amounts(path) = SourceCells(path)
  BY DEF Amounts
<1>5. QED
  BY <1>2, <1>3, <1>4 DEF SumFunction

\* A base path has itself as its only source cell, with weight 1.
LEMMA BasePath ==
  ASSUME TypeOK, NEW path \in Paths(calcArea), IsBase(path)
  PROVE  /\ SourceCells(path) = {path} \cap DOMAIN storage
         /\ path \in DOMAIN storage => WeightedSum(path) = storage[path]
<1>1. calcArea \in Areas /\ storage \in Storages /\ path \in Keys
  BY DEF TypeOK, Paths
<1>2. \A d \in Dims : BaseElements[d][path[d]] = [b \in {path[d]} |-> 1]
  <2>1. \A d \in Dims : path[d] \in DOMAIN BaseElements[d] \ Consolidated[d]
    BY <1>1, CubeAssumption DEF Paths, IsBase
  <2>2. QED
    BY <2>1, BaseAssumption
<1>3. DOMAIN storage \subseteq Keys
  BY <1>1, CubeAssumption
<1>4. \A c \in Keys : (\A d \in Dims : c[d] = path[d]) => c = path
  BY <1>1 DEF Keys
<1>5. SourceCells(path) = {path} \cap DOMAIN storage
  <2>1. \A c : (\A d \in Dims : c[d] \in DOMAIN BaseElements[d][path[d]])
               <=> \A d \in Dims : c[d] = path[d]
    BY <1>2
  <2>2. QED
    BY <1>3, <1>4, <2>1 DEF SourceCells
<1>6. ASSUME path \in DOMAIN storage PROVE WeightedSum(path) = storage[path]
  <2>1. SourceCells(path) = {path}
    BY <1>5, <1>6
  <2>2. Weight(path, path) = 1
    <3> DEFINE w == [d \in Dims |-> BaseElements[d][path[d]][path[d]]]
    <3>1. \A d \in Dims : w[d] = 1
      BY <1>2
    <3> HIDE DEF w
    <3>2. ProductOver(w, Dims) = 1
      BY <3>1, DimsFinite, ProductOfOnes
    <3>3. QED
      BY <3>2 DEF Weight, w
  <2>3. storage[path] \in Int
    BY <1>1, <1>6, CubeAssumption
  <2>4. Amounts(path)[path] = storage[path]
    BY <2>1, <2>2, <2>3 DEF Amounts
  <2> DEFINE f == Amounts(path)
  <2> HIDE DEF f
  <2>5. SumFunctionOnSet(f, {} \cup {path}) = f[path] + SumFunctionOnSet(f, {})
    <3>1. IsFiniteSet({}) /\ path \notin {} /\ \A y \in {} \cup {path} : f[y] \in Int
      BY <2>3, <2>4, FS_EmptySet DEF f
    <3>2. QED
      BY <3>1, SumStep
  <2>6. SumFunctionOnSet(f, {}) = 0
    BY FS_EmptySet, SumType
  <2>7. {} \cup {path} = {path}
    OBVIOUS
  <2>8. SumFunctionOnSet(f, {path}) = storage[path]
    BY <2>3, <2>4, <2>5, <2>6, <2>7 DEF f
  <2>9. QED
    BY <2>1, <2>8, WeightedSumIs DEF f
<1>7. QED
  BY <1>5, <1>6

\* The answer to a request is the weighted sum of all the source cells of the
\* requested cell, for any cube, any hierarchy and any area; a cell without a
\* filled source cell is not found (aggregate, result).
THEOREM AnswerIsCorrect == Spec => []AnswerCorrect
<1>1. IInv /\ ScanOK /\ SumsOK => AnswerCorrect
  <2> SUFFICES ASSUME IInv, ScanOK, SumsOK, pc = "done", NEW path \in Paths(calcArea)
               PROVE  Answer(path) = IF SourceCells(path) = {} THEN {} ELSE {WeightedSum(path)}
    BY DEF AnswerCorrect
  <2>1. TypeOK /\ ~InLoop
    BY DEF IInv, InLoop
  <2>2. CASE IsBase(path)
    <3>1. SourceCells(path) = {path} \cap DOMAIN storage
          /\ (path \in DOMAIN storage => WeightedSum(path) = storage[path])
      BY <2>1, <2>2, BasePath
    <3>2. Answer(path) = IF path \in DOMAIN storage THEN {storage[path]} ELSE {}
      BY <2>2 DEF Answer
    <3>3. QED
      BY <3>1, <3>2
  <2>3. CASE ~IsBase(path)
    <3>1. unvisited = {}
      BY <2>3 DEF ScanOK
    <3>2. Counted(path) = SourceCells(path)
      BY <2>1, <3>1 DEF Counted
    <3>3. Answer(path) = IF path \in DOMAIN resultStorage THEN {resultStorage[path]} ELSE {}
      BY <2>3 DEF Answer
    <3>4. /\ path \in DOMAIN resultStorage <=> SourceCells(path) # {}
          /\ path \in DOMAIN resultStorage => resultStorage[path] = WeightedSum(path)
      BY <3>2, WeightedSumIs DEF SumsOK
    <3>5. QED
      BY <3>3, <3>4
  <2>4. QED
    BY <2>2, <2>3
<1>2. QED
  BY <1>1, Invariance, SumsInvariance, PTL

-----------------------------------------------------------------------------
(* The refinement.                                                           *)

\* The cells the scan has yet to enter.
Ahead == {cell \in unvisited : \A d \in Dims : cell[d] \in DOMAIN Maps[d]}

ContributionOf(s, maps, cell, choice) ==
  LET readers == [d \in Dims |-> [row |-> maps[d][cell[d]], pos |-> choice[d]]]
  IN [source |-> cell,
      target |-> [d \in Dims |-> Id(readers[d])],
      amount |-> WeightOfDims(readers, Dims) * s[cell]]

\* What is owed, as a function of the state it depends on.
OwedOf(s, maps, k, remaining, ahead) ==
  {ContributionOf(s, maps, k, c) : c \in remaining} \cup
  UNION {{ContributionOf(s, maps, cell, c) : c \in Combinations(maps, cell)} : cell \in ahead}

LEMMA ContributionIs ==
  \A maps, cell, c : Contribution(maps, cell, c) = ContributionOf(storage, maps, cell, c)
BY DEF Contribution, ContributionOf

LEMMA OwedIs == Owed = OwedOf(storage, Maps, key, Remaining, Ahead)
BY ContributionIs DEF Owed, OwedOf, Ahead

LEMMA OwedNext == Owed' = OwedOf(storage', Maps', key', Remaining', Ahead')
<1>1. (Owed = OwedOf(storage, Maps, key, Remaining, Ahead))'
  BY OwedIs, PTL
<1>2. QED
  BY <1>1 DEF OwedOf, ContributionOf, Combinations

\* A step that enters no cell and adds nothing leaves what is owed alone.
LEMMA OwedKept ==
  ASSUME UNCHANGED <<storage, key>>, Maps' = Maps, Remaining' = Remaining, Ahead' = Ahead
  PROVE  Owed' = Owed
BY OwedIs, OwedNext

LEMMA SkipCellOwed ==
  ASSUME IInv, NEW cell \in unvisited, SkipCell(cell)
  PROVE  Owed' = Owed
<1>1. /\ UNCHANGED <<storage, parentMaps, key, pc, calcArea>> /\ pc = "scan"
      /\ unvisited' = unvisited \ {cell} /\ ~IsInArea(srcArea, cell)
  BY DEF SkipCell, request, prepared
<1>2. Maps' = Maps /\ Maps = parentMaps /\ Prepared
  BY <1>1 DEF Maps, IInv, ControlOK
<1>3. cell \notin Ahead
  BY <1>1, <1>2 DEF Ahead, IsInArea, Prepared, ParentMap
<1>4. Ahead' = Ahead
  BY <1>1, <1>2, <1>3 DEF Ahead
<1>5. Remaining' = Remaining
  BY <1>1 DEF Remaining
<1>6. QED
  BY <1>1, <1>2, <1>4, <1>5, OwedKept

\* A cell that is entered owes all its combinations, as it did before.
LEMMA EnterCellOwed ==
  ASSUME IInv, NEW cell \in unvisited, EnterCell(cell)
  PROVE  Owed' = Owed
<1> DEFINE Of(x) == {ContributionOf(storage, parentMaps, x, c) : c \in Combinations(parentMaps, x)}
<1>1. /\ UNCHANGED <<storage, parentMaps>> /\ pc = "scan" /\ pc' = "init"
      /\ unvisited' = unvisited \ {cell} /\ IsInArea(srcArea, cell) /\ key' = cell
  BY DEF EnterCell, request, prepared
<1>2. Maps' = parentMaps /\ Maps = parentMaps /\ Prepared
  BY <1>1 DEF Maps, IInv, ControlOK
<1>3. cell \in Ahead
  BY <1>1, <1>2 DEF Ahead, IsInArea, Prepared, ParentMap
<1>4. Ahead' = Ahead \ {cell}
  BY <1>1, <1>2 DEF Ahead
<1>5. Remaining = {} /\ Remaining' = Combinations(parentMaps, cell)
  BY <1>1 DEF Remaining, Pending, Combinations
<1>6. Owed = UNION {Of(x) : x \in Ahead}
  BY <1>2, <1>5, OwedIs DEF OwedOf
<1>7. Owed' = Of(cell) \cup UNION {Of(x) : x \in Ahead \ {cell}}
  BY <1>1, <1>2, <1>4, <1>5, OwedNext DEF OwedOf
<1> HIDE DEF Of
<1>8. QED
  BY <1>3, <1>6, <1>7

\* What the loop of aggregateCell adds is the contribution at the positions of the
\* readers.
LEMMA AddedContribution ==
  ASSUME IInv, ScanOK, pc = "add"
  PROVE  Contribution(parentMaps, key, Positions) =
           [source |-> key, target |-> parentKey,
            amount |-> fixedWeight * WeightOfDims(currentTarget, Range(multiDims)) * storage[key]]
<1> DEFINE readers == [d \in Dims |-> [row |-> parentMaps[d][key[d]], pos |-> Positions[d]]]
<1>1. InLoop /\ TypeOK /\ dim = N + 1 /\ N \in Nat
  BY DimAssumption DEF InLoop, IInv, ControlOK
<1>2. \A d \in Dims : ReaderOK(d)
  BY <1>1 DEF IInv, Dims
<1>3. \A d \in Dims : readers[d] = currentTarget[d]
  BY <1>1, <1>2 DEF ReaderOK, Row, TypeOK, Positions
<1>4. readers = currentTarget
  <2>1. currentTarget = [d \in Dims |-> currentTarget[d]]
    BY <1>1 DEF TypeOK
  <2>2. QED
    BY <1>3, <2>1
<1>5. [d \in Dims |-> Id(readers[d])] = parentKey
  <2>1. parentKey = [d \in Dims |-> parentKey[d]]
    BY <1>1 DEF TypeOK
  <2>2. \A d \in Dims : Id(readers[d]) = parentKey[d]
    BY <1>2, <1>3 DEF ReaderOK
  <2>3. QED
    BY <2>1, <2>2
<1>6. WeightOfDims(currentTarget, Dims) = fixedWeight * WeightOfDims(currentTarget, Range(multiDims))
  BY AddedAmount
<1>7. Contribution(parentMaps, key, Positions) =
        [source |-> key, target |-> [d \in Dims |-> Id(readers[d])],
         amount |-> WeightOfDims(readers, Dims) * storage[key]]
  BY DEF Contribution
<1>8. QED
  BY <1>4, <1>5, <1>6, <1>7

LEMMA AddValueContributes ==
  ASSUME IInv, ScanOK, AddValue
  PROVE  Abstract!Next
<1>1. /\ UNCHANGED <<storage, parentMaps, unvisited, key, currentTarget, multiDims, fixedWeight,
                     parentKey>>
      /\ pc = "add" /\ pc' = "next"
  BY DEF AddValue, request, prepared
<1>2. PICK amount, old :
        /\ amount = fixedWeight * WeightOfDims(currentTarget, Range(multiDims)) * storage[key]
        /\ old = IF parentKey \in DOMAIN resultStorage THEN resultStorage[parentKey] ELSE 0
        /\ resultStorage' = [t \in DOMAIN resultStorage \cup {parentKey} |->
                               IF t = parentKey THEN old + amount ELSE resultStorage[t]]
  BY DEF AddValue
<1>3. PICK con : con = ContributionOf(storage, parentMaps, key, Positions)
  OBVIOUS
<1>4. con.source = key /\ con.target = parentKey /\ con.amount = amount
  BY <1>1, <1>2, <1>3, AddedContribution, ContributionIs
<1>5. Positions \in Remaining /\ Remaining' = Remaining \ {Positions}
  BY AddTakesNext
<1>6. Maps = parentMaps /\ Maps' = parentMaps /\ Ahead' = Ahead
  BY <1>1 DEF Maps, Ahead
<1>7. IsSource(key) /\ key \notin unvisited /\ TypeOK /\ Prepared
      /\ TargetOf(key, Positions) = parentKey
  BY <1>1, AddedAmount DEF IInv, ControlOK
<1>8. \A x, c : ContributionOf(storage, parentMaps, x, c).source = x
  BY DEF ContributionOf
<1>9. \A c \in Remaining : c # Positions => ContributionOf(storage, parentMaps, key, c) # con
  <2>1. \A c : ContributionOf(storage, parentMaps, key, c).target = TargetOf(key, c)
    BY DEF ContributionOf, TargetOf, Id
  <2>2. \A c \in Remaining : c \in Combinations(parentMaps, key)
    BY <1>1 DEF Remaining, Pending
  <2>3. \A c, e \in Combinations(parentMaps, key) : TargetOf(key, c) = TargetOf(key, e) => c = e
    BY <1>7, TargetsOfSource
  <2>4. QED
    BY <1>3, <1>5, <2>1, <2>2, <2>3
<1>10. \A x \in Ahead : \A c : ContributionOf(storage, parentMaps, x, c) # con
  <2>1. key \notin Ahead
    BY <1>7 DEF Ahead
  <2>2. QED
    BY <1>4, <1>8, <2>1
<1>11. Owed' = {ContributionOf(storage, parentMaps, key, c) : c \in Remaining \ {Positions}} \cup
          UNION {{ContributionOf(storage, parentMaps, x, c) : c \in Combinations(parentMaps, x)} : x \in Ahead}
  BY <1>1, <1>5, <1>6, OwedNext DEF OwedOf
<1>12. Owed = {ContributionOf(storage, parentMaps, key, c) : c \in Remaining} \cup
          UNION {{ContributionOf(storage, parentMaps, x, c) : c \in Combinations(parentMaps, x)} : x \in Ahead}
  BY <1>6, OwedIs DEF OwedOf
<1>13. con \in Owed /\ Owed' = Owed \ {con}
  BY <1>3, <1>5, <1>9, <1>10, <1>11, <1>12
<1>14. Abstract!Contribute(con)
  BY <1>2, <1>4, <1>13 DEF Abstract!Contribute
<1>15. QED
  BY <1>13, <1>14 DEF Abstract!Next

\* All other steps add nothing and owe the same.
LEMMA OtherOwed ==
  ASSUME IInv, IInv',
         \/ ExpandBase \/ FinishScan \/ InitParentKey \/ TurnReader \/ LeaveCell \/ UNCHANGED vars
  PROVE  Owed' = Owed /\ resultStorage' = resultStorage
<1>1. UNCHANGED <<storage, key, unvisited, resultStorage>>
  BY DEF ExpandBase, FinishScan, InitParentKey, TurnReader, TurnCurrent, LeaveCell, vars, request, odometer
<1>2. Maps' = Maps
  <2>1. CASE ExpandBase
    BY <2>1 DEF ExpandBase, Maps
  <2>2. CASE FinishScan \/ InitParentKey \/ TurnReader \/ LeaveCell
    BY <2>2 DEF FinishScan, InitParentKey, TurnReader, TurnCurrent, LeaveCell, Maps, prepared
  <2>3. CASE UNCHANGED vars
    BY <2>3 DEF vars, Maps, ParentMap, request, prepared
  <2>4. QED
    BY <2>1, <2>2, <2>3
<1>3. Ahead' = Ahead
  BY <1>1, <1>2 DEF Ahead
<1>4. Remaining' = Remaining
  <2>1. CASE ExpandBase \/ FinishScan
    BY <2>1 DEF ExpandBase, FinishScan, Remaining
  <2>2. CASE InitParentKey
    BY <2>2, SetUpRemains
  <2>3. CASE TurnReader
    BY <2>3, TurnLosesNothing
  <2>4. CASE LeaveCell
    <3>1. \A c : ~After(c, 0)
      BY DEF After
    <3>2. QED
      BY <2>4, <3>1 DEF LeaveCell, Remaining, Pending
  <2>5. CASE UNCHANGED vars
    BY <2>5 DEF vars, prepared, odometer, Remaining, Pending, Combinations, At, After
  <2>6. QED
    BY <2>1, <2>2, <2>3, <2>4, <2>5
<1>5. QED
  BY <1>1, <1>2, <1>3, <1>4, OwedKept

\* The processor implements the abstract aggregation: every pair of a source cell
\* and a requested cell it counts into is added once, in whatever order the hash
\* table and the odometer come to it, for any cube, any hierarchy and any area.
THEOREM AddsWhatIsOwed == Spec => Refinement
<1>1. Init => Abstract!Init
  BY DEF Init, Abstract!Init
<1>2. IInv /\ IInv' /\ ScanOK /\ [Next]_vars => [Abstract!Next]_<<Owed, resultStorage>>
  <2> SUFFICES ASSUME IInv, IInv', ScanOK, [Next]_vars
               PROVE  [Abstract!Next]_<<Owed, resultStorage>>
    OBVIOUS
  <2>1. ASSUME AddValue PROVE Abstract!Next
    BY <2>1, AddValueContributes
  <2>2. ASSUME NEW cell \in unvisited, SkipCell(cell) \/ EnterCell(cell)
        PROVE  Owed' = Owed /\ resultStorage' = resultStorage
    <3>1. resultStorage' = resultStorage
      BY <2>2 DEF SkipCell, EnterCell
    <3>2. QED
      BY <2>2, <3>1, SkipCellOwed, EnterCellOwed
  <2>3. ASSUME \/ ExpandBase \/ FinishScan \/ InitParentKey \/ TurnReader \/ LeaveCell
               \/ UNCHANGED vars
        PROVE  Owed' = Owed /\ resultStorage' = resultStorage
    BY <2>3, OtherOwed
  <2>4. QED
    BY <2>1, <2>2, <2>3 DEF Next
<1>3. QED
  BY <1>1, <1>2, Invariance, SumsInvariance, PTL DEF Spec, Refinement, Abstract!Spec
=============================================================================
