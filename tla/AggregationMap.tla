--------------------------- MODULE AggregationMap ---------------------------
(***************************************************************************)
(* The aggregation map of one dimension (Engine/AggregationMap.{h,cpp}).   *)
(*                                                                         *)
(* expandBase calls buildBaseToParentMap once per element of the area, in  *)
(* ascending order, which fills the two-level map base2ParentMap.          *)
(* compactSourceToTarget then writes the map, one source after the other,  *)
(* into flat buffers: target ids and weights back to back, one             *)
(* <<start, length>> pair per source, and an index from source ids to the  *)
(* pairs.  The index starts as a sorted list of range starts and turns     *)
(* into a vector over [minBaseId, maxBaseId] as soon as the list would     *)
(* take more memory than the vector.                                       *)
(*                                                                         *)
(* Sequences count from 1; offsets kept IN the buffers count from 0 as in  *)
(* the code.                                                               *)
(***************************************************************************)
EXTENDS NaturalOrder, Sequences, FiniteSetsExt, Functions

CONSTANTS
  Bases,        \* identifiers of the dimension's base elements
  Targets,      \* identifiers of the elements the area may hold
  WeightOf,     \* WeightOf[t][b]: the weight of base b under target t
  NoIdentifier, \* NO_IDENTIFIER, larger than every identifier
  MapItemSize,  \* sizeof(Source2TargetMapItem)
  VectorItemSize \* sizeof(uint32_t)

ASSUME IdAssumption ==
  /\ Bases \subseteq Nat /\ Targets \subseteq Nat
  /\ NoIdentifier \in Nat
  /\ \A i \in Bases \cup Targets : i < NoIdentifier
ASSUME WeightAssumption == WeightOf \in [Targets -> [Bases -> Int]]
ASSUME SizeAssumption == MapItemSize \in Nat \ {0} /\ VectorItemSize \in Nat \ {0}

VARIABLES
  descElems,          \* for every element of the area, its set of base elements
  toBuild,            \* elements of the area not handed to buildBaseToParentMap yet
  toStore,            \* sources not compacted yet
  base2ParentMap,     \* source -> target -> weight
  minBaseId, maxBaseId,
  targetIdBuffer, weightBuffer, distributionMap,
  source2TargetMap, source2TargetVector

buffers == <<targetIdBuffer, weightBuffer, distributionMap>>
index == <<source2TargetMap, source2TargetVector>>
mapVars == <<descElems, toBuild, toStore, base2ParentMap, minBaseId, maxBaseId,
             buffers, index>>

-----------------------------------------------------------------------------

MapInit ==
  /\ \E A \in SUBSET Targets : descElems \in [A -> SUBSET Bases]
  /\ toBuild = DOMAIN descElems
  /\ toStore = {}
  /\ base2ParentMap = << >>
  /\ minBaseId = NoIdentifier
  /\ maxBaseId = 0
  /\ targetIdBuffer = << >> /\ weightBuffer = << >> /\ distributionMap = << >>
  /\ source2TargetMap = << >> /\ source2TargetVector = << >>

\* base2ParentMap[b] with the entry for parent set.
RowWith(b, parent) ==
  LET row == IF b \in DOMAIN base2ParentMap THEN base2ParentMap[b] ELSE << >>
  IN [t \in DOMAIN row \cup {parent} |-> IF t = parent THEN WeightOf[parent][b] ELSE row[t]]

\* buildBaseToParentMap(parent, descElems): one entry per base element of the
\* parent; the last parent starts the compaction (expandBase calls it next).
BuildBaseToParentMap(parent) ==
  LET desc == descElems[parent]
  IN /\ parent \in toBuild
     /\ \A t \in toBuild : parent =< t
     /\ base2ParentMap' = [b \in DOMAIN base2ParentMap \cup desc |->
                             IF b \in desc THEN RowWith(b, parent) ELSE base2ParentMap[b]]
     /\ minBaseId' = Min({minBaseId} \cup desc)
     /\ maxBaseId' = Max({maxBaseId} \cup desc)
     /\ toBuild' = toBuild \ {parent}
     /\ toStore' = IF toBuild' = {} THEN DOMAIN base2ParentMap' ELSE {}
     /\ UNCHANGED <<descElems, buffers, index>>

-----------------------------------------------------------------------------

VectorLen == maxBaseId - minBaseId + 1

\* Mutant: the last position is not filled.
FillShort(vector, from, to, value) ==
  [i \in DOMAIN vector |-> IF i - 1 >= from /\ i - 1 < to - 1 THEN value ELSE vector[i]]

\* std::fill of vector positions [from, to) (counted from 0).
Fill(vector, from, to, value) ==
  [i \in DOMAIN vector |-> IF i - 1 >= from /\ i - 1 < to THEN value ELSE vector[i]]

\* The vector the sorted list stands for: every item covers the sources up to
\* the next item, the last one up to maxBaseId.
VectorOf(items) ==
  [i \in 1..VectorLen |->
     LET begun == {k \in DOMAIN items : items[k].begin - minBaseId =< i - 1}
     IN IF begun = {} THEN 0 ELSE items[Max(begun)].dist]

MapTooLarge(items) == Len(items) * MapItemSize > VectorLen * VectorItemSize

\* weightBuffer is padded with default weights up to targetIdBuffer first; none are
\* missing, since every row comes with its weights.
PaddedWeights ==
  weightBuffer \o [i \in 1..(Len(targetIdBuffer) - Len(weightBuffer)) |-> 1]

\* storeDistributionSequence(start, next start, ids, weights) for the next source.
\* The search for an equal sequence is disabled in the code.
StoreDistributionSequence(source) ==
  LET row == base2ParentMap[source]
      ids == Ascending(DOMAIN row)
      dist == Len(distributionMap)
      next == IF toStore = {source} THEN source + 1 ELSE Min(toStore \ {source})
      items == Append(source2TargetMap, [begin |-> source, dist |-> dist])
      isVector == source2TargetVector # << >>
  IN /\ toBuild = {}
     /\ source \in toStore
     /\ \A s \in toStore : source =< s
     /\ distributionMap' =
          Append(distributionMap, [start |-> Len(targetIdBuffer), length |-> Len(ids)])
     /\ weightBuffer' = PaddedWeights \o [i \in DOMAIN ids |-> row[ids[i]]]
     /\ targetIdBuffer' = targetIdBuffer \o ids
     /\ \/ /\ ~isVector
           /\ ~MapTooLarge(items)
           /\ source2TargetMap' = items
           /\ UNCHANGED source2TargetVector
        \/ /\ ~isVector
           /\ MapTooLarge(items)
           /\ source2TargetVector' = VectorOf(items)
           /\ source2TargetMap' = << >>
        \/ /\ isVector
           /\ source2TargetVector' =
                Fill(source2TargetVector, source - minBaseId,
                     Min({maxBaseId + 1, next}) - minBaseId, dist)
           /\ UNCHANGED source2TargetMap
     /\ toStore' = toStore \ {source}
     /\ UNCHANGED <<descElems, toBuild, base2ParentMap, minBaseId, maxBaseId>>

\* getTargets and the TargetReader it returns, as the sequence of
\* <<target, weight>> pairs the reader yields.
GetTargets(source) ==
  LET begun == {k \in DOMAIN source2TargetMap : source2TargetMap[k].begin =< source}
      dist == IF source2TargetVector # << >>
              THEN source2TargetVector[source - minBaseId + 1]
              ELSE source2TargetMap[IF begun = {} THEN 1 ELSE Max(begun)].dist
      seq == distributionMap[dist + 1]
  IN [i \in 1..seq.length |->
        <<targetIdBuffer[seq.start + i],
          IF Len(weightBuffer) =< seq.start THEN 1 ELSE weightBuffer[seq.start + i]>>]

Done == toBuild = {} /\ toStore = {}

MapNext ==
  \/ \E parent \in Targets : BuildBaseToParentMap(parent)
  \/ \E source \in Bases : StoreDistributionSequence(source)

MapSpec == MapInit /\ [][MapNext]_mapVars

-----------------------------------------------------------------------------

MapTypeOK ==
  /\ DOMAIN descElems \subseteq Targets
  /\ toBuild \subseteq DOMAIN descElems
  /\ toStore \subseteq DOMAIN base2ParentMap
  /\ DOMAIN base2ParentMap \subseteq Bases
  /\ \A b \in DOMAIN base2ParentMap : DOMAIN base2ParentMap[b] \subseteq Targets
  /\ minBaseId \in Bases \cup {NoIdentifier}
  /\ maxBaseId \in Bases \cup {0}
  /\ targetIdBuffer \in Seq(Targets)
  /\ weightBuffer \in Seq(Int)
  /\ distributionMap \in Seq([start : Nat, length : Nat])
  /\ source2TargetMap \in Seq([begin : Bases, dist : Nat])
  /\ source2TargetVector \in Seq(Nat)
  /\ Len(source2TargetVector) \in {0, VectorLen}
  /\ source2TargetMap = << >> \/ source2TargetVector = << >>

Stored == IF toBuild = {} THEN DOMAIN base2ParentMap \ toStore ELSE {}

RowOf(source) ==
  LET ids == Ascending(DOMAIN base2ParentMap[source])
  IN [i \in DOMAIN ids |-> <<ids[i], base2ParentMap[source][ids[i]]>>]

\* Whatever has been compacted so far can be read back: in the list, in the
\* vector and right after the switch from one to the other, getTargets yields
\* the row of base2ParentMap (storeDistributionSequence, getTargets).
ReadBack == \A source \in Stored : GetTargets(source) = RowOf(source)

\* The finished map sends a base element to exactly the elements of the area it
\* is aggregated into, each once and with that element's weight
\* (buildBaseToParentMap, compactSourceToTarget, getTargets together).
MapFaithful ==
  Done =>
    \A b \in UNION Range(descElems) :
      LET parents == {t \in DOMAIN descElems : b \in descElems[t]}
      IN /\ Range(GetTargets(b)) = {<<t, WeightOf[t][b]>> : t \in parents}
         /\ Len(GetTargets(b)) = Cardinality(parents)

\* At every moment of the compaction what is stored reads back, and in the end the
\* map is the one that was asked for (compactSourceToTarget, getTargets).
IndexRight == MapTypeOK /\ ReadBack /\ MapFaithful

=============================================================================
