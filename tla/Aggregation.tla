----------------------------- MODULE Aggregation -----------------------------
(***************************************************************************)
(* One aggregation: Stoap/AggregationProcessor over an area of the cube,   *)
(* with CubeArea::expandBase (Olap/Area.cpp) that prepares it.             *)
(*                                                                         *)
(* The processor walks over all filled cells in the order of the hash      *)
(* table.  For a cell of the source area, initParentKey sets up one reader *)
(* per dimension, reusing the reader of the cell before when the           *)
(* coordinate is the same, and the loop of aggregateCell with              *)
(* nextParentKey turns the readers like an odometer over the dimensions    *)
(* that have several targets.  Each loop iteration is a step here.         *)
(*                                                                         *)
(* A parent map is used through the contract of AggregationMap: a row of   *)
(* <<target, weight>> pairs for every base element.  lastKeyParent is left *)
(* out: the value it gives parentKey is overwritten by the next statement. *)
(***************************************************************************)
EXTENDS NaturalOrder, Sequences, Functions

CONSTANTS
  N,             \* number of dimensions of the cube
  Elements,      \* identifiers of elements
  Consolidated,  \* Consolidated[d]: the consolidated elements of dimension d
  BaseElements,  \* BaseElements[d][e][b]: weight of base b under element e
  Storages,      \* the cube contents considered: maps from cell paths to values
  Areas,         \* the areas requested: a set of elements per dimension
  NoIdentifier

Dims == 1..N
Keys == [Dims -> Elements]

ASSUME DimAssumption == N \in Nat \ {0} /\ NoIdentifier \notin Elements
ASSUME ElementAssumption ==
  /\ Elements \subseteq Nat /\ IsFiniteSet(Elements)
  /\ Consolidated \in [Dims -> SUBSET Elements]
  /\ \A d \in Dims : \A e \in DOMAIN BaseElements[d] :
       /\ e \in Elements
       /\ DOMAIN BaseElements[d][e] \subseteq Elements \ Consolidated[d]
       /\ \A b \in DOMAIN BaseElements[d][e] : BaseElements[d][e][b] \in Int
\* getBaseIWs adds a numeric element itself, with weight 1; an element that a load
\* given up half-way left undefined has no base elements, and is none of these.
ASSUME BaseAssumption ==
  \A d \in Dims : \A e \in DOMAIN BaseElements[d] \ Consolidated[d] :
    BaseElements[d][e] = [b \in {e} |-> 1]
ASSUME CubeAssumption ==
  /\ \A s \in Storages : /\ DOMAIN s \subseteq Keys /\ IsFiniteSet(DOMAIN s)
                         /\ \A k \in DOMAIN s : s[k] \in Int
  /\ \A a \in Areas : \A d \in Dims : a[d] \subseteq DOMAIN BaseElements[d]

VARIABLES
  storage,        \* the filled cells of the cube
  calcArea,       \* the area to be calculated
  srcArea,        \* base elements that count into it, per dimension
  parentMaps,     \* one aggregation map per dimension
  unvisited,      \* filled cells the iteration has not reached yet
  key,            \* the source cell being aggregated
  dim,            \* loop index of initParentKey
  prevSourceKey, lastTargets,          \* the reader kept per dimension
  currentTarget,                       \* row and position of the readers in use
  parentKey,                           \* the target cell
  multiDims,                           \* dimensions with several targets
  fixedWeight,
  changeMultiDim,                      \* position in multiDims, 0 after underflow
  resultStorage,
  pc

request == <<storage, calcArea>>
prepared == <<srcArea, parentMaps>>
cache == <<prevSourceKey, lastTargets>>
odometer == <<currentTarget, parentKey, changeMultiDim>>
vars == <<request, prepared, unvisited, key, dim, cache, odometer, multiDims,
          fixedWeight, resultStorage, pc>>

-----------------------------------------------------------------------------

\* The targets of base element b among the elements A of dimension d.
TargetsIn(d, A, b) == {e \in A : b \in DOMAIN BaseElements[d][e]}

SourcesOf(d, A) == UNION {DOMAIN BaseElements[d][e] : e \in A}

ParentMap(d, A) ==
  [b \in SourcesOf(d, A) |->
     LET ids == Ascending(TargetsIn(d, A, b))
     IN [i \in DOMAIN ids |-> <<ids[i], BaseElements[d][ids[i]][b]>>]]

Paths(A) == {path \in Keys : \A d \in Dims : path[d] \in A[d]}

\* Mutant: one base coordinate is enough.
AnyBase(path) == \E d \in Dims : path[d] \notin Consolidated[d]

\* CubeArea::isBase, CellPath::isBase
IsBase(path) == \A d \in Dims : path[d] \notin Consolidated[d]

IsInArea(A, path) == \A d \in Dims : path[d] \in A[d]

\* The reader getTargets returns: it stands at the first pair of the row.
NewReader(row) == [row |-> row, pos |-> 1]

Id(reader) == reader.row[reader.pos][1]
WeightAt(reader) == reader.row[reader.pos][2]

Init ==
  /\ storage \in Storages
  /\ calcArea \in Areas
  /\ srcArea = [d \in Dims |-> {}]
  /\ parentMaps = [d \in Dims |-> << >>]
  /\ unvisited = DOMAIN storage
  /\ key = [d \in Dims |-> NoIdentifier]
  /\ dim = 1
  /\ prevSourceKey = [d \in Dims |-> NoIdentifier]
  /\ lastTargets = [d \in Dims |-> NewReader(<< >>)]
  /\ currentTarget = [d \in Dims |-> NewReader(<< >>)]
  /\ parentKey = [d \in Dims |-> NoIdentifier]
  /\ multiDims = << >>
  /\ fixedWeight = 1
  /\ changeMultiDim = 0
  /\ resultStorage = << >>
  /\ pc = "expand"

\* The constructor calls expandBase, which goes on without an element whose base
\* elements cannot be had (getBaseElements throws): it has none here.  aggregate
\* returns at once when a single base cell is requested.
ExpandBase ==
  /\ pc = "expand"
  /\ srcArea' = [d \in Dims |-> SourcesOf(d, calcArea[d])]
  /\ parentMaps' = [d \in Dims |-> ParentMap(d, calcArea[d])]
  /\ pc' = IF Cardinality(Paths(calcArea)) = 1 /\ \A path \in Paths(calcArea) : IsBase(path)
           THEN "done" ELSE "scan"
  /\ UNCHANGED <<request, unvisited, key, dim, cache, odometer, multiDims,
                 fixedWeight, resultStorage>>

\* Mutant: the iterator stays on a cell that is skipped.
SkipCellAgain(cell) == pc = "scan" /\ ~IsInArea(srcArea, cell) /\ UNCHANGED vars

\* The loop of aggregate: a cell outside the source area is skipped.
SkipCell(cell) ==
  /\ pc = "scan"
  /\ ~IsInArea(srcArea, cell)
  /\ unvisited' = unvisited \ {cell}
  /\ UNCHANGED <<request, prepared, key, dim, cache, odometer, multiDims,
                 fixedWeight, resultStorage, pc>>

\* aggregateCell starts: initParentKey resets the weight and the dimension list.
EnterCell(cell) ==
  /\ pc = "scan"
  /\ IsInArea(srcArea, cell)
  /\ unvisited' = unvisited \ {cell}
  /\ key' = cell
  /\ dim' = 1
  /\ multiDims' = << >>
  /\ fixedWeight' = 1
  /\ pc' = "init"
  /\ UNCHANGED <<request, prepared, cache, odometer, resultStorage>>

FinishScan ==
  /\ pc = "scan"
  /\ unvisited = {}
  /\ pc' = "done"
  /\ UNCHANGED <<request, prepared, unvisited, key, dim, cache, odometer,
                 multiDims, fixedWeight, resultStorage>>

\* The kept reader is copied, as it stands, while the coordinate stays the same.
TargetsOfKey(d) ==
  IF key[d] # prevSourceKey[d] THEN NewReader(parentMaps[d][key[d]]) ELSE lastTargets[d]

\* One iteration of the loop of initParentKey.
InitParentKey ==
  LET targets == TargetsOfKey(dim)
  IN /\ pc = "init"
     /\ prevSourceKey' = [prevSourceKey EXCEPT ![dim] = key[dim]]
     /\ lastTargets' = [lastTargets EXCEPT ![dim] = targets]
     /\ parentKey' = [parentKey EXCEPT ![dim] = Id(targets)]
     /\ currentTarget' = [currentTarget EXCEPT ![dim] = targets]
     /\ \/ /\ Len(targets.row) > 1
           /\ multiDims' = Append(multiDims, dim)
           /\ UNCHANGED fixedWeight
        \/ /\ Len(targets.row) =< 1
           /\ fixedWeight' = fixedWeight * WeightAt(targets)
           /\ UNCHANGED multiDims
     /\ dim' = dim + 1
     /\ pc' = IF dim = N THEN "add" ELSE "init"
     /\ UNCHANGED <<request, prepared, unvisited, key, changeMultiDim, resultStorage>>

\* The product of the weights of the readers of a set of dimensions.
WeightOfDims(readers, D) ==
  FoldFunctionOnSet(LAMBDA x, y : x * y, 1, [d \in Dims |-> WeightAt(readers[d])], D)

\* Mutants: nextParentKey starts one dimension early, or one late.
TurnFromLastButOne == IF Len(multiDims) = 0 THEN 0 ELSE Len(multiDims) - 1
TurnPastLast == Len(multiDims) + 1

\* The dimension nextParentKey turns first.
TurnFrom == Len(multiDims)

\* The body of the loop of aggregateCell, and nextParentKey up to its loop.
AddValue ==
  LET amount == fixedWeight * WeightOfDims(currentTarget, Range(multiDims)) * storage[key]
      old == IF parentKey \in DOMAIN resultStorage THEN resultStorage[parentKey] ELSE 0
  IN /\ pc = "add"
     /\ resultStorage' = [t \in DOMAIN resultStorage \cup {parentKey} |->
                            IF t = parentKey THEN old + amount ELSE resultStorage[t]]
     /\ changeMultiDim' = TurnFrom
     /\ pc' = "next"
     /\ UNCHANGED <<request, prepared, unvisited, key, dim, cache, currentTarget,
                    parentKey, multiDims, fixedWeight>>

\* Mutant: the target key is left alone when a reader starts over.
KeyAfterStep(d, reader, atEnd) ==
  IF atEnd THEN parentKey ELSE [parentKey EXCEPT ![d] = Id(reader)]

KeyAfter(d, reader, atEnd) == [parentKey EXCEPT ![d] = Id(reader)]

\* One iteration of the loop of nextParentKey: a reader at its end starts over
\* and the next one to the left is turned.
TurnCurrent ==
  LET d == multiDims[changeMultiDim]
      atEnd == currentTarget[d].pos = Len(currentTarget[d].row)
      turned == [currentTarget[d] EXCEPT !.pos = IF atEnd THEN 1 ELSE @ + 1]
  IN /\ pc = "next"
     /\ changeMultiDim > 0
     /\ currentTarget' = [currentTarget EXCEPT ![d] = turned]
     /\ parentKey' = KeyAfter(d, turned, atEnd)
     /\ changeMultiDim' = IF atEnd THEN changeMultiDim - 1 ELSE changeMultiDim
     /\ pc' = IF atEnd THEN "next" ELSE "add"
     /\ UNCHANGED <<request, prepared, unvisited, key, dim, prevSourceKey, multiDims,
                    fixedWeight, resultStorage>>

\* Mutant: the reader kept is not a copy but the one in use.
TurnReaderKept == TurnCurrent /\ lastTargets' = currentTarget'

\* The readers in use are copies: the ones kept stay where they are.
TurnReader == TurnCurrent /\ UNCHANGED lastTargets

\* The index underflows: all combinations of the cell have been added.
LeaveCell ==
  /\ pc = "next"
  /\ changeMultiDim = 0
  /\ pc' = "scan"
  /\ UNCHANGED <<request, prepared, unvisited, key, dim, cache, odometer,
                 multiDims, fixedWeight, resultStorage>>

\* result(): a base path is read from the cube, any other from the result.
\* The empty set stands for "not found".
Answer(path) ==
  LET values == IF IsBase(path) THEN storage ELSE resultStorage
  IN IF path \in DOMAIN values THEN {values[path]} ELSE {}

Next ==
  \/ ExpandBase
  \/ \E cell \in unvisited : SkipCell(cell) \/ EnterCell(cell)
  \/ FinishScan
  \/ InitParentKey
  \/ AddValue
  \/ TurnReader
  \/ LeaveCell

Spec == Init /\ [][Next]_vars
\* One thread runs the loop and nothing in it blocks.
FairSpec == Spec /\ WF_vars(Next)

-----------------------------------------------------------------------------

Rows == Seq(Elements \X Int)

TypeOK ==
  /\ storage \in Storages /\ calcArea \in Areas
  /\ srcArea \in [Dims -> SUBSET Elements]
  /\ unvisited \subseteq DOMAIN storage
  /\ key \in Keys \cup {[d \in Dims |-> NoIdentifier]}
  /\ dim \in 1..(N + 1)
  /\ prevSourceKey \in [Dims -> Elements \cup {NoIdentifier}]
  /\ lastTargets \in [Dims -> [row : Rows, pos : Nat \ {0}]]
  /\ currentTarget \in [Dims -> [row : Rows, pos : Nat \ {0}]]
  /\ parentKey \in [Dims -> Elements \cup {NoIdentifier}]
  /\ multiDims \in Seq(Dims)
  /\ fixedWeight \in Int
  /\ changeMultiDim \in 0..Len(multiDims)
  /\ DOMAIN resultStorage \subseteq Keys
  /\ pc \in {"expand", "scan", "init", "add", "next", "done"}

\* The reader kept for a dimension is the one of the coordinate it is kept for, and
\* stands at its first target: copying it gives what getTargets would give, also in
\* the middle of a cell, when its copy in use has been turned (initParentKey's
\* cache, nextParentKey).
CacheFresh ==
  \A d \in Dims : prevSourceKey[d] # NoIdentifier =>
    /\ prevSourceKey[d] \in DOMAIN parentMaps[d]
    /\ lastTargets[d] = NewReader(parentMaps[d][prevSourceKey[d]])

\* When a value is added the target key is where the readers stand, every reader
\* belongs to the current source cell, and the dimensions outside multiDims have
\* one target (aggregateCell's loop, nextParentKey's resets).
OdometerCoherent ==
  pc = "add" =>
    \A d \in Dims :
      /\ currentTarget[d].row = parentMaps[d][key[d]]
      /\ currentTarget[d].pos \in DOMAIN currentTarget[d].row
      /\ parentKey[d] = Id(currentTarget[d])
      /\ d \in Range(multiDims) <=> Len(currentTarget[d].row) > 1

\* The filled cells that count into a cell, and their weighted sum.
SourceCells(path) ==
  {c \in DOMAIN storage : \A d \in Dims : c[d] \in DOMAIN BaseElements[d][path[d]]}

WeightedSum(path) ==
  LET weight(c) == FoldFunction(LAMBDA x, y : x * y, 1,
                     [d \in Dims |-> BaseElements[d][path[d]][c[d]]])
  IN SumFunction([c \in SourceCells(path) |-> weight(c) * storage[c]])

\* The answer to a request: every requested cell that has a filled source cell is
\* found, with the weighted sum of all its source cells, every other one is "not
\* found" (aggregate, the base-cell shortcut, result).
AnswerCorrect ==
  pc = "done" =>
    \A path \in Paths(calcArea) :
      Answer(path) = IF SourceCells(path) = {} THEN {} ELSE {WeightedSum(path)}

\* Every aggregation ends (aggregate's loops, the underflow in nextParentKey).
Termination == <>(pc = "done")

-----------------------------------------------------------------------------
(* Refinement: the contributions still owed are those of the cells not       *)
(* visited and, of the current cell, those the odometer has not shown yet.   *)

Maps == IF pc = "expand" THEN [d \in Dims |-> ParentMap(d, calcArea[d])] ELSE parentMaps

\* One position per dimension, in the rows of the cell's coordinates.
Combinations(maps, cell) ==
  LET lengths == [d \in Dims |-> Len(maps[d][cell[d]])]
  IN {c \in [Dims -> UNION {1..lengths[d] : d \in Dims}] :
        \A d \in Dims : c[d] =< lengths[d]}

Contribution(maps, cell, choice) ==
  LET readers == [d \in Dims |-> [row |-> maps[d][cell[d]], pos |-> choice[d]]]
  IN [source |-> cell,
      target |-> [d \in Dims |-> Id(readers[d])],
      amount |-> WeightOfDims(readers, Dims) * storage[cell]]

\* choice comes after the readers' positions, as far as the first n dimensions
\* of multiDims tell.
After(choice, n) ==
  \E i \in 1..n :
    /\ choice[multiDims[i]] > currentTarget[multiDims[i]].pos
    /\ \A j \in 1..(i - 1) : choice[multiDims[j]] = currentTarget[multiDims[j]].pos

At(choice) == \A d \in Dims : choice[d] = currentTarget[d].pos

Pending(combinations) ==
  CASE pc = "init" -> combinations
    [] pc = "add"  -> {c \in combinations : At(c) \/ After(c, Len(multiDims))}
    [] pc = "next" -> {c \in combinations : After(c, changeMultiDim)}

\* The combinations of the current cell that are still to be added.
Remaining ==
  IF pc \in {"init", "add", "next"} THEN Pending(Combinations(parentMaps, key)) ELSE {}

Positions == [d \in Dims |-> currentTarget[d].pos]

Owed ==
  LET maps == Maps
      ahead == {cell \in unvisited : \A d \in Dims : cell[d] \in DOMAIN maps[d]}
  IN {Contribution(maps, key, c) : c \in Remaining} \cup
     UNION {{Contribution(maps, cell, c) : c \in Combinations(maps, cell)} : cell \in ahead}

\* The odometer shows every combination of targets of a cell exactly once: the
\* one added is the next of those that remain, and turning, resetting and leaving
\* the cell lose none (initParentKey, nextParentKey, the loop of aggregateCell).
CombinationsOnce ==
  [][/\ pc \in {"init", "next"} => Remaining' = Remaining
     /\ pc = "add" => Positions \in Remaining /\ Remaining' = Remaining \ {Positions}]_vars

Abstract == INSTANCE AbstractAggregation WITH owed <- Owed, sums <- resultStorage

\* The processor implements the abstract aggregation: each step adds one owed
\* contribution and takes it off, or changes nothing that is owed or summed.
Refinement == Abstract!Spec
=============================================================================
