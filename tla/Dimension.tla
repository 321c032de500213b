------------------------------ MODULE Dimension ------------------------------
(***************************************************************************)
(* Olap/Dimension: loading the elements of a dimension from the database   *)
(* file, and everything derived from them: the topological order, level,   *)
(* depth and indent, and the weighted base elements of a consolidation.    *)
(*                                                                         *)
(* The order is built by addParentsToSortedList, a recursion; its calls    *)
(* are the frames of "stack", and each look at one parent is a step.       *)
(* Level, depth and indent are then updated one element per step, because  *)
(* each reads fields of its neighbours that an earlier step has written.   *)
(*                                                                         *)
(* Names and positions are left out, and so are the relations that a       *)
(* malformed line leaves half filled: nothing reads them afterwards.       *)
(* A deleted element is "none".                                            *)
(***************************************************************************)
EXTENDS Integers, SequencesExt

CONSTANTS
  Size,        \* SIZE_ELEMENTS of the dimension, identifiers are below it
  LevelRange,  \* values of the bit fields level, depth and indent of an element
  Files        \* the element sections considered: lines by identifier

Ids == 0..(Size - 1)

ASSUME SizeAssumption == Size \in Nat /\ LevelRange \in Nat \ {0}
ASSUME FilesAssumption ==
  \A f \in Files :
    /\ DOMAIN f \subseteq Nat
    /\ \A id \in DOMAIN f :
         /\ f[id].type \in {"numeric", "string", "consolidated", "unknown"}
         /\ f[id].level \in 0..(LevelRange - 1)
         /\ f[id].parents \in Seq(Nat)
         /\ f[id].children \in Seq([id : Nat, weight : Int])

\* The elements of a section that stay, string elements are deleted.
Kept(f) == {id \in DOMAIN f \cap Ids : f[id].type # "string"}

\* The loader does not look for cycles, nor for parents without a line of their own.
ASSUME HierarchyAssumption ==
  \A f \in Files : \E rank \in [Ids -> Ids] :
    \A id \in Kept(f) : \A p \in ToSet(f[id].parents) \cap Ids :
      p \in Kept(f) /\ rank[p] < rank[id]

VARIABLES
  file,             \* the section being read
  unread,           \* its lines still to be read
  count,            \* lines read by loadElements
  numElements,
  elements,         \* the type of every element, "none" for a null entry
  childToParents, parentToChildren,    \* entries exist for those who have any
  sortedElements,   \* parents first; its members are the known elements too
  stack,            \* frames of addParentsToSortedList, the innermost first
  next,             \* loop index into elements or sortedElements
  level, depth, indent,
  maxLevel, maxDepth, maxIndent,
  pc

relations == <<childToParents, parentToChildren>>
maxima == <<maxLevel, maxDepth, maxIndent>>
vars == <<file, unread, count, numElements, elements, relations, sortedElements,
          stack, next, level, depth, indent, maxima, pc>>

-----------------------------------------------------------------------------

\* getParents, and the children that getChildrenIds and updateLevel look up
ParentsOf(id) == IF id \in DOMAIN childToParents THEN childToParents[id] ELSE << >>
ChildrenOf(id) == IF id \in DOMAIN parentToChildren THEN parentToChildren[id] ELSE << >>

\* clearElements and loadOverview, then all elements are constructed.
Init ==
  /\ file \in Files
  /\ unread = DOMAIN file
  /\ count = 0 /\ numElements = 0
  /\ elements = [id \in Ids |-> "undefined"]
  /\ childToParents = << >> /\ parentToChildren = << >>
  /\ sortedElements = << >> /\ stack = << >> /\ next = 0
  /\ level = [id \in Ids |-> 0]
  /\ depth = [id \in Ids |-> 0]
  /\ indent = [id \in Ids |-> 0]
  /\ maxLevel = 0 /\ maxDepth = 0 /\ maxIndent = 0
  /\ pc = "load"

\* A line that loadElement refuses.
Malformed(id) ==
  LET line == file[id]
  IN \/ line.type = "unknown"
     \/ /\ line.type # "string"
        /\ \/ id \notin Ids
           \/ \E i \in DOMAIN line.parents : line.parents[i] \notin Ids
           \/ \E i \in DOMAIN line.children : line.children[i].id \notin Ids

\* Mutant: the type is taken as the file gives it.
LoadedTypeAsRead(line) == line.type

\* An element with children is consolidated, one without is not.
LoadedType(line) == IF line.children # << >> THEN "consolidated" ELSE "numeric"

\* An entry of the relation tables is made only for a non-empty list.
WithEntry(table, id, list) ==
  IF list = << >> THEN table
  ELSE [x \in DOMAIN table \cup {id} |-> IF x = id THEN list ELSE table[x]]

LoadElement(id) ==
  /\ pc = "load"
  /\ ~Malformed(id)
  /\ file[id].type # "string"
  /\ unread' = unread \ {id}
  /\ count' = count + 1
  /\ elements' = [elements EXCEPT ![id] = LoadedType(file[id])]
  /\ level' = [level EXCEPT ![id] = file[id].level]
  /\ childToParents' = WithEntry(childToParents, id, file[id].parents)
  /\ parentToChildren' = WithEntry(parentToChildren, id, file[id].children)
  /\ UNCHANGED <<file, numElements, sortedElements, stack, next, depth, indent, maxima, pc>>

\* loadElement returns at once, loadElements counts the line all the same.
SkipString(id) ==
  /\ pc = "load"
  /\ file[id].type = "string"
  /\ unread' = unread \ {id}
  /\ count' = count + 1
  /\ UNCHANGED <<file, numElements, elements, relations, sortedElements, stack, next,
                 level, depth, indent, maxima, pc>>

\* The FileFormatException is caught by AggrEnv::loadDimensions, which goes on
\* with the dimension as it is, all its valid-flags still set by clearElements.
Fail(id) ==
  /\ pc = "load"
  /\ Malformed(id)
  /\ pc' = "failed"
  /\ UNCHANGED <<file, unread, count, numElements, elements, relations, sortedElements,
                 stack, next, level, depth, indent, maxima>>

ClearUnused ==
  /\ pc = "load"
  /\ unread = {}
  /\ elements' = [id \in Ids |-> IF elements[id] = "undefined" THEN "none" ELSE elements[id]]
  /\ numElements' = count
  /\ pc' = "loaded"
  /\ UNCHANGED <<file, unread, count, relations, sortedElements, stack, next, level,
                 depth, indent, maxima>>

\* checkLevelIndentDepth, getDepth, sizeElements: the first call that needs a
\* level starts the update.
UpdateLevelIndentDepth ==
  /\ pc = "loaded"
  /\ sortedElements' = << >>
  /\ maxLevel' = 0 /\ maxDepth' = 0 /\ maxIndent' = 0
  /\ next' = 0
  /\ pc' = "sort"
  /\ UNCHANGED <<file, unread, count, numElements, elements, relations, stack, level,
                 depth, indent>>

Frame(id) == [element |-> id, parents |-> ParentsOf(id)]

\* Mutant: a known element is sorted in again.
Unlisted(id) == elements[id] # "none"

\* An element that exists and is not known yet.
IsNew(id) == elements[id] # "none" /\ ~Contains(sortedElements, id)

\* The loop of updateTopologicalSortedElements.
SortNext ==
  /\ pc = "sort" /\ stack = << >>
  /\ next \in Ids
  /\ stack' = IF IsNew(next) THEN <<Frame(next)>> ELSE << >>
  /\ next' = next + 1
  /\ UNCHANGED <<file, unread, count, numElements, elements, relations, sortedElements,
                 level, depth, indent, maxima, pc>>

SortDone ==
  /\ pc = "sort" /\ stack = << >>
  /\ next = Size
  /\ next' = Len(sortedElements)
  /\ pc' = "level"
  /\ UNCHANGED <<file, unread, count, numElements, elements, relations, sortedElements,
                 stack, level, depth, indent, maxima>>

\* The loop of addParentsToSortedList: its next parent is entered, or is known.
VisitParent ==
  /\ pc = "sort" /\ stack # << >>
  /\ Head(stack).parents # << >>
  /\ LET parent == Head(Head(stack).parents)
         caller == [Head(stack) EXCEPT !.parents = Tail(@)]
     IN stack' = IF IsNew(parent) THEN <<Frame(parent), caller>> \o Tail(stack)
                 ELSE <<caller>> \o Tail(stack)
  /\ UNCHANGED <<file, unread, count, numElements, elements, relations, sortedElements,
                 next, level, depth, indent, maxima, pc>>

\* addParentsToSortedList returns and its caller adds the element.
AddSorted ==
  /\ pc = "sort" /\ stack # << >>
  /\ Head(stack).parents = << >>
  /\ sortedElements' = Append(sortedElements, Head(stack).element)
  /\ stack' = Tail(stack)
  /\ UNCHANGED <<file, unread, count, numElements, elements, relations, next, level,
                 depth, indent, maxima, pc>>

\* The smallest number above all of S, which is how the loops over neighbours
\* compute a level and a depth.
Above(S) == IF S = {} THEN 0 ELSE Max(S) + 1

\* Mutants: the pass starts over at the end, runs the wrong way round.
LevelAgain == next
ForwardIndex == Len(sortedElements) + 1 - next

\* updateLevel goes through the list from its end.
LevelIndex == next
NextLevel == next - 1

UpdateLevel ==
  LET element == sortedElements[LevelIndex]
      new == Above({level[child.id] : child \in ToSet(ChildrenOf(element))})
  IN /\ pc = "level"
     /\ next > 0
     /\ maxLevel' = Max({maxLevel, new})
     /\ level' = [level EXCEPT ![element] = new % LevelRange]
     /\ next' = NextLevel
     /\ UNCHANGED <<file, unread, count, numElements, elements, relations, sortedElements,
                    stack, depth, indent, maxDepth, maxIndent, pc>>

LevelsDone ==
  /\ pc = "level"
  /\ next = 0
  /\ next' = 1
  /\ pc' = "depth"
  /\ UNCHANGED <<file, unread, count, numElements, elements, relations, sortedElements,
                 stack, level, depth, indent, maxima>>

IndentFrom(parents) == IF parents = << >> THEN 1 ELSE indent[Head(parents)] + 1

UpdateDepthIndent ==
  LET element == sortedElements[next]
      parents == ParentsOf(element)
      newDepth == Above({depth[parent] : parent \in ToSet(parents)})
      newIndent == IndentFrom(parents)
  IN /\ pc = "depth"
     /\ next =< Len(sortedElements)
     /\ maxDepth' = Max({maxDepth, newDepth})
     /\ maxIndent' = Max({maxIndent, newIndent})
     /\ depth' = [depth EXCEPT ![element] = newDepth % LevelRange]
     /\ indent' = [indent EXCEPT ![element] = newIndent % LevelRange]
     /\ next' = next + 1
     /\ UNCHANGED <<file, unread, count, numElements, elements, relations, sortedElements,
                    stack, level, maxLevel, pc>>

UpdateDone ==
  /\ pc = "depth"
  /\ next > Len(sortedElements)
  /\ pc' = "ready"
  /\ UNCHANGED <<file, unread, count, numElements, elements, relations, sortedElements,
                 stack, next, level, depth, indent, maxima>>

-----------------------------------------------------------------------------
(* Look-ups in a dimension that is ready. *)

\* At this level the children are taken as they are.
BaseLevel == 1

\* getBaseIWs: base elements with weights, an element once per way to reach it.
\* A bad element stands for itself, which BaseElements refuses.
BaseIWs ==
  LET iws[id \in Ids] ==
        CASE elements[id] = "consolidated" /\ level[id] > BaseLevel ->
               FlattenSeq([i \in DOMAIN ChildrenOf(id) |-> iws[ChildrenOf(id)[i].id]])
          [] elements[id] = "consolidated" /\ level[id] = BaseLevel -> ChildrenOf(id)
          [] OTHER -> <<[id |-> id, weight |-> 1]>>
  IN iws

\* getBaseElements: fastAdd sums the weights of an element that comes twice.
\* Nothing, when an exception is thrown: CubeArea::expandBase drops it.
BaseElements(parent) ==
  LET iws == BaseIWs[parent]
  IN [b \in {iw.id : iw \in {iw \in ToSet(iws) :
                              \A x \in ToSet(iws) : elements[x.id] = "numeric"}} |->
        FoldFunctionOnSet(+, 0, [i \in DOMAIN iws |-> iws[i].weight],
                          {i \in DOMAIN iws : iws[i].id = b})]

-----------------------------------------------------------------------------

Next ==
  \/ \E id \in unread : LoadElement(id) \/ SkipString(id) \/ Fail(id)
  \/ ClearUnused \/ UpdateLevelIndentDepth
  \/ SortNext \/ SortDone \/ VisitParent \/ AddSorted
  \/ UpdateLevel \/ LevelsDone
  \/ UpdateDepthIndent \/ UpdateDone

Spec == Init /\ [][Next]_vars
\* One thread loads the dimension and nothing in it blocks.
FairSpec == Spec /\ WF_vars(Next)

-----------------------------------------------------------------------------

Alive == {id \in Ids : elements[id] # "none"}
Types == {"none", "undefined", "numeric", "consolidated"}
Fields == [Ids -> 0..(LevelRange - 1)]

TypeOK ==
  /\ file \in Files /\ unread \subseteq DOMAIN file
  /\ count \in Nat /\ numElements \in {0, count}
  /\ elements \in [Ids -> Types]
  /\ DOMAIN childToParents \subseteq Ids /\ DOMAIN parentToChildren \subseteq Ids
  /\ sortedElements \in Seq(Ids)
  /\ stack \in Seq([element : Ids, parents : Seq(Ids)])
  /\ next \in 0..(Size + 1)
  /\ level \in Fields /\ depth \in Fields /\ indent \in Fields
  /\ maxLevel \in Nat /\ maxDepth \in Nat /\ maxIndent \in Nat
  /\ pc \in {"load", "failed", "loaded", "sort", "level", "depth", "ready"}

\* At any moment of the recursion an element that is listed has all its parents
\* listed before it and is listed once; in the end every element is there, so that
\* the passes over the list reach it (addParentsToSortedList,
\* updateTopologicalSortedElements).
TopologicalOrder ==
  /\ IsInjective(sortedElements)
  /\ \A i \in DOMAIN sortedElements :
       ToSet(ParentsOf(sortedElements[i])) \subseteq {sortedElements[j] : j \in 1..(i - 1)}
  /\ pc \in {"level", "depth", "ready"} => ToSet(sortedElements) = Alive

\* The derived order is sound and the loaded data keep their shape while it is built.
Hierarchy == TypeOK /\ TopologicalOrder

\* The longest way down from an element, and up.
Height ==
  LET height[id \in Ids] == Above({height[child.id] : child \in ToSet(ChildrenOf(id))})
  IN height

Distance ==
  LET distance[id \in Ids] == Above({distance[parent] : parent \in ToSet(ParentsOf(id))})
  IN distance

Indentation ==
  LET indentation[id \in Ids] ==
        IF ParentsOf(id) = << >> THEN 1 ELSE indentation[Head(ParentsOf(id))] + 1
  IN indentation

\* One pass over the list, in either direction, is enough: in the end every level
\* is the height above the base, every depth the distance from the roots, the
\* indent counts the first parents, and the maxima are those of the elements
\* (updateLevel, updateLevelIndentDepth, the comments on maxLevel to maxDepth).
LevelsExact ==
  pc = "ready" =>
    \A id \in Alive :
      /\ level[id] = Height[id] /\ depth[id] = Distance[id]
      /\ indent[id] = Indentation[id]
      /\ maxLevel >= level[id] /\ maxDepth >= depth[id]
      /\ maxLevel \in {0} \cup {level[x] : x \in Alive}
      /\ maxDepth \in {0} \cup {depth[x] : x \in Alive}

\* Weight of a base element under an element: over all ways down, the sum of the
\* products of the weights; and the base elements there are ways to.
WaysDown ==
  LET ways[id \in Ids] ==
        LET children == ChildrenOf(id)
        IN IF children = << >> THEN [b \in {id} |-> 1]
           ELSE [b \in UNION {DOMAIN ways[child.id] : child \in ToSet(children)} |->
                   FoldFunction(+, 0,
                     [i \in DOMAIN children |->
                        LET below == ways[children[i].id]
                        IN IF b \in DOMAIN below THEN children[i].weight * below[b] ELSE 0])]
  IN ways

\* The base elements of an element are exactly those below it, whatever the
\* shape of the hierarchy (getBaseIWs, getBaseElements, the types that
\* loadElement corrects).
BaseSetExact ==
  pc = "ready" => \A id \in Alive : DOMAIN BaseElements(id) = DOMAIN WaysDown[id]

\* Their weights are those of a weighted consolidation (getBaseIWs).
WeightsExact ==
  pc = "ready" => \A id \in Alive : BaseElements(id) = WaysDown[id]

\* Where every weight above the first level is 1, as in the example database, the
\* weights are right, also of elements with several parents (getBaseIWs).
SimpleWeights ==
  \A id \in Alive : Height[id] > 1 => \A child \in ToSet(ChildrenOf(id)) : child.weight = 1
SimpleWeightsExact == SimpleWeights => WeightsExact

\* What the aggregation asks a dimension for: the base elements of every element,
\* and, where the code can get them right, their weights (getBaseIWs).
BaseElementsExact == BaseSetExact /\ SimpleWeightsExact

\* The recursion and the passes end (addParentsToSortedList, updateLevel).
Termination == <>(pc \in {"ready", "failed"})
=============================================================================
