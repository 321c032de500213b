--------------------------- MODULE DimensionProofs ---------------------------
(***************************************************************************)
(* Theorems about Dimension, for every section without a cycle: the list   *)
(* that the recursion builds holds every element once and after all its    *)
(* parents.  The invariant says what the frames of the recursion still owe *)
(* (Frames), how far the loop around it is (Progress), and that a rank     *)
(* falls from a frame to the one it has called (Recursion), so that no     *)
(* element is on the stack twice.  Behind it come the passes that set      *)
(* levels, depths and indents (PassInv): each finds the values it reads    *)
(* settled, because the list has parents first.  The base elements follow  *)
(* by an argument about the lowest element that has wrong ones.            *)
(***************************************************************************)
EXTENDS Dimension, SharedLemmas, SequenceTheorems

-----------------------------------------------------------------------------
(* Sequences. *)

LEMMA SetWithin ==
  ASSUME NEW S, NEW s \in Seq(S)
  PROVE  ToSet(s) \subseteq S
BY ElementOfSeq DEF ToSet

LEMMA HeadTailSet ==
  ASSUME NEW S, NEW s \in Seq(S), s # << >>
  PROVE  /\ Head(s) \in S /\ Tail(s) \in Seq(S)
         /\ ToSet(s) = {Head(s)} \cup ToSet(Tail(s))
<1>1. /\ Len(s) \in Nat \ {0} /\ DOMAIN s = 1..Len(s)
      /\ Tail(s) \in Seq(S) /\ Len(Tail(s)) = Len(s) - 1 /\ DOMAIN Tail(s) = 1..(Len(s) - 1)
      /\ \A i \in 1..(Len(s) - 1) : Tail(s)[i] = s[i + 1]
      /\ Head(s) = s[1] /\ Head(s) \in S
  BY EmptySeq
<1>2. ASSUME NEW i \in DOMAIN s PROVE s[i] \in {Head(s)} \cup ToSet(Tail(s))
  <2>1. CASE i = 1
    BY <1>1, <2>1
  <2>2. CASE i # 1
    <3>1. i - 1 \in DOMAIN Tail(s) /\ Tail(s)[i - 1] = s[i]
      BY <1>1, <2>2
    <3>2. QED
      BY <3>1 DEF ToSet
  <2>3. QED
    BY <2>1, <2>2
<1>3. ASSUME NEW i \in DOMAIN Tail(s) PROVE Tail(s)[i] \in ToSet(s)
  <2>1. i + 1 \in DOMAIN s /\ Tail(s)[i] = s[i + 1]
    BY <1>1
  <2>2. QED
    BY <2>1 DEF ToSet
<1>4. Head(s) \in ToSet(s)
  BY <1>1 DEF ToSet
<1>5. ToSet(s) \subseteq {Head(s)} \cup ToSet(Tail(s))
  BY <1>2 DEF ToSet
<1>6. ToSet(Tail(s)) \subseteq ToSet(s)
  <2>1. \A x \in ToSet(Tail(s)) : \E i \in DOMAIN Tail(s) : x = Tail(s)[i]
    BY DEF ToSet
  <2>2. QED
    BY <1>3, <2>1
<1>7. QED
  BY <1>1, <1>4, <1>5, <1>6

LEMMA AppendSet ==
  ASSUME NEW S, NEW s \in Seq(S), NEW x \in S
  PROVE  ToSet(Append(s, x)) = ToSet(s) \cup {x}
<1>1. /\ Len(s) \in Nat /\ DOMAIN s = 1..Len(s) /\ DOMAIN Append(s, x) = 1..(Len(s) + 1)
      /\ \A i \in 1..Len(s) : Append(s, x)[i] = s[i]
      /\ Append(s, x)[Len(s) + 1] = x
  OBVIOUS
<1> DEFINE a == Append(s, x)
<1> HIDE DEF a
<1>2. /\ DOMAIN a = 1..(Len(s) + 1) /\ \A i \in 1..Len(s) : a[i] = s[i]
      /\ a[Len(s) + 1] = x
  BY <1>1 DEF a
<1>3. \A i \in DOMAIN a : i \in DOMAIN s \/ i = Len(s) + 1
  BY <1>1, <1>2
<1>4. \A y \in ToSet(a) : y \in ToSet(s) \cup {x}
  BY <1>1, <1>2, <1>3 DEF ToSet
<1>5. \A y \in ToSet(s) : y \in ToSet(a)
  <2> TAKE y \in ToSet(s)
  <2>1. PICK i \in DOMAIN s : y = s[i]
    BY DEF ToSet
  <2>2. i \in DOMAIN a /\ a[i] = y
    BY <1>1, <1>2, <2>1
  <2>3. QED
    BY <2>2 DEF ToSet
<1>6. x \in ToSet(a)
  <2>1. Len(s) + 1 \in DOMAIN a
    BY <1>1, <1>2
  <2>2. QED
    BY <1>2, <2>1 DEF ToSet
<1>7. ToSet(a) = ToSet(s) \cup {x}
  BY <1>4, <1>5, <1>6
<1>8. QED
  BY <1>7 DEF a

\* A sequence without repetition is not longer than the set it is drawn from.
LEMMA NoLongerThan ==
  ASSUME NEW n \in Nat, NEW s \in Seq(0..(n - 1)), IsInjective(s)
  PROVE  Len(s) \in Nat /\ Len(s) =< n
<1>1. Len(s) \in Nat /\ s \in [1..Len(s) -> 0..(n - 1)] /\ DOMAIN s = 1..Len(s)
  OBVIOUS
<1>2. s \in Injection(1..Len(s), 0..(n - 1))
  <2>1. \A a, b \in 1..Len(s) : s[a] = s[b] => a = b
    BY <1>1 DEF IsInjective
  <2>2. QED
    BY <1>1, <2>1 DEF Injection
<1>3. IsFiniteSet(0..(n - 1)) /\ Cardinality(0..(n - 1)) = n
  <2>1. /\ IsFiniteSet(0..(n - 1))
        /\ Cardinality(0..(n - 1)) = IF 0 > n - 1 THEN 0 ELSE (n - 1) - 0 + 1
    BY FS_Interval
  <2>2. QED
    BY <2>1
<1>4. Cardinality(1..Len(s)) =< Cardinality(0..(n - 1))
  BY <1>2, <1>3, FS_Injection
<1>5. \A m \in Nat : Cardinality(1..m) = m
  BY FS_Interval
<1>6. QED
  BY <1>1, <1>3, <1>4, <1>5

\* The largest of a bounded set of numbers.
LEMMA MaxIs ==
  ASSUME NEW S, S \subseteq Nat, S # {}, NEW n \in Nat, \A x \in S : x =< n
  PROVE  Max(S) \in S
<1> DEFINE room == {n - x : x \in S}
<1>1. \A x \in S : n - x \in Nat
  OBVIOUS
<1>2. room \subseteq Nat /\ room # {}
  BY <1>1, Zenon
<1> HIDE DEF room
<1>3. PICK m \in room : \A y \in room : m =< y
  BY <1>2, MinExists
<1>4. PICK x \in S : m = n - x
  BY <1>3 DEF room
<1>5. \A y \in S : m =< n - y
  BY <1>3 DEF room
<1>6. \A y \in S : y =< x
  BY <1>4, <1>5
<1>7. QED
  BY <1>6 DEF Max

LEMMA AboveIs ==
  ASSUME NEW S, S \subseteq 0..(LevelRange - 1)
  PROVE  Above(S) \in Nat
<1>1. S \subseteq Nat /\ LevelRange \in Nat /\ \A x \in S : x =< LevelRange
  BY SizeAssumption
<1>2. CASE S = {}
  BY <1>2 DEF Above
<1>3. CASE S # {}
  <2>1. Max(S) \in S
    BY <1>1, <1>3, MaxIs
  <2>2. Max(S) + 1 \in Nat
    <3>1. Max(S) \in Nat
      BY <1>1, <2>1, Zenon
    <3>2. QED
      BY <3>1
  <2>3. QED
    BY <1>3, <2>2 DEF Above
<1>4. QED
  BY <1>2, <1>3

-----------------------------------------------------------------------------
(* The invariant. *)

Listed == ToSet(sortedElements)

\* What the lines read so far have left.
LoadInv ==
  /\ \A id \in Ids :
       elements[id] \in IF id \in Kept(file) \ unread THEN {"numeric", "consolidated"}
                        ELSE IF pc \in {"load", "failed"} THEN {"undefined"} ELSE {"none"}
  /\ DOMAIN childToParents \subseteq Kept(file)
  /\ \A id \in DOMAIN childToParents :
       childToParents[id] = file[id].parents /\ childToParents[id] \in Seq(Ids)
  /\ \A id \in DOMAIN parentToChildren :
       parentToChildren[id] \in Seq([id : Ids, weight : Int])
  /\ IF pc \in {"load", "failed"} THEN numElements = 0 ELSE unread = {}

\* The part of TopologicalOrder that holds all the time.
Order ==
  /\ IsInjective(sortedElements)
  /\ \A i \in DOMAIN sortedElements :
       ToSet(ParentsOf(sortedElements[i])) \subseteq {sortedElements[j] : j \in 1..(i - 1)}

\* Every parent of an element on the stack is still to be looked at, is listed,
\* or is the element of the frame that has been called.
Frames ==
  \A k \in DOMAIN stack :
    /\ stack[k].element \in Alive \ Listed
    /\ ToSet(stack[k].parents) \subseteq ToSet(ParentsOf(stack[k].element))
    /\ \A p \in ToSet(ParentsOf(stack[k].element)) :
         p \in ToSet(stack[k].parents) \cup Listed \/ (k > 1 /\ p = stack[k - 1].element)

Progress ==
  /\ pc = "sort" =>
       /\ next =< Size
       /\ \A id \in Alive :
            id < next => id \in Listed \/ (stack # << >> /\ id = stack[Len(stack)].element)
  /\ pc \in {"load", "failed", "loaded"} => sortedElements = << >>
  /\ pc # "sort" => stack = << >>
  /\ pc \in {"level", "depth", "ready"} => Listed = Alive
  /\ Listed \subseteq Alive
  /\ pc = "level" => next =< Len(sortedElements)
  /\ pc = "depth" => next >= 1

\* Parents are of lower rank, and so is every frame than those that wait for it.
Falls(rank) == \A id \in Ids : \A p \in ToSet(ParentsOf(id)) : rank[p] < rank[id]
Chain(rank) ==
  \A j, k \in DOMAIN stack : j < k => rank[stack[j].element] < rank[stack[k].element]
Recursion == \E rank \in [Ids -> Ids] : Falls(rank) /\ Chain(rank)

IInv == TypeOK /\ LoadInv /\ Order /\ Frames /\ Progress /\ Recursion

-----------------------------------------------------------------------------
(* What loading leaves. *)

\* A line that is loaded refers to elements of the dimension only.
LEMMA LineIs ==
  ASSUME file \in Files, NEW id \in DOMAIN file, ~Malformed(id), file[id].type # "string"
  PROVE  /\ id \in Kept(file) /\ id \in Ids
         /\ file[id].parents \in Seq(Ids)
         /\ file[id].children \in Seq([id : Ids, weight : Int])
         /\ file[id].level \in 0..(LevelRange - 1)
<1> DEFINE line == file[id]
<1>1. /\ line.parents \in Seq(Nat) /\ line.children \in Seq([id : Nat, weight : Int])
      /\ line.level \in 0..(LevelRange - 1)
  BY FilesAssumption
<1>2. /\ id \in Ids
      /\ \A i \in DOMAIN line.parents : line.parents[i] \in Ids
      /\ \A i \in DOMAIN line.children : line.children[i].id \in Ids
  BY DEF Malformed
<1>3. id \in Kept(file)
  BY <1>2 DEF Kept
<1> HIDE DEF line
<1>4. line.parents \in Seq(Ids)
  <2>1. DOMAIN line.parents = 1..Len(line.parents) /\ Len(line.parents) \in Nat
        /\ line.parents \in [1..Len(line.parents) -> Nat]
    BY <1>1
  <2>2. line.parents \in [1..Len(line.parents) -> Ids]
    BY <1>2, <2>1
  <2>3. QED
    BY <2>1, <2>2
<1>5. line.children \in Seq([id : Ids, weight : Int])
  <2>1. DOMAIN line.children = 1..Len(line.children) /\ Len(line.children) \in Nat
        /\ line.children = [i \in 1..Len(line.children) |-> line.children[i]]
    BY <1>1
  <2>2. \A i \in 1..Len(line.children) : line.children[i] \in [id : Nat, weight : Int]
    BY <1>1, <2>1, ElementOfSeq
  <2>3. \A i \in 1..Len(line.children) : line.children[i] \in [id : Ids, weight : Int]
    BY <1>2, <2>1, <2>2
  <2> DEFINE Links == [id : Ids, weight : Int]
  <2> HIDE DEF Links
  <2>4. line.children \in [1..Len(line.children) -> Links]
    BY <2>1, <2>3 DEF Links
  <2>5. line.children \in Seq(Links)
    BY <2>1, <2>4
  <2>6. QED
    BY <2>5 DEF Links
<1>6. QED
  BY <1>1, <1>2, <1>3, <1>4, <1>5 DEF line

\* Parents lists taken from a section of the assumption have a rank.
LEMMA RankOf ==
  ASSUME NEW f \in Files, NEW c, DOMAIN c \subseteq Kept(f),
         \A id \in DOMAIN c : c[id] = f[id].parents /\ c[id] \in Seq(Ids)
  PROVE  /\ \E rank \in [Ids -> Ids] : \A id \in DOMAIN c : \A p \in ToSet(c[id]) : rank[p] < rank[id]
         /\ \A id \in DOMAIN c : ToSet(c[id]) \subseteq Kept(f)
<1>1. PICK rank \in [Ids -> Ids] :
        \A id \in Kept(f) : \A p \in ToSet(f[id].parents) \cap Ids : p \in Kept(f) /\ rank[p] < rank[id]
  BY HierarchyAssumption
<1>2. \A id \in DOMAIN c : ToSet(c[id]) \subseteq Ids
  BY SetWithin
<1>3. \A id \in DOMAIN c : \A p \in ToSet(c[id]) : p \in Kept(f) /\ rank[p] < rank[id]
  <2> TAKE id \in DOMAIN c
  <2>1. id \in Kept(f) /\ c[id] = f[id].parents /\ ToSet(c[id]) \subseteq Ids
    BY <1>2
  <2>2. QED
    BY <1>1, <2>1
<1>4. \A id \in DOMAIN c : ToSet(c[id]) \subseteq Kept(f)
  BY <1>3
<1>5. \E r \in [Ids -> Ids] : \A id \in DOMAIN c : \A p \in ToSet(c[id]) : r[p] < r[id]
  BY <1>3
<1>6. QED
  BY <1>4, <1>5

LEMMA Relatives ==
  ASSUME TypeOK, LoadInv, NEW id \in Ids
  PROVE  /\ ParentsOf(id) \in Seq(Ids) /\ ToSet(ParentsOf(id)) \subseteq Ids
         /\ ChildrenOf(id) \in Seq([id : Ids, weight : Int])
         /\ pc \notin {"load", "failed"} => ToSet(ParentsOf(id)) \subseteq Alive
<1>1. ParentsOf(id) \in Seq(Ids)
  BY DEF ParentsOf, LoadInv
<1>2. ToSet(ParentsOf(id)) \subseteq Ids
  BY <1>1, SetWithin
<1>3. ChildrenOf(id) \in Seq([id : Ids, weight : Int])
  <2>1. CASE id \in DOMAIN parentToChildren
    BY <2>1 DEF ChildrenOf, LoadInv
  <2>2. CASE id \notin DOMAIN parentToChildren
    BY <2>2, EmptySeq DEF ChildrenOf
  <2>3. QED
    BY <2>1, <2>2
<1>4. ToSet(ParentsOf(id)) \subseteq Kept(file)
  <2>1. CASE id \in DOMAIN childToParents
    <3>1. \A x \in DOMAIN childToParents : ToSet(childToParents[x]) \subseteq Kept(file)
      <4>1. file \in Files /\ DOMAIN childToParents \subseteq Kept(file)
            /\ \A x \in DOMAIN childToParents :
                 childToParents[x] = file[x].parents /\ childToParents[x] \in Seq(Ids)
        BY DEF TypeOK, LoadInv
      <4>2. QED
        BY <4>1, RankOf
    <3>2. QED
      BY <2>1, <3>1 DEF ParentsOf
  <2>2. CASE id \notin DOMAIN childToParents
    BY <2>2 DEF ParentsOf, ToSet
  <2>3. QED
    BY <2>1, <2>2
<1>5. ASSUME pc \notin {"load", "failed"}, NEW p \in ToSet(ParentsOf(id))
      PROVE  p \in Alive
  <2>1. p \in Kept(file) \ unread /\ p \in Ids
    BY <1>2, <1>4, <1>5 DEF LoadInv
  <2>2. elements[p] \in {"numeric", "consolidated"}
    BY <2>1 DEF LoadInv
  <2>3. QED
    BY <2>1, <2>2 DEF Alive
<1>6. QED
  BY <1>1, <1>2, <1>3, <1>5

\* While nothing is sorted yet, the rest of the invariant follows from LoadInv.
LEMMA NothingSorted ==
  ASSUME file' \in Files, LoadInv', sortedElements' = << >>, stack' = << >>
  PROVE  Order' /\ Frames' /\ Recursion' /\ Listed' = {}
<1>1. Order' /\ Frames' /\ Listed' = {}
  BY DEF Order, Frames, Listed, IsInjective, ToSet
<1>2. PICK rank \in [Ids -> Ids] :
        \A id \in DOMAIN childToParents' : \A p \in ToSet(childToParents'[id]) : rank[p] < rank[id]
  <2>1. DOMAIN childToParents' \subseteq Kept(file')
        /\ \A id \in DOMAIN childToParents' :
             childToParents'[id] = file'[id].parents /\ childToParents'[id] \in Seq(Ids)
    BY DEF LoadInv, Kept
  <2>2. QED
    BY <2>1, RankOf
<1>3. Falls(rank)'
  BY <1>2 DEF Falls, ParentsOf, ToSet
<1>4. Chain(rank)'
  BY DEF Chain
<1>5. QED
  BY <1>1, <1>3, <1>4 DEF Recursion

LEMMA InitIInv == Init => IInv
<1> SUFFICES ASSUME Init PROVE IInv
  OBVIOUS
<1>1. file \in Files /\ sortedElements = << >> /\ stack = << >> /\ pc = "load"
      /\ unread = DOMAIN file /\ childToParents = << >> /\ parentToChildren = << >>
      /\ elements = [id \in Ids |-> "undefined"]
  BY DEF Init
<1>2. TypeOK
  <2>1. 0 \in 0..(LevelRange - 1) /\ 0 \in 0..(Size + 1)
    BY SizeAssumption
  <2>2. QED
    BY <1>1, <2>1 DEF Init, TypeOK, Types, Fields
<1>3. LoadInv
  BY <1>1 DEF Init, LoadInv, Kept
<1>4. Order /\ Frames /\ Listed = {}
  BY <1>1 DEF Order, Frames, Listed, IsInjective, ToSet
<1>5. Recursion
  <2>1. PICK rank \in [Ids -> Ids] :
          \A id \in DOMAIN childToParents : \A p \in ToSet(childToParents[id]) : rank[p] < rank[id]
    BY <1>1, <1>3, RankOf DEF LoadInv
  <2>2. Falls(rank)
    BY <2>1 DEF Falls, ParentsOf, ToSet
  <2>3. Chain(rank)
    BY <1>1 DEF Chain
  <2>4. QED
    BY <2>2, <2>3 DEF Recursion
<1>6. Progress
  BY <1>1, <1>4 DEF Progress
<1>7. QED
  BY <1>2, <1>3, <1>4, <1>5, <1>6 DEF IInv

-----------------------------------------------------------------------------
(* The steps of loading. *)

\* An entry in a relation table.
LEMMA EntryAdded ==
  ASSUME NEW t, NEW id, NEW list, NEW S,
         \A x \in DOMAIN t : t[x] \in Seq(S), list \in Seq(S)
  PROVE  LET new == WithEntry(t, id, list)
         IN /\ DOMAIN new \subseteq DOMAIN t \cup {id}
            /\ \A x \in DOMAIN new : new[x] \in Seq(S)
            /\ \A x \in DOMAIN new : new[x] = IF x = id /\ list # << >> THEN list ELSE t[x]
<1>1. CASE list = << >>
  BY <1>1 DEF WithEntry
<1>2. CASE list # << >>
  BY <1>2 DEF WithEntry
<1>3. QED
  BY <1>1, <1>2

LEMMA LoadElementKeeps ==
  ASSUME IInv, NEW id \in unread, LoadElement(id)
  PROVE  IInv'
<1> DEFINE line == file[id]
<1>1. /\ pc = "load" /\ ~Malformed(id) /\ line.type # "string"
      /\ file \in Files /\ unread \subseteq DOMAIN file /\ id \in DOMAIN file
      /\ sortedElements = << >> /\ stack = << >>
  BY DEF IInv, LoadElement, TypeOK, Progress
<1>2. /\ id \in Kept(file) /\ id \in Ids
      /\ line.parents \in Seq(Ids) /\ line.children \in Seq([id : Ids, weight : Int])
      /\ line.level \in 0..(LevelRange - 1)
  BY <1>1, LineIs
<1>3. /\ unread' = unread \ {id} /\ count' = count + 1
      /\ elements' = [elements EXCEPT ![id] = LoadedType(line)]
      /\ level' = [level EXCEPT ![id] = line.level]
      /\ childToParents' = WithEntry(childToParents, id, line.parents)
      /\ parentToChildren' = WithEntry(parentToChildren, id, line.children)
      /\ UNCHANGED <<file, numElements, sortedElements, stack, next, depth, indent, maxima, pc>>
  BY DEF LoadElement
<1>4. /\ DOMAIN childToParents \subseteq Kept(file)
      /\ \A x \in DOMAIN childToParents :
           childToParents[x] = file[x].parents /\ childToParents[x] \in Seq(Ids)
      /\ \A x \in DOMAIN parentToChildren :
           parentToChildren[x] \in Seq([id : Ids, weight : Int])
      /\ DOMAIN parentToChildren \subseteq Ids /\ DOMAIN childToParents \subseteq Ids
      /\ elements \in [Ids -> Types] /\ numElements \in {0, count} /\ count \in Nat
  BY DEF IInv, LoadInv, TypeOK
<1>5. /\ DOMAIN childToParents' \subseteq Kept(file) /\ DOMAIN childToParents' \subseteq Ids
      /\ \A x \in DOMAIN childToParents' :
           childToParents'[x] = file[x].parents /\ childToParents'[x] \in Seq(Ids)
  <2> HIDE DEF line
  <2>1. /\ DOMAIN childToParents' \subseteq DOMAIN childToParents \cup {id}
        /\ \A x \in DOMAIN childToParents' : childToParents'[x] \in Seq(Ids)
        /\ \A x \in DOMAIN childToParents' : childToParents'[x] =
             IF x = id /\ line.parents # << >> THEN line.parents ELSE childToParents[x]
    BY <1>2, <1>3, <1>4, EntryAdded, SMTT(30)
  <2>2. \A x \in DOMAIN childToParents' : childToParents'[x] = file[x].parents
    <3> TAKE x \in DOMAIN childToParents'
    <3>1. CASE x = id /\ line.parents # << >>
      BY <2>1, <3>1 DEF line
    <3>2. CASE ~(x = id /\ line.parents # << >>)
      <4>1. x \in DOMAIN childToParents
        BY <1>3, <3>2 DEF WithEntry
      <4>2. QED
        BY <1>4, <2>1, <3>2, <4>1
    <3>3. QED
      BY <3>1, <3>2
  <2>3. QED
    BY <1>2, <1>4, <2>1, <2>2
<1>6. /\ DOMAIN parentToChildren' \subseteq Ids
      /\ \A x \in DOMAIN parentToChildren' :
           parentToChildren'[x] \in Seq([id : Ids, weight : Int])
  <2> DEFINE Links == [id : Ids, weight : Int]
  <2> HIDE DEF line, Links
  <2>1. /\ \A x \in DOMAIN parentToChildren : parentToChildren[x] \in Seq(Links)
        /\ line.children \in Seq(Links)
    BY <1>2, <1>4 DEF Links
  <2>2. /\ DOMAIN parentToChildren' \subseteq DOMAIN parentToChildren \cup {id}
        /\ \A x \in DOMAIN parentToChildren' : parentToChildren'[x] \in Seq(Links)
    BY <1>3, <2>1, EntryAdded
  <2>3. QED
    BY <1>2, <1>4, <2>2 DEF Links
<1>7. LoadedType(line) \in {"numeric", "consolidated"}
  BY DEF LoadedType
<1>8. elements' \in [Ids -> Types]
  BY <1>2, <1>3, <1>4, <1>7 DEF Types
<1>9. LoadInv'
  <2>1. \A x \in Ids : elements'[x] \in IF x \in Kept(file) \ unread' THEN {"numeric", "consolidated"}
                                        ELSE {"undefined"}
    <3> TAKE x \in Ids
    <3>1. CASE x = id
      BY <1>2, <1>3, <1>4, <1>7, <3>1
    <3>2. CASE x # id
      <4>1. elements'[x] = elements[x]
        BY <1>2, <1>3, <1>4, <3>2
      <4>2. elements[x] \in IF x \in Kept(file) \ unread THEN {"numeric", "consolidated"}
                            ELSE {"undefined"}
        BY <1>1 DEF IInv, LoadInv
      <4>3. x \in Kept(file) \ unread <=> x \in Kept(file) \ unread'
        BY <1>3, <3>2
      <4>4. QED
        BY <4>1, <4>2, <4>3
    <3>3. QED
      BY <3>1, <3>2
  <2>2. Kept(file)' = Kept(file) /\ pc' = "load" /\ file' = file /\ numElements' = 0
    BY <1>1, <1>3 DEF Kept, IInv, LoadInv
  <2>3. QED
    BY <1>5, <1>6, <2>1, <2>2 DEF LoadInv
<1>10. Order' /\ Frames' /\ Recursion' /\ Listed' = {}
  BY <1>1, <1>3, <1>9, NothingSorted
<1>11. Progress'
  BY <1>1, <1>3, <1>10 DEF Progress
<1>12. TypeOK'
  <2>1. level' \in Fields
    BY <1>2, <1>3 DEF IInv, TypeOK, Fields
  <2>2. count' \in Nat /\ numElements' \in {0, count'}
    <3>1. numElements = 0
      BY <1>1 DEF IInv, LoadInv
    <3>2. QED
      BY <1>3, <1>4, <3>1
  <2>3. QED
    BY <1>1, <1>3, <1>5, <1>6, <1>8, <2>1, <2>2 DEF IInv, TypeOK, maxima
<1>13. QED
  BY <1>9, <1>10, <1>11, <1>12 DEF IInv

LEMMA OtherLoadStepsKeep ==
  ASSUME IInv, \/ \E id \in unread : SkipString(id) \/ Fail(id)
               \/ ClearUnused
  PROVE  IInv'
<1>1. /\ pc = "load" /\ file' = file /\ file \in Files
      /\ sortedElements = << >> /\ stack = << >>
      /\ UNCHANGED <<relations, sortedElements, stack, next, level, depth, indent, maxima>>
  BY DEF IInv, SkipString, Fail, ClearUnused, TypeOK, Progress
<1>2. Kept(file)' = Kept(file) /\ numElements = 0 /\ count \in Nat
  BY <1>1 DEF Kept, IInv, LoadInv, TypeOK
<1>3. /\ LoadInv' /\ elements' \in [Ids -> Types] /\ unread' \subseteq DOMAIN file
      /\ count' \in Nat /\ numElements' \in {0, count'} /\ pc' \in {"load", "failed", "loaded"}
  <2>1. CASE \E id \in unread : SkipString(id)
    <3>1. PICK id \in unread : SkipString(id)
      BY <2>1
    <3>2. /\ unread' = unread \ {id} /\ count' = count + 1
          /\ UNCHANGED <<numElements, elements, pc>>
          /\ id \notin Kept(file)
      BY <3>1 DEF SkipString, Kept
    <3>3. Kept(file) \ unread' = Kept(file) \ unread
      BY <3>2
    <3>4. LoadInv'
      BY <1>1, <1>2, <3>2, <3>3 DEF IInv, LoadInv, relations
    <3>5. QED
      BY <1>1, <1>2, <3>2, <3>4 DEF IInv, TypeOK
  <2>2. CASE \E id \in unread : Fail(id)
    <3>1. pc' = "failed" /\ UNCHANGED <<unread, count, numElements, elements>>
      BY <2>2 DEF Fail
    <3>2. LoadInv'
      BY <1>1, <1>2, <3>1 DEF IInv, LoadInv, relations
    <3>3. QED
      BY <1>1, <1>2, <3>1, <3>2 DEF IInv, TypeOK
  <2>3. CASE ClearUnused
    <3>1. /\ unread = {} /\ unread' = {} /\ pc' = "loaded" /\ count' = count /\ numElements' = count
          /\ elements' = [id \in Ids |-> IF elements[id] = "undefined" THEN "none" ELSE elements[id]]
      BY <2>3 DEF ClearUnused
    <3>2. ASSUME NEW id \in Ids
          PROVE  elements'[id] \in IF id \in Kept(file) \ unread' THEN {"numeric", "consolidated"}
                                   ELSE {"none"}
      <4>1. elements'[id] = IF elements[id] = "undefined" THEN "none" ELSE elements[id]
        BY <3>1
      <4>2. elements[id] \in IF id \in Kept(file) \ unread THEN {"numeric", "consolidated"}
                             ELSE {"undefined"}
        BY <1>1 DEF IInv, LoadInv
      <4>3. QED
        BY <3>1, <4>1, <4>2
    <3>3. LoadInv'
      BY <1>1, <1>2, <3>1, <3>2 DEF IInv, LoadInv, relations
    <3>4. elements' \in [Ids -> Types]
      <4>1. elements \in [Ids -> Types]
        BY DEF IInv, TypeOK
      <4>2. QED
        BY <3>1, <4>1 DEF Types
    <3>5. QED
      BY <1>2, <3>1, <3>3, <3>4
  <2>4. QED
    BY <2>1, <2>2, <2>3
<1>4. Order' /\ Frames' /\ Recursion' /\ Listed' = {}
  BY <1>1, <1>3, NothingSorted
<1>5. Progress'
  BY <1>1, <1>3, <1>4 DEF Progress
<1>6. TypeOK'
  BY <1>1, <1>3 DEF IInv, TypeOK, maxima, relations
<1>7. QED
  BY <1>3, <1>4, <1>5, <1>6 DEF IInv

-----------------------------------------------------------------------------
(* The steps of the passes over the finished list. *)

\* Nothing but the list and the stack decides about the order.
LEMMA SameOrder ==
  ASSUME IInv, pc \notin {"load", "failed"}, pc' \notin {"load", "failed"},
         UNCHANGED <<file, unread, elements, childToParents, parentToChildren, sortedElements, stack>>
  PROVE  LoadInv' /\ Order' /\ Frames' /\ Recursion' /\ Alive' = Alive /\ Listed' = Listed
<1>1. Kept(file)' = Kept(file) /\ \A id : ParentsOf(id)' = ParentsOf(id)
  BY DEF Kept, ParentsOf
<1>2. Alive' = Alive /\ Listed' = Listed
  BY DEF Alive, Listed
<1>3. LoadInv'
  BY <1>1 DEF IInv, LoadInv
<1>4. Order'
  BY DEF IInv, Order, ParentsOf
<1>5. Frames'
  BY <1>2 DEF IInv, Frames, ParentsOf
<1>6. Recursion'
  <2>1. PICK rank \in [Ids -> Ids] : Falls(rank) /\ Chain(rank)
    BY DEF IInv, Recursion
  <2>2. Falls(rank)' /\ Chain(rank)'
    BY <2>1 DEF Falls, Chain, ParentsOf
  <2>3. QED
    BY <2>2 DEF Recursion
<1>7. QED
  BY <1>2, <1>3, <1>4, <1>5, <1>6

\* Of what is above 0 or 1, the field keeps the low bits, and the maximum stays a number.
LEMMA FieldSet ==
  ASSUME NEW x \in Nat, NEW m \in Nat
  PROVE  x % LevelRange \in 0..(LevelRange - 1) /\ Max({m, x}) \in Nat
<1>1. x % LevelRange \in 0..(LevelRange - 1)
  BY SizeAssumption
<1>2. Max({m, x}) \in {m, x}
  <2>1. {m, x} \subseteq Nat /\ {m, x} # {} /\ m + x \in Nat /\ \A y \in {m, x} : y =< m + x
    OBVIOUS
  <2>2. QED
    BY <2>1, MaxIs, Zenon
<1>3. QED
  BY <1>1, <1>2

\* The list is no longer than there are elements.
LEMMA ListLength ==
  ASSUME IInv
  PROVE  Len(sortedElements) \in Nat /\ Len(sortedElements) =< Size
         /\ DOMAIN sortedElements = 1..Len(sortedElements)
<1>1. Size \in Nat /\ sortedElements \in Seq(0..(Size - 1)) /\ IsInjective(sortedElements)
  BY SizeAssumption DEF IInv, TypeOK, Order, Ids
<1>2. QED
  BY <1>1, NoLongerThan

LEMMA UpdateLevelKeeps ==
  ASSUME IInv, UpdateLevel
  PROVE  IInv'
<1> DEFINE element == sortedElements[LevelIndex]
           below == {level[child.id] : child \in ToSet(ChildrenOf(element))}
           new == Above(below)
<1>1. /\ pc = "level" /\ next > 0 /\ next' = next - 1
      /\ maxLevel' = Max({maxLevel, new})
      /\ level' = [level EXCEPT ![element] = new % LevelRange]
      /\ UNCHANGED <<file, unread, count, numElements, elements, relations, sortedElements,
                     stack, depth, indent, maxDepth, maxIndent, pc>>
  BY DEF UpdateLevel, NextLevel
<1>2. LoadInv' /\ Order' /\ Frames' /\ Recursion' /\ Alive' = Alive /\ Listed' = Listed
  BY <1>1, SameOrder DEF relations
<1>3. next \in 1..Len(sortedElements) /\ Len(sortedElements) \in Nat
  BY <1>1, ListLength DEF IInv, Progress, TypeOK
<1>4. element \in Ids
  BY <1>3, ElementOfSeq DEF IInv, TypeOK, LevelIndex
<1>5. below \subseteq 0..(LevelRange - 1)
  <2>1. ToSet(ChildrenOf(element)) \subseteq [id : Ids, weight : Int]
    BY <1>4, Relatives, SetWithin DEF IInv
  <2>2. level \in [Ids -> 0..(LevelRange - 1)]
    BY DEF IInv, TypeOK, Fields
  <2>3. \A child \in ToSet(ChildrenOf(element)) : level[child.id] \in 0..(LevelRange - 1)
    BY <2>1, <2>2
  <2>4. QED
    BY <2>3
<1> HIDE DEF below
<1>6. new \in Nat
  BY <1>5, AboveIs
<1> HIDE DEF new, element
<1>7. new % LevelRange \in 0..(LevelRange - 1) /\ maxLevel' \in Nat
  BY <1>1, <1>6, FieldSet DEF IInv, TypeOK
<1>8. level' \in Fields /\ next' \in 0..(Size + 1) /\ next' =< Len(sortedElements)
  <2>1. level' \in Fields
    BY <1>1, <1>4, <1>7 DEF IInv, TypeOK, Fields
  <2>2. QED
    BY <1>1, <1>3, <2>1, SizeAssumption DEF IInv, TypeOK
<1>9. TypeOK'
  BY <1>1, <1>7, <1>8 DEF IInv, TypeOK, relations
<1>10. Progress'
  BY <1>1, <1>2, <1>8 DEF IInv, Progress
<1>11. QED
  BY <1>2, <1>9, <1>10 DEF IInv

LEMMA UpdateDepthIndentKeeps ==
  ASSUME IInv, UpdateDepthIndent
  PROVE  IInv'
<1> DEFINE element == sortedElements[next]
           parents == ParentsOf(element)
           above == {depth[parent] : parent \in ToSet(parents)}
           newDepth == Above(above)
           newIndent == IndentFrom(parents)
<1>1. /\ pc = "depth" /\ next =< Len(sortedElements) /\ next' = next + 1
      /\ maxDepth' = Max({maxDepth, newDepth}) /\ maxIndent' = Max({maxIndent, newIndent})
      /\ depth' = [depth EXCEPT ![element] = newDepth % LevelRange]
      /\ indent' = [indent EXCEPT ![element] = newIndent % LevelRange]
      /\ UNCHANGED <<file, unread, count, numElements, elements, relations, sortedElements,
                     stack, level, maxLevel, pc>>
  BY DEF UpdateDepthIndent
<1>2. LoadInv' /\ Order' /\ Frames' /\ Recursion' /\ Alive' = Alive /\ Listed' = Listed
  BY <1>1, SameOrder DEF relations
<1>3. next \in 1..Len(sortedElements) /\ Len(sortedElements) \in Nat /\ Len(sortedElements) =< Size
  BY <1>1, ListLength DEF IInv, Progress, TypeOK
<1>4. element \in Ids
  BY <1>3, ElementOfSeq DEF IInv, TypeOK
<1>5. parents \in Seq(Ids) /\ ToSet(parents) \subseteq Ids
  BY <1>4, Relatives DEF IInv
<1>6. /\ depth \in [Ids -> 0..(LevelRange - 1)] /\ indent \in [Ids -> 0..(LevelRange - 1)]
  BY DEF IInv, TypeOK, Fields
<1>7. above \subseteq 0..(LevelRange - 1)
  BY <1>5, <1>6
<1> HIDE DEF above
<1>8. newDepth \in Nat
  BY <1>7, AboveIs
<1>9. newIndent \in Nat
  <2>1. CASE parents = << >>
    BY <2>1 DEF IndentFrom
  <2>2. CASE parents # << >>
    <3>1. Head(parents) \in Ids
      BY <1>5, <2>2, HeadTailSet
    <3>2. newIndent = indent[Head(parents)] + 1
      BY <2>2 DEF IndentFrom
    <3>3. indent[Head(parents)] \in Nat
      BY <1>6, <3>1, SizeAssumption
    <3>4. QED
      BY <3>2, <3>3
  <2>3. QED
    BY <2>1, <2>2
<1> HIDE DEF newDepth, newIndent, element
<1>10. /\ newDepth % LevelRange \in 0..(LevelRange - 1) /\ maxDepth' \in Nat
       /\ newIndent % LevelRange \in 0..(LevelRange - 1) /\ maxIndent' \in Nat
  BY <1>1, <1>8, <1>9, FieldSet DEF IInv, TypeOK
<1>11. depth' \in Fields /\ indent' \in Fields
  BY <1>1, <1>4, <1>6, <1>10 DEF Fields
<1>12. next' \in 0..(Size + 1) /\ next' >= 1
  BY <1>1, <1>3, SizeAssumption
<1>13. TypeOK'
  BY <1>1, <1>10, <1>11, <1>12 DEF IInv, TypeOK, relations
<1>14. Progress'
  BY <1>1, <1>2, <1>12 DEF IInv, Progress
<1>15. QED
  BY <1>2, <1>13, <1>14 DEF IInv

LEMMA ChangesOfPhaseKeep ==
  ASSUME IInv, UpdateLevelIndentDepth \/ SortDone \/ LevelsDone \/ UpdateDone
  PROVE  IInv'
<1>1. /\ stack = << >> /\ pc \in {"loaded", "sort", "level", "depth"}
      /\ UNCHANGED <<file, unread, count, numElements, elements, relations, sortedElements,
                     stack, level, depth, indent>>
      /\ pc' \in {"sort", "level", "depth", "ready"}
      /\ maxLevel' \in Nat /\ maxDepth' \in Nat /\ maxIndent' \in Nat
  BY DEF IInv, Progress, TypeOK, UpdateLevelIndentDepth, SortDone, LevelsDone, UpdateDone, maxima
<1>2. LoadInv' /\ Order' /\ Frames' /\ Recursion' /\ Alive' = Alive /\ Listed' = Listed
  BY <1>1, SameOrder DEF relations
<1>3. Len(sortedElements) \in Nat /\ Len(sortedElements) =< Size /\ Size \in Nat
  BY ListLength, SizeAssumption
<1>4. next' \in 0..(Size + 1) /\ Progress'
  <2>1. CASE UpdateLevelIndentDepth
    <3>1. next' = 0 /\ pc' = "sort" /\ sortedElements = << >>
      BY <2>1 DEF UpdateLevelIndentDepth, IInv, Progress
    <3>2. \A id \in Alive : ~(id < 0)
      BY <1>3 DEF Alive, Ids
    <3>3. QED
      BY <1>1, <1>2, <1>3, <3>1, <3>2 DEF IInv, Progress
  <2>2. CASE SortDone
    <3>1. next = Size /\ next' = Len(sortedElements) /\ pc = "sort" /\ pc' = "level"
      BY <2>2 DEF SortDone
    <3>2. \A id \in Alive : id < next
      BY <1>3, <3>1 DEF Alive, Ids
    <3>3. Listed = Alive
      BY <1>1, <3>1, <3>2 DEF IInv, Progress
    <3>4. QED
      BY <1>1, <1>2, <1>3, <3>1, <3>3 DEF IInv, Progress
  <2>3. CASE LevelsDone
    <3>1. next' = 1 /\ pc = "level" /\ pc' = "depth"
      BY <2>3 DEF LevelsDone
    <3>2. QED
      BY <1>1, <1>2, <1>3, <3>1 DEF IInv, Progress
  <2>4. CASE UpdateDone
    <3>1. next' = next /\ pc = "depth" /\ pc' = "ready"
      BY <2>4 DEF UpdateDone
    <3>2. QED
      BY <1>1, <1>2, <1>3, <3>1 DEF IInv, Progress, TypeOK
  <2>5. QED
    BY <2>1, <2>2, <2>3, <2>4
<1>5. TypeOK'
  BY <1>1, <1>4 DEF IInv, TypeOK, relations
<1>6. QED
  BY <1>2, <1>4, <1>5 DEF IInv

-----------------------------------------------------------------------------
(* The steps of the recursion. *)

StackFrames == [element : Ids, parents : Seq(Ids)]

\* A frame in the place of the innermost one, and one more in front of it.
LEMMA FramesPut ==
  ASSUME NEW S, NEW s \in Seq(S), s # << >>, NEW f \in S, NEW c \in S
  PROVE  /\ Len(s) \in Nat \ {0} /\ DOMAIN s = 1..Len(s)
         /\ Tail(s) \in Seq(S) /\ DOMAIN Tail(s) = 1..(Len(s) - 1) /\ Len(Tail(s)) = Len(s) - 1
         /\ \A k \in 1..(Len(s) - 1) : Tail(s)[k] = s[k + 1]
         /\ <<c>> \o Tail(s) \in Seq(S) /\ Len(<<c>> \o Tail(s)) = Len(s)
         /\ DOMAIN (<<c>> \o Tail(s)) = 1..Len(s)
         /\ (<<c>> \o Tail(s))[1] = c
         /\ \A k \in 2..Len(s) : (<<c>> \o Tail(s))[k] = s[k]
         /\ <<f, c>> \o Tail(s) \in Seq(S) /\ Len(<<f, c>> \o Tail(s)) = Len(s) + 1
         /\ DOMAIN (<<f, c>> \o Tail(s)) = 1..(Len(s) + 1)
         /\ (<<f, c>> \o Tail(s))[1] = f /\ (<<f, c>> \o Tail(s))[2] = c
         /\ \A k \in 3..(Len(s) + 1) : (<<f, c>> \o Tail(s))[k] = s[k - 1]
<1>1. /\ Len(s) \in Nat \ {0} /\ DOMAIN s = 1..Len(s)
      /\ Tail(s) \in Seq(S) /\ Len(Tail(s)) = Len(s) - 1 /\ DOMAIN Tail(s) = 1..(Len(s) - 1)
      /\ \A k \in 1..(Len(s) - 1) : Tail(s)[k] = s[k + 1]
  BY EmptySeq
<1> DEFINE t == Tail(s)
<1> HIDE DEF t
<1>2. /\ t \in Seq(S) /\ Len(t) = Len(s) - 1 /\ \A k \in 1..(Len(s) - 1) : t[k] = s[k + 1]
  BY <1>1 DEF t
<1>3. /\ <<c>> \o t \in Seq(S) /\ Len(<<c>> \o t) = Len(s)
      /\ (<<c>> \o t)[1] = c
      /\ \A k \in 2..Len(s) : (<<c>> \o t)[k] = s[k]
  <2>1. /\ <<c>> \in Seq(S) /\ Len(<<c>>) = 1 /\ <<c>>[1] = c
    OBVIOUS
  <2>2. /\ <<c>> \o t \in Seq(S) /\ Len(<<c>> \o t) = 1 + Len(t)
        /\ \A k \in 1..(1 + Len(t)) : (<<c>> \o t)[k] = IF k =< 1 THEN <<c>>[k] ELSE t[k - 1]
    BY <1>2, <2>1, ConcatProperties
  <2>3. \A k \in 2..Len(s) : k - 1 \in 1..(Len(s) - 1) /\ k \in 1..(1 + Len(t)) /\ ~(k =< 1)
                             /\ (k - 1) + 1 = k
    BY <1>1, <1>2
  <2>4. \A k \in 2..Len(s) : (<<c>> \o t)[k] = s[k]
    <3> TAKE k \in 2..Len(s)
    <3>1. (<<c>> \o t)[k] = t[k - 1]
      BY <2>2, <2>3
    <3>2. t[k - 1] = s[(k - 1) + 1]
      BY <1>2, <2>3
    <3>3. QED
      BY <2>3, <3>1, <3>2
  <2>5. (<<c>> \o t)[1] = c
    <3>1. 1 \in 1..(1 + Len(t)) /\ 1 =< 1
      BY <1>1, <1>2
    <3>2. (<<c>> \o t)[1] = <<c>>[1]
      BY <2>2, <3>1
    <3>3. QED
      BY <2>1, <3>2
  <2>6. Len(<<c>> \o t) = Len(s)
    <3>1. Len(<<c>> \o t) = 1 + Len(t)
      BY <2>2
    <3>2. \A n \in Nat : 1 + (n - 1) = n
      OBVIOUS
    <3>3. Len(t) = Len(s) - 1 /\ Len(s) \in Nat
      BY <1>1, <1>2
    <3>4. QED
      BY <3>1, <3>2, <3>3, Zenon
  <2>7. QED
    BY <2>2, <2>4, <2>5, <2>6
<1>4. /\ <<f, c>> \o t \in Seq(S) /\ Len(<<f, c>> \o t) = Len(s) + 1
      /\ (<<f, c>> \o t)[1] = f /\ (<<f, c>> \o t)[2] = c
      /\ \A k \in 3..(Len(s) + 1) : (<<f, c>> \o t)[k] = s[k - 1]
  <2>1. /\ <<f, c>> \in Seq(S) /\ Len(<<f, c>>) = 2 /\ <<f, c>>[1] = f /\ <<f, c>>[2] = c
    OBVIOUS
  <2>2. /\ <<f, c>> \o t \in Seq(S) /\ Len(<<f, c>> \o t) = 2 + Len(t)
        /\ \A k \in 1..(2 + Len(t)) : (<<f, c>> \o t)[k] = IF k =< 2 THEN <<f, c>>[k] ELSE t[k - 2]
    BY <1>2, <2>1, ConcatProperties
  <2>3. \A k \in 3..(Len(s) + 1) : k - 2 \in 1..(Len(s) - 1) /\ k \in 1..(2 + Len(t)) /\ ~(k =< 2)
                                   /\ (k - 2) + 1 = k - 1
    BY <1>1, <1>2
  <2>4. \A k \in 3..(Len(s) + 1) : (<<f, c>> \o t)[k] = s[k - 1]
    <3> TAKE k \in 3..(Len(s) + 1)
    <3>1. (<<f, c>> \o t)[k] = t[k - 2]
      BY <2>2, <2>3
    <3>2. t[k - 2] = s[(k - 2) + 1]
      BY <1>2, <2>3
    <3>3. QED
      BY <2>3, <3>1, <3>2
  <2>5. QED
    BY <1>1, <1>2, <2>1, <2>2, <2>4
<1>5. QED
  BY <1>1, <1>3, <1>4 DEF t

\* What a step of the recursion finds and leaves alone.
LEMMA SortFrame ==
  ASSUME IInv, SortNext \/ VisitParent \/ AddSorted
  PROVE  /\ pc = "sort" /\ pc' = "sort" /\ stack \in Seq(StackFrames) /\ sortedElements \in Seq(Ids)
         /\ UNCHANGED <<file, unread, count, numElements, elements, childToParents, parentToChildren,
                        level, depth, indent, maxLevel, maxDepth, maxIndent>>
         /\ LoadInv' /\ Alive' = Alive /\ Alive \subseteq Ids
         /\ \A id : ParentsOf(id)' = ParentsOf(id)
         /\ \A rank : Falls(rank) => Falls(rank)'
         /\ \A id \in Ids : elements[id] # "none" <=> id \in Alive
         /\ \A id : Contains(sortedElements, id) <=> id \in Listed
<1>1. /\ pc = "sort" /\ pc' = "sort"
      /\ UNCHANGED <<file, unread, count, numElements, elements, childToParents, parentToChildren,
                     level, depth, indent, maxLevel, maxDepth, maxIndent>>
  BY DEF SortNext, VisitParent, AddSorted, relations, maxima
<1>2. stack \in Seq(StackFrames) /\ sortedElements \in Seq(Ids)
  BY DEF IInv, TypeOK, StackFrames
<1>3. Kept(file)' = Kept(file)
  BY <1>1 DEF Kept
<1>4. LoadInv'
  BY <1>1, <1>3 DEF IInv, LoadInv
<1>5. Alive' = Alive /\ Alive \subseteq Ids /\ \A id \in Ids : elements[id] # "none" <=> id \in Alive
  BY <1>1 DEF Alive
<1>6. \A id : ParentsOf(id)' = ParentsOf(id)
  BY <1>1 DEF ParentsOf
<1>7. \A rank : Falls(rank) => Falls(rank)'
  BY <1>1 DEF Falls, ParentsOf
<1>8. \A id : Contains(sortedElements, id) <=> id \in Listed
  BY <1>2 DEF Contains, Listed, ToSet
<1>9. QED
  BY <1>1, <1>2, <1>4, <1>5, <1>6, <1>7, <1>8

\* A frame that is entered has all its parents before it.
LEMMA NewFrame ==
  ASSUME IInv, pc = "sort", NEW id \in Ids
  PROVE  /\ Frame(id) \in StackFrames
         /\ Frame(id).element = id /\ Frame(id).parents = ParentsOf(id)
<1>1. ParentsOf(id) \in Seq(Ids)
  BY Relatives DEF IInv
<1>2. QED
  BY <1>1 DEF Frame, StackFrames

LEMMA SortNextKeeps ==
  ASSUME IInv, SortNext
  PROVE  IInv'
<1>1. /\ stack = << >> /\ next \in Ids /\ next' = next + 1
      /\ stack' = IF IsNew(next) THEN <<Frame(next)>> ELSE << >>
      /\ sortedElements' = sortedElements
  BY DEF SortNext
<1>2. /\ pc = "sort" /\ pc' = "sort" /\ LoadInv' /\ Alive' = Alive /\ Alive \subseteq Ids
      /\ \A id : ParentsOf(id)' = ParentsOf(id)
      /\ \A rank : Falls(rank) => Falls(rank)'
      /\ IsNew(next) <=> next \in Alive \ Listed
      /\ UNCHANGED <<file, unread, count, numElements, elements, childToParents, parentToChildren,
                     level, depth, indent, maxLevel, maxDepth, maxIndent>>
  BY <1>1, SortFrame DEF IsNew
<1>3. Listed' = Listed
  BY <1>1 DEF Listed
<1>4. /\ Frame(next) \in StackFrames
      /\ Frame(next).element = next /\ Frame(next).parents = ParentsOf(next)
  BY <1>1, <1>2, NewFrame
<1>5. stack' \in Seq(StackFrames)
  <2> DEFINE f == Frame(next)
  <2>1. f \in StackFrames
    BY <1>4
  <2> HIDE DEF f
  <2>2. <<f>> \in Seq(StackFrames)
    BY <2>1
  <2>3. CASE IsNew(next)
    BY <1>1, <2>2, <2>3 DEF f
  <2>4. CASE ~IsNew(next)
    BY <1>1, <2>4, EmptySeq
  <2>5. QED
    BY <2>3, <2>4
<1>6. TypeOK'
  <2>1. next' \in 0..(Size + 1)
    BY <1>1, SizeAssumption DEF Ids
  <2>2. QED
    BY <1>1, <1>2, <1>5, <2>1 DEF IInv, TypeOK, StackFrames
<1>7. Order'
  BY <1>1, <1>2 DEF IInv, Order
<1>8. \A k \in DOMAIN stack' : k = 1 /\ IsNew(next) /\ stack'[k] = Frame(next)
  <2>1. CASE IsNew(next)
    BY <1>1, <2>1
  <2>2. CASE ~IsNew(next)
    BY <1>1, <2>2
  <2>3. QED
    BY <2>1, <2>2
<1>9. Frames'
  <2> SUFFICES ASSUME NEW k \in DOMAIN stack'
               PROVE  /\ stack'[k].element \in Alive' \ Listed'
                      /\ ToSet(stack'[k].parents) \subseteq ToSet(ParentsOf(stack[k].element)')
                      /\ \A p \in ToSet(ParentsOf(stack[k].element)') :
                           p \in ToSet(stack'[k].parents) \cup Listed' \/ (k > 1 /\ p = stack'[k - 1].element)
    BY DEF Frames
  <2>1. stack'[k].element = next /\ stack'[k].parents = ParentsOf(next) /\ next \in Alive \ Listed
    BY <1>2, <1>4, <1>8
  <2>2. ParentsOf(stack[k].element)' = ParentsOf(next)
    BY <1>2, <2>1 DEF ParentsOf
  <2>3. QED
    BY <1>2, <1>3, <2>1, <2>2
<1>10. Recursion'
  <2>1. PICK rank \in [Ids -> Ids] : Falls(rank)
    BY DEF IInv, Recursion
  <2>2. Chain(rank)'
    BY <1>8 DEF Chain
  <2>3. QED
    BY <1>2, <2>1, <2>2 DEF Recursion
<1>11. Progress'
  <2>1. next' =< Size
    BY <1>1, SizeAssumption DEF Ids
  <2>2. ASSUME NEW id \in Alive, id < next'
        PROVE  id \in Listed \/ (stack' # << >> /\ id = stack'[Len(stack')].element)
    <3>1. CASE id < next
      <4>1. id \in Listed
        BY <1>1, <1>2, <3>1 DEF IInv, Progress
      <4>2. QED
        BY <4>1
    <3>2. CASE id = next
      <4>1. CASE IsNew(next)
        <5>1. stack' # << >> /\ Len(stack') = 1 /\ stack'[1] = Frame(next)
          BY <1>1, <4>1
        <5>2. QED
          BY <1>4, <3>2, <5>1
      <4>2. CASE ~IsNew(next)
        BY <1>2, <3>2, <4>2
      <4>3. QED
        BY <4>1, <4>2
    <3>3. id \in Int /\ next \in Int
      BY <1>1, <1>2 DEF Ids
    <3>4. QED
      BY <1>1, <2>2, <3>1, <3>2, <3>3
  <2>3. QED
    BY <1>2, <1>3, <2>1, <2>2 DEF IInv, Progress
<1>12. QED
  BY <1>2, <1>6, <1>7, <1>9, <1>10, <1>11 DEF IInv

LEMMA VisitParentKeeps ==
  ASSUME IInv, VisitParent
  PROVE  IInv'
<1> DEFINE top == Head(stack)
           parent == Head(top.parents)
           caller == [top EXCEPT !.parents = Tail(@)]
           n == Len(stack)
<1>1. /\ stack # << >> /\ top.parents # << >>
      /\ stack' = IF IsNew(parent) THEN <<Frame(parent), caller>> \o Tail(stack)
                  ELSE <<caller>> \o Tail(stack)
      /\ sortedElements' = sortedElements /\ next' = next
  BY DEF VisitParent
<1>2. /\ pc = "sort" /\ pc' = "sort" /\ LoadInv' /\ Alive' = Alive /\ Alive \subseteq Ids
      /\ stack \in Seq(StackFrames)
      /\ \A id : ParentsOf(id)' = ParentsOf(id)
      /\ \A rank : Falls(rank) => Falls(rank)'
      /\ \A id \in Ids : IsNew(id) <=> id \in Alive \ Listed
      /\ UNCHANGED <<file, unread, count, numElements, elements, childToParents, parentToChildren,
                     level, depth, indent, maxLevel, maxDepth, maxIndent>>
  BY SortFrame DEF IsNew
<1>3. Listed' = Listed
  BY <1>1 DEF Listed
<1>4. top = stack[1] /\ top \in StackFrames /\ n \in Nat \ {0} /\ DOMAIN stack = 1..n
  BY <1>1, <1>2, EmptySeq
<1>5. top.parents \in Seq(Ids) /\ top.element \in Ids
  BY <1>4 DEF StackFrames
<1>6. /\ parent \in Ids /\ Tail(top.parents) \in Seq(Ids)
      /\ ToSet(top.parents) = {parent} \cup ToSet(Tail(top.parents))
  BY <1>1, <1>5, HeadTailSet
<1>7. /\ caller \in StackFrames /\ caller.element = top.element
      /\ caller.parents = Tail(top.parents)
  BY <1>4, <1>6 DEF StackFrames
<1> HIDE DEF caller
<1>8. /\ top.element \in Alive \ Listed
      /\ ToSet(top.parents) \subseteq ToSet(ParentsOf(top.element))
      /\ \A p \in ToSet(ParentsOf(top.element)) : p \in ToSet(top.parents) \cup Listed
  BY <1>4 DEF IInv, Frames
<1>9. parent \in ToSet(ParentsOf(top.element)) /\ parent \in Alive
  <2>1. ToSet(ParentsOf(top.element)) \subseteq Alive
    BY <1>2, <1>5, Relatives DEF IInv
  <2>2. QED
    BY <1>6, <1>8, <2>1
<1>10. PICK rank \in [Ids -> Ids] : Falls(rank) /\ Chain(rank)
  BY DEF IInv, Recursion
<1>11. /\ rank[parent] < rank[top.element]
       /\ \A j \in 1..n : rank[stack[j].element] \in Int
       /\ rank[parent] \in Int /\ rank[top.element] \in Int
       /\ \A j, k \in 1..n : j < k => rank[stack[j].element] < rank[stack[k].element]
  <2>1. rank[parent] < rank[top.element]
    BY <1>5, <1>9, <1>10 DEF Falls
  <2>2. \A j \in 1..n : stack[j].element \in Ids
    <3>1. \A j \in 1..n : stack[j] \in StackFrames
      BY <1>2, ElementOfSeq
    <3>2. QED
      BY <3>1 DEF StackFrames
  <2>3. \A id \in Ids : rank[id] \in Int
    BY <1>10 DEF Ids
  <2>4. QED
    BY <1>4, <1>5, <1>6, <1>10, <2>1, <2>2, <2>3 DEF Chain
<1>12. /\ Frame(parent) \in StackFrames
       /\ Frame(parent).element = parent /\ Frame(parent).parents = ParentsOf(parent)
  BY <1>2, <1>6, NewFrame
<1>13. Progress' /\ stack' \in Seq(StackFrames) /\ Frames' /\ Chain(rank)'
  <2>1. CASE ~IsNew(parent)
    <3>1. /\ stack' \in Seq(StackFrames) /\ Len(stack') = n /\ DOMAIN stack' = 1..n
          /\ stack'[1] = caller /\ \A k \in 2..n : stack'[k] = stack[k]
      BY <1>1, <1>2, <1>7, <2>1, FramesPut
    <3>2. \A k \in 1..n : stack'[k].element = stack[k].element
      <4> TAKE k \in 1..n
      <4>1. CASE k = 1
        BY <1>4, <1>7, <3>1, <4>1
      <4>2. CASE k # 1
        BY <1>4, <3>1, <4>2
      <4>3. QED
        BY <4>1, <4>2
    <3>3. parent \in Listed
      BY <1>2, <1>6, <1>9, <2>1
    <3>4. Frames'
      <4> SUFFICES ASSUME NEW k \in 1..n
                   PROVE  /\ stack'[k].element \in Alive' \ Listed'
                          /\ ToSet(stack'[k].parents) \subseteq ToSet(ParentsOf(stack[k].element)')
                          /\ \A p \in ToSet(ParentsOf(stack[k].element)') :
                               p \in ToSet(stack'[k].parents) \cup Listed' \/ (k > 1 /\ p = stack'[k - 1].element)
        BY <3>1 DEF Frames
      <4>1. PICK e : e = stack[k].element
        OBVIOUS
      <4>2. ParentsOf(stack[k].element)' = ParentsOf(e)
        BY <1>2, <3>2, <4>1 DEF ParentsOf
      <4>3. /\ e \in Alive \ Listed /\ ToSet(stack[k].parents) \subseteq ToSet(ParentsOf(e))
            /\ \A p \in ToSet(ParentsOf(e)) :
                 p \in ToSet(stack[k].parents) \cup Listed \/ (k > 1 /\ p = stack[k - 1].element)
        BY <1>4, <4>1 DEF IInv, Frames
      <4>4. k > 1 => stack'[k - 1].element = stack[k - 1].element
        BY <1>4, <3>2
      <4>5. CASE k = 1
        <5>1. stack'[k].parents = Tail(top.parents) /\ stack[k].parents = top.parents
          BY <1>4, <1>7, <3>1, <4>5
        <5>2. QED
          BY <1>2, <1>3, <1>6, <3>2, <3>3, <4>1, <4>2, <4>3, <4>5, <5>1
      <4>6. CASE k # 1
        <5>1. stack'[k].parents = stack[k].parents
          BY <1>4, <3>1, <4>6
        <5>2. QED
          BY <1>2, <1>3, <3>2, <4>1, <4>2, <4>3, <4>4, <5>1
      <4>7. QED
        BY <4>5, <4>6
    <3>5. Chain(rank)'
      BY <1>11, <3>1, <3>2 DEF Chain
    <3>6. Progress'
      <4>1. stack' # << >> /\ stack'[Len(stack')].element = stack[Len(stack)].element
        BY <1>4, <3>1, <3>2, EmptySeq
      <4>2. QED
        BY <1>1, <1>2, <1>3, <4>1 DEF IInv, Progress
    <3>7. QED
      BY <3>1, <3>4, <3>5, <3>6
  <2>2. CASE IsNew(parent)
    <3>1. /\ stack' \in Seq(StackFrames) /\ Len(stack') = n + 1 /\ DOMAIN stack' = 1..(n + 1)
          /\ stack'[1] = Frame(parent) /\ stack'[2] = caller
          /\ \A k \in 3..(n + 1) : stack'[k] = stack[k - 1]
      BY <1>1, <1>2, <1>7, <1>12, <2>2, FramesPut
    <3>2. stack'[1].element = parent /\ \A k \in 2..(n + 1) : stack'[k].element = stack[k - 1].element
      <4>1. stack'[1].element = parent
        BY <1>12, <3>1
      <4>2. ASSUME NEW k \in 2..(n + 1) PROVE stack'[k].element = stack[k - 1].element
        <5>1. CASE k = 2
          <6>1. stack'[k].element = top.element /\ k - 1 = 1
            BY <1>7, <3>1, <5>1
          <6>2. QED
            BY <1>4, <6>1
        <5>2. CASE k # 2
          BY <1>4, <3>1, <5>2
        <5>3. QED
          BY <5>1, <5>2
      <4>3. QED
        BY <4>1, <4>2
    <3>3. parent \in Alive \ Listed
      BY <1>2, <1>6, <2>2
    <3>4. Frames'
      <4> SUFFICES ASSUME NEW k \in 1..(n + 1)
                   PROVE  /\ stack'[k].element \in Alive' \ Listed'
                          /\ ToSet(stack'[k].parents) \subseteq ToSet(ParentsOf(stack[k].element)')
                          /\ \A p \in ToSet(ParentsOf(stack[k].element)') :
                               p \in ToSet(stack'[k].parents) \cup Listed' \/ (k > 1 /\ p = stack'[k - 1].element)
        BY <3>1 DEF Frames
      <4>1. CASE k = 1
        <5>1. ParentsOf(stack[k].element)' = ParentsOf(parent)
          BY <1>2, <3>2, <4>1 DEF ParentsOf
        <5>2. stack'[k].parents = ParentsOf(parent) /\ stack'[k].element = parent
          BY <1>12, <3>1, <4>1
        <5>3. QED
          BY <1>2, <1>3, <3>3, <5>1, <5>2
      <4>2. CASE k = 2
        <5>1. ParentsOf(stack[k].element)' = ParentsOf(top.element)
          BY <1>2, <1>7, <3>1, <4>2 DEF ParentsOf
        <5>2. /\ stack'[k].parents = Tail(top.parents) /\ stack'[k].element = top.element
              /\ stack'[k - 1].element = parent
          <6>1. k - 1 = 1
            BY <4>2
          <6>2. stack'[k - 1].element = parent
            BY <3>2, <6>1
          <6>3. QED
            BY <1>7, <3>1, <4>2, <6>2
        <5>3. QED
          BY <1>2, <1>3, <1>6, <1>8, <4>2, <5>1, <5>2
      <4>3. CASE k > 2
        <5>1. k - 1 \in 1..n /\ k - 1 > 1 /\ k \in 3..(n + 1) /\ k - 1 \in 2..(n + 1)
          BY <1>4, <4>3
        <5>2. PICK e : e = stack[k - 1].element
          OBVIOUS
        <5>3. stack'[k] = stack[k - 1] /\ stack'[k - 1].element = stack[(k - 1) - 1].element
          BY <3>1, <3>2, <5>1
        <5>4. ParentsOf(stack[k].element)' = ParentsOf(e)
          BY <1>2, <5>2, <5>3 DEF ParentsOf
        <5>5. /\ e \in Alive \ Listed /\ ToSet(stack[k - 1].parents) \subseteq ToSet(ParentsOf(e))
              /\ \A p \in ToSet(ParentsOf(e)) :
                   p \in ToSet(stack[k - 1].parents) \cup Listed \/ p = stack[(k - 1) - 1].element
          BY <1>4, <5>1, <5>2 DEF IInv, Frames
        <5>6. QED
          BY <1>2, <1>3, <4>3, <5>2, <5>3, <5>4, <5>5
      <4>4. k \in Nat /\ (k = 1 \/ k = 2 \/ k > 2)
        BY <1>4
      <4>5. QED
        BY <4>1, <4>2, <4>3, <4>4
    <3>5. Chain(rank)'
      <4> SUFFICES ASSUME NEW j \in 1..(n + 1), NEW k \in 1..(n + 1), j < k
                   PROVE  rank[stack'[j].element] < rank[stack'[k].element]
        BY <3>1 DEF Chain
      <4>1. k - 1 \in 1..n /\ stack'[k].element = stack[k - 1].element
        BY <1>4, <3>2
      <4>2. CASE j = 1
        <5>1. rank[top.element] =< rank[stack[k - 1].element]
          <6>1. CASE k = 2
            BY <1>4, <1>11, <6>1
          <6>2. CASE k # 2
            <7>1. 1 < k - 1 /\ 1 \in 1..n
              BY <1>4, <4>1, <4>2, <6>2
            <7>2. rank[stack[1].element] < rank[stack[k - 1].element]
              BY <1>11, <4>1, <7>1
            <7>3. QED
              BY <1>4, <1>11, <4>1, <7>2
          <6>3. QED
            BY <6>1, <6>2
        <5>2. stack'[j].element = parent
          BY <3>2, <4>2
        <5>3. rank[parent] < rank[stack[k - 1].element]
          BY <1>11, <4>1, <5>1
        <5>4. QED
          BY <4>1, <5>2, <5>3
      <4>3. CASE j # 1
        <5>1. j - 1 \in 1..n /\ j - 1 < k - 1 /\ stack'[j].element = stack[j - 1].element
          BY <1>4, <3>2, <4>3
        <5>2. rank[stack[j - 1].element] < rank[stack[k - 1].element]
          BY <1>11, <4>1, <5>1
        <5>3. QED
          BY <4>1, <5>1, <5>2
      <4>4. QED
        BY <4>2, <4>3
    <3>6. Progress'
      <4>1. stack' # << >> /\ stack'[Len(stack')].element = stack[Len(stack)].element
        <5>1. stack' # << >>
          BY <1>4, <3>1, EmptySeq
        <5>2. n + 1 \in 2..(n + 1) /\ (n + 1) - 1 = n
          BY <1>4
        <5>3. stack'[n + 1].element = stack[n].element
          BY <3>2, <5>2
        <5>4. QED
          BY <3>1, <5>1, <5>3
      <4>2. QED
        BY <1>1, <1>2, <1>3, <4>1 DEF IInv, Progress
    <3>7. QED
      BY <3>1, <3>4, <3>5, <3>6
  <2>3. QED
    BY <2>1, <2>2
<1>14. TypeOK'
  BY <1>1, <1>2, <1>13 DEF IInv, TypeOK, StackFrames
<1>15. Order'
  BY <1>1, <1>2 DEF IInv, Order
<1>16. Recursion'
  BY <1>2, <1>10, <1>13 DEF Recursion
<1>17. QED
  BY <1>2, <1>13, <1>14, <1>15, <1>16 DEF IInv

LEMMA AddSortedKeeps ==
  ASSUME IInv, AddSorted
  PROVE  IInv'
<1> DEFINE top == Head(stack)
           id == top.element
           n == Len(stack)
           m == Len(sortedElements)
<1>1. /\ stack # << >> /\ top.parents = << >>
      /\ sortedElements' = Append(sortedElements, id)
      /\ stack' = Tail(stack) /\ next' = next
  BY DEF AddSorted
<1>2. /\ pc = "sort" /\ pc' = "sort" /\ LoadInv' /\ Alive' = Alive /\ Alive \subseteq Ids
      /\ stack \in Seq(StackFrames) /\ sortedElements \in Seq(Ids)
      /\ \A x : ParentsOf(x)' = ParentsOf(x)
      /\ \A rank : Falls(rank) => Falls(rank)'
      /\ UNCHANGED <<file, unread, count, numElements, elements, childToParents, parentToChildren,
                     level, depth, indent, maxLevel, maxDepth, maxIndent>>
  BY SortFrame
<1>3. /\ top = stack[1] /\ top \in StackFrames /\ n \in Nat \ {0} /\ DOMAIN stack = 1..n
      /\ stack' \in Seq(StackFrames) /\ Len(stack') = n - 1 /\ DOMAIN stack' = 1..(n - 1)
      /\ \A k \in 1..(n - 1) : stack'[k] = stack[k + 1]
  BY <1>1, <1>2, EmptySeq
<1>4. id \in Ids
  BY <1>3 DEF StackFrames
<1>5. /\ id \in Alive \ Listed
      /\ \A p \in ToSet(ParentsOf(id)) : p \in Listed
  <2>1. ToSet(top.parents) = {}
    BY <1>1 DEF ToSet
  <2>2. 1 \in DOMAIN stack /\ ~(1 > 1) /\ stack[1] = top
    BY <1>3
  <2>3. /\ stack[1].element \in Alive \ Listed
        /\ \A p \in ToSet(ParentsOf(stack[1].element)) : p \in ToSet(stack[1].parents) \cup Listed
    BY <2>2 DEF IInv, Frames
  <2>4. QED
    BY <2>1, <2>2, <2>3
<1> HIDE DEF id
<1>6. Listed' = Listed \cup {id}
  BY <1>1, <1>2, <1>4, AppendSet DEF Listed
<1>7. /\ m \in Nat /\ DOMAIN sortedElements = 1..m
      /\ sortedElements' \in Seq(Ids) /\ DOMAIN sortedElements' = 1..(m + 1)
      /\ \A i \in 1..m : sortedElements'[i] = sortedElements[i]
      /\ sortedElements'[m + 1] = id
  BY <1>1, <1>2, <1>4
<1>8. Order'
  <2>1. IsInjective(sortedElements')
    <3>1. \A i \in 1..m : sortedElements[i] # id
      BY <1>5, <1>7 DEF Listed, ToSet
    <3>2. \A i, j \in 1..m : sortedElements[i] = sortedElements[j] => i = j
      BY <1>7 DEF IInv, Order, IsInjective
    <3>3. \A i \in 1..(m + 1) : i \in 1..m \/ i = m + 1
      BY <1>7
    <3>4. \A i, j \in 1..(m + 1) : sortedElements'[i] = sortedElements'[j] => i = j
      BY <1>7, <3>1, <3>2, <3>3
    <3>5. QED
      BY <1>7, <3>4 DEF IsInjective
  <2>2. ASSUME NEW i \in 1..(m + 1), NEW p \in ToSet(ParentsOf(sortedElements[i])')
        PROVE  \E j \in 1..(i - 1) : p = sortedElements'[j]
    <3>1. CASE i \in 1..m
      <4>1. PICK x : x = sortedElements[i]
        OBVIOUS
      <4>2. ParentsOf(sortedElements[i])' = ParentsOf(x)
        BY <1>2, <1>7, <3>1, <4>1 DEF ParentsOf
      <4>3. p \in {sortedElements[j] : j \in 1..(i - 1)}
        BY <1>7, <2>2, <3>1, <4>1, <4>2 DEF IInv, Order
      <4>4. PICK j \in 1..(i - 1) : p = sortedElements[j]
        BY <4>3
      <4>5. j \in 1..m
        BY <1>7, <3>1
      <4>6. QED
        BY <1>7, <4>4, <4>5
    <3>2. CASE i = m + 1
      <4>1. ParentsOf(sortedElements[i])' = ParentsOf(id)
        BY <1>2, <1>7, <3>2 DEF ParentsOf
      <4>2. PICK j \in DOMAIN sortedElements : p = sortedElements[j]
        BY <1>5, <2>2, <4>1 DEF Listed, ToSet
      <4>3. j \in 1..(i - 1)
        BY <1>7, <3>2
      <4>4. QED
        BY <1>7, <4>2, <4>3
    <3>3. QED
      BY <1>7, <3>1, <3>2
  <2>3. QED
    BY <1>7, <2>1, <2>2 DEF Order
<1>9. PICK rank \in [Ids -> Ids] : Falls(rank) /\ Chain(rank)
  BY DEF IInv, Recursion
<1>10. Chain(rank)'
  <2> SUFFICES ASSUME NEW j \in 1..(n - 1), NEW k \in 1..(n - 1), j < k
               PROVE  rank[stack'[j].element] < rank[stack'[k].element]
    BY <1>3 DEF Chain
  <2>1. j + 1 \in 1..n /\ k + 1 \in 1..n /\ j + 1 < k + 1
    BY <1>3
  <2>2. rank[stack[j + 1].element] < rank[stack[k + 1].element]
    BY <1>3, <1>9, <2>1 DEF Chain
  <2>3. QED
    BY <1>3, <2>2
<1>11. Frames'
  <2> SUFFICES ASSUME NEW k \in 1..(n - 1)
               PROVE  /\ stack'[k].element \in Alive' \ Listed'
                      /\ ToSet(stack'[k].parents) \subseteq ToSet(ParentsOf(stack[k].element)')
                      /\ \A p \in ToSet(ParentsOf(stack[k].element)') :
                           p \in ToSet(stack'[k].parents) \cup Listed' \/ (k > 1 /\ p = stack'[k - 1].element)
    BY <1>3 DEF Frames
  <2>1. PICK e : e = stack[k + 1].element
    OBVIOUS
  <2>2. k + 1 \in 1..n /\ 1 < k + 1 /\ 1 \in 1..n /\ (k + 1) - 1 = k /\ stack'[k] = stack[k + 1]
    BY <1>3
  <2>3. ParentsOf(stack[k].element)' = ParentsOf(e)
    BY <1>2, <2>1, <2>2 DEF ParentsOf
  <2>4. /\ e \in Alive \ Listed /\ ToSet(stack[k + 1].parents) \subseteq ToSet(ParentsOf(e))
        /\ \A p \in ToSet(ParentsOf(e)) :
             p \in ToSet(stack[k + 1].parents) \cup Listed \/ p = stack[k].element
    <3>1. PICK l : l = k + 1
      OBVIOUS
    <3>2. l \in DOMAIN stack /\ l - 1 = k /\ stack[l].element = e
      BY <1>3, <2>1, <2>2, <3>1
    <3>3. /\ stack[l].element \in Alive \ Listed
          /\ ToSet(stack[l].parents) \subseteq ToSet(ParentsOf(stack[l].element))
          /\ \A p \in ToSet(ParentsOf(stack[l].element)) :
               p \in ToSet(stack[l].parents) \cup Listed \/ p = stack[l - 1].element
      BY <3>2 DEF IInv, Frames
    <3>4. QED
      BY <3>1, <3>2, <3>3
  <2>5. e # id
    <3>1. rank[stack[1].element] < rank[stack[k + 1].element]
      BY <1>3, <1>9, <2>2 DEF Chain
    <3>2. stack[1].element = id
      BY <1>3 DEF id
    <3>3. rank[id] < rank[e]
      BY <2>1, <3>1, <3>2
    <3>4. rank[id] \in Int
      BY <1>4, <1>9 DEF Ids
    <3>5. QED
      BY <3>3, <3>4
  <2>6. \A p \in ToSet(ParentsOf(e)) :
          p \in ToSet(stack[k + 1].parents) \cup Listed' \/ (k > 1 /\ p = stack'[k - 1].element)
    <3>1. CASE k = 1
      BY <1>3, <1>6, <2>4, <3>1 DEF id
    <3>2. CASE k # 1
      <4>1. k - 1 \in 1..(n - 1) /\ k > 1 /\ (k - 1) + 1 = k
        BY <1>3, <3>2
      <4>2. stack'[k - 1] = stack[(k - 1) + 1]
        BY <1>3, <4>1
      <4>3. stack'[k - 1] = stack[k]
        BY <4>1, <4>2
      <4>4. QED
        BY <1>6, <2>4, <4>1, <4>3
    <3>3. QED
      BY <3>1, <3>2
  <2>7. QED
    BY <1>2, <1>6, <2>1, <2>2, <2>3, <2>4, <2>5, <2>6
<1>12. Progress'
  <2>1. ASSUME NEW x \in Alive, x < next
        PROVE  x \in Listed' \/ (stack' # << >> /\ x = stack'[Len(stack')].element)
    <3>1. x \in Listed \/ x = stack[n].element
      BY <1>2, <2>1 DEF IInv, Progress
    <3>2. CASE n = 1
      BY <1>3, <1>6, <3>1, <3>2 DEF id
    <3>3. CASE n # 1
      <4>1. n - 1 \in 1..(n - 1) /\ (n - 1) + 1 = n /\ n - 1 > 0
        BY <1>3, <3>3
      <4>2. stack'[n - 1] = stack[(n - 1) + 1]
        BY <1>3, <4>1
      <4>3. stack'[Len(stack')] = stack[n]
        BY <1>3, <4>1, <4>2
      <4>4. stack' # << >>
        BY <1>3, <4>1, EmptySeq
      <4>5. QED
        BY <1>6, <3>1, <4>3, <4>4
    <3>4. QED
      BY <3>2, <3>3
  <2>2. Listed' \subseteq Alive
    BY <1>5, <1>6 DEF IInv, Progress
  <2>3. QED
    BY <1>1, <1>2, <2>1, <2>2 DEF IInv, Progress
<1>13. TypeOK'
  BY <1>1, <1>2, <1>3, <1>7 DEF IInv, TypeOK, StackFrames
<1>14. Recursion'
  BY <1>2, <1>9, <1>10 DEF Recursion
<1>15. QED
  BY <1>2, <1>8, <1>11, <1>12, <1>13, <1>14 DEF IInv

-----------------------------------------------------------------------------
(* The theorem. *)

LEMMA IInvAlways == Spec => []IInv
<1>1. IInv /\ [Next]_vars => IInv'
  <2> SUFFICES ASSUME IInv, [Next]_vars PROVE IInv'
    OBVIOUS
  <2>1. ASSUME NEW id \in unread, LoadElement(id) PROVE IInv'
    BY <2>1, LoadElementKeeps
  <2>2. CASE (\E id \in unread : SkipString(id) \/ Fail(id)) \/ ClearUnused
    BY <2>2, OtherLoadStepsKeep
  <2>3. CASE UpdateLevelIndentDepth \/ SortDone \/ LevelsDone \/ UpdateDone
    BY <2>3, ChangesOfPhaseKeep
  <2>4. CASE SortNext
    BY <2>4, SortNextKeeps
  <2>5. CASE VisitParent
    BY <2>5, VisitParentKeeps
  <2>6. CASE AddSorted
    BY <2>6, AddSortedKeeps
  <2>7. CASE UpdateLevel
    BY <2>7, UpdateLevelKeeps
  <2>8. CASE UpdateDepthIndent
    BY <2>8, UpdateDepthIndentKeeps
  <2>9. CASE UNCHANGED vars
    <3>1. UNCHANGED <<file, unread, count, numElements, elements, childToParents, parentToChildren,
                      sortedElements, stack, next, level, depth, indent, maxLevel, maxDepth,
                      maxIndent, pc>>
      BY <2>9 DEF vars, relations, maxima
    <3>2. Kept(file)' = Kept(file) /\ Alive' = Alive /\ Listed' = Listed
      BY <3>1 DEF Kept, Alive, Listed
    <3>3. TypeOK' /\ LoadInv'
      <4>1. TypeOK'
        BY <3>1 DEF IInv, TypeOK
      <4>2. LoadInv'
        BY <3>1, <3>2 DEF IInv, LoadInv
      <4>3. QED
        BY <4>1, <4>2
    <3>4. Order' /\ Frames' /\ Progress'
      <4>1. Order'
        BY <3>1 DEF IInv, Order, ParentsOf
      <4>2. Frames'
        BY <3>1, <3>2 DEF IInv, Frames, ParentsOf
      <4>3. Progress'
        BY <3>1, <3>2 DEF IInv, Progress
      <4>4. QED
        BY <4>1, <4>2, <4>3
    <3>5. Recursion'
      <4>1. PICK rank \in [Ids -> Ids] : Falls(rank) /\ Chain(rank)
        BY DEF IInv, Recursion
      <4>2. Falls(rank)' /\ Chain(rank)'
        BY <3>1, <4>1 DEF Falls, Chain, ParentsOf
      <4>3. QED
        BY <4>2 DEF Recursion
    <3>6. QED
      BY <3>3, <3>4, <3>5 DEF IInv
  <2>10. QED
    BY <2>1, <2>2, <2>3, <2>4, <2>5, <2>6, <2>7, <2>8, <2>9 DEF Next
<1>2. QED
  BY <1>1, InitIInv, PTL DEF Spec

\* Whatever the hierarchy and the order of the lines and of the parents in them: at
\* any moment of the recursion a listed element has all its parents listed before it
\* and is listed once, and in the end every element is listed
\* (addParentsToSortedList, updateTopologicalSortedElements); and the data keep
\* their shape through the passes over the list.
THEOREM ParentsFirst == Spec => []Hierarchy
<1>1. IInv => Hierarchy
  BY DEF IInv, Hierarchy, TopologicalOrder, Order, Progress, Listed
<1>2. QED
  BY <1>1, IInvAlways, PTL

-----------------------------------------------------------------------------
(* The passes over the list.  A section describes a hierarchy when parents   *)
(* and children mirror each other and its ranks fit the bit fields.          *)

\* Every child is an element, and has the element among its parents.
Mirrored ==
  \A id \in Ids : \A child \in ToSet(ChildrenOf(id)) :
    child.id \in Alive /\ id \in ToSet(ParentsOf(child.id))

Ranks == [Ids -> 0..(LevelRange - 2)]
Shallow == \E rank \in Ranks : Falls(rank)

LevelsBelow(id) == {level[child.id] : child \in ToSet(ChildrenOf(id))}
DepthsAbove(id) == {depth[parent] : parent \in ToSet(ParentsOf(id))}

\* The elements that updateLevel, and the loop over depth and indent, have done.
LevelDone ==
  CASE pc = "level" -> {sortedElements[i] : i \in {j \in DOMAIN sortedElements : j > next}}
    [] pc \in {"depth", "ready"} -> Alive
    [] OTHER -> {}
DepthDone ==
  CASE pc = "depth" -> {sortedElements[i] : i \in {j \in DOMAIN sortedElements : j < next}}
    [] pc = "ready" -> Alive
    [] OTHER -> {}

\* What they have got is final, and is bounded by their rank.
LevelPass(rank) ==
  /\ \A id \in LevelDone : /\ level[id] = Above(LevelsBelow(id))
                           /\ level[id] =< LevelRange - 2 - rank[id]
                           /\ level[id] =< maxLevel
  /\ maxLevel \in {0} \cup {level[id] : id \in LevelDone}
DepthPass(rank) ==
  /\ \A id \in DepthDone : /\ depth[id] = Above(DepthsAbove(id)) /\ depth[id] =< rank[id]
                           /\ depth[id] =< maxDepth
                           /\ indent[id] = IndentFrom(ParentsOf(id)) /\ indent[id] =< rank[id] + 1
  /\ maxDepth \in {0} \cup {depth[id] : id \in DepthDone}

PassInv ==
  /\ pc \notin {"level", "depth", "ready"} => maxLevel = 0
  /\ pc \notin {"depth", "ready"} => maxDepth = 0
  /\ Mirrored => \A rank \in Ranks : Falls(rank) => LevelPass(rank) /\ DepthPass(rank)

\* A number that is above all of a set is above what the loops compute from it.
LEMMA AboveAtMost ==
  ASSUME NEW S, S \subseteq Nat, NEW n \in Nat, \A x \in S : x < n
  PROVE  Above(S) \in Nat /\ Above(S) =< n
<1>1. CASE S = {}
  BY <1>1 DEF Above
<1>2. CASE S # {}
  <2>1. \A x \in S : x =< n
    OBVIOUS
  <2>2. Max(S) \in S
    BY <1>2, <2>1, MaxIs
  <2>3. PICK m : m = Max(S)
    OBVIOUS
  <2>4. m \in Nat /\ m < n
    BY <2>2, <2>3
  <2>5. Above(S) = m + 1
    BY <1>2, <2>3 DEF Above
  <2>6. QED
    BY <2>4, <2>5
<1>3. QED
  BY <1>1, <1>2

LEMMA FieldKeeps ==
  ASSUME NEW x \in Nat, x < LevelRange
  PROVE  x % LevelRange = x
BY SizeAssumption

LEMMA MaxOfTwo ==
  ASSUME NEW m \in Nat, NEW x \in Nat
  PROVE  Max({m, x}) \in {m, x} /\ m =< Max({m, x}) /\ x =< Max({m, x})
<1>1. \E z \in {m, x} : \A y \in {m, x} : y =< z
  <2>1. CASE m =< x
    BY <2>1
  <2>2. CASE x =< m
    BY <2>2
  <2>3. QED
    BY <2>1, <2>2
<1>2. Max({m, x}) = CHOOSE z \in {m, x} : \A y \in {m, x} : y =< z
  BY DEF Max
<1>3. Max({m, x}) \in {m, x} /\ \A y \in {m, x} : y =< Max({m, x})
  BY <1>1, <1>2
<1>4. QED
  BY <1>3

\* The element at a place in the list has its children behind it and its parents
\* in front of it.
LEMMA ChildrenBehind ==
  ASSUME IInv, Mirrored, Listed = Alive, NEW i \in DOMAIN sortedElements,
         NEW child \in ToSet(ChildrenOf(sortedElements[i]))
  PROVE  \E j \in DOMAIN sortedElements : j > i /\ sortedElements[j] = child.id
<1>1. sortedElements[i] \in Alive
  BY DEF Listed, ToSet
<1>2. child.id \in Alive /\ sortedElements[i] \in ToSet(ParentsOf(child.id))
  BY <1>1 DEF Mirrored, Alive
<1>3. PICK j \in DOMAIN sortedElements : sortedElements[j] = child.id
  BY <1>2 DEF Listed, ToSet
<1>4. PICK k \in 1..(j - 1) : sortedElements[k] = sortedElements[i]
  BY <1>2, <1>3 DEF IInv, Order
<1>5. DOMAIN sortedElements = 1..Len(sortedElements) /\ Len(sortedElements) \in Nat
  BY ListLength
<1>6. k \in DOMAIN sortedElements
  BY <1>5
<1>7. k = i
  BY <1>4, <1>6 DEF IInv, Order, IsInjective
<1>8. j > i
  BY <1>5, <1>7
<1>9. QED
  BY <1>3, <1>8

LEMMA ParentsBefore ==
  ASSUME IInv, NEW i \in DOMAIN sortedElements, NEW p \in ToSet(ParentsOf(sortedElements[i]))
  PROVE  \E j \in DOMAIN sortedElements : j < i /\ sortedElements[j] = p
<1>1. PICK j \in 1..(i - 1) : sortedElements[j] = p
  BY DEF IInv, Order
<1>2. DOMAIN sortedElements = 1..Len(sortedElements) /\ Len(sortedElements) \in Nat
  BY ListLength
<1>3. j \in DOMAIN sortedElements /\ j < i
  BY <1>2
<1>4. QED
  BY <1>1, <1>3

LEMMA Hierarchical ==
  UNCHANGED <<elements, childToParents, parentToChildren>> =>
    /\ Alive' = Alive /\ Mirrored' = Mirrored /\ \A rank : Falls(rank)' = Falls(rank)
    /\ \A id : ParentsOf(id)' = ParentsOf(id) /\ ChildrenOf(id)' = ChildrenOf(id)
BY DEF Alive, Mirrored, Falls, ParentsOf, ChildrenOf

LEMMA UpdateLevelPasses ==
  ASSUME IInv, PassInv, UpdateLevel
  PROVE  PassInv'
<1>1. PICK el, new : el = sortedElements[next] /\ new = Above(LevelsBelow(el))
  OBVIOUS
<1>2. /\ pc = "level" /\ pc' = "level" /\ next > 0 /\ next' = next - 1
      /\ maxLevel' = Max({maxLevel, new}) /\ level' = [level EXCEPT ![el] = new % LevelRange]
      /\ UNCHANGED <<elements, childToParents, parentToChildren, sortedElements, depth, indent, maxDepth>>
  BY <1>1 DEF UpdateLevel, NextLevel, LevelIndex, LevelsBelow, relations
<1>3. /\ DOMAIN sortedElements = 1..Len(sortedElements) /\ Len(sortedElements) \in Nat
      /\ next \in DOMAIN sortedElements /\ next \in Nat /\ Listed = Alive
      /\ IsInjective(sortedElements) /\ sortedElements \in Seq(Ids)
      /\ level \in [Ids -> 0..(LevelRange - 1)] /\ maxLevel \in Nat /\ LevelRange \in Nat \ {0}
  BY <1>2, ListLength, SizeAssumption, SMTT(30) DEF IInv, Progress, TypeOK, Fields, Order
<1>4. el \in Ids /\ \A i \in DOMAIN sortedElements : sortedElements[i] \in Ids
  BY <1>1, <1>3, ElementOfSeq
<1>5. LevelDone = {sortedElements[i] : i \in {j \in DOMAIN sortedElements : j > next}}
  BY <1>2 DEF LevelDone
<1>6. LevelDone' = LevelDone \cup {el}
  <2>1. LevelDone' = {sortedElements[i] : i \in {j \in DOMAIN sortedElements : j > next - 1}}
    BY <1>2 DEF LevelDone
  <2>2. {j \in DOMAIN sortedElements : j > next - 1}
          = {j \in DOMAIN sortedElements : j > next} \cup {next}
    BY <1>3
  <2>3. QED
    BY <1>1, <1>5, <2>1, <2>2
<1>7. DepthDone = {} /\ DepthDone' = {} /\ maxDepth = 0 /\ maxDepth' = 0
  BY <1>2 DEF DepthDone, PassInv
<1>8. SUFFICES ASSUME Mirrored, NEW rank \in Ranks, Falls(rank)
               PROVE  LevelPass(rank)' /\ DepthPass(rank)'
  BY <1>2, <1>7, Hierarchical DEF PassInv
<1>9. DepthPass(rank)'
  BY <1>7 DEF DepthPass
<1>10. LevelPass(rank)
  BY <1>8 DEF PassInv
<1>11. ASSUME NEW i \in DOMAIN sortedElements, i >= next,
              NEW child \in ToSet(ChildrenOf(sortedElements[i]))
       PROVE  child.id \in LevelDone /\ child.id \in Ids /\ child.id # el
  <2>1. PICK j \in DOMAIN sortedElements : j > i /\ sortedElements[j] = child.id
    BY <1>3, <1>8, ChildrenBehind
  <2>2. j > next /\ j # next
    BY <1>3, <1>11, <2>1
  <2>3. sortedElements[j] # sortedElements[next]
    BY <1>3, <2>2 DEF IsInjective
  <2>4. QED
    BY <1>1, <1>4, <1>5, <2>1, <2>2, <2>3
<1>12. \A id \in LevelDone' : \A child \in ToSet(ChildrenOf(id)) :
         child.id \in LevelDone /\ child.id \in Ids /\ child.id # el
  <2> TAKE id \in LevelDone'
  <2>1. PICK i \in DOMAIN sortedElements : i >= next /\ id = sortedElements[i]
    BY <1>1, <1>3, <1>5, <1>6
  <2>2. QED
    BY <1>11, <2>1
<1>13. \A id \in LevelDone' : LevelsBelow(id)' = LevelsBelow(id)
  <2> TAKE id \in LevelDone'
  <2>1. \A child \in ToSet(ChildrenOf(id)) : level'[child.id] = level[child.id]
    BY <1>2, <1>3, <1>12
  <2>2. ChildrenOf(id)' = ChildrenOf(id)
    BY <1>2, Hierarchical
  <2>3. LevelsBelow(id)' = {level'[child.id] : child \in ToSet(ChildrenOf(id))}
    BY <2>2 DEF LevelsBelow
  <2>4. QED
    BY <2>1, <2>3 DEF LevelsBelow
<1>14. new \in Nat /\ new =< LevelRange - 2 - rank[el] /\ new < LevelRange /\ new % LevelRange = new
  <2>1. PICK n : n = LevelRange - 2 - rank[el]
    OBVIOUS
  <2>2. rank[el] \in 0..(LevelRange - 2) /\ n \in Nat /\ n < LevelRange
    BY <1>3, <1>4, <2>1 DEF Ranks
  <2>3. ASSUME NEW child \in ToSet(ChildrenOf(el))
        PROVE  level[child.id] \in Nat /\ level[child.id] < n
    <3>1. child.id \in LevelDone /\ child.id \in Ids
      BY <1>6, <1>12
    <3>2. rank[el] < rank[child.id]
      <4>1. el \in ToSet(ParentsOf(child.id))
        BY <1>4, <1>8 DEF Mirrored
      <4>2. QED
        BY <1>8, <3>1, <4>1 DEF Falls
    <3>3. level[child.id] =< LevelRange - 2 - rank[child.id]
      BY <1>10, <3>1 DEF LevelPass
    <3>4. rank[child.id] \in 0..(LevelRange - 2) /\ level[child.id] \in 0..(LevelRange - 1)
      BY <1>3, <3>1 DEF Ranks
    <3>5. PICK a, b, c : a = level[child.id] /\ b = rank[child.id] /\ c = rank[el]
      OBVIOUS
    <3>6. /\ a \in 0..(LevelRange - 1) /\ b \in 0..(LevelRange - 2) /\ c \in 0..(LevelRange - 2)
          /\ c < b /\ a =< LevelRange - 2 - b /\ n = LevelRange - 2 - c
      BY <2>1, <2>2, <3>2, <3>3, <3>4, <3>5
    <3>7. a \in Nat /\ a < n
      BY <1>3, <3>6
    <3>8. QED
      BY <3>5, <3>7
  <2>4. LevelsBelow(el) \subseteq Nat /\ \A x \in LevelsBelow(el) : x < n
    BY <2>3 DEF LevelsBelow
  <2>5. new \in Nat /\ new =< n
    BY <1>1, <2>2, <2>4, AboveAtMost
  <2>6. new < LevelRange
    BY <1>3, <2>2, <2>5
  <2>7. new % LevelRange = new
    BY <2>5, <2>6, FieldKeeps
  <2>8. QED
    BY <2>1, <2>5, <2>6, <2>7
<1>15. maxLevel' \in {maxLevel, new} /\ maxLevel =< maxLevel' /\ new =< maxLevel'
  BY <1>2, <1>3, <1>14, MaxOfTwo
<1>16. level'[el] = new /\ \A id \in Ids : id # el => level'[id] = level[id]
  BY <1>2, <1>3, <1>4, <1>14
<1>17. \A id \in LevelDone : id \in Ids /\ id # el
  <2>1. \A j \in DOMAIN sortedElements : j > next => sortedElements[j] # el
    BY <1>1, <1>3 DEF IsInjective
  <2>2. QED
    BY <1>4, <1>5, <2>1
<1>18. ASSUME NEW id \in LevelDone'
       PROVE  /\ level'[id] = Above(LevelsBelow(id)')
              /\ level'[id] =< LevelRange - 2 - rank[id] /\ level'[id] =< maxLevel'
  <2>1. CASE id = el
    BY <1>1, <1>13, <1>14, <1>15, <1>16, <2>1
  <2>2. CASE id \in LevelDone
    <3>1. /\ level[id] = Above(LevelsBelow(id)) /\ level[id] =< LevelRange - 2 - rank[id]
          /\ level[id] =< maxLevel
      BY <1>10, <2>2 DEF LevelPass
    <3>2. level'[id] = level[id] /\ level[id] \in 0..(LevelRange - 1)
      BY <1>3, <1>16, <1>17, <2>2
    <3>3. LevelsBelow(id)' = LevelsBelow(id)
      BY <1>13
    <3>4. maxLevel' \in Nat /\ level'[id] =< maxLevel'
      BY <1>3, <1>14, <1>15, <3>1, <3>2
    <3>5. QED
      BY <3>1, <3>2, <3>3, <3>4
  <2>3. QED
    BY <1>6, <2>1, <2>2
<1>19. maxLevel' \in {0} \cup {level'[id] : id \in LevelDone'}
  <2>1. CASE maxLevel' = new
    BY <1>6, <1>16, <2>1
  <2>2. CASE maxLevel' = maxLevel
    <3>1. maxLevel = 0 \/ \E id \in LevelDone : maxLevel = level[id]
      BY <1>10 DEF LevelPass
    <3>2. QED
      BY <1>6, <1>16, <1>17, <2>2, <3>1
  <2>3. QED
    BY <1>15, <2>1, <2>2
<1>20. LevelPass(rank)'
  BY <1>18, <1>19 DEF LevelPass
<1>21. QED
  BY <1>9, <1>20

LEMMA UpdateDepthIndentPasses ==
  ASSUME IInv, PassInv, UpdateDepthIndent
  PROVE  PassInv'
<1>1. PICK el, parents, new, ind :
        /\ el = sortedElements[next] /\ parents = ParentsOf(el)
        /\ new = Above(DepthsAbove(el)) /\ ind = IndentFrom(parents)
  OBVIOUS
<1>2. /\ pc = "depth" /\ pc' = "depth" /\ next' = next + 1 /\ next =< Len(sortedElements)
      /\ maxDepth' = Max({maxDepth, new})
      /\ depth' = [depth EXCEPT ![el] = new % LevelRange]
      /\ indent' = [indent EXCEPT ![el] = ind % LevelRange]
      /\ UNCHANGED <<elements, childToParents, parentToChildren, sortedElements, level, maxLevel>>
  BY <1>1 DEF UpdateDepthIndent, DepthsAbove, relations
<1>3. /\ DOMAIN sortedElements = 1..Len(sortedElements) /\ Len(sortedElements) \in Nat
      /\ next \in DOMAIN sortedElements /\ next \in Nat
      /\ IsInjective(sortedElements) /\ sortedElements \in Seq(Ids)
      /\ depth \in [Ids -> 0..(LevelRange - 1)] /\ indent \in [Ids -> 0..(LevelRange - 1)]
      /\ maxDepth \in Nat /\ LevelRange \in Nat \ {0}
  BY <1>2, ListLength, SizeAssumption, SMTT(30) DEF IInv, Progress, TypeOK, Fields, Order
<1>4. el \in Ids /\ \A i \in DOMAIN sortedElements : sortedElements[i] \in Ids
  BY <1>1, <1>3, ElementOfSeq
<1>5. DepthDone = {sortedElements[i] : i \in {j \in DOMAIN sortedElements : j < next}}
  BY <1>2 DEF DepthDone
<1>6. DepthDone' = DepthDone \cup {el}
  <2>1. DepthDone' = {sortedElements[i] : i \in {j \in DOMAIN sortedElements : j < next + 1}}
    BY <1>2 DEF DepthDone
  <2>2. {j \in DOMAIN sortedElements : j < next + 1}
          = {j \in DOMAIN sortedElements : j < next} \cup {next}
    BY <1>3
  <2>3. QED
    BY <1>1, <1>5, <2>1, <2>2
<1>7. LevelDone = Alive /\ LevelDone' = Alive
  BY <1>2, Hierarchical DEF LevelDone
<1>8. SUFFICES ASSUME Mirrored, NEW rank \in Ranks, Falls(rank)
               PROVE  LevelPass(rank)' /\ DepthPass(rank)'
  BY <1>2, Hierarchical DEF PassInv
<1>9. LevelPass(rank) /\ DepthPass(rank)
  BY <1>8 DEF PassInv
<1>10. LevelPass(rank)'
  <2>1. \A id : LevelsBelow(id)' = LevelsBelow(id)
    BY <1>2, Hierarchical DEF LevelsBelow
  <2>2. QED
    BY <1>2, <1>7, <1>9, <2>1 DEF LevelPass
<1>11. \A id \in DepthDone' : /\ ParentsOf(id) \in Seq(Ids)
                              /\ \A p \in ToSet(ParentsOf(id)) :
                                   p \in DepthDone /\ p \in Ids /\ p # el /\ rank[p] < rank[id]
  <2> TAKE id \in DepthDone'
  <2>1. PICK i \in DOMAIN sortedElements : i =< next /\ id = sortedElements[i]
    BY <1>1, <1>3, <1>5, <1>6
  <2>2. id \in Ids /\ ParentsOf(id) \in Seq(Ids)
    BY <1>4, <2>1, Relatives DEF IInv
  <2>3. ASSUME NEW p \in ToSet(ParentsOf(id))
        PROVE  p \in DepthDone /\ p \in Ids /\ p # el /\ rank[p] < rank[id]
    <3>1. PICK j \in DOMAIN sortedElements : j < i /\ sortedElements[j] = p
      BY <2>1, ParentsBefore
    <3>2. j < next /\ j # next
      BY <1>3, <2>1, <3>1
    <3>3. sortedElements[j] # sortedElements[next]
      BY <1>3, <3>2 DEF IsInjective
    <3>4. rank[p] < rank[id]
      BY <1>8, <2>2 DEF Falls
    <3>5. QED
      BY <1>1, <1>4, <1>5, <3>1, <3>2, <3>3, <3>4
  <2>4. QED
    BY <2>2, <2>3
<1>12. \A id \in DepthDone' : ParentsOf(id) # << >> =>
         /\ Head(ParentsOf(id)) \in ToSet(ParentsOf(id))
         /\ Head(ParentsOf(id)) \in DepthDone /\ Head(ParentsOf(id)) # el
  <2> TAKE id \in DepthDone'
  <2>1. ParentsOf(id) # << >> => Head(ParentsOf(id)) \in ToSet(ParentsOf(id))
    BY <1>11, HeadTailSet
  <2>2. QED
    BY <1>11, <2>1
<1>13. rank[el] \in 0..(LevelRange - 2) /\ el \in DepthDone'
  BY <1>4, <1>6 DEF Ranks
<1>14. new \in Nat /\ new =< rank[el] /\ new % LevelRange = new
  <2>1. PICK n : n = rank[el]
    OBVIOUS
  <2>2. n \in Nat /\ n < LevelRange
    BY <1>3, <1>13, <2>1
  <2>3. ASSUME NEW p \in ToSet(ParentsOf(el))
        PROVE  depth[p] \in Nat /\ depth[p] < n
    <3>1. p \in DepthDone /\ p \in Ids /\ rank[p] < n
      BY <1>11, <1>13, <2>1
    <3>2. depth[p] =< rank[p] /\ depth[p] \in 0..(LevelRange - 1) /\ rank[p] \in 0..(LevelRange - 2)
      BY <1>3, <1>9, <3>1 DEF DepthPass, Ranks
    <3>3. PICK a, b : a = depth[p] /\ b = rank[p]
      OBVIOUS
    <3>4. a \in 0..(LevelRange - 1) /\ b \in 0..(LevelRange - 2) /\ a =< b /\ b < n
      BY <3>1, <3>2, <3>3
    <3>5. a \in Nat /\ a < n
      BY <1>3, <2>2, <3>4
    <3>6. QED
      BY <3>3, <3>5
  <2>4. DepthsAbove(el) \subseteq Nat /\ \A x \in DepthsAbove(el) : x < n
    BY <2>3 DEF DepthsAbove
  <2>5. new \in Nat /\ new =< n
    BY <1>1, <2>2, <2>4, AboveAtMost
  <2>6. new < LevelRange
    BY <1>3, <2>2, <2>5
  <2>7. new % LevelRange = new
    BY <2>5, <2>6, FieldKeeps
  <2>8. QED
    BY <2>1, <2>5, <2>7
<1>15. ind \in Nat /\ ind =< rank[el] + 1 /\ ind % LevelRange = ind
  <2>1. PICK n : n = rank[el]
    OBVIOUS
  <2>2. n \in Nat /\ n + 1 < LevelRange
    BY <1>3, <1>13, <2>1
  <2>3. ind \in Nat /\ ind =< n + 1
    <3>1. CASE parents = << >>
      BY <1>1, <2>2, <3>1 DEF IndentFrom
    <3>2. CASE parents # << >>
      <4>1. PICK p, a, b : p = Head(parents) /\ a = indent[p] /\ b = rank[p]
        OBVIOUS
      <4>2. p \in ToSet(ParentsOf(el)) /\ p \in DepthDone
        BY <1>1, <1>12, <1>13, <3>2, <4>1
      <4>3. p \in Ids /\ b < n
        BY <1>11, <1>13, <2>1, <4>1, <4>2
      <4>4. a =< b + 1 /\ a \in 0..(LevelRange - 1) /\ b \in 0..(LevelRange - 2)
        BY <1>3, <1>9, <4>1, <4>2, <4>3 DEF DepthPass, Ranks
      <4>5. ind = a + 1
        BY <1>1, <3>2, <4>1 DEF IndentFrom
      <4>6. QED
        BY <1>3, <2>2, <4>3, <4>4, <4>5
    <3>3. QED
      BY <3>1, <3>2
  <2>4. ind < LevelRange
    BY <1>3, <2>2, <2>3
  <2>5. ind % LevelRange = ind
    BY <2>3, <2>4, FieldKeeps
  <2>6. QED
    BY <2>1, <2>3, <2>5
<1>16. /\ depth'[el] = new /\ \A id \in Ids : id # el => depth'[id] = depth[id]
       /\ indent'[el] = ind /\ \A id \in Ids : id # el => indent'[id] = indent[id]
  BY <1>2, <1>3, <1>4, <1>14, <1>15
<1>17. \A id \in DepthDone : id \in Ids /\ id # el
  <2>1. \A j \in DOMAIN sortedElements : j < next => sortedElements[j] # el
    BY <1>1, <1>3 DEF IsInjective
  <2>2. QED
    BY <1>4, <1>5, <2>1
<1>18. \A id \in DepthDone' : /\ DepthsAbove(id)' = DepthsAbove(id)
                              /\ IndentFrom(ParentsOf(id))' = IndentFrom(ParentsOf(id))
  <2> TAKE id \in DepthDone'
  <2>1. \A p \in ToSet(ParentsOf(id)) : depth'[p] = depth[p]
    BY <1>11, <1>16
  <2>2. ParentsOf(id)' = ParentsOf(id)
    BY <1>2, Hierarchical
  <2>3. DepthsAbove(id)' = {depth'[p] : p \in ToSet(ParentsOf(id))}
    BY <2>2 DEF DepthsAbove
  <2>4. ParentsOf(id) # << >> => indent'[Head(ParentsOf(id))] = indent[Head(ParentsOf(id))]
    BY <1>11, <1>12, <1>16
  <2>5. IndentFrom(ParentsOf(id))'
          = IF ParentsOf(id) = << >> THEN 1 ELSE indent'[Head(ParentsOf(id))] + 1
    BY <2>2 DEF IndentFrom
  <2>6. IndentFrom(ParentsOf(id))' = IndentFrom(ParentsOf(id))
    BY <2>4, <2>5 DEF IndentFrom
  <2>7. DepthsAbove(id)' = DepthsAbove(id)
    BY <2>1, <2>3 DEF DepthsAbove
  <2>8. QED
    BY <2>6, <2>7
<1>19. maxDepth' \in {maxDepth, new} /\ maxDepth =< maxDepth' /\ new =< maxDepth'
  BY <1>2, <1>3, <1>14, MaxOfTwo
<1>20. ASSUME NEW id \in DepthDone'
       PROVE  /\ depth'[id] = Above(DepthsAbove(id)') /\ depth'[id] =< rank[id]
              /\ depth'[id] =< maxDepth'
              /\ indent'[id] = IndentFrom(ParentsOf(id))' /\ indent'[id] =< rank[id] + 1
  <2>1. CASE id = el
    BY <1>1, <1>14, <1>15, <1>16, <1>18, <1>19, <2>1
  <2>2. CASE id \in DepthDone
    <3>1. /\ depth[id] = Above(DepthsAbove(id)) /\ depth[id] =< rank[id] /\ depth[id] =< maxDepth
          /\ indent[id] = IndentFrom(ParentsOf(id)) /\ indent[id] =< rank[id] + 1
      BY <1>9, <2>2 DEF DepthPass
    <3>2. depth'[id] = depth[id] /\ indent'[id] = indent[id] /\ depth[id] \in 0..(LevelRange - 1)
      BY <1>3, <1>16, <1>17, <2>2
    <3>3. PICK a, m, n : a = depth[id] /\ m = maxDepth /\ n = maxDepth'
      OBVIOUS
    <3>4. a \in 0..(LevelRange - 1) /\ a =< m /\ m \in Nat /\ n \in Nat /\ m =< n
      BY <1>3, <1>14, <1>19, <3>1, <3>2, <3>3
    <3>5. a =< n
      BY <1>3, <3>4
    <3>6. QED
      BY <1>18, <3>1, <3>2, <3>3, <3>5
  <2>3. QED
    BY <1>6, <2>1, <2>2
<1>21. maxDepth' \in {0} \cup {depth'[id] : id \in DepthDone'}
  <2>1. CASE maxDepth' = new
    BY <1>6, <1>16, <2>1
  <2>2. CASE maxDepth' = maxDepth
    <3>1. maxDepth = 0 \/ \E id \in DepthDone : maxDepth = depth[id]
      BY <1>9 DEF DepthPass
    <3>2. QED
      BY <1>6, <1>16, <1>17, <2>2, <3>1
  <2>3. QED
    BY <1>19, <2>1, <2>2
<1>22. DepthPass(rank)'
  BY <1>20, <1>21 DEF DepthPass
<1>23. QED
  BY <1>10, <1>22

\* The other steps do no element, and the first pass begins with none done.
LEMMA OtherPasses ==
  ASSUME IInv, IInv', PassInv, [Next]_vars, ~UpdateLevel, ~UpdateDepthIndent
  PROVE  PassInv'
<1>1. ASSUME pc' \notin {"level", "depth", "ready"}, maxLevel' = 0, maxDepth' = 0
      PROVE  PassInv'
  BY <1>1 DEF PassInv, LevelPass, DepthPass, LevelDone, DepthDone
<1>2. CASE \/ \E id \in unread : LoadElement(id) \/ SkipString(id) \/ Fail(id)
           \/ ClearUnused \/ UpdateLevelIndentDepth \/ SortNext \/ VisitParent \/ AddSorted
  <2>1. pc \notin {"level", "depth", "ready"} /\ pc' \notin {"level", "depth", "ready"}
    BY <1>2 DEF LoadElement, SkipString, Fail, ClearUnused, UpdateLevelIndentDepth, SortNext,
                VisitParent, AddSorted
  <2>2. /\ maxLevel' \in {0, maxLevel} /\ maxDepth' \in {0, maxDepth}
    BY <1>2 DEF LoadElement, SkipString, Fail, ClearUnused, UpdateLevelIndentDepth, SortNext,
                VisitParent, AddSorted, maxima
  <2>3. QED
    BY <1>1, <2>1, <2>2 DEF PassInv
<1>3. ASSUME UNCHANGED <<elements, childToParents, parentToChildren, level, depth, indent,
                         maxLevel, maxDepth>>,
             LevelDone' = LevelDone, DepthDone' = DepthDone,
             pc \in {"level", "depth", "ready"} => pc' \in {"level", "depth", "ready"},
             pc \in {"depth", "ready"} => pc' \in {"depth", "ready"}
      PROVE  PassInv'
  <2>1. \A id : /\ LevelsBelow(id)' = LevelsBelow(id) /\ DepthsAbove(id)' = DepthsAbove(id)
                /\ IndentFrom(ParentsOf(id))' = IndentFrom(ParentsOf(id))
    BY <1>3, Hierarchical DEF LevelsBelow, DepthsAbove, IndentFrom
  <2>2. \A rank : /\ LevelPass(rank) => LevelPass(rank)'
                  /\ DepthPass(rank) => DepthPass(rank)'
    BY <1>3, <2>1 DEF LevelPass, DepthPass
  <2>3. QED
    BY <1>3, <2>2, Hierarchical DEF PassInv
<1>4. DOMAIN sortedElements = 1..Len(sortedElements) /\ Len(sortedElements) \in Nat
      /\ (pc \in {"level", "depth", "ready"} => Listed = Alive)
  BY ListLength DEF IInv, Progress
<1>5. Listed = {sortedElements[i] : i \in DOMAIN sortedElements}
  BY DEF Listed, ToSet
<1>6. CASE SortDone
  <2>1. /\ pc = "sort" /\ pc' = "level" /\ next' = Len(sortedElements)
        /\ UNCHANGED <<elements, childToParents, parentToChildren, sortedElements, level, depth,
                       indent, maxLevel, maxDepth>>
    BY <1>6 DEF SortDone, maxima, relations
  <2>2. {j \in DOMAIN sortedElements : j > Len(sortedElements)} = {}
    BY <1>4
  <2>3. LevelDone = {} /\ LevelDone' = {} /\ DepthDone = {} /\ DepthDone' = {}
    BY <2>1, <2>2 DEF LevelDone, DepthDone
  <2>4. QED
    BY <1>3, <2>1, <2>3
<1>7. CASE LevelsDone
  <2>1. /\ pc = "level" /\ pc' = "depth" /\ next = 0 /\ next' = 1
        /\ UNCHANGED <<elements, childToParents, parentToChildren, sortedElements, level, depth,
                       indent, maxLevel, maxDepth>>
    BY <1>7 DEF LevelsDone, maxima, relations
  <2>2. {j \in DOMAIN sortedElements : j > 0} = DOMAIN sortedElements
        /\ {j \in DOMAIN sortedElements : j < 1} = {}
    BY <1>4
  <2>3. LevelDone = Alive /\ LevelDone' = Alive
    BY <1>4, <1>5, <2>1, <2>2, Hierarchical DEF LevelDone
  <2>4. DepthDone = {} /\ DepthDone' = {}
    BY <2>1, <2>2 DEF DepthDone
  <2>5. QED
    BY <1>3, <2>1, <2>3, <2>4
<1>8. CASE UpdateDone
  <2>1. /\ pc = "depth" /\ pc' = "ready" /\ next > Len(sortedElements) /\ next \in Nat
        /\ UNCHANGED <<elements, childToParents, parentToChildren, sortedElements, level, depth,
                       indent, maxLevel, maxDepth>>
    BY <1>8 DEF UpdateDone, maxima, relations, IInv, TypeOK
  <2>2. {j \in DOMAIN sortedElements : j < next} = DOMAIN sortedElements
    BY <1>4, <2>1
  <2>3. LevelDone = Alive /\ LevelDone' = Alive
    BY <2>1, Hierarchical DEF LevelDone
  <2>4. DepthDone = Alive /\ DepthDone' = Alive
    BY <1>4, <1>5, <2>1, <2>2, Hierarchical DEF DepthDone
  <2>5. QED
    BY <1>3, <2>1, <2>3, <2>4
<1>9. CASE UNCHANGED vars
  <2>1. UNCHANGED <<elements, childToParents, parentToChildren, sortedElements, next, level, depth,
                    indent, maxLevel, maxDepth, pc>>
    BY <1>9 DEF vars, relations, maxima
  <2>2. LevelDone' = LevelDone /\ DepthDone' = DepthDone
    BY <2>1, Hierarchical DEF LevelDone, DepthDone
  <2>3. QED
    BY <1>3, <2>1, <2>2
<1>10. QED
  BY <1>2, <1>6, <1>7, <1>8, <1>9 DEF Next

LEMMA PassesAlways == Spec => []PassInv
<1>1. Init => PassInv
  BY DEF Init, PassInv, LevelPass, DepthPass, LevelDone, DepthDone
<1>2. IInv /\ IInv' /\ PassInv /\ [Next]_vars => PassInv'
  BY UpdateLevelPasses, UpdateDepthIndentPasses, OtherPasses
<1>3. QED
  BY <1>1, <1>2, IInvAlways, PTL DEF Spec

-----------------------------------------------------------------------------
(* What the passes have computed is the height, the distance and the         *)
(* indentation: two functions that satisfy one of these equations agree.     *)

LEMMA SameImage ==
  ASSUME NEW S, NEW g, NEW h, \A x \in S : g[x] = h[x]
  PROVE  {g[x] : x \in S} = {h[x] : x \in S}
OBVIOUS

IsHeight(g, Near) == g = [i \in Ids |-> Above({g[j] : j \in Near[i]})]

LEMMA OneHeight ==
  ASSUME NEW Near \in [Ids -> SUBSET Ids], NEW r \in [Ids -> Nat],
         \A i \in Ids : \A j \in Near[i] : r[j] < r[i],
         NEW g, IsHeight(g, Near), NEW h, IsHeight(h, Near)
  PROVE  g = h
<1> DEFINE bad == {i \in Ids : g[i] # h[i]}
           ranks == {r[i] : i \in bad}
<1>1. ASSUME bad # {} PROVE FALSE
  <2>1. ranks \subseteq Nat /\ ranks # {}
    BY <1>1
  <2>2. PICK m \in ranks : \A n \in ranks : m =< n
    BY <2>1, MinExists
  <2>3. PICK i \in bad : m = r[i]
    OBVIOUS
  <2>4. \A j \in Near[i] : j \in Ids /\ g[j] = h[j]
    <3> TAKE j \in Near[i]
    <3>1. j \in Ids /\ r[j] < r[i] /\ r[j] \in Nat /\ r[i] \in Nat
      OBVIOUS
    <3>2. ASSUME j \in bad PROVE FALSE
      <4>1. r[j] \in ranks
        BY <3>2
      <4>2. m =< r[j]
        BY <2>2, <4>1
      <4>3. QED
        BY <2>3, <3>1, <4>2
    <3>3. QED
      BY <3>1, <3>2
  <2>5. {g[j] : j \in Near[i]} = {h[j] : j \in Near[i]}
    BY <2>4, SameImage
  <2>6. g[i] = Above({g[j] : j \in Near[i]}) /\ h[i] = Above({h[j] : j \in Near[i]})
    BY <2>3 DEF IsHeight
  <2>7. QED
    BY <2>3, <2>5, <2>6
<1>2. \A i \in Ids : g[i] = h[i]
  BY <1>1
<1>3. DOMAIN g = Ids /\ DOMAIN h = Ids /\ g = [i \in Ids |-> g[i]] /\ h = [i \in Ids |-> h[i]]
  BY DEF IsHeight
<1>4. QED
  BY <1>2, <1>3

IsIndentation(g, First, roots) == g = [i \in Ids |-> IF i \in roots THEN 1 ELSE g[First[i]] + 1]

LEMMA OneIndentation ==
  ASSUME NEW First \in [Ids -> Ids], NEW roots, NEW r \in [Ids -> Nat],
         \A i \in Ids \ roots : r[First[i]] < r[i],
         NEW g, IsIndentation(g, First, roots), NEW h, IsIndentation(h, First, roots)
  PROVE  g = h
<1> DEFINE bad == {i \in Ids : g[i] # h[i]}
           ranks == {r[i] : i \in bad}
<1>1. ASSUME bad # {} PROVE FALSE
  <2>1. ranks \subseteq Nat /\ ranks # {}
    BY <1>1
  <2>2. PICK m \in ranks : \A n \in ranks : m =< n
    BY <2>1, MinExists
  <2>3. PICK i \in bad : m = r[i]
    OBVIOUS
  <2>4. i \notin roots
    BY <2>3 DEF IsIndentation
  <2>5. First[i] \in Ids /\ r[First[i]] < r[i] /\ r[First[i]] \in Nat /\ r[i] \in Nat
    BY <2>4
  <2>6. ASSUME First[i] \in bad PROVE FALSE
    <3>1. r[First[i]] \in ranks
      BY <2>6
    <3>2. m =< r[First[i]]
      BY <2>2, <3>1
    <3>3. QED
      BY <2>3, <2>5, <3>2
  <2>7. g[First[i]] = h[First[i]]
    BY <2>5, <2>6
  <2>8. g[i] = g[First[i]] + 1 /\ h[i] = h[First[i]] + 1
    BY <2>4 DEF IsIndentation
  <2>9. QED
    BY <2>3, <2>7, <2>8
<1>2. \A i \in Ids : g[i] = h[i]
  BY <1>1
<1>3. g = [i \in Ids |-> g[i]] /\ h = [i \in Ids |-> h[i]]
  BY DEF IsIndentation
<1>4. QED
  BY <1>2, <1>3

\* Elements that are gone have no relatives left in the tables.
LEMMA GoneAlone ==
  ASSUME IInv, pc = "ready", NEW id \in Ids \ Alive
  PROVE  /\ ParentsOf(id) = << >>
         /\ Mirrored => ToSet(ChildrenOf(id)) = {}
<1>1. id \notin Kept(file)
  BY DEF Alive, IInv, LoadInv
<1>2. ParentsOf(id) = << >>
  BY <1>1 DEF IInv, LoadInv, ParentsOf
<1>3. ASSUME Mirrored, NEW child \in ToSet(ChildrenOf(id)) PROVE FALSE
  <2>1. child.id \in Ids /\ id \in ToSet(ParentsOf(child.id))
    BY <1>3 DEF Mirrored, Alive
  <2>2. QED
    BY <2>1, Relatives DEF IInv
<1>4. QED
  BY <1>2, <1>3

LEMMA LevelIsHeight ==
  ASSUME IInv, PassInv, pc = "ready", Mirrored, NEW rank \in Ranks, Falls(rank), NEW id \in Alive
  PROVE  level[id] = Height[id]
<1> DEFINE Fix(g) == g = [x \in Ids |-> Above({g[child.id] : child \in ToSet(ChildrenOf(x))})]
           H == CHOOSE g : Fix(g)
           L == [x \in Ids |-> IF x \in Alive THEN level[x] ELSE 0]
           Near == [x \in Ids |-> {child.id : child \in ToSet(ChildrenOf(x))}]
           r == [x \in Ids |-> LevelRange - 2 - rank[x]]
<1>1. LevelPass(rank) /\ LevelDone = Alive
  BY DEF PassInv, LevelDone
<1>2. \A x \in Ids : \A child \in ToSet(ChildrenOf(x)) : child.id \in Alive /\ child.id \in Ids
  BY DEF Mirrored, Alive
<1>3. Near \in [Ids -> SUBSET Ids]
  BY <1>2
<1>4. r \in [Ids -> Nat] /\ \A x \in Ids : \A y \in Near[x] : r[y] < r[x]
  <2>1. \A x \in Ids : rank[x] \in 0..(LevelRange - 2)
    BY DEF Ranks
  <2>2. r \in [Ids -> Nat]
    BY <2>1, SizeAssumption
  <2>3. ASSUME NEW x \in Ids, NEW y \in Near[x] PROVE r[y] < r[x]
    <3>1. y \in Ids /\ x \in ToSet(ParentsOf(y))
      BY <1>2, <2>3 DEF Mirrored
    <3>2. rank[x] < rank[y]
      BY <3>1 DEF Falls
    <3>3. PICK a, b : a = rank[x] /\ b = rank[y]
      OBVIOUS
    <3>4. a \in Int /\ b \in Int /\ LevelRange \in Int /\ a < b
      BY <2>1, <2>3, <3>1, <3>2, <3>3, SizeAssumption
    <3>5. LevelRange - 2 - b < LevelRange - 2 - a
      BY <3>4
    <3>6. QED
      BY <3>1, <3>3, <3>5
  <2>4. QED
    BY <2>2, <2>3
<1>5. \A x \in Ids : L[x] = Above({L[child.id] : child \in ToSet(ChildrenOf(x))})
  <2> TAKE x \in Ids
  <2>1. CASE x \in Alive
    <3>1. level[x] = Above({level[child.id] : child \in ToSet(ChildrenOf(x))})
      BY <1>1, <2>1 DEF LevelPass, LevelsBelow
    <3>2. \A child \in ToSet(ChildrenOf(x)) : L[child.id] = level[child.id]
      BY <1>2
    <3> HIDE DEF L
    <3>3. {L[child.id] : child \in ToSet(ChildrenOf(x))}
            = {level[child.id] : child \in ToSet(ChildrenOf(x))}
      BY <3>2
    <3>4. QED
      BY <2>1, <3>1, <3>3 DEF L
  <2>2. CASE x \notin Alive
    <3>1. ToSet(ChildrenOf(x)) = {}
      BY <2>2, GoneAlone
    <3>2. Above({}) = 0
      BY DEF Above
    <3>3. QED
      BY <2>2, <3>1, <3>2
  <2>3. QED
    BY <2>1, <2>2
<1>6. DOMAIN L = Ids
  OBVIOUS
<1>7. Height = H
  BY DEF Height
<1> HIDE DEF L, H, r
<1>8. Fix(L)
  <2>1. L = [x \in Ids |-> L[x]]
    BY DEF L
  <2>2. QED
    BY <1>5, <2>1
<1>9. Fix(H)
  BY <1>8 DEF H
<1>10. \A g : Fix(g) => IsHeight(g, Near)
  <2> TAKE g
  <2>1. \A x \in Ids : {g[child.id] : child \in ToSet(ChildrenOf(x))} = {g[j] : j \in Near[x]}
    OBVIOUS
  <2>2. QED
    BY <2>1 DEF IsHeight
<1> HIDE DEF Fix, Near
<1>11. L = H
  BY <1>3, <1>4, <1>8, <1>9, <1>10, OneHeight
<1>12. id \in Ids /\ L[id] = level[id]
  BY DEF L, Alive
<1>13. QED
  BY <1>7, <1>11, <1>12

LEMMA DepthIsDistance ==
  ASSUME IInv, PassInv, pc = "ready", Mirrored, NEW rank \in Ranks, Falls(rank), NEW id \in Alive
  PROVE  depth[id] = Distance[id]
<1> DEFINE Fix(g) == g = [x \in Ids |-> Above({g[parent] : parent \in ToSet(ParentsOf(x))})]
           H == CHOOSE g : Fix(g)
           L == [x \in Ids |-> IF x \in Alive THEN depth[x] ELSE 0]
           Near == [x \in Ids |-> ToSet(ParentsOf(x))]
<1>1. DepthPass(rank) /\ DepthDone = Alive
  BY DEF PassInv, DepthDone
<1>2. \A x \in Ids : \A p \in ToSet(ParentsOf(x)) : p \in Alive /\ p \in Ids
  BY Relatives DEF IInv, Alive
<1>3. Near \in [Ids -> SUBSET Ids]
  BY <1>2
<1>4. rank \in [Ids -> Nat] /\ \A x \in Ids : \A y \in Near[x] : rank[y] < rank[x]
  <2>1. rank \in [Ids -> Nat]
    BY SizeAssumption DEF Ranks
  <2>2. QED
    BY <2>1 DEF Falls
<1>5. \A x \in Ids : L[x] = Above({L[p] : p \in ToSet(ParentsOf(x))})
  <2> TAKE x \in Ids
  <2>1. CASE x \in Alive
    <3>1. depth[x] = Above({depth[p] : p \in ToSet(ParentsOf(x))})
      BY <1>1, <2>1 DEF DepthPass, DepthsAbove
    <3>2. \A p \in ToSet(ParentsOf(x)) : L[p] = depth[p]
      BY <1>2
    <3> HIDE DEF L
    <3>3. {L[p] : p \in ToSet(ParentsOf(x))} = {depth[p] : p \in ToSet(ParentsOf(x))}
      BY <3>2
    <3>4. QED
      BY <2>1, <3>1, <3>3 DEF L
  <2>2. CASE x \notin Alive
    <3>1. ToSet(ParentsOf(x)) = {}
      BY <2>2, GoneAlone DEF ToSet
    <3>2. Above({}) = 0
      BY DEF Above
    <3>3. QED
      BY <2>2, <3>1, <3>2
  <2>3. QED
    BY <2>1, <2>2
<1>6. Distance = H
  BY DEF Distance
<1> HIDE DEF L, H
<1>7. Fix(L)
  <2>1. L = [x \in Ids |-> L[x]]
    BY DEF L
  <2>2. QED
    BY <1>5, <2>1
<1>8. Fix(H)
  BY <1>7 DEF H
<1>9. \A g : Fix(g) => IsHeight(g, Near)
  <2> TAKE g
  <2>1. \A x \in Ids : {g[p] : p \in ToSet(ParentsOf(x))} = {g[j] : j \in Near[x]}
    OBVIOUS
  <2>2. QED
    BY <2>1 DEF IsHeight
<1> HIDE DEF Fix, Near
<1>10. L = H
  BY <1>3, <1>4, <1>7, <1>8, <1>9, OneHeight
<1>11. id \in Ids /\ L[id] = depth[id]
  BY DEF L, Alive
<1>12. QED
  BY <1>6, <1>10, <1>11

LEMMA IndentIsIndentation ==
  ASSUME IInv, PassInv, pc = "ready", Mirrored, NEW rank \in Ranks, Falls(rank), NEW id \in Alive
  PROVE  indent[id] = Indentation[id]
<1> DEFINE Fix(g) == g = [x \in Ids |-> IF ParentsOf(x) = << >> THEN 1 ELSE g[Head(ParentsOf(x))] + 1]
           H == CHOOSE g : Fix(g)
           L == [x \in Ids |-> IF x \in Alive THEN indent[x] ELSE 1]
           roots == {x \in Ids : ParentsOf(x) = << >>}
           First == [x \in Ids |-> IF x \in roots THEN x ELSE Head(ParentsOf(x))]
<1>1. DepthPass(rank) /\ DepthDone = Alive
  BY DEF PassInv, DepthDone
<1>2. \A x \in Ids : ParentsOf(x) # << >> =>
        /\ Head(ParentsOf(x)) \in ToSet(ParentsOf(x))
        /\ Head(ParentsOf(x)) \in Alive /\ Head(ParentsOf(x)) \in Ids
  <2> TAKE x \in Ids
  <2>1. ParentsOf(x) \in Seq(Ids) /\ ToSet(ParentsOf(x)) \subseteq Alive
    BY Relatives DEF IInv
  <2>2. ParentsOf(x) # << >> => Head(ParentsOf(x)) \in ToSet(ParentsOf(x))
    BY <2>1, HeadTailSet
  <2>3. QED
    BY <2>1, <2>2 DEF Alive
<1>3. First \in [Ids -> Ids]
  BY <1>2
<1>4. rank \in [Ids -> Nat] /\ \A x \in Ids \ roots : rank[First[x]] < rank[x]
  <2>1. rank \in [Ids -> Nat]
    BY SizeAssumption DEF Ranks
  <2>2. QED
    BY <1>2, <2>1 DEF Falls
<1>5. \A x \in Ids : L[x] = IF ParentsOf(x) = << >> THEN 1 ELSE L[Head(ParentsOf(x))] + 1
  <2> TAKE x \in Ids
  <2>1. CASE x \in Alive
    <3>1. indent[x] = IndentFrom(ParentsOf(x))
      BY <1>1, <2>1 DEF DepthPass
    <3>2. QED
      BY <1>2, <2>1, <3>1 DEF IndentFrom
  <2>2. CASE x \notin Alive
    BY <2>2, GoneAlone
  <2>3. QED
    BY <2>1, <2>2
<1>6. Indentation = H
  BY DEF Indentation
<1> HIDE DEF L, H
<1>7. Fix(L)
  <2>1. L = [x \in Ids |-> L[x]]
    BY DEF L
  <2>2. QED
    BY <1>5, <2>1
<1>8. Fix(H)
  BY <1>7 DEF H
<1>9. \A g : Fix(g) => IsIndentation(g, First, roots)
  <2> TAKE g
  <2>1. \A x \in Ids : (x \in roots <=> ParentsOf(x) = << >>)
                       /\ (x \notin roots => First[x] = Head(ParentsOf(x)))
    OBVIOUS
  <2> HIDE DEF First, roots
  <2>2. QED
    BY <2>1 DEF IsIndentation
<1> HIDE DEF Fix, First, roots
<1>10. IsIndentation(L, First, roots) /\ IsIndentation(H, First, roots)
  BY <1>7, <1>8, <1>9
<1>11. L = H
  BY <1>3, <1>4, <1>10, OneIndentation
<1>12. id \in Ids /\ L[id] = indent[id]
  BY DEF L, Alive
<1>13. QED
  BY <1>6, <1>11, <1>12

\* Of every hierarchy whose parents and children mirror each other and whose ranks
\* fit the bit fields, one pass over the list in either direction gives every level,
\* depth and indent exactly, and the maxima of the levels and depths
\* (updateLevel, updateLevelIndentDepth).
THEOREM LevelsAreExact == Spec => [](Mirrored /\ Shallow => LevelsExact)
<1>1. IInv /\ PassInv => (Mirrored /\ Shallow => LevelsExact)
  <2> SUFFICES ASSUME IInv, PassInv, Mirrored, Shallow, pc = "ready", NEW id \in Alive
               PROVE  /\ level[id] = Height[id] /\ depth[id] = Distance[id]
                      /\ indent[id] = Indentation[id]
                      /\ maxLevel >= level[id] /\ maxDepth >= depth[id]
                      /\ maxLevel \in {0} \cup {level[x] : x \in Alive}
                      /\ maxDepth \in {0} \cup {depth[x] : x \in Alive}
    BY DEF LevelsExact
  <2>1. PICK rank \in Ranks : Falls(rank)
    BY DEF Shallow
  <2>2. level[id] = Height[id] /\ depth[id] = Distance[id] /\ indent[id] = Indentation[id]
    BY <2>1, LevelIsHeight, DepthIsDistance, IndentIsIndentation
  <2>3. LevelPass(rank) /\ DepthPass(rank) /\ LevelDone = Alive /\ DepthDone = Alive
    BY <2>1 DEF PassInv, LevelDone, DepthDone
  <2>4. /\ level[id] =< maxLevel /\ depth[id] =< maxDepth
        /\ maxLevel \in {0} \cup {level[x] : x \in Alive}
        /\ maxDepth \in {0} \cup {depth[x] : x \in Alive}
    BY <2>3 DEF LevelPass, DepthPass
  <2>5. level[id] \in Int /\ depth[id] \in Int /\ maxLevel \in Int /\ maxDepth \in Int
    BY SizeAssumption DEF IInv, TypeOK, Fields, Alive
  <2>6. QED
    BY <2>2, <2>4, <2>5
<1>2. QED
  BY <1>1, IInvAlways, PassesAlways, PTL

-----------------------------------------------------------------------------
(* The types that loadElement has corrected tell who has children.           *)

KindInv ==
  /\ DOMAIN parentToChildren \cap unread = {}
  /\ \A id \in DOMAIN parentToChildren : parentToChildren[id] # << >>
  /\ \A id \in Ids : elements[id] = "numeric" => ChildrenOf(id) = << >>
  /\ \A id \in Ids : elements[id] = "consolidated" => ChildrenOf(id) # << >>

LEMMA LoadElementKinds ==
  ASSUME IInv, KindInv, NEW id \in unread, LoadElement(id)
  PROVE  KindInv'
<1> DEFINE list == file[id].children
<1>1. /\ unread' = unread \ {id}
      /\ elements' = [elements EXCEPT ![id] = LoadedType(file[id])]
      /\ parentToChildren' = WithEntry(parentToChildren, id, list)
      /\ elements \in [Ids -> Types]
  BY DEF LoadElement, IInv, TypeOK
<1>2. id \notin DOMAIN parentToChildren
  BY DEF KindInv
<1>3. \A x \in Ids : elements'[x] = IF x = id THEN IF list # << >> THEN "consolidated" ELSE "numeric"
                                    ELSE elements[x]
  BY <1>1 DEF LoadedType
<1> HIDE DEF list
<1>4. CASE list = << >>
  <2>1. parentToChildren' = parentToChildren
    BY <1>1, <1>4 DEF WithEntry
  <2>2. QED
    BY <1>1, <1>2, <1>3, <1>4, <2>1 DEF KindInv, ChildrenOf
<1>5. CASE list # << >>
  <2>1. parentToChildren' = [x \in DOMAIN parentToChildren \cup {id} |->
                               IF x = id THEN list ELSE parentToChildren[x]]
    BY <1>1, <1>5 DEF WithEntry
  <2>2. \A x : ChildrenOf(x)' = IF x = id THEN list ELSE ChildrenOf(x)
    BY <1>2, <2>1 DEF ChildrenOf
  <2>3. /\ DOMAIN parentToChildren' \cap unread' = {}
        /\ \A x \in DOMAIN parentToChildren' : parentToChildren'[x] # << >>
    BY <1>1, <1>5, <2>1 DEF KindInv
  <2>4. /\ \A x \in Ids : elements'[x] = "numeric" => ChildrenOf(x)' = << >>
        /\ \A x \in Ids : elements'[x] = "consolidated" => ChildrenOf(x)' # << >>
    BY <1>3, <1>5, <2>2 DEF KindInv
  <2>5. QED
    BY <2>3, <2>4 DEF KindInv
<1>6. QED
  BY <1>4, <1>5

LEMMA ClearUnusedKinds ==
  ASSUME IInv, KindInv, ClearUnused
  PROVE  KindInv'
<1>1. UNCHANGED <<unread, parentToChildren>>
  BY DEF ClearUnused, relations
<1>2. \A id \in Ids : elements'[id] = IF elements[id] = "undefined" THEN "none" ELSE elements[id]
  BY DEF ClearUnused
<1>3. QED
  BY <1>1, <1>2 DEF KindInv, ChildrenOf

LEMMA KindsAlways == Spec => []KindInv
<1>1. Init => KindInv
  BY DEF Init, KindInv
<1>2. IInv /\ KindInv /\ [Next]_vars => KindInv'
  <2> SUFFICES ASSUME IInv, KindInv, [Next]_vars PROVE KindInv'
    OBVIOUS
  <2>1. ASSUME NEW id \in unread, LoadElement(id) PROVE KindInv'
    BY <2>1, LoadElementKinds
  <2>2. ASSUME NEW id \in unread, SkipString(id) \/ Fail(id) PROVE KindInv'
    <3>1. UNCHANGED <<elements, parentToChildren>> /\ unread' \subseteq unread
      BY <2>2 DEF SkipString, Fail, relations
    <3>2. QED
      BY <3>1 DEF KindInv, ChildrenOf
  <2>3. CASE ClearUnused
    BY <2>3, ClearUnusedKinds
  <2>4. CASE UpdateLevelIndentDepth \/ SortNext \/ SortDone \/ VisitParent \/ AddSorted
             \/ UpdateLevel \/ LevelsDone \/ UpdateDepthIndent \/ UpdateDone \/ UNCHANGED vars
    <3>1. UNCHANGED <<elements, relations, unread>>
      BY <2>4 DEF UpdateLevelIndentDepth, SortNext, SortDone, VisitParent, AddSorted,
           UpdateLevel, LevelsDone, UpdateDepthIndent, UpdateDone, vars
    <3>2. QED
      BY <3>1 DEF KindInv, ChildrenOf, relations
  <2>5. QED
    BY <2>1, <2>2, <2>3, <2>4 DEF Next
<1>3. QED
  BY <1>1, <1>2, IInvAlways, PTL DEF Spec

-----------------------------------------------------------------------------
(* Lists of weighted elements, as getBaseIWs returns them, and what FlattenSeq *)
(* makes of several.                                                         *)

LEMMA FlattenSteps ==
  ASSUME NEW S, NEW s \in Seq(Seq(S)), s # << >>
  PROVE  \E g \in [1..Len(s) -> Seq(S)] :
           /\ g[1] = s[1] /\ \A i \in 1..Len(s) : i # 1 => g[i] = g[i - 1] \o s[i]
           /\ FlattenSeq(s) = g[Len(s)]
<1>1. Len(s) # 0
  BY EmptySeq
<1>2. FlattenSeq(s) = Flattened(s)
  BY <1>1 DEF FlattenSeq, Flattened, IsFlatten
<1>3. QED
  BY <1>2, FlattenedSteps, Zenon

Links == [id : Ids, weight : Int]
Share(s, b) == [i \in DOMAIN s |-> IF s[i].id = b THEN s[i].weight ELSE 0]

\* All the weight that a list gives to an element.
Total(s, b) == SumTo(Share(s, b), Len(s))

LEMMA LinkOf ==
  ASSUME NEW s \in Seq(Links)
  PROVE  /\ Len(s) \in Nat /\ DOMAIN s = 1..Len(s)
         /\ \A i \in 1..Len(s) : s[i] \in Links /\ s[i].id \in Ids /\ s[i].weight \in Int
<1>1. Len(s) \in Nat /\ DOMAIN s = 1..Len(s) /\ \A i \in 1..Len(s) : s[i] \in Links
  OBVIOUS
<1>2. \A x \in Links : x.id \in Ids /\ x.weight \in Int
  BY DEF Links
<1>3. QED
  BY <1>1, <1>2

LEMMA TotalType ==
  ASSUME NEW s \in Seq(Links), NEW b
  PROVE  Total(s, b) \in Int /\ \A i \in 1..Len(s) : Share(s, b)[i] \in Int
<1>1. Len(s) \in Nat /\ \A i \in 1..Len(s) : Share(s, b)[i] \in Int
  BY LinkOf DEF Share
<1>2. QED
  BY <1>1, SumToType DEF Total

LEMMA TotalConcat ==
  ASSUME NEW s \in Seq(Links), NEW t \in Seq(Links), NEW b
  PROVE  /\ s \o t \in Seq(Links)
         /\ ToSet(s \o t) = ToSet(s) \cup ToSet(t)
         /\ Total(s \o t, b) = Total(s, b) + Total(t, b)
<1>1. PICK u, m, n : u = s \o t /\ m = Len(s) /\ n = Len(t)
  OBVIOUS
<1>2. /\ m \in Nat /\ n \in Nat /\ u \in Seq(Links) /\ Len(u) = m + n
      /\ DOMAIN s = 1..m /\ DOMAIN t = 1..n /\ DOMAIN u = 1..(m + n)
      /\ \A i \in 1..m : u[i] = s[i]
      /\ \A i \in 1..n : u[m + i] = t[i]
  BY <1>1
<1>3. ToSet(u) = ToSet(s) \cup ToSet(t)
  <2>1. \A i \in 1..(m + n) : i \in 1..m \/ (i - m \in 1..n /\ m + (i - m) = i)
    BY <1>2
  <2>2. \A i \in 1..(m + n) : u[i] \in ToSet(s) \cup ToSet(t)
    BY <1>2, <2>1 DEF ToSet
  <2>3. \A i \in 1..m : i \in 1..(m + n) /\ s[i] \in ToSet(u)
    BY <1>2 DEF ToSet
  <2>4. \A i \in 1..n : m + i \in 1..(m + n) /\ t[i] \in ToSet(u)
    BY <1>2 DEF ToSet
  <2>5. QED
    BY <1>2, <2>2, <2>3, <2>4, SMTT(30) DEF ToSet
<1>4. SumTo(Share(u, b), m + n) = SumTo(Share(s, b), m) + SumTo(Share(t, b), n)
  <2>1. PICK f, e, h : f = Share(u, b) /\ e = Share(s, b) /\ h = Share(t, b)
    OBVIOUS
  <2>2. \A i \in 1..(m + n) : f[i] \in Int
    BY <1>2, <2>1, TotalType
  <2>3. \A i \in 1..m : i \in 1..(m + n) /\ e[i] = f[i]
    BY <1>2, <2>1 DEF Share
  <2>4. \A i \in 1..n : m + i \in 1..(m + n) /\ h[i] = f[m + i]
    BY <1>2, <2>1 DEF Share
  <2>5. /\ \A i \in 1..m : e[i] = f[i]
        /\ \A i \in 1..n : h[i] = f[m + i]
    BY <2>3, <2>4
  <2>6. SumTo(f, m + n) = SumTo(e, m) + SumTo(h, n)
    <3>1. Joins(f, e, m, h, n)
      BY <1>2, <2>2, <2>5 DEF Joins
    <3>2. QED
      BY <3>1, SumConcat
  <2>7. QED
    BY <2>1, <2>6
<1>5. QED
  BY <1>1, <1>2, <1>3, <1>4 DEF Total

\* The sum of getBaseElements over the places of an element is all its weight.
LEMMA TotalIsFold ==
  ASSUME NEW s \in Seq(Links), NEW b
  PROVE  FoldFunctionOnSet(+, 0, [i \in DOMAIN s |-> s[i].weight], {i \in DOMAIN s : s[i].id = b})
           = Total(s, b)
<1>1. PICK w, f, D, T : /\ w = [i \in DOMAIN s |-> s[i].weight] /\ f = Share(s, b)
                        /\ D = 1..Len(s) /\ T = {i \in DOMAIN s : s[i].id = b}
  OBVIOUS
<1>2. Len(s) \in Nat /\ DOMAIN s = D /\ \A i \in D : s[i].weight \in Int
  BY <1>1, LinkOf
<1>3. IsFiniteSet(D) /\ T \in SUBSET D /\ IsFiniteSet(T)
  <2>1. IsFiniteSet(D)
    BY <1>1, <1>2, FS_Interval
  <2>2. T \in SUBSET D
    BY <1>1, <1>2
  <2>3. QED
    BY <2>1, <2>2, FS_Subset
<1>4. /\ \A i \in D : f[i] \in Int
      /\ \A i \in D \ T : f[i] = 0
      /\ \A i \in T : f[i] \in Int /\ w[i] = f[i]
  BY <1>1, <1>2 DEF Share
<1>5. SumFunctionOnSet(f, D) = SumFunctionOnSet(f, T)
  BY <1>3, <1>4, SumOfSome
<1>6. SumFunctionOnSet(w, T) = SumFunctionOnSet(f, T)
  BY <1>3, <1>4, SumSame
<1>7. Total(s, b) = SumFunctionOnSet(f, D)
  BY <1>1 DEF Total, SumTo
<1>8. FoldFunctionOnSet(+, 0, w, T) = SumFunctionOnSet(w, T)
  BY DEF SumFunctionOnSet
<1>9. QED
  BY <1>1, <1>5, <1>6, <1>7, <1>8

IdsOf(s) == {x.id : x \in ToSet(s)}

\* A list gives no weight to who is not in it, and to who is in a list of one
\* what the list says.
LEMMA TotalAbsent ==
  ASSUME NEW s \in Seq(Links), NEW b, b \notin IdsOf(s)
  PROVE  Total(s, b) = 0
<1>1. PICK f, D : f = Share(s, b) /\ D = 1..Len(s)
  OBVIOUS
<1>2. IsFiniteSet(D) /\ {} \in SUBSET D
  BY <1>1, LinkOf, FS_Interval
<1>3. \A i \in D : f[i] = 0
  <2> TAKE i \in D
  <2>1. i \in DOMAIN s /\ s[i] \in ToSet(s)
    BY <1>1, LinkOf DEF ToSet
  <2>2. s[i].id # b
    BY <2>1 DEF IdsOf
  <2>3. QED
    BY <1>1, <2>1, <2>2 DEF Share
<1>4. \A i \in D : f[i] \in Int
  BY <1>3
<1>5. \A i \in D \ {} : f[i] = 0
  BY <1>3
<1>6. SumFunctionOnSet(f, D) = SumFunctionOnSet(f, {})
  BY <1>2, <1>4, <1>5, SumOfSome
<1>7. SumFunctionOnSet(f, {}) = 0
  BY FS_EmptySet, SumType
<1>8. QED
  BY <1>1, <1>6, <1>7 DEF Total, SumTo

LEMMA TotalOfOne ==
  ASSUME NEW x \in Links
  PROVE  Total(<<x>>, x.id) = x.weight
<1>1. PICK f : f = Share(<<x>>, x.id)
  OBVIOUS
<1>2. Len(<<x>>) = 1 /\ f[1] = x.weight /\ f[1] \in Int
  BY <1>1 DEF Share, Links
<1>3. \A i \in 1..(0 + 1) : f[i] \in Int
  BY <1>2
<1>4. SumTo(f, 0 + 1) = f[0 + 1] + SumTo(f, 0)
  BY <1>3, SumToStep
<1>5. SumTo(f, 0) = 0
  BY SumToNone
<1>6. SumTo(f, 1) = x.weight
  BY <1>2, <1>4, <1>5
<1>7. QED
  BY <1>1, <1>2, <1>6 DEF Total

\* The lists of all children, one behind the other.
LEMMA FlattenIs ==
  ASSUME NEW s \in Seq(Seq(Links)), s # << >>
  PROVE  /\ FlattenSeq(s) \in Seq(Links)
         /\ ToSet(FlattenSeq(s)) = UNION {ToSet(s[i]) : i \in 1..Len(s)}
         /\ \A b : Total(FlattenSeq(s), b) = SumTo([i \in 1..Len(s) |-> Total(s[i], b)], Len(s))
<1>1. PICK n : n = Len(s) /\ n \in Nat \ {0} /\ \A i \in 1..n : s[i] \in Seq(Links)
  BY EmptySeq
<1>2. PICK g \in [1..n -> Seq(Links)] :
        /\ g[1] = s[1] /\ \A i \in 1..n : i # 1 => g[i] = g[i - 1] \o s[i]
        /\ FlattenSeq(s) = g[n]
  BY <1>1, FlattenSteps
<1>3. \A i \in 1..n : i # 1 => i - 1 \in 1..n /\ (i - 1) + 1 = i /\ i - 1 \in Nat
  BY <1>1
<1>4. ToSet(g[n]) = UNION {ToSet(s[i]) : i \in 1..n}
  <2> DEFINE Set(i) == UNION {ToSet(s[j]) : j \in 1..i}
             bad == {i \in 1..n : ToSet(g[i]) # Set(i)}
  <2>1. SUFFICES ASSUME bad # {} PROVE FALSE
    <3>1. n \in 1..n
      BY <1>1
    <3>2. ASSUME ToSet(g[n]) # Set(n) PROVE n \in bad
      BY <3>1, <3>2
    <3>3. QED
      BY <3>2
  <2>2. PICK i \in bad : \A j \in bad : i =< j
    <3>1. bad \subseteq Nat
      OBVIOUS
    <3> HIDE DEF bad
    <3>2. QED
      BY <2>1, <3>1, MinExists
  <2>3. CASE i = 1
    <3>1. Set(1) = ToSet(s[1])
      OBVIOUS
    <3>2. QED
      BY <1>2, <2>2, <2>3, <3>1
  <2>4. CASE i # 1
    <3>1. PICK k : k = i - 1
      OBVIOUS
    <3>2. k \in 1..n /\ k + 1 = i /\ k \in Nat /\ ~(i =< k) /\ i \in 1..n
      BY <1>3, <2>2, <2>4, <3>1
    <3>3. ToSet(g[k]) = Set(k)
      BY <2>2, <3>2
    <3>4. ToSet(g[k] \o s[i]) = ToSet(g[k]) \cup ToSet(s[i])
      <4>1. g[k] \in Seq(Links) /\ s[i] \in Seq(Links)
        BY <1>1, <1>2, <3>2
      <4>2. QED
        BY <4>1, TotalConcat
    <3>5. Set(i) = Set(k) \cup ToSet(s[i])
      <4>1. 1..i = (1..k) \cup {i}
        BY <3>2
      <4>2. QED
        BY <4>1
    <3>6. g[i] = g[k] \o s[i]
      BY <1>2, <2>4, <3>1, <3>2
    <3>7. QED
      BY <2>2, <3>3, <3>4, <3>5, <3>6
  <2>5. QED
    BY <2>3, <2>4
<1>5. ASSUME NEW b PROVE Total(g[n], b) = SumTo([i \in 1..n |-> Total(s[i], b)], n)
  <2> DEFINE f == [i \in 1..n |-> Total(s[i], b)]
             bad == {i \in 1..n : Total(g[i], b) # SumTo(f, i)}
  <2>0. /\ \A i \in 1..n : f[i] = Total(s[i], b) /\ f[i] \in Int
        /\ \A i \in 1..n : Total(g[i], b) \in Int
    BY <1>1, <1>2, TotalType
  <2> HIDE DEF f
  <2>1. SUFFICES ASSUME bad # {} PROVE FALSE
    <3>1. n \in 1..n
      BY <1>1
    <3>2. ASSUME Total(g[n], b) # SumTo(f, n) PROVE n \in bad
      BY <3>1, <3>2
    <3>3. QED
      BY <3>2 DEF f
  <2>2. PICK i \in bad : \A j \in bad : i =< j
    <3>1. bad \subseteq Nat
      OBVIOUS
    <3> HIDE DEF bad
    <3>2. QED
      BY <2>1, <3>1, MinExists
  <2>3. CASE i = 1
    <3>1. \A j \in 1..(0 + 1) : f[j] \in Int
      BY <1>1, <2>0
    <3>2. SumTo(f, 0 + 1) = f[0 + 1] + SumTo(f, 0) /\ SumTo(f, 0) = 0
      BY <3>1, SumToStep, SumToNone
    <3>3. SumTo(f, 1) = f[1]
      BY <3>1, <3>2
    <3>4. f[1] = Total(g[1], b)
      BY <1>1, <1>2, <2>0
    <3>5. QED
      BY <2>2, <2>3, <3>3, <3>4
  <2>4. CASE i # 1
    <3>1. PICK k : k = i - 1
      OBVIOUS
    <3>2. k \in 1..n /\ k + 1 = i /\ k \in Nat /\ ~(i =< k) /\ i \in 1..n
      BY <1>3, <2>2, <2>4, <3>1
    <3>3. Total(g[k], b) = SumTo(f, k)
      BY <2>2, <3>2
    <3>4. Total(g[k] \o s[i], b) = Total(g[k], b) + Total(s[i], b)
      <4>1. g[k] \in Seq(Links) /\ s[i] \in Seq(Links)
        BY <1>1, <1>2, <3>2
      <4>2. QED
        BY <4>1, TotalConcat
    <3>5. SumTo(f, k + 1) = f[k + 1] + SumTo(f, k)
      <4>1. \A j \in 1..(k + 1) : f[j] \in Int
        BY <1>1, <2>0, <3>2
      <4>2. QED
        BY <3>2, <4>1, SumToStep
    <3>6. g[i] = g[k] \o s[i]
      BY <1>2, <2>4, <3>1, <3>2
    <3>7. Total(g[i], b) # SumTo(f, i)
      BY <2>2
    <3>8. f[i] = Total(s[i], b) /\ f[i] \in Int /\ Total(g[k], b) \in Int
      BY <2>0, <3>2
    <3> HIDE DEF bad
    <3>9. QED
      BY <3>2, <3>3, <3>4, <3>5, <3>6, <3>7, <3>8
  <2>5. QED
    BY <2>3, <2>4
<1>6. g[n] \in Seq(Links)
  BY <1>1, <1>2
<1>7. QED
  BY <1>1, <1>2, <1>4, <1>5, <1>6

-----------------------------------------------------------------------------
(* What a dimension that is ready offers to the look-ups.                    *)

Child(id, i) == ChildrenOf(id)[i].id

\* Levels fall to the children, and an element of the first level has base
\* elements below it only.
Layered ==
  /\ level \in [Ids -> Nat] /\ LevelRange \in Nat /\ \A id \in Ids : level[id] < LevelRange
  /\ \A id \in Ids :
       /\ ChildrenOf(id) \in Seq(Links)
       /\ \A i \in DOMAIN ChildrenOf(id) : Child(id, i) \in Alive /\ level[Child(id, i)] < level[id]
       /\ elements[id] = "consolidated" <=> ChildrenOf(id) # << >>
       /\ elements[id] = "consolidated" =>
            /\ level[id] >= BaseLevel
            /\ level[id] = BaseLevel =>
                 \A i \in DOMAIN ChildrenOf(id) : elements[Child(id, i)] = "numeric"
  /\ \A id \in Alive : elements[id] \in {"numeric", "consolidated"}

LEMMA AboveAll ==
  ASSUME NEW S, S \subseteq 0..(LevelRange - 1), NEW x \in S
  PROVE  x < Above(S)
<1>1. S \subseteq Nat /\ LevelRange \in Nat /\ \A y \in S : y =< LevelRange
  BY SizeAssumption
<1>2. \E m \in S : \A y \in S : y =< m
  <2> DEFINE room == {LevelRange - y : y \in S}
  <2>1. room \subseteq Nat /\ room # {}
    <3>1. \A y \in S : LevelRange - y \in Nat
      BY <1>1
    <3>2. QED
      BY <3>1, Zenon
  <2> HIDE DEF room
  <2>2. PICK k \in room : \A j \in room : k =< j
    BY <2>1, MinExists
  <2>3. PICK m \in S : k = LevelRange - m
    BY <2>2 DEF room
  <2>4. \A y \in S : k =< LevelRange - y
    BY <2>2 DEF room
  <2>5. \A y \in S : y =< m
    BY <1>1, <2>3, <2>4
  <2>6. QED
    BY <2>5
<1>3. PICK m : m = Max(S) /\ m \in S /\ \A y \in S : y =< m
  BY <1>2 DEF Max
<1>4. Above(S) = m + 1
  BY <1>3 DEF Above
<1>5. x =< m /\ x \in Int /\ m \in Int
  BY <1>1, <1>3
<1>6. QED
  BY <1>4, <1>5

LEMMA ReadyLayered ==
  ASSUME IInv, PassInv, KindInv, pc = "ready", Mirrored, Shallow
  PROVE  Layered
<1>1. PICK rank \in Ranks : Falls(rank)
  BY DEF Shallow
<1>2. \A id \in Alive : level[id] = Above(LevelsBelow(id))
  BY <1>1 DEF PassInv, LevelPass, LevelDone
<1>3. level \in [Ids -> 0..(LevelRange - 1)] /\ LevelRange \in Nat /\ elements \in [Ids -> Types]
  BY SizeAssumption DEF IInv, TypeOK, Fields
<1>4. level \in [Ids -> Nat] /\ \A id \in Ids : level[id] < LevelRange
  BY <1>3
<1>5. \A id \in Ids : ChildrenOf(id) \in Seq(Links)
  BY Relatives DEF IInv, Links
<1>6. \A id \in Ids : \A i \in DOMAIN ChildrenOf(id) : ChildrenOf(id)[i] \in ToSet(ChildrenOf(id))
  BY DEF ToSet
<1>7. \A id \in Ids : \A i \in DOMAIN ChildrenOf(id) : Child(id, i) \in Alive
  BY <1>6 DEF Mirrored, Child
<1>8. \A id \in Ids \ Alive : ChildrenOf(id) = << >>
  <2> TAKE id \in Ids \ Alive
  <2>1. ToSet(ChildrenOf(id)) = {}
    BY GoneAlone
  <2>2. DOMAIN ChildrenOf(id) = {}
    BY <1>6, <2>1
  <2>3. Len(ChildrenOf(id)) \in Nat /\ DOMAIN ChildrenOf(id) = 1..Len(ChildrenOf(id))
    BY <1>5, LinkOf
  <2>4. Len(ChildrenOf(id)) = 0
    BY <2>2, <2>3
  <2>5. QED
    BY <1>5, <2>4, EmptySeq
<1>9. ASSUME NEW id \in Ids, NEW i \in DOMAIN ChildrenOf(id)
      PROVE  level[Child(id, i)] < level[id]
  <2>1. id \in Alive
    BY <1>8, <1>9
  <2>2. level[Child(id, i)] \in LevelsBelow(id)
    BY <1>6, <1>9 DEF LevelsBelow, Child
  <2>3. LevelsBelow(id) \subseteq 0..(LevelRange - 1)
    BY <1>3 DEF LevelsBelow, Mirrored, Alive
  <2>4. QED
    BY <1>2, <2>1, <2>2, <2>3, AboveAll
<1>10. \A id \in Alive : elements[id] \in {"numeric", "consolidated"}
  BY DEF IInv, LoadInv, Alive
<1>11. \A id \in Ids : elements[id] = "consolidated" <=> ChildrenOf(id) # << >>
  BY <1>8, <1>10 DEF KindInv, Alive
<1>12. ASSUME NEW id \in Ids, elements[id] = "consolidated" PROVE level[id] >= 1
  <2>1. ChildrenOf(id) # << >> /\ ChildrenOf(id) \in Seq(Links)
    BY <1>5, <1>11, <1>12
  <2>2. 1 \in DOMAIN ChildrenOf(id)
    BY <2>1, EmptySeq
  <2>3. Child(id, 1) \in Ids /\ level[Child(id, 1)] < level[id]
    BY <1>7, <1>9, <2>2 DEF Alive
  <2>4. QED
    BY <1>4, <2>3
<1>13. ASSUME NEW id \in Ids, level[id] = 1, NEW i \in DOMAIN ChildrenOf(id)
       PROVE  elements[Child(id, i)] = "numeric"
  <2>1. Child(id, i) \in Alive /\ Child(id, i) \in Ids /\ level[Child(id, i)] < 1
    BY <1>7, <1>9, <1>13 DEF Alive
  <2>2. ~(level[Child(id, i)] >= 1)
    BY <1>4, <2>1
  <2>3. QED
    BY <1>10, <1>12, <2>1, <2>2
<1>14. QED
  BY <1>3, <1>4, <1>5, <1>7, <1>9, <1>10, <1>11, <1>12, <1>13 DEF Layered, BaseLevel

\* Among elements with some fault there is one whose children have none.
LEMMA LowestFault ==
  ASSUME Layered, NEW bad \in SUBSET Ids, bad # {}
  PROVE  \E id \in bad : \A i \in DOMAIN ChildrenOf(id) : Child(id, i) \in Ids \ bad
<1> DEFINE levels == {level[id] : id \in bad}
<1>1. levels \subseteq Nat /\ levels # {}
  BY DEF Layered
<1> HIDE DEF levels
<1>2. PICK m \in levels : \A k \in levels : m =< k
  BY <1>1, MinExists
<1>3. PICK id \in bad : m = level[id]
  BY DEF levels
<1>4. ASSUME NEW i \in DOMAIN ChildrenOf(id) PROVE Child(id, i) \in Ids \ bad
  <2>1. PICK c : c = Child(id, i)
    OBVIOUS
  <2>2. c \in Ids /\ level[c] < level[id] /\ level[c] \in Nat /\ level[id] \in Nat
    BY <2>1 DEF Layered, Alive
  <2>3. c \in bad => level[c] \in levels
    BY DEF levels
  <2>4. QED
    BY <1>2, <1>3, <2>1, <2>2, <2>3
<1>5. QED
  BY <1>4

-----------------------------------------------------------------------------
(* getBaseIWs and the reference for it are recursive functions; that the     *)
(* equations have a solution at all follows from RecursionExists.            *)

\* What is in the children's entries of a function on elements.
OfChildren(g, id) == [i \in DOMAIN ChildrenOf(id) |-> g[ChildrenOf(id)[i].id]]

IWBody(g, id) ==
  CASE elements[id] = "consolidated" /\ level[id] > BaseLevel -> FlattenSeq(OfChildren(g, id))
    [] elements[id] = "consolidated" /\ level[id] = BaseLevel -> ChildrenOf(id)
    [] OTHER -> <<[id |-> id, weight |-> 1]>>

IsBaseIWs(g) == g = [id \in Ids |-> IWBody(g, id)]

LEMMA IsBaseIWsUnrolled ==
  ASSUME NEW g, IsBaseIWs(g)
  PROVE  /\ \A id \in Ids : g[id] = IWBody(g, id)
         /\ \E e : g = [id \in Ids |-> e[id]]
<1> DEFINE e == [id \in Ids |-> IWBody(g, id)]
<1>1. g = e
  BY DEF IsBaseIWs
<1>2. \A id \in Ids : e[id] = IWBody(g, id)
  OBVIOUS
<1>3. e = [id \in Ids |-> e[id]]
  OBVIOUS
<1> HIDE DEF e
<1>4. \A id \in Ids : g[id] = IWBody(g, id)
  BY <1>1, <1>2
<1>5. QED
  BY <1>1, <1>3, <1>4, Zenon

\* The children's entries are a list as long as that of the children.
LEMMA ChildLists ==
  ASSUME Layered, NEW g, NEW id \in Ids
  PROVE  /\ Len(ChildrenOf(id)) \in Nat /\ DOMAIN ChildrenOf(id) = 1..Len(ChildrenOf(id))
         /\ OfChildren(g, id) = [i \in 1..Len(ChildrenOf(id)) |-> g[Child(id, i)]]
         /\ elements[id] = "consolidated" => 1 \in 1..Len(ChildrenOf(id))
<1>1. PICK n : n = Len(ChildrenOf(id))
  OBVIOUS
<1>2. ChildrenOf(id) \in Seq(Links) /\ n \in Nat /\ DOMAIN ChildrenOf(id) = 1..n
  BY <1>1, LinkOf DEF Layered
<1>3. OfChildren(g, id) = [i \in 1..n |-> g[Child(id, i)]]
  BY <1>1, <1>2 DEF OfChildren, Child
<1>4. ASSUME elements[id] = "consolidated" PROVE 1 \in 1..n
  <2>1. ChildrenOf(id) # << >>
    BY <1>4 DEF Layered
  <2>2. n # 0
    BY <1>1, <1>2, <2>1, EmptySeq
  <2>3. QED
    BY <1>2, <2>2
<1>5. QED
  BY <1>1, <1>2, <1>3, <1>4

LEMMA ListOf ==
  ASSUME NEW n \in Nat, NEW e, NEW s, s = [i \in 1..n |-> e[i]],
         NEW V, \A i \in 1..n : s[i] \in V
  PROVE  s \in Seq(V) /\ Len(s) = n /\ (1 \in 1..n => s # << >>)
<1>1. s \in [1..n -> V]
  OBVIOUS
<1>2. s \in Seq(V) /\ Len(s) = n
  BY <1>1
<1>3. QED
  BY <1>2

\* The children's lists of an element above the first level.
LEMMA ListsOfChildren ==
  ASSUME Layered, NEW g, NEW id \in Ids,
         \A i \in DOMAIN ChildrenOf(id) : g[Child(id, i)] \in Seq(Links)
  PROVE  \E s \in Seq(Seq(Links)) :
           /\ s = OfChildren(g, id) /\ Len(s) = Len(ChildrenOf(id))
           /\ \A i \in 1..Len(ChildrenOf(id)) : s[i] = g[Child(id, i)]
           /\ elements[id] = "consolidated" => s # << >>
<1>1. PICK n, s, V, e : /\ n = Len(ChildrenOf(id)) /\ s = OfChildren(g, id) /\ V = Seq(Links)
                        /\ e = [i \in 1..n |-> g[Child(id, i)]]
  OBVIOUS
<1>2. /\ n \in Nat /\ DOMAIN ChildrenOf(id) = 1..n /\ s = e
      /\ elements[id] = "consolidated" => 1 \in 1..n
  BY <1>1, ChildLists
<1>3. e = [i \in 1..n |-> e[i]] /\ \A i \in 1..n : e[i] = g[Child(id, i)] /\ e[i] \in V
  BY <1>1, <1>2
<1>4. e \in Seq(V) /\ Len(e) = n /\ (1 \in 1..n => e # << >>)
  BY <1>2, <1>3, ListOf
<1>5. QED
  BY <1>1, <1>2, <1>3, <1>4

LEMMA IWBodyType ==
  ASSUME Layered, NEW g, NEW id \in Ids,
         \A i \in DOMAIN ChildrenOf(id) : g[Child(id, i)] \in Seq(Links)
  PROVE  IWBody(g, id) \in Seq(Links)
<1>1. CASE elements[id] = "consolidated" /\ level[id] > BaseLevel
  <2>1. OfChildren(g, id) \in Seq(Seq(Links)) /\ OfChildren(g, id) # << >>
    BY <1>1, ListsOfChildren
  <2>2. FlattenSeq(OfChildren(g, id)) \in Seq(Links)
    BY <2>1, FlattenIs
  <2>3. IWBody(g, id) = FlattenSeq(OfChildren(g, id))
    <3>1. level[id] \in Nat /\ level[id] # BaseLevel
      BY <1>1 DEF Layered, BaseLevel
    <3>2. QED
      BY <1>1, <3>1 DEF IWBody
  <2>4. QED
    BY <2>2, <2>3
<1>2. CASE elements[id] = "consolidated" /\ level[id] = BaseLevel
  <2>1. IWBody(g, id) = ChildrenOf(id)
    BY <1>2 DEF IWBody, BaseLevel
  <2>2. QED
    BY <2>1 DEF Layered
<1>3. CASE elements[id] # "consolidated"
  <2>1. IWBody(g, id) = <<[id |-> id, weight |-> 1]>>
    BY <1>3 DEF IWBody
  <2>2. [id |-> id, weight |-> 1] \in Links
    BY DEF Links
  <2>3. QED
    BY <2>1, <2>2
<1>4. QED
  BY <1>1, <1>2, <1>3 DEF Layered, BaseLevel

\* Two functions that agree on the children give an element the same list.
LEMMA IWBodyLocal ==
  ASSUME NEW g, NEW h, NEW id \in Ids,
         \A i \in DOMAIN ChildrenOf(id) : g[Child(id, i)] = h[Child(id, i)]
  PROVE  IWBody(g, id) = IWBody(h, id)
<1>1. OfChildren(g, id) = OfChildren(h, id)
  BY DEF OfChildren, Child
<1>2. QED
  BY <1>1 DEF IWBody

Kin == [id \in Ids |-> {Child(id, i) : i \in DOMAIN ChildrenOf(id)}]

LEMMA KinFalls ==
  ASSUME Layered
  PROVE  /\ Kin \in [Ids -> SUBSET Ids] /\ level \in [Ids -> Nat] /\ LevelRange \in Nat
         /\ \A id \in Ids : level[id] < LevelRange /\ \A c \in Kin[id] : level[c] < level[id]
         /\ \A id \in Ids : \A i \in DOMAIN ChildrenOf(id) : Child(id, i) \in Kin[id]
BY DEF Layered, Kin, Alive

LEMMA BaseIWsIs ==
  ASSUME Layered
  PROVE  BaseIWs \in [Ids -> Seq(Links)] /\ IsBaseIWs(BaseIWs)
<1>1. PICK F, V : /\ V = Seq(Links)
                  /\ F = [id \in Ids |-> [g \in [Ids -> V] |-> IWBody(g, id)]]
  OBVIOUS
<1>2. V # {}
  BY <1>1, EmptySeq
<1>3. \A id \in Ids : \A g \in [Ids -> V] : IWBody(g, id) \in V
  <2> TAKE id \in Ids
  <2> TAKE g \in [Ids -> V]
  <2>1. \A i \in DOMAIN ChildrenOf(id) : g[Child(id, i)] \in V
    BY DEF Layered, Alive
  <2>2. QED
    BY <1>1, <2>1, IWBodyType
<1>4. F \in [Ids -> [[Ids -> V] -> V]] /\ \A id \in Ids : \A g \in [Ids -> V] : F[id][g] = IWBody(g, id)
  BY <1>1, <1>3
<1>5. ASSUME NEW id \in Ids, NEW g \in [Ids -> V], NEW h \in [Ids -> V], \A c \in Kin[id] : g[c] = h[c]
      PROVE  F[id][g] = F[id][h]
  <2>1. \A i \in DOMAIN ChildrenOf(id) : g[Child(id, i)] = h[Child(id, i)]
    BY <1>5, KinFalls
  <2>2. QED
    BY <1>4, <2>1, IWBodyLocal, ZenonT(60)
<1>6. PICK I, near, r, n : I = Ids /\ near = Kin /\ r = level /\ n = LevelRange
  OBVIOUS
<1>7. Recursive(I, V, near, r, n, F)
  <2>1. /\ near \in [I -> SUBSET I] /\ r \in [I -> Nat] /\ n \in Nat
        /\ \A i \in I : r[i] < n /\ \A j \in near[i] : r[j] < r[i]
    BY <1>6, KinFalls
  <2>2. \A i \in I : \A g, h \in [I -> V] : (\A j \in near[i] : g[j] = h[j]) => F[i][g] = F[i][h]
    BY <1>5, <1>6
  <2>3. F \in [I -> [[I -> V] -> V]]
    BY <1>4, <1>6
  <2>4. QED
    BY <1>2, <2>1, <2>2, <2>3 DEF Recursive
<1>8. \E g \in [I -> V] : \A i \in I : g[i] = F[i][g]
  BY <1>7, RecursionExists
<1>9. PICK g \in [Ids -> V] : \A id \in Ids : g[id] = IWBody(g, id)
  BY <1>4, <1>6, <1>8
<1>10. IsBaseIWs(g)
  BY <1>9 DEF IsBaseIWs
<1>11. BaseIWs = CHOOSE f : IsBaseIWs(f)
  BY DEF BaseIWs, IsBaseIWs, IWBody, OfChildren
<1>12. IsBaseIWs(BaseIWs)
  BY <1>10, <1>11
<1>13. PICK f : f = BaseIWs
  OBVIOUS
<1>14. (\A id \in Ids : f[id] = IWBody(f, id)) /\ \E e : f = [id \in Ids |-> e[id]]
  BY <1>12, <1>13, IsBaseIWsUnrolled
<1>15. \A id \in Ids : f[id] \in Seq(Links)
  <2> DEFINE bad == {id \in Ids : f[id] \notin Seq(Links)}
  <2>1. SUFFICES ASSUME bad # {} PROVE FALSE
    OBVIOUS
  <2>2. PICK id \in bad : \A i \in DOMAIN ChildrenOf(id) : Child(id, i) \in Ids \ bad
    <3>1. bad \in SUBSET Ids
      OBVIOUS
    <3> HIDE DEF bad
    <3>2. QED
      BY <2>1, <3>1, LowestFault
  <2>3. \A i \in DOMAIN ChildrenOf(id) : f[Child(id, i)] \in Seq(Links)
    BY <2>2
  <2>4. IWBody(f, id) \in Seq(Links) /\ id \in Ids
    BY <2>3, IWBodyType
  <2>5. QED
    BY <1>14, <2>2, <2>4
<1>16. f \in [Ids -> Seq(Links)]
  BY <1>14, <1>15
<1>17. QED
  BY <1>12, <1>13, <1>16

\* Weights of the ways down: functions from elements to numbers.
WeightFunctions == UNION {[B -> Int] : B \in SUBSET Ids}

Part(g, id, b) ==
  [i \in DOMAIN ChildrenOf(id) |->
     IF b \in DOMAIN g[Child(id, i)] THEN ChildrenOf(id)[i].weight * g[Child(id, i)][b] ELSE 0]
Reached(g, id) == UNION {DOMAIN g[Child(id, i)] : i \in DOMAIN ChildrenOf(id)}

WaysBody(g, id) ==
  IF ChildrenOf(id) = << >> THEN [b \in {id} |-> 1]
  ELSE [b \in Reached(g, id) |-> SumTo(Part(g, id, b), Len(ChildrenOf(id)))]

IsWays(g) == g = [id \in Ids |-> WaysBody(g, id)]

LEMMA IsWaysUnrolled ==
  ASSUME NEW g, IsWays(g)
  PROVE  /\ \A id \in Ids : g[id] = WaysBody(g, id)
         /\ \E e : g = [id \in Ids |-> e[id]]
<1> DEFINE e == [id \in Ids |-> WaysBody(g, id)]
<1>1. g = e
  BY DEF IsWays
<1>2. \A id \in Ids : e[id] = WaysBody(g, id)
  OBVIOUS
<1>3. e = [id \in Ids |-> e[id]]
  OBVIOUS
<1> HIDE DEF e
<1>4. \A id \in Ids : g[id] = WaysBody(g, id)
  BY <1>1, <1>2
<1>5. QED
  BY <1>1, <1>3, <1>4, Zenon

LEMMA WeightsOf ==
  ASSUME NEW w \in WeightFunctions
  PROVE  DOMAIN w \subseteq Ids /\ \A b \in DOMAIN w : w[b] \in Int
BY DEF WeightFunctions

LEMMA PartType ==
  ASSUME Layered, NEW g, NEW id \in Ids, NEW b,
         \A i \in DOMAIN ChildrenOf(id) : g[Child(id, i)] \in WeightFunctions
  PROVE  /\ Len(ChildrenOf(id)) \in Nat
         /\ \A i \in 1..Len(ChildrenOf(id)) : Part(g, id, b)[i] \in Int
         /\ SumTo(Part(g, id, b), Len(ChildrenOf(id))) \in Int
<1>1. /\ Len(ChildrenOf(id)) \in Nat /\ DOMAIN ChildrenOf(id) = 1..Len(ChildrenOf(id))
      /\ \A i \in 1..Len(ChildrenOf(id)) : ChildrenOf(id)[i].weight \in Int
  BY LinkOf DEF Layered
<1>2. \A i \in 1..Len(ChildrenOf(id)) : Part(g, id, b)[i] \in Int
  <2> TAKE i \in 1..Len(ChildrenOf(id))
  <2>1. PICK w, x : w = g[Child(id, i)] /\ x = ChildrenOf(id)[i].weight
    OBVIOUS
  <2>2. w \in WeightFunctions /\ x \in Int
    BY <1>1, <2>1
  <2>3. b \in DOMAIN w => w[b] \in Int
    BY <2>2, WeightsOf
  <2>4. b \in DOMAIN w => x * w[b] \in Int
    BY <2>2, <2>3
  <2>5. Part(g, id, b)[i] = IF b \in DOMAIN w THEN x * w[b] ELSE 0
    BY <1>1, <2>1 DEF Part
  <2>6. QED
    BY <2>4, <2>5
<1>3. QED
  BY <1>1, <1>2, SumToType

LEMMA WaysBodyType ==
  ASSUME Layered, NEW g, NEW id \in Ids,
         \A i \in DOMAIN ChildrenOf(id) : g[Child(id, i)] \in WeightFunctions
  PROVE  WaysBody(g, id) \in WeightFunctions
<1>1. CASE ChildrenOf(id) = << >>
  <2>1. WaysBody(g, id) = [b \in {id} |-> 1]
    BY <1>1 DEF WaysBody
  <2>2. [b \in {id} |-> 1] \in [{id} -> Int] /\ {id} \in SUBSET Ids
    OBVIOUS
  <2>3. QED
    BY <2>1, <2>2 DEF WeightFunctions
<1>2. CASE ChildrenOf(id) # << >>
  <2>1. PICK R, f : R = Reached(g, id) /\ f = [b \in R |-> SumTo(Part(g, id, b), Len(ChildrenOf(id)))]
    OBVIOUS
  <2>2. R \in SUBSET Ids
    BY <2>1, WeightsOf DEF Reached
  <2>3. \A b \in R : SumTo(Part(g, id, b), Len(ChildrenOf(id))) \in Int
    BY PartType
  <2>4. f \in [R -> Int]
    BY <2>1, <2>3
  <2>5. WaysBody(g, id) = f
    BY <1>2, <2>1 DEF WaysBody
  <2>6. QED
    BY <2>2, <2>4, <2>5 DEF WeightFunctions
<1>3. QED
  BY <1>1, <1>2

LEMMA WaysBodyLocal ==
  ASSUME NEW g, NEW h, NEW id \in Ids,
         \A i \in DOMAIN ChildrenOf(id) : g[Child(id, i)] = h[Child(id, i)]
  PROVE  WaysBody(g, id) = WaysBody(h, id)
<1>1. Reached(g, id) = Reached(h, id)
  BY DEF Reached
<1>2. \A b : Part(g, id, b) = Part(h, id, b)
  BY DEF Part
<1>3. [b \in Reached(g, id) |-> SumTo(Part(g, id, b), Len(ChildrenOf(id)))]
        = [b \in Reached(h, id) |-> SumTo(Part(h, id, b), Len(ChildrenOf(id)))]
  BY <1>1, <1>2
<1>4. QED
  BY <1>3 DEF WaysBody

\* The reference, with its sum over the children as a sum along the list.
LEMMA WaysDownAsSum ==
  ASSUME Layered
  PROVE  WaysDown = CHOOSE g : IsWays(g)
<1> DEFINE Body(g, id) ==
             LET children == ChildrenOf(id)
             IN IF children = << >> THEN [b \in {id} |-> 1]
                ELSE [b \in UNION {DOMAIN g[child.id] : child \in ToSet(children)} |->
                        FoldFunction(+, 0,
                          [i \in DOMAIN children |->
                             LET below == g[children[i].id]
                             IN IF b \in DOMAIN below THEN children[i].weight * below[b] ELSE 0])]
<1>1. WaysDown = CHOOSE g : g = [id \in Ids |-> Body(g, id)]
  BY DEF WaysDown
<1>2. ASSUME NEW g, NEW id \in Ids PROVE Body(g, id) = WaysBody(g, id)
  <2>1. DOMAIN ChildrenOf(id) = 1..Len(ChildrenOf(id))
    BY LinkOf DEF Layered
  <2>2. Reached(g, id) = UNION {DOMAIN g[child.id] : child \in ToSet(ChildrenOf(id))}
    BY DEF Reached, Child, ToSet
  <2>3. \A b : DOMAIN Part(g, id, b) = 1..Len(ChildrenOf(id))
    BY <2>1 DEF Part
  <2>4. \A f : FoldFunction(+, 0, f) = SumFunctionOnSet(f, DOMAIN f)
    BY DEF FoldFunction, SumFunctionOnSet
  <2>5. \A b : FoldFunction(+, 0, Part(g, id, b)) = SumTo(Part(g, id, b), Len(ChildrenOf(id)))
    BY <2>3, <2>4 DEF SumTo
  <2>6. \A b : Part(g, id, b) = [i \in DOMAIN ChildrenOf(id) |->
                  IF b \in DOMAIN g[ChildrenOf(id)[i].id]
                  THEN ChildrenOf(id)[i].weight * g[ChildrenOf(id)[i].id][b] ELSE 0]
    BY DEF Part, Child
  <2>7. Body(g, id) = IF ChildrenOf(id) = << >> THEN [b \in {id} |-> 1]
                      ELSE [b \in Reached(g, id) |-> FoldFunction(+, 0, Part(g, id, b))]
    BY <2>2, <2>6
  <2> HIDE DEF Body
  <2>8. QED
    BY <2>5, <2>7 DEF WaysBody
<1> HIDE DEF Body
<1>3. \A g : [id \in Ids |-> Body(g, id)] = [id \in Ids |-> WaysBody(g, id)]
  BY <1>2
<1>4. \A g : g = [id \in Ids |-> Body(g, id)] <=> IsWays(g)
  BY <1>3 DEF IsWays
<1>5. QED
  BY <1>1, <1>4

LEMMA WaysDownIs ==
  ASSUME Layered
  PROVE  WaysDown \in [Ids -> WeightFunctions] /\ IsWays(WaysDown)
<1>1. PICK F, V : /\ V = WeightFunctions
                  /\ F = [id \in Ids |-> [g \in [Ids -> V] |-> WaysBody(g, id)]]
  OBVIOUS
<1>2. V # {}
  <2>1. [b \in {} |-> 1] \in [{} -> Int] /\ {} \in SUBSET Ids
    OBVIOUS
  <2>2. QED
    BY <1>1, <2>1 DEF WeightFunctions
<1>3. \A id \in Ids : \A g \in [Ids -> V] : WaysBody(g, id) \in V
  <2> TAKE id \in Ids
  <2> TAKE g \in [Ids -> V]
  <2>1. \A i \in DOMAIN ChildrenOf(id) : g[Child(id, i)] \in V
    BY DEF Layered, Alive
  <2>2. QED
    BY <1>1, <2>1, WaysBodyType
<1>4. F \in [Ids -> [[Ids -> V] -> V]] /\ \A id \in Ids : \A g \in [Ids -> V] : F[id][g] = WaysBody(g, id)
  BY <1>1, <1>3
<1>5. ASSUME NEW id \in Ids, NEW g \in [Ids -> V], NEW h \in [Ids -> V], \A c \in Kin[id] : g[c] = h[c]
      PROVE  F[id][g] = F[id][h]
  <2>1. \A i \in DOMAIN ChildrenOf(id) : g[Child(id, i)] = h[Child(id, i)]
    BY <1>5, KinFalls
  <2>2. QED
    BY <1>4, <2>1, WaysBodyLocal, ZenonT(60)
<1>6. PICK I, near, r, n : I = Ids /\ near = Kin /\ r = level /\ n = LevelRange
  OBVIOUS
<1>7. Recursive(I, V, near, r, n, F)
  <2>1. /\ near \in [I -> SUBSET I] /\ r \in [I -> Nat] /\ n \in Nat
        /\ \A i \in I : r[i] < n /\ \A j \in near[i] : r[j] < r[i]
    BY <1>6, KinFalls
  <2>2. \A i \in I : \A g, h \in [I -> V] : (\A j \in near[i] : g[j] = h[j]) => F[i][g] = F[i][h]
    BY <1>5, <1>6
  <2>3. F \in [I -> [[I -> V] -> V]]
    BY <1>4, <1>6
  <2>4. QED
    BY <1>2, <2>1, <2>2, <2>3 DEF Recursive
<1>8. \E g \in [I -> V] : \A i \in I : g[i] = F[i][g]
  BY <1>7, RecursionExists
<1>9. PICK g \in [Ids -> V] : \A id \in Ids : g[id] = WaysBody(g, id)
  BY <1>4, <1>6, <1>8
<1>10. IsWays(g)
  BY <1>9 DEF IsWays
<1>11. IsWays(WaysDown)
  BY <1>10, WaysDownAsSum
<1>12. PICK f : f = WaysDown
  OBVIOUS
<1>13. (\A id \in Ids : f[id] = WaysBody(f, id)) /\ \E e : f = [id \in Ids |-> e[id]]
  BY <1>11, <1>12, IsWaysUnrolled
<1>14. \A id \in Ids : f[id] \in WeightFunctions
  <2> DEFINE bad == {id \in Ids : f[id] \notin WeightFunctions}
  <2>1. SUFFICES ASSUME bad # {} PROVE FALSE
    OBVIOUS
  <2>2. PICK id \in bad : \A i \in DOMAIN ChildrenOf(id) : Child(id, i) \in Ids \ bad
    <3>1. bad \in SUBSET Ids
      OBVIOUS
    <3> HIDE DEF bad
    <3>2. QED
      BY <2>1, <3>1, LowestFault
  <2>3. \A i \in DOMAIN ChildrenOf(id) : f[Child(id, i)] \in WeightFunctions
    BY <2>2
  <2>4. WaysBody(f, id) \in WeightFunctions /\ id \in Ids
    BY <2>3, WaysBodyType
  <2>5. QED
    BY <1>13, <2>2, <2>4
<1>15. f \in [Ids -> WeightFunctions]
  BY <1>13, <1>14
<1>16. QED
  BY <1>11, <1>12, <1>15

-----------------------------------------------------------------------------
(* The two agree.                                                            *)

\* The cases of the two recursions.
LEMMA ListCases ==
  ASSUME Layered, NEW id \in Ids
  PROVE  /\ elements[id] = "consolidated" /\ level[id] > BaseLevel =>
              BaseIWs[id] = FlattenSeq(OfChildren(BaseIWs, id))
         /\ elements[id] = "consolidated" /\ level[id] = BaseLevel => BaseIWs[id] = ChildrenOf(id)
         /\ elements[id] # "consolidated" => BaseIWs[id] = <<[id |-> id, weight |-> 1]>>
         /\ elements[id] = "consolidated" => level[id] > BaseLevel \/ level[id] = BaseLevel
<1>1. PICK f : f = BaseIWs
  OBVIOUS
<1>2. f[id] = IWBody(f, id)
  BY <1>1, BaseIWsIs, IsBaseIWsUnrolled
<1>3. level[id] \in Nat /\ (elements[id] = "consolidated" => level[id] >= BaseLevel)
  BY DEF Layered
<1>4. level[id] > BaseLevel => level[id] # BaseLevel
  BY <1>3 DEF BaseLevel
<1>5. elements[id] = "consolidated" => level[id] > BaseLevel \/ level[id] = BaseLevel
  BY <1>3 DEF BaseLevel
<1>6. QED
  BY <1>1, <1>2, <1>4, <1>5 DEF IWBody

LEMMA WaysCases ==
  ASSUME Layered, NEW id \in Ids
  PROVE  /\ elements[id] = "consolidated" =>
              WaysDown[id] = [b \in Reached(WaysDown, id) |->
                                SumTo(Part(WaysDown, id, b), Len(ChildrenOf(id)))]
         /\ elements[id] # "consolidated" => WaysDown[id] = [b \in {id} |-> 1]
<1>1. PICK f : f = WaysDown
  OBVIOUS
<1>2. f[id] = WaysBody(f, id)
  BY <1>1, WaysDownIs, IsWaysUnrolled
<1>3. elements[id] = "consolidated" <=> ChildrenOf(id) # << >>
  BY DEF Layered
<1>4. QED
  BY <1>1, <1>2, <1>3 DEF WaysBody

\* The list of an element holds the base elements there are ways to, and no others.
LEMMA SameBase ==
  ASSUME Layered, NEW id \in Alive
  PROVE  /\ IdsOf(BaseIWs[id]) = DOMAIN WaysDown[id]
         /\ \A x \in ToSet(BaseIWs[id]) : elements[x.id] = "numeric"
<1> DEFINE Right(x) == /\ IdsOf(BaseIWs[x]) = DOMAIN WaysDown[x]
                       /\ \A y \in IdsOf(BaseIWs[x]) : elements[y] = "numeric"
           bad == {x \in Alive : ~Right(x)}
<1>1. SUFFICES ASSUME bad # {} PROVE FALSE
  BY DEF IdsOf
<1>2. PICK x \in bad : \A i \in DOMAIN ChildrenOf(x) : Child(x, i) \in Ids \ bad
  <2>1. bad \in SUBSET Ids
    BY DEF Alive
  <2> HIDE DEF bad
  <2>2. QED
    BY <1>1, <2>1, LowestFault
<1>3. x \in Ids /\ x \in Alive /\ ~Right(x)
  BY DEF Alive
<1>4. \A i \in DOMAIN ChildrenOf(x) : Child(x, i) \in Alive /\ Child(x, i) \in Ids
  BY <1>3 DEF Layered, Alive
<1>5. \A i \in DOMAIN ChildrenOf(x) : Right(Child(x, i))
  BY <1>2, <1>4
<1> HIDE DEF bad
<1>6. CASE elements[x] = "consolidated" /\ level[x] > BaseLevel
  <2>1. PICK n, f : f = BaseIWs /\ n = Len(ChildrenOf(x))
    OBVIOUS
  <2>2. f \in [Ids -> Seq(Links)] /\ DOMAIN ChildrenOf(x) = 1..n
    BY <1>3, <2>1, BaseIWsIs, ChildLists
  <2>3. \A i \in DOMAIN ChildrenOf(x) : f[Child(x, i)] \in Seq(Links)
    BY <1>4, <2>2
  <2>4. PICK s \in Seq(Seq(Links)) :
          /\ s = OfChildren(f, x) /\ Len(s) = n /\ s # << >>
          /\ \A i \in 1..n : s[i] = f[Child(x, i)]
    BY <1>3, <1>6, <2>1, <2>3, ListsOfChildren
  <2>5. f[x] = FlattenSeq(s)
    BY <1>3, <1>6, <2>1, <2>4, ListCases
  <2>6. ToSet(f[x]) = UNION {ToSet(f[Child(x, i)]) : i \in 1..n}
    <3>1. ToSet(f[x]) = UNION {ToSet(s[i]) : i \in 1..n}
      BY <2>1, <2>4, <2>5, FlattenIs
    <3>2. {ToSet(s[i]) : i \in 1..n} = {ToSet(f[Child(x, i)]) : i \in 1..n}
      BY <2>4
    <3>3. QED
      BY <3>1, <3>2
  <2>7. IdsOf(f[x]) = UNION {IdsOf(f[Child(x, i)]) : i \in 1..n}
    BY <2>6 DEF IdsOf
  <2>8. DOMAIN WaysDown[x] = UNION {DOMAIN WaysDown[Child(x, i)] : i \in 1..n}
    <3>1. PICK R, W : R = Reached(W, x) /\ W = WaysDown
      OBVIOUS
    <3>2. W[x] = [b \in R |-> SumTo(Part(W, x, b), Len(ChildrenOf(x)))]
      BY <1>3, <1>6, <3>1, WaysCases
    <3>3. DOMAIN W[x] = R
      BY <3>2
    <3>4. QED
      BY <2>2, <3>1, <3>3 DEF Reached
  <2>9. \A i \in 1..n : IdsOf(f[Child(x, i)]) = DOMAIN WaysDown[Child(x, i)]
    BY <1>5, <2>1, <2>2
  <2>10. \A i \in 1..n : \A y \in IdsOf(f[Child(x, i)]) : elements[y] = "numeric"
    BY <1>5, <2>1, <2>2
  <2>11. IdsOf(f[x]) = DOMAIN WaysDown[x]
    BY <2>7, <2>8, <2>9
  <2>12. \A y \in IdsOf(f[x]) : elements[y] = "numeric"
    BY <2>7, <2>10
  <2>13. QED
    BY <1>3, <2>1, <2>11, <2>12
<1>7. CASE elements[x] = "consolidated" /\ level[x] = BaseLevel
  <2>1. BaseIWs[x] = ChildrenOf(x)
    BY <1>3, <1>7, ListCases
  <2>2. \A i \in DOMAIN ChildrenOf(x) : elements[Child(x, i)] = "numeric"
    BY <1>3, <1>7 DEF Layered
  <2>3. IdsOf(BaseIWs[x]) = {Child(x, i) : i \in DOMAIN ChildrenOf(x)}
    BY <2>1 DEF IdsOf, ToSet, Child
  <2>4. \A i \in DOMAIN ChildrenOf(x) : DOMAIN WaysDown[Child(x, i)] = {Child(x, i)}
    <3> TAKE i \in DOMAIN ChildrenOf(x)
    <3>1. PICK c : c = Child(x, i)
      OBVIOUS
    <3>2. c \in Ids /\ elements[c] # "consolidated"
      BY <1>4, <2>2, <3>1
    <3>3. WaysDown[c] = [b \in {c} |-> 1]
      BY <3>2, WaysCases
    <3>4. QED
      BY <3>1, <3>3
  <2>5. DOMAIN WaysDown[x] = UNION {DOMAIN WaysDown[Child(x, i)] : i \in DOMAIN ChildrenOf(x)}
    <3>1. PICK R, W : R = Reached(W, x) /\ W = WaysDown
      OBVIOUS
    <3>2. W[x] = [b \in R |-> SumTo(Part(W, x, b), Len(ChildrenOf(x)))]
      BY <1>3, <1>7, <3>1, WaysCases
    <3>3. DOMAIN W[x] = R
      BY <3>2
    <3>4. QED
      BY <3>1, <3>3 DEF Reached
  <2>6. DOMAIN WaysDown[x] = {Child(x, i) : i \in DOMAIN ChildrenOf(x)}
    BY <2>4, <2>5
  <2>7. QED
    BY <1>3, <2>2, <2>3, <2>6
<1>8. CASE elements[x] # "consolidated"
  <2>1. elements[x] = "numeric"
    BY <1>3, <1>8 DEF Layered
  <2>2. PICK s : s = BaseIWs[x] /\ s = <<[id |-> x, weight |-> 1]>>
    BY <1>3, <1>8, ListCases
  <2>3. ToSet(s) = {[id |-> x, weight |-> 1]}
    BY <2>2 DEF ToSet
  <2>4. IdsOf(s) = {x}
    BY <2>3 DEF IdsOf
  <2>5. DOMAIN WaysDown[x] = {x}
    BY <1>3, <1>8, WaysCases
  <2>6. QED
    BY <1>3, <2>1, <2>2, <2>4, <2>5
<1>9. QED
  BY <1>3, <1>6, <1>7, <1>8, ListCases

\* Where the weights above the first level are 1, a list gives each base element
\* the weight of the ways to it.
LEMMA SameWeights ==
  ASSUME Layered, NEW id \in Alive,
         \A x \in Alive : level[x] > BaseLevel =>
           \A i \in DOMAIN ChildrenOf(x) : ChildrenOf(x)[i].weight = 1
  PROVE  \A b \in DOMAIN WaysDown[id] : WaysDown[id][b] = Total(BaseIWs[id], b)
<1> DEFINE Right(x) == \A b \in DOMAIN WaysDown[x] : WaysDown[x][b] = Total(BaseIWs[x], b)
           bad == {x \in Alive : ~Right(x)}
<1>1. SUFFICES ASSUME bad # {} PROVE FALSE
  OBVIOUS
<1>2. PICK x \in bad : \A i \in DOMAIN ChildrenOf(x) : Child(x, i) \in Ids \ bad
  <2>1. bad \in SUBSET Ids
    BY DEF Alive
  <2> HIDE DEF bad
  <2>2. QED
    BY <1>1, <2>1, LowestFault
<1>3. x \in Ids /\ x \in Alive /\ ~Right(x)
  BY DEF Alive
<1>4. \A i \in DOMAIN ChildrenOf(x) : Child(x, i) \in Alive /\ Child(x, i) \in Ids
  BY <1>3 DEF Layered, Alive
<1>5. \A i \in DOMAIN ChildrenOf(x) : Right(Child(x, i))
  BY <1>2, <1>4
<1> HIDE DEF bad
<1>6. PICK n : n = Len(ChildrenOf(x))
  OBVIOUS
<1>7. /\ n \in Nat /\ DOMAIN ChildrenOf(x) = 1..n /\ ChildrenOf(x) \in Seq(Links)
      /\ \A i \in 1..n : ChildrenOf(x)[i].weight \in Int
  BY <1>3, <1>6, LinkOf DEF Layered
<1>8. WaysDown \in [Ids -> WeightFunctions] /\ BaseIWs \in [Ids -> Seq(Links)]
  BY WaysDownIs, BaseIWsIs
<1>9. CASE elements[x] = "consolidated" /\ level[x] > BaseLevel
  <2>1. PICK f, W : f = BaseIWs /\ W = WaysDown
    OBVIOUS
  <2>2. \A i \in DOMAIN ChildrenOf(x) : f[Child(x, i)] \in Seq(Links) /\ W[Child(x, i)] \in WeightFunctions
    BY <1>4, <1>8, <2>1
  <2>3. PICK s \in Seq(Seq(Links)) :
          /\ s = OfChildren(f, x) /\ Len(s) = n /\ s # << >>
          /\ \A i \in 1..n : s[i] = f[Child(x, i)]
    BY <1>3, <1>6, <1>9, <2>2, ListsOfChildren
  <2>4. f[x] = FlattenSeq(s)
    BY <1>3, <1>9, <2>1, <2>3, ListCases
  <2>5. ASSUME NEW b \in DOMAIN W[x] PROVE W[x][b] = Total(f[x], b)
    <3>1. PICK p, t : p = Part(W, x, b) /\ t = [i \in 1..n |-> Total(s[i], b)]
      OBVIOUS
    <3>2. W[x][b] = SumTo(p, n)
      BY <1>3, <1>6, <1>9, <2>1, <2>5, <3>1, WaysCases
    <3>3. Total(f[x], b) = SumTo(t, n)
      BY <2>3, <2>4, <3>1, FlattenIs
    <3>4. \A i \in 1..n : p[i] = t[i]
      <4> TAKE i \in 1..n
      <4>1. PICK c : c = Child(x, i)
        OBVIOUS
      <4>2. /\ c \in Alive /\ f[c] \in Seq(Links) /\ W[c] \in WeightFunctions
            /\ t[i] = Total(f[c], b) /\ ChildrenOf(x)[i].weight = 1
        BY <1>3, <1>4, <1>7, <1>9, <2>2, <2>3, <3>1, <4>1
      <4>3. p[i] = IF b \in DOMAIN W[c] THEN 1 * W[c][b] ELSE 0
        BY <1>7, <3>1, <4>1, <4>2 DEF Part
      <4>4. CASE b \in DOMAIN W[c]
        <5>1. W[c][b] = Total(f[c], b)
          BY <1>5, <1>7, <2>1, <4>1, <4>4
        <5>2. W[c][b] \in Int
          BY <4>2, <4>4, WeightsOf
        <5>3. 1 * W[c][b] = W[c][b]
          BY <5>2
        <5>4. QED
          BY <4>2, <4>3, <4>4, <5>1, <5>3
      <4>5. CASE b \notin DOMAIN W[c]
        <5>1. b \notin IdsOf(f[c])
          BY <2>1, <4>2, <4>5, SameBase
        <5>2. Total(f[c], b) = 0
          BY <4>2, <5>1, TotalAbsent
        <5>3. QED
          BY <4>2, <4>3, <4>5, <5>2
      <4>6. QED
        BY <4>4, <4>5
    <3>5. \A i \in 1..n : t[i] \in Int
      BY <1>7, <2>2, <2>3, <3>1, TotalType
    <3>6. SumTo(p, n) = SumTo(t, n)
      BY <1>7, <3>4, <3>5, SumToSame
    <3>7. QED
      BY <3>2, <3>3, <3>6
  <2>6. QED
    BY <1>3, <2>1, <2>5
<1>10. CASE elements[x] = "consolidated" /\ level[x] = BaseLevel
  <2>1. BaseIWs[x] = ChildrenOf(x)
    BY <1>3, <1>10, ListCases
  <2>2. ASSUME NEW b \in DOMAIN WaysDown[x] PROVE WaysDown[x][b] = Total(BaseIWs[x], b)
    <3>1. PICK p, t : p = Part(WaysDown, x, b) /\ t = Share(ChildrenOf(x), b)
      OBVIOUS
    <3>2. WaysDown[x][b] = SumTo(p, n)
      BY <1>3, <1>6, <1>10, <2>2, <3>1, WaysCases
    <3>3. Total(BaseIWs[x], b) = SumTo(t, n)
      BY <1>6, <2>1, <3>1 DEF Total
    <3>4. \A i \in 1..n : t[i] \in Int
      BY <1>6, <1>7, <3>1, TotalType
    <3>5. \A i \in 1..n : p[i] = t[i]
      <4> TAKE i \in 1..n
      <4>1. PICK c, w : c = Child(x, i) /\ w = ChildrenOf(x)[i].weight
        OBVIOUS
      <4>2. c \in Ids /\ elements[c] = "numeric" /\ w \in Int
        BY <1>3, <1>4, <1>7, <1>10, <4>1 DEF Layered
      <4>3. WaysDown[c] = [y \in {c} |-> 1]
        BY <4>2, WaysCases
      <4>4. p[i] = IF b = c THEN w * 1 ELSE 0
        BY <1>7, <3>1, <4>1, <4>3 DEF Part
      <4>5. t[i] = IF c = b THEN w ELSE 0
        BY <1>7, <3>1, <4>1 DEF Share, Child
      <4>6. w * 1 = w
        BY <4>2
      <4>7. QED
        BY <4>4, <4>5, <4>6
    <3>6. SumTo(p, n) = SumTo(t, n)
      BY <1>7, <3>4, <3>5, SumToSame
    <3>7. QED
      BY <3>2, <3>3, <3>6
  <2>3. QED
    BY <1>3, <2>2
<1>11. CASE elements[x] # "consolidated"
  <2>1. PICK y : y = [id |-> x, weight |-> 1]
    OBVIOUS
  <2>2. y \in Links /\ y.id = x /\ y.weight = 1
    BY <1>3, <2>1 DEF Links
  <2>3. Total(<<y>>, x) = 1
    BY <2>2, TotalOfOne
  <2>4. WaysDown[x] = [b \in {x} |-> 1] /\ BaseIWs[x] = <<y>>
    BY <1>3, <1>11, <2>1, ListCases, WaysCases
  <2>5. QED
    BY <1>3, <2>3, <2>4
<1>12. QED
  BY <1>3, <1>9, <1>10, <1>11, ListCases

\* What getBaseElements makes of the list.
LEMMA BaseElementsAre ==
  ASSUME Layered, NEW id \in Alive
  PROVE  BaseElements(id) = [b \in DOMAIN WaysDown[id] |-> Total(BaseIWs[id], b)]
<1>1. PICK s : s = BaseIWs[id]
  OBVIOUS
<1>2. /\ IdsOf(s) = DOMAIN WaysDown[id] /\ \A x \in ToSet(s) : elements[x.id] = "numeric"
      /\ s \in Seq(Links)
  BY <1>1, SameBase, BaseIWsIs DEF Alive
<1>3. {iw.id : iw \in {iw \in ToSet(s) : \A x \in ToSet(s) : elements[x.id] = "numeric"}}
        = DOMAIN WaysDown[id]
  BY <1>2 DEF IdsOf
<1>4. \A b : FoldFunctionOnSet(+, 0, [i \in DOMAIN s |-> s[i].weight], {i \in DOMAIN s : s[i].id = b})
               = Total(s, b)
  BY <1>2, TotalIsFold
<1>5. BaseElements(id) =
        [b \in {iw.id : iw \in {iw \in ToSet(s) : \A x \in ToSet(s) : elements[x.id] = "numeric"}} |->
           FoldFunctionOnSet(+, 0, [i \in DOMAIN s |-> s[i].weight], {i \in DOMAIN s : s[i].id = b})]
  BY <1>1 DEF BaseElements
<1>6. BaseElements(id) = [b \in DOMAIN WaysDown[id] |-> Total(s, b)]
  BY <1>3, <1>4, <1>5
<1>7. QED
  BY <1>1, <1>6

\* Of every hierarchy as in LevelsAreExact, an element's base elements are those
\* there are ways down to, and, where the weights above the first level are 1, their
\* weights are those of a weighted consolidation, however many ways there are
\* (getBaseIWs, getBaseElements, the types that loadElement corrects).
THEOREM BaseElementsAreExact == Spec => [](Mirrored /\ Shallow => BaseElementsExact)
<1>1. ASSUME IInv, PassInv, KindInv, Mirrored, Shallow PROVE BaseElementsExact
  <2>1. pc = "ready" => Layered
    BY <1>1, ReadyLayered
  <2>2. BaseSetExact
    <3> SUFFICES ASSUME pc = "ready", NEW id \in Alive
                 PROVE  DOMAIN BaseElements(id) = DOMAIN WaysDown[id]
      BY DEF BaseSetExact
    <3>1. BaseElements(id) = [b \in DOMAIN WaysDown[id] |-> Total(BaseIWs[id], b)]
      BY <2>1, BaseElementsAre
    <3>2. QED
      BY <3>1
  <2>3. ASSUME SimpleWeights, pc = "ready", NEW id \in Alive PROVE BaseElements(id) = WaysDown[id]
    <3>1. Layered /\ id \in Ids
      BY <2>1, <2>3 DEF Alive
    <3>2. PICK rank \in Ranks : Falls(rank)
      BY <1>1 DEF Shallow
    <3>3. \A x \in Alive : Height[x] = level[x]
      BY <1>1, <2>3, <3>2, LevelIsHeight
    <3>4. \A x \in Alive : level[x] > BaseLevel =>
            \A i \in DOMAIN ChildrenOf(x) : ChildrenOf(x)[i].weight = 1
      BY <2>3, <3>3 DEF SimpleWeights, BaseLevel, ToSet
    <3>5. \A b \in DOMAIN WaysDown[id] : WaysDown[id][b] = Total(BaseIWs[id], b)
      BY <2>3, <3>1, <3>4, SameWeights
    <3>6. PICK w, g : w = WaysDown[id] /\ g = BaseElements(id)
      OBVIOUS
    <3>7. w \in WeightFunctions
      BY <3>1, <3>6, WaysDownIs
    <3>8. w = [b \in DOMAIN w |-> w[b]]
      BY <3>7 DEF WeightFunctions
    <3>9. g = [b \in DOMAIN w |-> Total(BaseIWs[id], b)]
      BY <2>3, <3>1, <3>6, BaseElementsAre
    <3>10. \A b \in DOMAIN w : w[b] = Total(BaseIWs[id], b)
      BY <3>5, <3>6
    <3>11. g = w
      BY <3>8, <3>9, <3>10
    <3>12. QED
      BY <3>6, <3>11
  <2>4. QED
    BY <2>2, <2>3 DEF BaseElementsExact, SimpleWeightsExact, WeightsExact
<1>2. IInv /\ PassInv /\ KindInv => (Mirrored /\ Shallow => BaseElementsExact)
  BY <1>1
<1>3. QED
  BY <1>2, IInvAlways, PassesAlways, KindsAlways, PTL

=============================================================================
