----------------------------- MODULE ProbeTable -----------------------------
(***************************************************************************)
(* Collections/AssociativeArray: an open-addressing hash table with linear *)
(* probing, which is enlarged before it is half full and closes the gap an *)
(* element leaves by moving later ones back.                               *)
(*                                                                         *)
(* Each look at one place of the table is a step.  The forms that take a   *)
(* key and those that take an element do the same on look-up and removal,  *)
(* because the descriptions hash and compare an element by its key.        *)
(* Statistics are left out.                                                *)
(***************************************************************************)
EXTENDS Integers, FiniteSets

CONSTANTS
  Keys, Values,
  Hash,          \* hashKey and hashElement of a description
  InitialSize,
  NoElement      \* the empty element

Elements == [key : Keys, value : Values]
Entries == Elements \cup {NoElement}

ASSUME HashAssumption == Hash \in [Keys -> Nat]
ASSUME SizeAssumption == InitialSize \in Nat \ {0}
ASSUME NoElementAssumption == NoElement \notin Elements

VARIABLES
  table,
  nrAlloc,
  nrUsed,
  oldTable, oldAlloc,   \* the table being copied into a larger one, if any
  call,      \* the call that runs: [name, key, element, overwrite]
  item,      \* the element addNewElement is about to place
  i,         \* the place looked at; in the end of a removal, the gap
  k,         \* the place of oldTable to copy next, or the place after the gap
  pc,
  answer     \* history: the value the last call returns, from when it is settled

arrayVars == <<table, nrAlloc, nrUsed>>
copyVars == <<oldTable, oldAlloc, k>>
vars == <<arrayVars, copyVars, call, item, i, pc, answer>>

NoCall == [name |-> "none"]

Calls ==
  [name : {"find", "remove"}, key : Keys] \cup
  {a \in [name : {"addElement", "addKey"}, key : Keys,
          element : Elements, overwrite : BOOLEAN] : a.element.key = a.key}

-----------------------------------------------------------------------------

\* What a look-up or a removal returns, what an addition returns.
FoundElement(element) == [found |-> element, added |-> FALSE]
Added(new) == [found |-> NoElement, added |-> new]

EmptyTable(size) == [place \in 0..(size - 1) |-> NoElement]

\* Mutants: no place follows the last one, the last one follows itself.
Straight(place) == place + 1
Stuck(place) == IF place + 1 = nrAlloc THEN place ELSE place + 1

After(place) == (place + 1) % nrAlloc

Home(key) == Hash[key] % nrAlloc

Init ==
  /\ table = EmptyTable(InitialSize)
  /\ nrAlloc = InitialSize
  /\ nrUsed = 0
  /\ oldTable = EmptyTable(0) /\ oldAlloc = 0 /\ k = 0
  /\ call = NoCall /\ item = NoElement /\ i = 0
  /\ pc = "idle"
  /\ answer = Added(FALSE)

IsEmpty(place) == table[place] = NoElement

IsKey(place, key) == ~IsEmpty(place) /\ table[place].key = key

Call(c) ==
  /\ pc = "idle"
  /\ call' = c
  /\ i' = Home(c.key)
  /\ pc' = "probe"
  /\ UNCHANGED <<arrayVars, copyVars, item, answer>>

\* clear, clearAndDelete
Clear ==
  /\ pc = "idle"
  /\ table' = EmptyTable(nrAlloc)
  /\ nrUsed' = 0
  /\ UNCHANGED <<nrAlloc, copyVars, call, item, i, pc, answer>>

ProbeNext ==
  /\ pc = "probe"
  /\ ~IsEmpty(i) /\ ~IsKey(i, call.key)
  /\ i' = After(i)
  /\ UNCHANGED <<arrayVars, copyVars, call, item, pc, answer>>

\* Back to the caller; the local variables are gone.
Leave ==
  /\ pc' = "idle"
  /\ call' = NoCall /\ item' = NoElement /\ i' = 0

Return(value) == Leave /\ answer' = value

\* Mutant: the first element met is returned, whatever its key.
FoundUnchecked ==
  /\ pc = "probe" /\ call.name = "find"
  /\ Return(FoundElement(table[i]))
  /\ UNCHANGED <<arrayVars, copyVars>>

\* findKey, findElement
Found ==
  /\ pc = "probe" /\ call.name = "find"
  /\ IsEmpty(i) \/ IsKey(i, call.key)
  /\ Return(FoundElement(table[i]))
  /\ UNCHANGED <<arrayVars, copyVars>>

AddPresent ==
  /\ pc = "probe" /\ call.name \in {"addElement", "addKey"}
  /\ IsKey(i, call.key)
  /\ table' = IF call.overwrite THEN [table EXCEPT ![i] = call.element] ELSE table
  /\ Return(Added(FALSE))
  /\ UNCHANGED <<nrAlloc, nrUsed, copyVars>>

\* Mutant: the table is never enlarged.
NeverFull(n) == FALSE

\* More than half of the places would be used by n elements.
MoreThanHalf(n) == nrAlloc < 2 * n

\* The table is replaced by an empty one, into which the old one will be copied.
Enlarge(old) ==
  /\ oldTable' = old
  /\ oldAlloc' = nrAlloc
  /\ k' = 0
  /\ nrAlloc' = 2 * nrAlloc + 1
  /\ table' = EmptyTable(2 * nrAlloc + 1)
  /\ nrUsed' = 0
  /\ pc' = "copy"

\* addElement(element): placed first, then the table is enlarged.
AddElement ==
  LET placed == [table EXCEPT ![i] = call.element]
  IN /\ pc = "probe" /\ call.name = "addElement"
     /\ IsEmpty(i)
     /\ \/ /\ MoreThanHalf(nrUsed + 1)
           /\ Enlarge(placed)
           /\ answer' = Added(TRUE)
           /\ UNCHANGED <<call, item, i>>
        \/ /\ ~MoreThanHalf(nrUsed + 1)
           /\ table' = placed
           /\ nrUsed' = nrUsed + 1
           /\ Return(Added(TRUE))
           /\ UNCHANGED <<nrAlloc, copyVars>>

\* addNewElement begins.
Place(element, home) ==
  /\ item' = element
  /\ i' = home
  /\ pc' = "place"

\* addElement(key, element): the table is enlarged first.
AddKey ==
  /\ pc = "probe" /\ call.name = "addKey"
  /\ IsEmpty(i)
  /\ \/ /\ MoreThanHalf(nrUsed + 1)
        /\ Enlarge(table)
        /\ UNCHANGED <<item, i>>
     \/ /\ ~MoreThanHalf(nrUsed + 1)
        /\ Place(call.element, Home(call.key))
        /\ UNCHANGED <<arrayVars, copyVars>>
  /\ UNCHANGED <<call, answer>>

CopyEmpty ==
  /\ pc = "copy" /\ k < oldAlloc
  /\ oldTable[k] = NoElement
  /\ k' = k + 1
  /\ UNCHANGED <<arrayVars, oldTable, oldAlloc, call, item, i, pc, answer>>

Copy ==
  /\ pc = "copy" /\ k < oldAlloc
  /\ oldTable[k] # NoElement
  /\ Place(oldTable[k], Home(oldTable[k].key))
  /\ UNCHANGED <<arrayVars, copyVars, call, answer>>

DropOldTable ==
  /\ oldTable' = EmptyTable(0)
  /\ oldAlloc' = 0
  /\ k' = 0

CopyEnd ==
  /\ pc = "copy" /\ k = oldAlloc
  /\ DropOldTable
  /\ \/ /\ call.name = "addElement"
        /\ Leave
     \/ /\ call.name = "addKey"
        /\ Place(call.element, Home(call.key))
        /\ UNCHANGED call
  /\ UNCHANGED <<arrayVars, answer>>

PlaceNext ==
  /\ pc = "place"
  /\ ~IsEmpty(i)
  /\ i' = After(i)
  /\ UNCHANGED <<arrayVars, copyVars, call, item, pc, answer>>

\* addNewElement ends.
PutItem ==
  /\ pc = "place"
  /\ IsEmpty(i)
  /\ table' = [table EXCEPT ![i] = item]
  /\ nrUsed' = nrUsed + 1
  /\ UNCHANGED <<nrAlloc, oldTable, oldAlloc>>

PlaceCopied ==
  /\ k < oldAlloc
  /\ PutItem
  /\ k' = k + 1
  /\ pc' = "copy"
  /\ UNCHANGED <<call, item, i, answer>>

PlaceNew ==
  /\ k = oldAlloc
  /\ PutItem
  /\ Return(Added(TRUE))
  /\ UNCHANGED k

\* removeKey, removeElement of what is not there
RemoveAbsent ==
  /\ pc = "probe" /\ call.name = "remove"
  /\ IsEmpty(i)
  /\ Return(FoundElement(NoElement))
  /\ UNCHANGED <<arrayVars, copyVars>>

RemovePresent ==
  /\ pc = "probe" /\ call.name = "remove"
  /\ IsKey(i, call.key)
  /\ answer' = FoundElement(table[i])
  /\ table' = [table EXCEPT ![i] = NoElement]
  /\ nrUsed' = nrUsed - 1
  /\ k' = After(i)
  /\ pc' = "close"
  /\ UNCHANGED <<nrAlloc, oldTable, oldAlloc, call, item, i>>

\* Mutant: the wrapped case is forgotten.
MovesNoWrap(j) == i < k /\ ~(i < j /\ j =< k)

\* The element at k, at home at j, may be moved into the gap at i.
Moves(j) ==
  \/ i < k /\ ~(i < j /\ j =< k)
  \/ k < i /\ ~(i < j \/ j =< k)

MoveBack ==
  /\ pc = "close"
  /\ ~IsEmpty(k)
  /\ Moves(Home(table[k].key))
  /\ table' = [table EXCEPT ![i] = table[k], ![k] = NoElement]
  /\ i' = k
  /\ k' = After(k)
  /\ UNCHANGED <<nrAlloc, nrUsed, oldTable, oldAlloc, call, item, pc, answer>>

LeaveThere ==
  /\ pc = "close"
  /\ ~IsEmpty(k)
  /\ ~Moves(Home(table[k].key))
  /\ k' = After(k)
  /\ UNCHANGED <<arrayVars, oldTable, oldAlloc, call, item, i, pc, answer>>

Closed ==
  /\ pc = "close"
  /\ IsEmpty(k)
  /\ k' = 0
  /\ Leave
  /\ UNCHANGED <<arrayVars, oldTable, oldAlloc, answer>>

Step ==
  \/ ProbeNext \/ Found \/ AddPresent \/ AddElement \/ AddKey
  \/ CopyEmpty \/ Copy \/ CopyEnd \/ PlaceNext \/ PlaceCopied \/ PlaceNew
  \/ RemoveAbsent \/ RemovePresent \/ MoveBack \/ LeaveThere \/ Closed

Next == Step \/ Clear \/ \E c \in Calls : Call(c)

Spec == Init /\ [][Next]_vars
\* A call runs to its end on the thread that made it.
FairSpec == Spec /\ WF_vars(Step)

-----------------------------------------------------------------------------

TypeOK ==
  /\ nrAlloc \in Nat \ {0} /\ nrUsed \in Nat
  /\ table \in [0..(nrAlloc - 1) -> Entries]
  /\ oldAlloc \in Nat /\ oldTable \in [0..(oldAlloc - 1) -> Entries]
  /\ call \in Calls \cup {NoCall}
  /\ item \in Entries
  /\ i \in Nat /\ k \in Nat
  /\ pc \in {"idle", "probe", "copy", "place", "close"}
  /\ pc \in {"probe", "place", "close"} => i < nrAlloc
  /\ answer \in [found : Entries, added : BOOLEAN]

Used(n, t) == {place \in 0..(n - 1) : t[place] # NoElement}

\* The loops that probe end because a place is free whenever one of them starts or
\* goes on: nrUsed is exact, and below the size (the two ways to add enlarge the
\* table at different moments, a removal moves elements around).
PlaceFree == Cardinality(Used(nrAlloc, table)) = nrUsed /\ nrUsed < nrAlloc

\* p lies on the way that probing takes from h to the place before q.
OnWay(h, p, q) == IF h =< q THEN h =< p /\ p < q ELSE h =< p \/ p < q

\* Every element is found from its home: no free place lies on the way there
\* (removal closes the gap, copying starts anew).
NoGap ==
  pc # "close" =>
    \A q \in Used(nrAlloc, table) : \A p \in 0..(nrAlloc - 1) :
      OnWay(Home(table[q].key), p, q) => ~IsEmpty(p)

\* The elements the array holds, those not copied yet included.
Contents ==
  {table[p] : p \in Used(nrAlloc, table)}
    \cup {oldTable[p] : p \in Used(oldAlloc, oldTable) \cap k..oldAlloc}

\* What is left to do of a call once its element has gone or has been put there:
\* the gap is closed, or the elements are copied.
Settled ==
  \/ pc = "close"
  \/ pc \in {"copy", "place"} /\ call.name = "addElement"

Unanswered == IF Settled THEN NoCall ELSE call

\* The array is the map it promises: every call is answered once, for its own key,
\* element and flag, as the map would, and changes the elements then and at no
\* other time, also when the table is copied or a gap is closed.
Map == INSTANCE TableMap WITH elements <- Contents, call <- Unanswered
Refinement == Map!Spec

\* Every call returns.
Termination == pc # "idle" ~> pc = "idle"

=============================================================================
