------------------------------ MODULE TableMap ------------------------------
(***************************************************************************)
(* What Collections/AssociativeArray promises: a set of elements, at most  *)
(* one for each key.  A call is made, is answered once, for the key it was *)
(* made with, and takes its effect in the moment its answer is settled.    *)
(***************************************************************************)
CONSTANTS Keys, Values, NoElement

Elements == [key : Keys, value : Values]

NoCall == [name |-> "none"]

\* Look-ups and removals; the two forms of an addition, by the element or by the
\* key that belongs to it.
Calls ==
  [name : {"find", "remove"}, key : Keys] \cup
  {a \in [name : {"addElement", "addKey"}, key : Keys,
          element : Elements, overwrite : BOOLEAN] : a.element.key = a.key}

VARIABLES
  elements,   \* the elements of the array
  call,       \* the call that has been made and not been answered yet
  answer      \* the answer to the last call: an element, or whether one was added

Init ==
  /\ elements = {}
  /\ call = NoCall
  /\ answer = [found |-> NoElement, added |-> FALSE]

Present(key) == \E e \in elements : e.key = key

Call(c) ==
  /\ call = NoCall
  /\ call' = c
  /\ UNCHANGED <<elements, answer>>

Answer(value) == answer' = value /\ call' = NoCall

\* The element of the key, or the empty element.
AnswerElement ==
  \/ \E e \in elements : e.key = call.key /\ Answer([found |-> e, added |-> FALSE])
  \/ ~Present(call.key) /\ Answer([found |-> NoElement, added |-> FALSE])

Find ==
  /\ call.name = "find"
  /\ AnswerElement
  /\ UNCHANGED elements

Without(key) == {e \in elements : e.key # key}

Remove ==
  /\ call.name = "remove"
  /\ AnswerElement
  /\ elements' = Without(call.key)

AddNew ==
  /\ call.name \in {"addElement", "addKey"}
  /\ ~Present(call.key)
  /\ elements' = elements \cup {call.element}
  /\ Answer([found |-> NoElement, added |-> TRUE])

AddPresent ==
  /\ call.name \in {"addElement", "addKey"}
  /\ Present(call.key)
  /\ elements' = IF call.overwrite THEN Without(call.key) \cup {call.element} ELSE elements
  /\ Answer([found |-> NoElement, added |-> FALSE])

Clear ==
  /\ call = NoCall
  /\ elements' = {}
  /\ UNCHANGED <<call, answer>>

Next == (\E c \in Calls : Call(c)) \/ Find \/ Remove \/ AddNew \/ AddPresent \/ Clear

Spec == Init /\ [][Next]_<<elements, call, answer>>

=============================================================================
