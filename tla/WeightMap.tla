------------------------------ MODULE WeightMap ------------------------------
(***************************************************************************)
(* What Collections/WeightedSet promises while it is filled: identifiers   *)
(* with weights; the weights of an identifier that is added again sum up.  *)
(***************************************************************************)
EXTENDS Integers

CONSTANT Entries   \* the identifiers with weights that may be added

VARIABLE map

Init == map = << >>

WeightIn(id) == IF id \in DOMAIN map THEN map[id] ELSE 0

Add(id, weight) ==
  map' = [x \in DOMAIN map \cup {id} |-> IF x = id THEN WeightIn(id) + weight ELSE map[x]]

Next == \E e \in Entries : Add(e.id, e.weight)

Spec == Init /\ [][Next]_map
=============================================================================
