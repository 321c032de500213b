-------------------------------- MODULE IdSet --------------------------------
(***************************************************************************)
(* What class Set (Collections/WeightedSet.h) promises: a set of           *)
(* identifiers whose insert reports whether the identifier is new, with a  *)
(* stored size.                                                            *)
(***************************************************************************)
EXTENDS Integers, FiniteSets

CONSTANT Ids

VARIABLES members, size, isNew

Init == members = {} /\ size = 0 /\ isNew = FALSE

Insert(id) ==
  /\ members' = members \cup {id}
  /\ isNew' = (id \notin members)
  /\ size' = Cardinality(members')

Erase(id) ==
  /\ id \in members
  /\ members' = members \ {id}
  /\ size' = Cardinality(members')
  /\ UNCHANGED isNew

Clear == members' = {} /\ size' = 0 /\ UNCHANGED isNew

Next == Clear \/ \E id \in Ids : Insert(id) \/ Erase(id)

Spec == Init /\ [][Next]_<<members, size, isNew>>
=============================================================================
