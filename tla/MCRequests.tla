----------------------------- MODULE MCRequests -----------------------------
(***************************************************************************)
(* Three dimensions with the base elements 0 and 1 and the consolidated    *)
(* element 2; 7 exists nowhere, 5 only in the third dimension.             *)
(***************************************************************************)
EXTENDS Requests

MCKnown == [d \in 1..3 |-> IF d = 3 THEN {0, 1, 2, 5} ELSE {0, 1, 2}]
MCConsolidated == [d \in 1..3 |-> {2}]

\* Some cells have no value; values tell the cells apart.
MCValue == [k \in {k \in [1..3 -> 0..2] : k[1] + k[2] + k[3] # 3} |-> 9 * k[1] + 3 * k[2] + k[3]]

Cubes == {<< >>, <<4>>, <<5>>, <<Text>>}
Requested(kind, cubes, fields) == [kind : {kind}, cube : cubes, fields : fields]

\* One path over all tokens, two over the existing elements, three over a few.
AnyPath == [1..3 -> {0, 2, 5, 7, Text}] \cup {<<0, 2>>, <<0, 2, 0, 2>>}
ThreePaths == [1..3 -> {<<0, 1, 1>>, <<2, 0, 0>>, <<1, 2, 1>>, <<2, 2, 5>>, <<7, 0, 0>>}]
CellRequests ==
  Requested("/cell/values", Cubes, {<<p>> : p \in AnyPath} \cup ThreePaths \cup {<< >>})
  \cup Requested("/cell/values", {<< >>}, {<<p, q>> : p, q \in [1..3 -> 0..2]})
  \cup Requested("getCell", {<< >>}, {<<p>> : p \in AnyPath})

\* Element sets with repetitions, with elements that do not exist, and empty.
ElementSets == {<<0>>, <<2, 1>>, <<2, 0, 2>>, <<0, 7>>, <<Text, 7>>, << >>}
AreaRequests ==
  Requested("/cell/area", {<< >>}, [1..3 -> ElementSets] \cup {<<<<0>>, <<1>>>>})
  \cup Requested("/cell/area", Cubes, {<< >>, <<<<0, 2>>, <<1>>, <<2, 5, 0>>>>})

\* Ranges that overlap, repeat, reach past the elements or name none.
RangeSets == {<<<<0, 0>>>>, <<<<1, 2>>, <<0, 1>>>>, <<<<2, 6>>, <<7, 7>>>>, <<<<7, 7>>>>, << >>,
              <<<<2, 1>>, Text>>, <<Text, Malformed>>, <<Malformed>>}
RangeRequests ==
  Requested("getArea", {<< >>}, [1..3 -> RangeSets] \cup {<<<<<<0, 0>>>>>>})

MCInputs == CellRequests \cup AreaRequests \cup RangeRequests
              \cup Requested("unsupported", Cubes, {<< >>})
=============================================================================
