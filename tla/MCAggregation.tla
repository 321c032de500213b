---------------------------- MODULE MCAggregation ----------------------------
(***************************************************************************)
(* Three dimensions with elements 1, 2 (base), 3 (both, weights 2 and -1), *)
(* 4 (base 1 alone), 5 (base 2 with weight 0) and 6 (no base elements: the *)
(* dimension throws, and expandBase leaves it out).  In the flat requests  *)
(* the third dimension is a single base element, the others are boxes of   *)
(* up to three elements, over cubes with none, some or all base cells.     *)
(* In the deep ones all dimensions have several targets and the cells      *)
(* share coordinates, so that the odometer carries over two dimensions.    *)
(***************************************************************************)
EXTENDS Aggregation, FiniteSetsExt, TLC

MCElements == 1..6
MCConsolidated == [d \in 1..3 |-> {3, 4, 5, 6}]
MCBaseElements ==
  [d \in 1..3 |-> (1 :> (1 :> 1)) @@ (2 :> (2 :> 1)) @@ (3 :> (1 :> 2 @@ 2 :> -1))
                  @@ (4 :> (1 :> d + 2)) @@ (5 :> (2 :> 0)) @@ (6 :> << >>)]

FlatCells == {<<a, b, 1>> : a, b \in 1..2}
FlatCubes == kSubset(0, FlatCells) \cup kSubset(1, FlatCells) \cup kSubset(4, FlatCells)
                \cup {FlatCells \ {<<1, 1, 1>>}}
DeepCube == {<<1, 1, 2>>, <<1, 2, 2>>, <<2, 1, 1>>}
MCStorages == {[k \in S |-> 10 * k[1] + k[2] + 3 * k[3]] : S \in FlatCubes \cup {DeepCube}}

FlatBoxes == {{1}, {4}, {3, 4}, {1, 3, 4}}
MCAreas ==
  {<<a, b, {1}>> : a \in FlatBoxes, b \in FlatBoxes \cup {{6}, {4, 6}}} \cup
  {<<a, b, c>> : a \in {{3, 4}, {1, 3, 4}}, b \in {{3, 5}, {4}, {4, 6}},
                 c \in {{3}, {2, 3, 5}}}
=============================================================================
