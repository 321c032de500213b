-------------------------- MODULE MCAggregationMap --------------------------
(* A dimension with a gap below, inside and above the dense part of its base *)
(* ids, so that the index stays a list, switches in the middle of the        *)
(* compaction and switches with the last source.                             *)
EXTENDS AggregationMap

MCBases == {0, 1, 2, 3, 5, 6}
MCTargets == {8, 9}
\* Different for every pair, one of them the default weight.
MCWeightOf == [t \in MCTargets |-> [b \in MCBases |-> (t - 8) * 10 + b]]
=============================================================================
