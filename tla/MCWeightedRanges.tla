-------------------------- MODULE MCWeightedRanges --------------------------
(***************************************************************************)
(* All lists of up to three entries over four identifiers and four         *)
(* weights, so that weights of one identifier sum up to 0 and to 1; and    *)
(* four neighbours with every pattern of two weights, in both orders and   *)
(* with entries that join or split them.                                   *)
(***************************************************************************)
EXTENDS WeightedRanges, SequencesExt

MCEntries == [id : 0..5, weight : {-1, 0, 1, 2}]
ShortLists == BoundedSeq({e \in MCEntries : e.id < 4}, 3)

Neighbours == {[i \in 1..4 |-> [id |-> i, weight |-> w[i]]] : w \in [1..4 -> {1, 2}]}
More == <<[id |-> 2, weight |-> -1], [id |-> 5, weight |-> 1]>>
LongLists == UNION {{l, Reverse(l), l \o More} : l \in Neighbours}

MCLists == ShortLists \cup LongLists
=============================================================================
