---------------------------- MODULE NaturalOrder ----------------------------
(***************************************************************************)
(* Sets of identifiers in iteration order, as std::map and std::set yield  *)
(* them.  The definition goes by rank, so that what it enumerates can be   *)
(* proved without recursion (SharedLemmas).                                *)
(***************************************************************************)
EXTENDS Integers, FiniteSets

\* The elements of S that come before x.
Below(S, x) == {y \in S : y < x}

\* The elements of S, smallest first.
Ascending(S) ==
  [i \in 1..Cardinality(S) |-> CHOOSE x \in S : Cardinality(Below(S, x)) = i - 1]
=============================================================================
