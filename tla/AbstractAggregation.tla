------------------------- MODULE AbstractAggregation -------------------------
(***************************************************************************)
(* What an aggregation promises, whatever order it works in: every pair of *)
(* a filled source cell and a target cell it counts into is added to the   *)
(* result exactly once, with the product of the weights.                   *)
(* A contribution is a record [source, target, amount].                    *)
(***************************************************************************)
EXTENDS Integers

VARIABLES owed,   \* contributions not added yet
          sums    \* target cell -> value, for the targets reached so far

Contribute(c) ==
  LET old == IF c.target \in DOMAIN sums THEN sums[c.target] ELSE 0
  IN /\ owed' = owed \ {c}
     /\ sums' = [t \in DOMAIN sums \cup {c.target} |->
                   IF t = c.target THEN old + c.amount ELSE sums[t]]

Init == sums = << >>

Next == \E c \in owed : Contribute(c)

Spec == Init /\ [][Next]_<<owed, sums>>
=============================================================================
