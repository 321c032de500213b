---------------------------- MODULE MCProbeTable ----------------------------
(***************************************************************************)
(* Four keys for TLC in a table that starts with one place and grows to    *)
(* three, seven and fifteen: three keys have the last place of three and   *)
(* of seven as their home, so that the way to them wraps around.           *)
(***************************************************************************)
EXTENDS ProbeTable

CONSTANTS k1, k2, k3, k4

MCKeys == {k1, k2, k3, k4}
MCHash == [key \in MCKeys |-> CASE key = k1 -> 20 [] key = k2 -> 41
                                [] key = k3 -> 20 [] key = k4 -> 42]
=============================================================================
