-------------------------- MODULE MCStandingOrders ---------------------------
(* Small instances of StandingOrders for TLC. *)
EXTENDS StandingOrders, TLC

CONSTANTS s1, s2, q1, q2

CallSymmetry == Permutations(Sweepers) \cup Permutations(Requests)
=============================================================================
