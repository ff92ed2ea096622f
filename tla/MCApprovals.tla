---------------------------- MODULE MCApprovals -----------------------------
(* Small instances of Approvals for TLC. *)
EXTENDS Approvals, TLC

CONSTANTS c1, c2, c3

CallSymmetry == Permutations(Calls)
=============================================================================
