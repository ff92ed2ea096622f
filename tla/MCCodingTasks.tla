---------------------------- MODULE MCCodingTasks ----------------------------
(* Small instances of CodingTasks for TLC. *)
EXTENDS CodingTasks, TLC

CONSTANTS o1, o2, m1, m2, m3, req, mem

OpSymmetry == Permutations(Ops)

\* The last machine is another member's, the others are the requester's.
Owners == [m \in Runners |-> IF m = m3 THEN mem ELSE req]
=============================================================================
