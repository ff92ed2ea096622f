--------------------------- MODULE MCAudienceCache ---------------------------
(* Small instances of AudienceCache for TLC. *)
EXTENDS AudienceCache, TLC

CONSTANTS u1, u2, i1, i2, o1, o2, r1, r2, r3

Symmetric == Permutations(Users) \cup Permutations(Instances) \cup Permutations(Ops) \cup Permutations(Readers)
=============================================================================
