--------------------------- MODULE MCSubscriptions ---------------------------
(* Small instances of Subscriptions for TLC. *)
EXTENDS Subscriptions, TLC

CONSTANTS u1, u2, i1, i2, s1, s2, s3, o1, o2

Symmetric == Permutations(Users) \cup Permutations(Instances) \cup Permutations(Socks) \cup Permutations(Ops)
=============================================================================
