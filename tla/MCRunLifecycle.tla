--------------------------- MODULE MCRunLifecycle ----------------------------
(* Small instances of RunLifecycle for TLC. *)
EXTENDS RunLifecycle, TLC

\* The request handlers are alike, and so are the runners.
CallSymmetry == Permutations(Calls \ {Reconciler}) \cup Permutations(Runners)
=============================================================================
