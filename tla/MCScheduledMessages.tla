------------------------ MODULE MCScheduledMessages -------------------------
(* Small instances of ScheduledMessages for TLC. *)
EXTENDS ScheduledMessages, TLC

CONSTANTS a1, a2, p1, p2

CallSymmetry == Permutations(Authors) \cup Permutations(Pollers)
=============================================================================
