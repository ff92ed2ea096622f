------------------------- MODULE MCTurnCoordination --------------------------
EXTENDS TurnCoordination, TLC

CONSTANTS t1, t2, t3, k1, k2

\* Every turn is parked under the key its run has.
MCRunKey == [t \in Turns |-> k1]
MCParkKey == [t \in Turns |-> k1]

\* Steering by a member who is not the requester runs for the requester and is
\* parked under the member (dispatchTask).
MCSteerKey == [t \in Turns |-> k2]

\* Messages differ in nothing but their order, so one order stands for all.
InOrder == (t3 \in posted => t2 \in posted) /\ (t2 \in posted => t1 \in posted)

\* One thing at most goes wrong in a behaviour: a failure, a crash, a stop or a restart.
OneHarm == spent["faults"] + spent["crashes"] + spent["stops"] + spent["boots"] <= 1

CallSymmetry == Permutations(Calls)
TurnSymmetry == Permutations(Turns) \cup Permutations(Calls)
==============================================================================
