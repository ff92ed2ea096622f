----------------------------- MODULE RunProtocol -----------------------------
(***************************************************************************)
(* What a run promises to everybody outside the orchestrator, whatever     *)
(* happens between the reads and the writes of the handlers that move it:  *)
(* model.RunState is a ladder that is only climbed, one runner at most     *)
(* ever holds the run, and a run that has ended stays as it ended and is   *)
(* announced as what it is.                                                *)
(***************************************************************************)
CONSTANTS Runners, NoRunner

VARIABLES
  state,      \* model.Run.State, "none" before CreateRun
  holder,     \* model.Run.RunnerID
  announced   \* the endings finishTerminal has published

vars == <<state, holder, announced>>

TerminalStates == {"completed", "failed", "canceled"}
LiveStates     == {"queued", "acknowledged", "running"}
States         == {"none"} \cup LiveStates \cup TerminalStates

Init == state = "none" /\ holder = NoRunner /\ announced = {}

Create == /\ state = "none"
          /\ state' = "queued"
          /\ UNCHANGED <<holder, announced>>

\* The one hand-over: queued to acknowledged, with the runner stamped on it.
Take(r) == /\ state = "queued"
           /\ state' = "acknowledged"
           /\ holder' = r
           /\ UNCHANGED announced

Start == /\ state = "acknowledged"
         /\ state' = "running"
         /\ UNCHANGED <<holder, announced>>

End(s) == /\ state \in LiveStates
          /\ state' = s
          /\ UNCHANGED <<holder, announced>>

\* The ending that is announced is the ending the run has.
Announce == /\ state \in TerminalStates
            /\ announced' = {state}
            /\ UNCHANGED <<state, holder>>

Next == \/ Create
        \/ \E r \in Runners: Take(r)
        \/ Start
        \/ \E s \in TerminalStates: End(s)
        \/ Announce

Spec == Init /\ [][Next]_vars
=============================================================================
