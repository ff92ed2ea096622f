-------------------------- MODULE TurnCoordination ---------------------------
(***************************************************************************)
(* The turns of agents in one conversation thread, as all instances share  *)
(* them through Redis (internal/agents/orchestrator_coord.go): one slot    *)
(* per turn key naming the run that has the turn, and one hand-off parked  *)
(* behind it.  startRun, deferTurn, afterTerminal, StopThread and          *)
(* recoverActive (orchestrator.go, orchestrator_gates.go) use them.        *)
(*                                                                         *)
(* Every Redis command and every store operation is a step, so handlers on *)
(* any instance interleave between them.  A run is only live or ended      *)
(* here: RunLifecycle says how it gets from one to the other.              *)
(*                                                                         *)
(* A TURN is a message that asks an agent to act: it is sent once.  A run  *)
(* reads the whole thread when it is created, so it answers every message  *)
(* to its agent that was posted before.                                    *)
(***************************************************************************)
EXTENDS Integers, FiniteSets

CONSTANTS
  Calls,       \* handler invocations that can be in flight at once
  Turns,       \* messages that ask the agent to act
  NoTurn,
  Keys,        \* turn keys of the thread: agent and invoker
  RunKey,      \* the key of the run a turn starts (threadAgentKey)
  ParkKey,     \* the key the turn is parked under when the agent is busy
  MaxRuns,     \* bound: run ids
  MaxFaults,   \* bound: Redis and store errors
  MaxCrashes,  \* bound: calls that die half-way
  MaxStops,    \* bound: human stops
  MaxBoots,    \* bound: instances that start
  Expiry       \* TRUE: a run may outlast the park's deferredWatchLimit and its slot's turnSlotTTL

Runs  == 1..MaxRuns
NoRun == 0

ASSUME ConstantsAssumption ==
  /\ NoTurn \notin Turns
  /\ RunKey \in [Turns -> Keys] /\ ParkKey \in [Turns -> Keys]
  /\ {MaxRuns, MaxFaults, MaxCrashes, MaxStops, MaxBoots} \subseteq Nat
  /\ Expiry \in BOOLEAN

VARIABLES
  run,        \* runs in the store: "none", "live" or "ended"
  turnOf,     \* the turn a run was created for
  loose,      \* runs beside their slot: let ahead without it, or robbed of it by a heal or by time
  slot,       \* orch:turn:<key>, NoRun when there is none
  parked,     \* orch:park:<key>, NoTurn when there is none
  index,      \* orch:parkidx of the thread: the keys a stop looks at
  call,       \* the handler invocations in flight
  posted,     \* turns sent so far
  unanswered, \* turns no run has been created after
  silenced,   \* turns that were there before a stop that has returned
  stranded,   \* turns left to nobody when the last hand-off of their key was dropped as busy
  spent       \* faults, crashes, stops and boots so far

shared == <<slot, parked, index>>
rows   == <<run, turnOf, loose>>
owed   == <<posted, unanswered, silenced, stranded>>
vars   == <<rows, shared, call, owed, spent>>

Idle == [op |-> "idle", pc |-> "idle", turn |-> NoTurn, key |-> NoTurn, run |-> NoRun,
         held |-> NoRun, blind |-> FALSE, keys |-> {}, runs |-> {}, before |-> {}]

Free(c)    == call[c] = Idle
Return(c)  == call' = [call EXCEPT ![c] = Idle]
Goto(c, pc) == call' = [call EXCEPT ![c] = [@ EXCEPT !.pc = pc]]

Spend(kind, max) == spent[kind] < max /\ spent' = [spent EXCEPT ![kind] = @ + 1]

\* A Redis or store operation fails, or does not: a fault is spent when it does.
FaultUnless(ok) == IF ok THEN UNCHANGED spent ELSE Spend("faults", MaxFaults)

\* A run id nobody has seen: ids are never used twice (store.NewID).
Fresh == {r \in Runs: /\ run[r] = "none" /\ r \notin loose
                      /\ \A k \in Keys: slot[k] # r
                      /\ \A c \in Calls: call[c].run # r /\ call[c].held # r}
NewID == CHOOSE r \in Fresh: TRUE

KeyOf(r) == RunKey[turnOf[r]]
LiveRuns == {r \in Runs: run[r] = "live"}

\* A call starts a turn: invoke as far as startRun's claimTurn.
Starting(op, t) == [Idle EXCEPT !.op = op, !.pc = "claim", !.turn = t, !.key = RunKey[t], !.run = NewID]

-----------------------------------------------------------------------------
(* startRun *)

\* A mention, a chained post or steering reaches invoke.
Post(c, t) ==
  /\ Free(c) /\ t \notin posted /\ Fresh # {}
  /\ call' = [call EXCEPT ![c] = Starting("dispatch", t)]
  /\ posted' = posted \cup {t}
  /\ unanswered' = unanswered \cup {t}
  /\ UNCHANGED <<rows, shared, silenced, stranded, spent>>

\* The turn goes ahead, and these runs are beside their slot from now on.
Ahead(c, astray) ==
  /\ call' = [call EXCEPT ![c] = [@ EXCEPT !.pc = "create", !.held = NoRun, !.blind = FALSE]]
  /\ loose' = loose \cup astray

\* claimTurn, SETNX: on an error the turn is let through, whether the slot was set or not.
ClaimTurn(c, ok, applied) ==
  LET k    == call[c].key
      free == slot[k] = NoRun
      took == free /\ (ok \/ applied)
  IN /\ call[c].pc = "claim"
     /\ slot' = IF took THEN [slot EXCEPT ![k] = call[c].run] ELSE slot
     /\ IF free \/ ~ok THEN Ahead(c, IF took THEN {} ELSE {call[c].run})
        ELSE Goto(c, "holder") /\ UNCHANGED loose
     /\ FaultUnless(ok)
     /\ UNCHANGED <<run, turnOf, parked, index, owed>>

\* claimTurn, GET: a slot that is gone by now (or unreadable) means the turn is free,
\* and the run goes ahead without taking it.
ReadHolder(c, ok) ==
  LET held == IF ok THEN slot[call[c].key] ELSE NoRun
  IN /\ call[c].pc = "holder"
     /\ IF held = NoRun THEN Ahead(c, {call[c].run})
        ELSE call' = [call EXCEPT ![c] = [@ EXCEPT !.held = held, !.pc = "check"]] /\ UNCHANGED loose
     /\ FaultUnless(ok)
     /\ UNCHANGED <<run, turnOf, shared, owed>>

\* Somebody else has a turn of key k in hand.
InHand(c, k) == \/ \E d \in Calls \ {c}: call[d].turn # NoTurn /\ RunKey[call[d].turn] = k
                \/ \E l \in Keys: parked[l] # NoTurn /\ RunKey[parked[l]] = k

\* ErrAgentBusy: the dispatcher parks the turn, runDeferredTurn says nothing and drops it.
Busy(c) ==
  IF call[c].op = "dispatch"
  THEN /\ call' = [call EXCEPT ![c] = [@ EXCEPT !.pc = "park", !.run = NoRun, !.held = NoRun, !.blind = FALSE]]
       /\ UNCHANGED stranded
  ELSE /\ Return(c)
       /\ stranded' = IF InHand(c, call[c].key) THEN stranded
                      ELSE stranded \cup {t \in unanswered: RunKey[t] = call[c].key}

\* Mutant: a busy verdict is trusted, as before the slot was checked against the store.
CheckHolderTrusted(c, ok) ==
  /\ call[c].pc = "check"
  /\ Busy(c)
  /\ FaultUnless(ok)
  /\ UNCHANGED <<rows, shared, posted, unanswered, silenced>>

\* threadSlotStillLive: a run that is finished is not in the way, nor is one that cannot be read
\* or is not there, be it dead or only not stored yet.
CheckHolder(c, ok) ==
  LET state == run[call[c].held]
  IN /\ call[c].pc = "check"
     /\ IF ok /\ state = "live" THEN Busy(c)
        ELSE /\ call' = [call EXCEPT ![c] = [@ EXCEPT !.pc = "heal", !.blind = ~ok \/ state = "none"]]
             /\ UNCHANGED stranded
     /\ FaultUnless(ok)
     /\ UNCHANGED <<rows, shared, posted, unanswered, silenced>>

\* replaceTurn: compare-and-swap, let through on an error.
HealSlot(c, ok, applied) ==
  LET k    == call[c].key
      held == call[c].held
      mine == slot[k] = held
      took == mine /\ (ok \/ applied)
  IN /\ call[c].pc = "heal"
     /\ slot' = IF took THEN [slot EXCEPT ![k] = call[c].run] ELSE slot
     /\ IF mine \/ ~ok
        THEN /\ Ahead(c, IF ~took THEN {call[c].run} ELSE IF call[c].blind THEN {held} ELSE {})
             /\ UNCHANGED stranded
        ELSE Busy(c) /\ UNCHANGED loose
     /\ FaultUnless(ok)
     /\ UNCHANGED <<run, turnOf, parked, index, posted, unanswered, silenced>>

\* CreateRun.  Refused by the store, the slot is released and the person is told.
CreateRun(c, ok) ==
  /\ call[c].pc = "create"
  /\ IF ok
     THEN /\ run' = [run EXCEPT ![call[c].run] = "live"]
          /\ turnOf' = [turnOf EXCEPT ![call[c].run] = call[c].turn]
          /\ unanswered' = {t \in unanswered: RunKey[t] # call[c].key}
          /\ Return(c)
     ELSE /\ unanswered' = unanswered \ {call[c].turn}
          /\ call' = [call EXCEPT ![c] = [@ EXCEPT !.op = "refused", !.pc = "release", !.turn = NoTurn]]
          /\ UNCHANGED <<run, turnOf>>
  /\ FaultUnless(ok)
  /\ UNCHANGED <<loose, shared, posted, silenced, stranded>>

-----------------------------------------------------------------------------
(* deferTurn *)

\* parkTurn, SETNX: the first hand-off wins.  On an error it is started at once,
\* whether it was parked or not.
Park(c, ok, applied) ==
  /\ call[c].pc = "park"
  /\ LET t == call[c].turn
         k == ParkKey[t]
         vacant == parked[k] = NoTurn
     IN /\ IF vacant /\ (ok \/ applied)
           THEN parked' = [parked EXCEPT ![k] = t] ELSE UNCHANGED parked
        /\ IF ~ok THEN Fresh # {} /\ call' = [call EXCEPT ![c] = Starting("deferred", t)]
           ELSE IF vacant
                THEN call' = [call EXCEPT ![c] = [Idle EXCEPT !.op = "dispatch", !.pc = "index", !.key = k]]
                ELSE Return(c)
  /\ FaultUnless(ok)
  /\ UNCHANGED <<rows, slot, index, owed>>

\* parkTurn, SADD: lets a stop find the hand-off; an error is only logged.
Index(c, ok) ==
  /\ call[c].pc = "index"
  /\ index' = IF ok THEN index \cup {call[c].key} ELSE index
  /\ Goto(c, "look")
  /\ FaultUnless(ok)
  /\ UNCHANGED <<rows, slot, parked, owed>>

\* Mutant: no second look at the slot after parking.
LookNever(c, ok) ==
  /\ call[c].pc = "look"
  /\ Return(c)
  /\ FaultUnless(ok)
  /\ UNCHANGED <<rows, shared, owed>>

\* turnHolder, re-read after the store: if the busy run has gone, the hand-off is ours.
Look(c, ok) ==
  /\ call[c].pc = "look"
  /\ IF ok /\ slot[call[c].key] # NoRun THEN Return(c) ELSE Goto(c, "take")
  /\ FaultUnless(ok)
  /\ UNCHANGED <<rows, shared, owed>>

\* Mutant: the hand-off is read and deleted only later, so two may take it.
TakeCopy(c, ok, applied) ==
  /\ call[c].pc = "take"
  /\ LET k == call[c].key
         t == parked[k]
     IN IF ok /\ t # NoTurn
        THEN call' = [call EXCEPT ![c] = [Idle EXCEPT !.op = "deferred", !.pc = "unindex", !.turn = t, !.key = k]]
        ELSE Return(c)
  /\ FaultUnless(ok)
  /\ UNCHANGED <<rows, shared, owed>>

\* takeTurn, GETDEL: an error counts as nothing parked, whether it was deleted or not.
Take(c, ok, applied) ==
  /\ call[c].pc = "take"
  /\ LET k == call[c].key
         t == parked[k]
     IN /\ parked' = IF ok \/ applied THEN [parked EXCEPT ![k] = NoTurn] ELSE parked
        /\ IF ok /\ t # NoTurn
           THEN call' = [call EXCEPT ![c] = [Idle EXCEPT !.op = "deferred", !.pc = "unindex", !.turn = t, !.key = k]]
           ELSE Return(c)
  /\ FaultUnless(ok)
  /\ UNCHANGED <<rows, slot, index, owed>>

\* takeTurn, SREM, and on to runDeferredTurn.
Unindex(c, ok) ==
  /\ call[c].pc = "unindex" /\ Fresh # {}
  /\ index' = IF ok THEN index \ {call[c].key} ELSE index
  /\ call' = [call EXCEPT ![c] = Starting("deferred", call[c].turn)]
  /\ FaultUnless(ok)
  /\ UNCHANGED <<rows, slot, parked, owed>>

\* A parked hand-off outlives deferredWatchLimit behind a run that goes on for longer.
Expire(k) ==
  /\ Expiry /\ parked[k] # NoTurn
  /\ \E r \in LiveRuns: slot[k] = r
  /\ parked' = [parked EXCEPT ![k] = NoTurn]
  /\ UNCHANGED <<rows, slot, index, call, owed, spent>>

\* So does a run its slot, which is set once for turnSlotTTL.
ExpireSlot(k) ==
  /\ Expiry /\ slot[k] # NoRun
  /\ slot' = [slot EXCEPT ![k] = NoRun]
  /\ loose' = loose \cup {slot[k]}
  /\ UNCHANGED <<run, turnOf, parked, index, call, owed, spent>>

-----------------------------------------------------------------------------
(* Endings *)

\* Any terminal path but a stop: the conditional write, then afterTerminal.
EndRun(c, r) ==
  /\ Free(c) /\ run[r] = "live"
  /\ run' = [run EXCEPT ![r] = "ended"]
  /\ call' = [call EXCEPT ![c] = [Idle EXCEPT !.op = "end", !.pc = "release", !.key = KeyOf(r), !.run = r]]
  /\ UNCHANGED <<turnOf, loose, shared, owed, spent>>

\* Mutant: the slot is deleted whoever holds it.
ReleaseUnfenced(k, r) == slot' = [slot EXCEPT ![k] = NoRun]

\* Mutant: the key is blanked where it should be deleted.
ReleaseBlank(k, r) == slot' = [slot EXCEPT ![k] = IF @ = r THEN NoTurn ELSE @]

\* releaseTurn: compare-and-delete.
Released(k, r) == slot' = [slot EXCEPT ![k] = IF @ = r THEN NoRun ELSE @]

\* Only afterTerminal goes on to the hand-off; a stop goes on to its next run.
Release(c, ok) ==
  /\ call[c].pc = "release"
  /\ \/ Released(call[c].key, call[c].run)
     \/ ~ok /\ UNCHANGED slot
  /\ CASE call[c].op = "end"  -> call' = [call EXCEPT ![c] = [@ EXCEPT !.pc = "take", !.run = NoRun]]
       [] call[c].op = "stop" -> call' = [call EXCEPT ![c] = [@ EXCEPT !.pc = "cancel", !.run = NoRun]]
       [] OTHER               -> Return(c)
  /\ FaultUnless(ok)
  /\ UNCHANGED <<rows, parked, index, owed>>

\* StopThread drops the parked hand-offs first: SMEMBERS ...
StopRead(c) ==
  /\ Free(c) /\ Spend("stops", MaxStops)
  /\ call' = [call EXCEPT ![c] = [Idle EXCEPT !.op = "stop", !.pc = "drop", !.keys = index, !.before = posted]]
  /\ UNCHANGED <<rows, shared, owed>>

\* ... and DEL of the parks and the index, then the active runs are listed.
StopDrop(c, ok) ==
  /\ call[c].pc = "drop"
  /\ IF ok
     THEN /\ parked' = [k \in Keys |-> IF k \in call[c].keys THEN NoTurn ELSE parked[k]]
          /\ index' = {}
          /\ unanswered' = unanswered \ {parked[k]: k \in call[c].keys}
     ELSE UNCHANGED <<parked, index, unanswered>>
  /\ Goto(c, "list")
  /\ FaultUnless(ok)
  /\ UNCHANGED <<rows, slot, posted, silenced, stranded>>

StopList(c) ==
  /\ call[c].pc = "list"
  /\ call' = [call EXCEPT ![c] = [@ EXCEPT !.pc = "cancel", !.runs = LiveRuns]]
  /\ UNCHANGED <<rows, shared, owed, spent>>

\* cancelRun: no afterTerminal.  A run that has moved meanwhile is left as it is.
StopCancel(c, r) ==
  /\ call[c].pc = "cancel" /\ r \in call[c].runs
  /\ \/ /\ run[r] = "live"
        /\ run' = [run EXCEPT ![r] = "ended"]
        /\ call' = [call EXCEPT ![c] = [@ EXCEPT !.runs = call[c].runs \ {r}, !.pc = "release", !.run = r, !.key = KeyOf(r)]]
     \/ /\ UNCHANGED run
        /\ call' = [call EXCEPT ![c] = [@ EXCEPT !.runs = call[c].runs \ {r}]]
  /\ UNCHANGED <<turnOf, loose, shared, owed, spent>>

StopReturn(c) ==
  /\ call[c].pc = "cancel" /\ call[c].runs = {}
  /\ silenced' = silenced \cup call[c].before
  /\ Return(c)
  /\ UNCHANGED <<rows, shared, posted, unanswered, stranded, spent>>

\* recoverActive at boot: lists the active runs ...
BootRead(c) ==
  /\ Free(c) /\ Spend("boots", MaxBoots)
  /\ call' = [call EXCEPT ![c] = [Idle EXCEPT !.op = "boot", !.pc = "restore", !.runs = LiveRuns]]
  /\ UNCHANGED <<rows, shared, owed>>

\* ... and restores their slots.  Mutant: a slot is set whoever holds it.
BootRestoreOver(c, r) ==
  /\ call[c].pc = "restore" /\ r \in call[c].runs
  /\ slot' = [slot EXCEPT ![KeyOf(r)] = r]
  /\ LET left == call[c].runs \ {r}
     IN call' = [call EXCEPT ![c] = IF left = {} THEN Idle ELSE [@ EXCEPT !.runs = left]]
  /\ UNCHANGED <<rows, parked, index, owed, spent>>

\* As it is, claimTurn again: the slot is set unless somebody has it.
BootRestore(c, r) ==
  /\ call[c].pc = "restore" /\ r \in call[c].runs
  /\ slot' = [slot EXCEPT ![KeyOf(r)] = IF @ = NoRun THEN r ELSE @]
  /\ LET left == call[c].runs \ {r}
     IN call' = [call EXCEPT ![c] = IF left = {} THEN Idle ELSE [@ EXCEPT !.runs = left]]
  /\ UNCHANGED <<rows, parked, index, owed, spent>>

Crash(c) ==
  /\ ~Free(c) /\ Spend("crashes", MaxCrashes)
  /\ Return(c)
  /\ UNCHANGED <<rows, shared, owed>>

-----------------------------------------------------------------------------
\* The next operation of a call that is in flight.
Continue(c) ==
  \/ \E ok, applied \in BOOLEAN: ClaimTurn(c, ok, applied) \/ HealSlot(c, ok, applied)
                                 \/ Park(c, ok, applied) \/ Take(c, ok, applied)
  \/ \E ok \in BOOLEAN: ReadHolder(c, ok) \/ CheckHolder(c, ok) \/ CreateRun(c, ok) \/ Index(c, ok)
                        \/ Look(c, ok) \/ Unindex(c, ok) \/ Release(c, ok) \/ StopDrop(c, ok)
  \/ StopList(c) \/ StopReturn(c)
  \/ \E r \in Runs: StopCancel(c, r) \/ BootRestore(c, r)

Arrive(c) == \/ \E t \in Turns: Post(c, t)
             \/ \E r \in Runs: EndRun(c, r)
             \/ StopRead(c) \/ BootRead(c)

Next == \/ \E c \in Calls: Continue(c) \/ Crash(c) \/ Arrive(c)
        \/ \E k \in Keys: Expire(k) \/ ExpireSlot(k)

Init ==
  /\ run = [r \in Runs |-> "none"] /\ turnOf = [r \in Runs |-> NoTurn] /\ loose = {}
  /\ slot = [k \in Keys |-> NoRun] /\ parked = [k \in Keys |-> NoTurn] /\ index = {}
  /\ call = [c \in Calls |-> Idle]
  /\ posted = {} /\ unanswered = {} /\ silenced = {} /\ stranded = {}
  /\ spent = [kind \in {"faults", "crashes", "stops", "boots"} |-> 0]

Spec == Init /\ [][Next]_vars

\* A call in flight goes on, and every run ends (RunLifecycle's EveryRunEnds).
Fairness == /\ \A c \in Calls: WF_vars(Continue(c))
            /\ \A r \in Runs: WF_vars(\E c \in Calls: EndRun(c, r))

FairSpec == Spec /\ Fairness

-----------------------------------------------------------------------------
(* Types *)

CallStates ==
  [op: {"idle", "dispatch", "deferred", "refused", "end", "stop", "boot"},
   pc: {"idle", "claim", "holder", "check", "heal", "create", "park", "index", "look", "take",
        "unindex", "release", "drop", "list", "cancel", "restore"},
   turn: Turns \cup {NoTurn}, key: Keys \cup {NoTurn}, run: Runs \cup {NoRun},
   held: Runs \cup {NoRun}, blind: BOOLEAN, keys: SUBSET Keys, runs: SUBSET Runs, before: SUBSET Turns]

TypeOK ==
  /\ run \in [Runs -> {"none", "live", "ended"}]
  /\ turnOf \in [Runs -> Turns \cup {NoTurn}] /\ loose \subseteq Runs
  /\ slot \in [Keys -> Runs \cup {NoRun}]
  /\ parked \in [Keys -> Turns \cup {NoTurn}]
  /\ index \subseteq Keys
  /\ call \in [Calls -> CallStates]
  /\ unanswered \subseteq posted /\ posted \subseteq Turns /\ silenced \subseteq Turns
  /\ stranded \subseteq posted
  /\ spent \in [{"faults", "crashes", "stops", "boots"} -> Nat]

-----------------------------------------------------------------------------
(* Properties *)

\* Two runs of one turn key are live together only if one of them went ahead beside its slot:
\* the slot could not be claimed, read or healed, or was gone between the claim and the read;
\* or the slot was taken from it by a start that could not see it in the store, or by time.
OneLiveRun == \A r, s \in LiveRuns \ loose: KeyOf(r) = KeyOf(s) => r = s

\* "At most one active run per (thread, agent)" (startRun).
OneRunAtATime == \A r, s \in LiveRuns: KeyOf(r) = KeyOf(s) => r = s

\* Where a turn is: with a call that will start or park it, parked, or started.
Hands(t) == {<<"call", c>>: c \in {d \in Calls: call[d].turn = t}}
            \cup {<<"park", k>>: k \in {l \in Keys: parked[l] = t}}
            \cup {<<"run", r>>: r \in {s \in Runs: turnOf[s] = t}}

\* While Redis and the store answer, a turn is in one hand at most: however deferTurn,
\* afterTerminal and a second instance race for a parked hand-off, it starts one run
\* (startDeferredTurn).
OneHand == spent["faults"] = 0 => \A t \in Turns: Cardinality(Hands(t)) <= 1

\* A live run that holds its slot keeps it until it ends: no late release, heal or
\* restart of another run takes it away (releaseTurn's fence, replaceTurn's swap), but for
\* a heal whose look in the store had not found the run, and the slot's own end.
LiveKeepsSlot ==
  [][\A k \in Keys: slot[k] \in LiveRuns /\ slot[k] \in LiveRuns' /\ slot'[k] # slot[k] =>
       \/ \E c \in Calls: call[c].pc = "heal" /\ call[c].key = k /\ call[c].held = slot[k] /\ call[c].blind
       \/ Expiry /\ slot'[k] = NoRun /\ UNCHANGED call]_vars

\* A hand-off is either afterTerminal's to start or deferTurn's, never neither.
NeverNeither == \A t \in Turns: (t \in unanswered) ~> (t \notin unanswered)

\* The same, but for those dropped as busy.
NeverForgotten == \A t \in Turns: (t \in unanswered) ~> (t \notin unanswered \/ t \in stranded)

\* While nothing fails, dies or is stopped, every message gets a run created after it, be it
\* parked behind a run, behind its successor or behind one that is just ending, unless the
\* last hand-off of its key was dropped because another run had the turn.
HandoffIsAnswered ==
  \A t \in Turns: (t \in unanswered) ~>
    (t \notin unanswered \/ t \in stranded \/ \E kind \in DOMAIN spent: spent[kind] > 0)

\* The call is the only one in flight, it is about to claim the turn, no run is live
\* and nothing will fail any more.
Alone(c) == /\ call[c].pc = "claim" /\ \A d \in Calls \ {c}: Free(d)
            /\ LiveRuns = {}
            /\ spent["faults"] = MaxFaults /\ spent["crashes"] = MaxCrashes

\* A turn key never wedges: whatever slots crashes and errors have left behind, a turn
\* that finds nobody at work gets its run (threadSlotStillLive, replaceTurn).
NeverWedged == \A c \in Calls: Alone(c) ~> (LiveRuns # {})

\* StopThread: nothing restarts the chain: no hand-off that was there before the stop
\* starts a run after it.
StopHolds ==
  [][\A r \in Runs: run[r] = "none" /\ run'[r] = "live"
       => ~\E c \in Calls: call[c].run = r /\ call[c].op = "deferred" /\ call[c].turn \in silenced]_vars
=============================================================================
