------------------------ MODULE TurnCoordinationProofs ----------------------
(***************************************************************************)
(* Facts about TurnCoordination for any number of handlers, turns, keys    *)
(* and runs, whoever is overtaken and whatever fails: what a live run can  *)
(* lose its slot to, what it takes for two runs of one key to be live, and *)
(* that a turn is in one hand while nothing fails.                         *)
(***************************************************************************)
EXTENDS TurnCoordination, FiniteSetTheorems, TLAPS

-----------------------------------------------------------------------------
(* Types *)

\* From the claim of a turn to the run that has it; and what of it is startRun's.
Inner    == {"holder", "check", "heal", "create"}
Claiming == {"claim"} \cup Inner

\* A call at work has what its next operation needs.
Placed(k) ==
  /\ k.pc \in Claiming => k.turn \in Turns /\ k.key = RunKey[k.turn] /\ k.run \in Runs /\ k.op \in {"dispatch", "deferred"}
  /\ k.pc \in {"check", "heal"} => k.held \in Runs
  /\ k.pc \in {"park", "unindex"} => k.turn \in Turns
  /\ k.pc \in {"index", "look", "take", "unindex", "release"} => k.key \in Keys
  /\ k.pc = "release" => k.run \in Runs
  /\ k.pc \in {"index", "look", "take", "release", "drop", "list", "cancel", "restore"} => k.turn = NoTurn

\* Every run was created for a turn.
Typed == /\ TypeOK
         /\ \A c \in Calls: Placed(call[c])
         /\ \A r \in Runs: run[r] # "none" => turnOf[r] \in Turns

\* An id that is fresh is taken.
LEMMA NewIDFact == ASSUME Fresh # {} PROVE NewID \in Fresh
  BY DEF NewID

\* The counters stay naturals; where no fault is allowed, there is none.
LEMMA SpendFact ==
  ASSUME TypeOK, NEW kind \in {"faults", "crashes", "stops", "boots"}, NEW max, Spend(kind, max)
  PROVE  spent' \in [{"faults", "crashes", "stops", "boots"} -> Nat]
  BY DEF TypeOK, Spend

LEMMA FaultFact ==
  ASSUME TypeOK, NEW ok \in BOOLEAN, FaultUnless(ok)
  PROVE  /\ spent' \in [{"faults", "crashes", "stops", "boots"} -> Nat]
         /\ spent'["faults"] = 0 => ok = TRUE /\ spent["faults"] = 0
  BY SpendFact DEF TypeOK, FaultUnless, Spend

\* The constants, one by one.
LEMMA Constants ==
  /\ NoTurn \notin Turns /\ MaxRuns \in Nat
  /\ RunKey \in [Turns -> Keys] /\ ParkKey \in [Turns -> Keys]
  BY ConstantsAssumption

\* Every run's key is a key.
LEMMA KeyFact ==
  ASSUME Typed, NEW r \in Runs, run[r] # "none"
  PROVE  KeyOf(r) \in Keys
  BY Constants DEF Typed, KeyOf

\* A call that starts a turn is in order.
LEMMA StartingFact ==
  ASSUME NEW op \in {"dispatch", "deferred"}, NEW t \in Turns, Fresh # {}
  PROVE  LET k == Starting(op, t)
         IN  /\ k \in CallStates /\ Placed(k)
             /\ k.run \in Fresh /\ k.run = NewID /\ k.turn = t /\ k.pc = "claim" /\ k.held = NoRun /\ k.runs = {}
             /\ k.op = op
  BY NewIDFact, Constants DEF Starting, Idle, CallStates, Placed, Fresh, Claiming, Inner

LEMMA IdleFact == Idle \in CallStates /\ Placed(Idle)
  BY DEF Idle, CallStates, Placed, Claiming, Inner

\* The types hold at first,
LEMMA InitTyped == Init => Typed
<1> SUFFICES ASSUME Init PROVE Typed
  OBVIOUS
<1>1. TypeOK
  BY IdleFact DEF Init, TypeOK
<1>2. \A c \in Calls: Placed(call[c])
  BY IdleFact DEF Init
<1> QED
  BY <1>1, <1>2 DEF Init, Typed

\* A call that goes ahead keeps them, and so does one that is told that its agent is busy.
LEMMA AheadTyped ==
  ASSUME Typed, NEW c \in Calls, call[c].pc \in Claiming, NEW astray \in SUBSET Runs, Ahead(c, astray)
  PROVE  call' \in [Calls -> CallStates] /\ (\A d \in Calls: Placed(call'[d])) /\ loose' \subseteq Runs
<1> DEFINE rec == [call[c] EXCEPT !.pc = "create", !.held = NoRun, !.blind = FALSE]
<1>1. call[c] \in CallStates /\ Placed(call[c])
  BY DEF Typed, TypeOK
<1>2. rec \in CallStates /\ Placed(rec)
  BY <1>1 DEF CallStates, Placed, Claiming, Inner
<1>3. call' = [call EXCEPT ![c] = rec] /\ loose' = loose \cup astray
  BY DEF Ahead
<1> HIDE DEF rec
<1> QED
  BY <1>2, <1>3 DEF Typed, TypeOK

LEMMA BusyTyped ==
  ASSUME Typed, NEW c \in Calls, call[c].pc \in {"check", "heal"}, Busy(c)
  PROVE  call' \in [Calls -> CallStates] /\ (\A d \in Calls: Placed(call'[d])) /\ stranded' \subseteq posted
<1> DEFINE rec == [call[c] EXCEPT !.pc = "park", !.run = NoRun, !.held = NoRun, !.blind = FALSE]
<1>1. call[c] \in CallStates /\ Placed(call[c]) /\ TypeOK
  BY DEF Typed, TypeOK
<1>2. rec \in CallStates /\ Placed(rec)
  BY <1>1 DEF CallStates, Placed, Claiming, Inner
<1>3. CASE call[c].op = "dispatch"
  <2>1. call' = [call EXCEPT ![c] = rec] /\ stranded' = stranded
    BY <1>3 DEF Busy
  <2> HIDE DEF rec
  <2> QED
    BY <1>1, <1>2, <2>1 DEF Typed, TypeOK
<1>4. CASE call[c].op # "dispatch"
  BY <1>1, <1>4, IdleFact DEF Busy, Return, Typed, TypeOK
<1> QED
  BY <1>3, <1>4

\* and every step of a call keeps them.
LEMMA StepTyped ==
  ASSUME Typed, NEW c \in Calls, Continue(c)
  PROVE  Typed'
<1>0. TypeOK /\ call[c] \in CallStates /\ Placed(call[c])
  BY DEF Typed, TypeOK
<1>1. ASSUME NEW rec \in CallStates, Placed(rec), call' = [call EXCEPT ![c] = rec]
      PROVE  call' \in [Calls -> CallStates] /\ \A d \in Calls: Placed(call'[d])
  BY <1>1 DEF Typed, TypeOK
<1>2. ASSUME NEW ok \in BOOLEAN, NEW applied \in BOOLEAN, ClaimTurn(c, ok, applied) PROVE Typed'
  <2>1. call[c].run \in Runs /\ call[c].pc \in Claiming
    BY <1>0, <1>2 DEF ClaimTurn, Placed, Claiming, Inner
  <2>2. call' \in [Calls -> CallStates] /\ (\A d \in Calls: Placed(call'[d])) /\ loose' \subseteq Runs
    <3>1. CASE slot[call[c].key] = NoRun \/ ~ok
      <4>1. PICK astray \in SUBSET {call[c].run} : Ahead(c, astray)
        BY <1>2, <3>1 DEF ClaimTurn
      <4> QED
        BY <2>1, <4>1, AheadTyped
    <3>2. CASE ~(slot[call[c].key] = NoRun \/ ~ok)
      <4> DEFINE rec == [call[c] EXCEPT !.pc = "holder"]
      <4>1. rec \in CallStates /\ Placed(rec)
        BY <1>0, <1>2 DEF ClaimTurn, CallStates, Placed, Claiming, Inner
      <4>2. call' = [call EXCEPT ![c] = rec] /\ loose' = loose
        BY <1>2, <3>2 DEF ClaimTurn, Goto
      <4> QED
        BY <1>0, <1>1, <4>1, <4>2 DEF TypeOK
    <3> QED
      BY <3>1, <3>2
  <2>3. slot' \in [Keys -> Runs \cup {NoRun}]
    BY <1>0, <1>2, <2>1 DEF ClaimTurn, TypeOK
  <2> QED
    BY <1>2, <2>2, <2>3, FaultFact DEF ClaimTurn, Typed, TypeOK, owed
<1>3. ASSUME NEW ok \in BOOLEAN, ReadHolder(c, ok) PROVE Typed'
  <2> DEFINE h == IF ok THEN slot[call[c].key] ELSE NoRun
  <2>1. call[c].key \in Keys /\ call[c].run \in Runs /\ call[c].pc \in Claiming
    BY <1>0, <1>3, Constants DEF ReadHolder, Placed, Claiming, Inner
  <2>2. h \in Runs \cup {NoRun}
    BY <1>0, <2>1 DEF TypeOK
  <2>3. call' \in [Calls -> CallStates] /\ (\A d \in Calls: Placed(call'[d])) /\ loose' \subseteq Runs
    <3>1. CASE h = NoRun
      BY <1>3, <2>1, <3>1, AheadTyped DEF ReadHolder
    <3>2. CASE h # NoRun
      <4> DEFINE rec == [call[c] EXCEPT !.held = h, !.pc = "check"]
      <4>1. rec \in CallStates /\ Placed(rec)
        BY <1>0, <1>3, <2>2, <3>2, ZenonT(30) DEF ReadHolder, CallStates, Placed, Claiming, Inner
      <4>2. call' = [call EXCEPT ![c] = rec] /\ loose' = loose
        BY <1>3, <3>2 DEF ReadHolder
      <4> HIDE DEF rec
      <4> QED
        BY <1>0, <1>1, <4>1, <4>2 DEF TypeOK
    <3> QED
      BY <3>1, <3>2
  <2> QED
    BY <1>3, <2>3, FaultFact DEF ReadHolder, Typed, TypeOK, owed, shared
<1>4. ASSUME NEW ok \in BOOLEAN, CheckHolder(c, ok) PROVE Typed'
  <2>1. call[c].pc = "check"
    BY <1>4 DEF CheckHolder
  <2>2. call' \in [Calls -> CallStates] /\ (\A d \in Calls: Placed(call'[d])) /\ stranded' \subseteq posted
    <3>1. CASE ok /\ run[call[c].held] = "live"
      BY <1>4, <2>1, <3>1, BusyTyped DEF CheckHolder
    <3>2. CASE ~(ok /\ run[call[c].held] = "live")
      <4> DEFINE b   == ~ok \/ run[call[c].held] = "none"
                 rec == [call[c] EXCEPT !.pc = "heal", !.blind = b]
      <4>1. rec \in CallStates /\ Placed(rec)
        BY <1>0, <2>1 DEF CallStates, Placed, Claiming, Inner
      <4>2. call' = [call EXCEPT ![c] = rec] /\ stranded' = stranded
        BY <1>4, <3>2 DEF CheckHolder
      <4> HIDE DEF rec
      <4> QED
        BY <1>0, <1>1, <4>1, <4>2 DEF TypeOK
    <3> QED
      BY <3>1, <3>2
  <2> QED
    BY <1>4, <2>2, FaultFact DEF CheckHolder, Typed, TypeOK, rows, shared
<1>5. ASSUME NEW ok \in BOOLEAN, NEW applied \in BOOLEAN, HealSlot(c, ok, applied) PROVE Typed'
  <2>1. call[c].pc = "heal" /\ call[c].run \in Runs /\ call[c].held \in Runs /\ call[c].pc \in Claiming
    BY <1>0, <1>5 DEF HealSlot, Placed, Claiming, Inner
  <2> DEFINE mine == slot[call[c].key] = call[c].held
  <2>2. /\ call' \in [Calls -> CallStates] /\ (\A d \in Calls: Placed(call'[d]))
        /\ loose' \subseteq Runs /\ stranded' \subseteq posted
    <3>1. CASE mine \/ ~ok
      <4>1. PICK astray \in SUBSET {call[c].run, call[c].held} : Ahead(c, astray)
        BY <1>5, <3>1 DEF HealSlot
      <4>2. stranded' = stranded
        BY <1>5, <3>1 DEF HealSlot
      <4> QED
        BY <1>0, <2>1, <4>1, <4>2, AheadTyped DEF TypeOK
    <3>2. CASE ~(mine \/ ~ok)
      <4>1. Busy(c) /\ loose' = loose
        BY <1>5, <3>2 DEF HealSlot
      <4> QED
        BY <1>0, <2>1, <4>1, BusyTyped DEF TypeOK
    <3> QED
      BY <3>1, <3>2
  <2>3. slot' \in [Keys -> Runs \cup {NoRun}]
    BY <1>0, <1>5, <2>1 DEF HealSlot, TypeOK
  <2> QED
    BY <1>5, <2>2, <2>3, FaultFact DEF HealSlot, Typed, TypeOK
<1>6. ASSUME NEW ok \in BOOLEAN, CreateRun(c, ok) PROVE Typed'
  <2>1. call[c].pc = "create" /\ call[c].turn \in Turns /\ call[c].key \in Keys /\ call[c].run \in Runs
    BY <1>0, <1>6, Constants DEF CreateRun, Placed, Claiming, Inner
  <2>2. CASE ok = TRUE
    BY <1>1, <1>6, <2>1, <2>2, IdleFact, FaultFact DEF CreateRun, Return, Typed, TypeOK, shared
  <2>3. CASE ok = FALSE
    <3> DEFINE rec == [call[c] EXCEPT !.op = "refused", !.pc = "release", !.turn = NoTurn]
    <3>1. rec \in CallStates /\ Placed(rec)
      BY <1>0, <2>1 DEF CallStates, Placed, Claiming, Inner
    <3>2. call' = [call EXCEPT ![c] = rec]
      BY <1>6, <2>3 DEF CreateRun
    <3> QED
      BY <1>1, <1>6, <2>3, <3>1, <3>2, FaultFact DEF CreateRun, Typed, TypeOK, shared, rows
  <2> QED
    BY <2>2, <2>3
<1>7. ASSUME NEW ok \in BOOLEAN, NEW applied \in BOOLEAN, Park(c, ok, applied) PROVE Typed'
  <2>1. call[c].pc = "park" /\ call[c].turn \in Turns /\ ParkKey[call[c].turn] \in Keys
    BY <1>0, <1>7, Constants DEF Park, Placed
  <2> DEFINE k == ParkKey[call[c].turn]
  <2>2. PICK rec : rec \in CallStates /\ Placed(rec) /\ call' = [call EXCEPT ![c] = rec]
    <3>1. CASE ok = FALSE
      BY <1>7, <2>1, <3>1, StartingFact DEF Park
    <3>2. CASE ok = TRUE /\ parked[k] = NoTurn
      <4> DEFINE rec == [Idle EXCEPT !.op = "dispatch", !.pc = "index", !.key = k]
      <4>1. rec \in CallStates /\ Placed(rec)
        BY <2>1 DEF Idle, CallStates, Placed, Claiming, Inner
      <4> QED
        BY <1>7, <3>2, <4>1 DEF Park
    <3>3. CASE ok = TRUE /\ parked[k] # NoTurn
      BY <1>7, <3>3, IdleFact DEF Park, Return
    <3> QED
      BY <3>1, <3>2, <3>3
  <2> QED
    BY <1>1, <1>7, <2>1, <2>2, FaultFact DEF Park, Typed, TypeOK, rows, owed
<1>8. ASSUME NEW ok \in BOOLEAN, Index(c, ok) PROVE Typed'
  <2> DEFINE rec == [call[c] EXCEPT !.pc = "look"]
  <2>1. rec \in CallStates /\ Placed(rec) /\ call[c].key \in Keys
    BY <1>0, <1>8 DEF Index, CallStates, Placed, Claiming, Inner
  <2>2. call' = [call EXCEPT ![c] = rec]
    BY <1>8 DEF Index, Goto
  <2> QED
    BY <1>1, <1>8, <2>1, <2>2, FaultFact DEF Index, Typed, TypeOK, rows, owed
<1>9. ASSUME NEW ok \in BOOLEAN, Look(c, ok) PROVE Typed'
  <2>1. CASE ok = TRUE /\ slot[call[c].key] # NoRun
    BY <1>1, <1>9, <2>1, IdleFact, FaultFact DEF Look, Return, Typed, TypeOK, rows, owed, shared
  <2>2. CASE ~(ok = TRUE /\ slot[call[c].key] # NoRun)
    <3> DEFINE rec == [call[c] EXCEPT !.pc = "take"]
    <3>1. rec \in CallStates /\ Placed(rec)
      BY <1>0, <1>9 DEF Look, CallStates, Placed, Claiming, Inner
    <3>2. call' = [call EXCEPT ![c] = rec]
      BY <1>9, <2>2 DEF Look, Goto
    <3> QED
      BY <1>1, <1>9, <3>1, <3>2, FaultFact DEF Look, Typed, TypeOK, rows, owed, shared
  <2> QED
    BY <2>1, <2>2
<1>10. ASSUME NEW ok \in BOOLEAN, NEW applied \in BOOLEAN, Take(c, ok, applied) PROVE Typed'
  <2>1. call[c].key \in Keys /\ parked[call[c].key] \in Turns \cup {NoTurn}
    BY <1>0, <1>10 DEF Take, Placed, TypeOK
  <2> DEFINE t == parked[call[c].key]
  <2>2. PICK rec : rec \in CallStates /\ Placed(rec) /\ call' = [call EXCEPT ![c] = rec]
    <3>1. CASE ok = TRUE /\ t # NoTurn
      <4> DEFINE rec == [Idle EXCEPT !.op = "deferred", !.pc = "unindex", !.turn = t, !.key = call[c].key]
      <4>1. rec \in CallStates /\ Placed(rec)
        BY <2>1, <3>1 DEF Idle, CallStates, Placed, Claiming, Inner
      <4> QED
        BY <1>10, <3>1, <4>1 DEF Take
    <3>2. CASE ~(ok = TRUE /\ t # NoTurn)
      BY <1>10, <3>2, IdleFact DEF Take, Return
    <3> QED
      BY <3>1, <3>2
  <2> QED
    BY <1>1, <1>10, <2>2, FaultFact DEF Take, Typed, TypeOK, rows, owed
<1>11. ASSUME NEW ok \in BOOLEAN, Unindex(c, ok) PROVE Typed'
  <2>1. call[c].turn \in Turns /\ Fresh # {}
    BY <1>0, <1>11 DEF Unindex, Placed
  <2> QED
    BY <1>1, <1>11, <2>1, StartingFact, FaultFact DEF Unindex, Typed, TypeOK, rows, owed
<1>12. ASSUME NEW ok \in BOOLEAN, Release(c, ok) PROVE Typed'
  <2>1. PICK rec : rec \in CallStates /\ Placed(rec) /\ call' = [call EXCEPT ![c] = rec]
    <3>1. CASE call[c].op = "end"
      <4> DEFINE rec == [call[c] EXCEPT !.pc = "take", !.run = NoRun]
      <4>1. rec \in CallStates /\ Placed(rec)
        BY <1>0, <1>12 DEF Release, CallStates, Placed, Claiming, Inner
      <4> QED
        BY <1>12, <3>1, <4>1 DEF Release
    <3>2. CASE call[c].op = "stop"
      <4> DEFINE rec == [call[c] EXCEPT !.pc = "cancel", !.run = NoRun]
      <4>1. rec \in CallStates /\ Placed(rec)
        BY <1>0, <1>12 DEF Release, CallStates, Placed, Claiming, Inner
      <4> QED
        BY <1>12, <3>2, <4>1 DEF Release
    <3>3. CASE call[c].op \notin {"end", "stop"}
      BY <1>12, <3>3, IdleFact DEF Release, Return
    <3> QED
      BY <3>1, <3>2, <3>3
  <2>2. slot' \in [Keys -> Runs \cup {NoRun}]
    BY <1>0, <1>12 DEF Release, Released, TypeOK
  <2> QED
    BY <1>1, <1>12, <2>1, <2>2, FaultFact DEF Release, Typed, TypeOK, rows, owed
<1>13. ASSUME NEW ok \in BOOLEAN, StopDrop(c, ok) PROVE Typed'
  <2> DEFINE rec == [call[c] EXCEPT !.pc = "list"]
  <2>1. rec \in CallStates /\ Placed(rec)
    BY <1>0, <1>13 DEF StopDrop, CallStates, Placed, Claiming, Inner
  <2>2. call' = [call EXCEPT ![c] = rec]
    BY <1>13 DEF StopDrop, Goto
  <2>3. parked' \in [Keys -> Turns \cup {NoTurn}] /\ index' \subseteq Keys /\ unanswered' \subseteq posted
    BY <1>0, <1>13 DEF StopDrop, TypeOK
  <2> QED
    BY <1>1, <1>13, <2>1, <2>2, <2>3, FaultFact DEF StopDrop, Typed, TypeOK, rows
<1>14. CASE StopList(c)
  <2> DEFINE rec == [call[c] EXCEPT !.pc = "cancel", !.runs = LiveRuns]
  <2>1. rec \in CallStates /\ Placed(rec)
    BY <1>0, <1>14 DEF StopList, CallStates, Placed, Claiming, Inner, LiveRuns
  <2>2. call' = [call EXCEPT ![c] = rec]
    BY <1>14 DEF StopList
  <2> QED
    BY <1>1, <1>14, <2>1, <2>2 DEF StopList, Typed, TypeOK, rows, owed, shared
<1>15. CASE StopReturn(c)
  BY <1>0, <1>1, <1>15, IdleFact DEF StopReturn, Return, Typed, TypeOK, CallStates, rows, shared
<1>16. ASSUME NEW r \in Runs, StopCancel(c, r) PROVE Typed'
  <2>1. CASE run[r] = "live" /\ run' = [run EXCEPT ![r] = "ended"]
             /\ call' = [call EXCEPT ![c] = [@ EXCEPT !.runs = call[c].runs \ {r}, !.pc = "release", !.run = r, !.key = KeyOf(r)]]
    <3> DEFINE rec == [call[c] EXCEPT !.runs = call[c].runs \ {r}, !.pc = "release", !.run = r, !.key = KeyOf(r)]
    <3>1. KeyOf(r) \in Keys
      BY <2>1, KeyFact
    <3>2. rec \in CallStates /\ Placed(rec)
      BY <1>0, <1>16, <3>1 DEF StopCancel, CallStates, Placed, Claiming, Inner
    <3> HIDE DEF rec
    <3>3. call' = [call EXCEPT ![c] = rec]
      BY <2>1 DEF rec
    <3> QED
      BY <1>1, <1>16, <2>1, <3>2, <3>3 DEF StopCancel, Typed, TypeOK, owed, shared
  <2>2. CASE UNCHANGED run /\ call' = [call EXCEPT ![c] = [@ EXCEPT !.runs = call[c].runs \ {r}]]
    <3> DEFINE rec == [call[c] EXCEPT !.runs = call[c].runs \ {r}]
    <3>1. rec \in CallStates /\ Placed(rec)
      BY <1>0 DEF CallStates, Placed, Claiming, Inner
    <3>2. call' = [call EXCEPT ![c] = rec]
      BY <2>2
    <3> QED
      BY <1>1, <1>16, <2>2, <3>1, <3>2 DEF StopCancel, Typed, TypeOK, owed, shared
  <2> QED
    BY <1>16, <2>1, <2>2 DEF StopCancel
<1>17. ASSUME NEW r \in Runs, BootRestore(c, r) PROVE Typed'
  <2>1. PICK rec : rec \in CallStates /\ Placed(rec) /\ call' = [call EXCEPT ![c] = rec]
    <3>1. CASE call[c].runs \ {r} = {}
      BY <1>17, <3>1, IdleFact DEF BootRestore
    <3>2. CASE call[c].runs \ {r} # {}
      <4> DEFINE rec == [call[c] EXCEPT !.runs = call[c].runs \ {r}]
      <4>1. rec \in CallStates /\ Placed(rec)
        BY <1>0 DEF CallStates, Placed, Claiming, Inner
      <4> QED
        BY <1>17, <3>2, <4>1 DEF BootRestore
    <3> QED
      BY <3>1, <3>2
  <2> QED
    BY <1>1, <1>17, <2>1 DEF BootRestore, Typed, TypeOK, rows, owed
<1> QED
  BY <1>2, <1>3, <1>4, <1>5, <1>6, <1>7, <1>8, <1>9, <1>10, <1>11, <1>12, <1>13, <1>14, <1>15, <1>16, <1>17 DEF Continue

\* So does everything else.
LEMMA NextTyped == Typed /\ [Next]_vars => Typed'
<1> SUFFICES ASSUME Typed, [Next]_vars PROVE Typed'
  OBVIOUS
<1>1. ASSUME NEW c \in Calls, Crash(c) PROVE Typed'
  BY <1>1, IdleFact, SpendFact DEF Crash, Return, Typed, TypeOK, rows, owed, shared
<1>2. ASSUME NEW c \in Calls, NEW t \in Turns, Post(c, t) PROVE Typed'
  BY <1>2, StartingFact DEF Post, Typed, TypeOK, rows, shared
<1>3. ASSUME NEW c \in Calls, NEW r \in Runs, EndRun(c, r) PROVE Typed'
  <2> DEFINE rec == [Idle EXCEPT !.op = "end", !.pc = "release", !.key = KeyOf(r), !.run = r]
  <2>1. KeyOf(r) \in Keys
    BY <1>3, KeyFact DEF EndRun
  <2>2. rec \in CallStates /\ Placed(rec)
    BY <2>1 DEF Idle, CallStates, Placed, Claiming, Inner
  <2> HIDE DEF rec
  <2>3. call' = [call EXCEPT ![c] = rec]
    BY <1>3 DEF EndRun, rec
  <2> QED
    BY <1>3, <2>2, <2>3 DEF EndRun, Typed, TypeOK, owed, shared
<1>4. ASSUME NEW c \in Calls, StopRead(c) PROVE Typed'
  <2> DEFINE rec == [Idle EXCEPT !.op = "stop", !.pc = "drop", !.keys = index, !.before = posted]
  <2>1. rec \in CallStates /\ Placed(rec)
    BY DEF Idle, CallStates, Placed, Claiming, Inner, Typed, TypeOK
  <2> HIDE DEF rec
  <2>2. call' = [call EXCEPT ![c] = rec]
    BY <1>4 DEF StopRead, rec
  <2> QED
    BY <1>4, <2>1, <2>2, SpendFact DEF StopRead, Typed, TypeOK, rows, owed, shared
<1>5. ASSUME NEW c \in Calls, BootRead(c) PROVE Typed'
  <2> DEFINE rec == [Idle EXCEPT !.op = "boot", !.pc = "restore", !.runs = LiveRuns]
  <2>1. rec \in CallStates /\ Placed(rec)
    BY DEF Idle, CallStates, Placed, Claiming, Inner, LiveRuns
  <2> HIDE DEF rec
  <2>2. call' = [call EXCEPT ![c] = rec]
    BY <1>5 DEF BootRead, rec
  <2> QED
    BY <1>5, <2>1, <2>2, SpendFact DEF BootRead, Typed, TypeOK, rows, owed, shared
<1>6. ASSUME NEW k \in Keys, Expire(k) PROVE Typed'
  BY <1>6 DEF Expire, Typed, TypeOK, rows, owed
<1>7. ASSUME NEW k \in Keys, ExpireSlot(k) PROVE Typed'
  BY <1>7 DEF ExpireSlot, Typed, TypeOK, owed
<1>8. CASE UNCHANGED vars
  BY <1>8 DEF vars, rows, shared, owed, Typed, TypeOK
<1> QED
  BY <1>1, <1>2, <1>3, <1>4, <1>5, <1>6, <1>7, <1>8, StepTyped DEF Next, Arrive

\* The types of a turn's slot, park and calls.
THEOREM TypeCorrect == Spec => []TypeOK
<1>1. Typed => TypeOK
  BY DEF Typed
<1> QED
  BY InitTyped, NextTyped, <1>1, PTL DEF Spec

-----------------------------------------------------------------------------
(* A turn is in one hand *)

\* No two hands hold one turn, and what was not sent is in none.
HandInv ==
  /\ \A c, d \in Calls: c # d /\ call[c].turn # NoTurn => call[c].turn # call[d].turn
  /\ \A k, l \in Keys: k # l /\ parked[k] # NoTurn => parked[k] # parked[l]
  /\ \A r, s \in Runs: r # s /\ turnOf[r] # NoTurn => turnOf[r] # turnOf[s]
  /\ \A c \in Calls: \A k \in Keys: parked[k] # NoTurn => call[c].turn # parked[k]
  /\ \A c \in Calls: \A r \in Runs: turnOf[r] # NoTurn => call[c].turn # turnOf[r]
  /\ \A k \in Keys: \A r \in Runs: turnOf[r] # NoTurn => parked[k] # turnOf[r]
  /\ \A c \in Calls: call[c].turn \in posted \cup {NoTurn}
  /\ \A k \in Keys: parked[k] \in posted \cup {NoTurn}
  /\ \A r \in Runs: turnOf[r] \in posted \cup {NoTurn}

\* So it is until the first failure.
Unfailed == spent["faults"] = 0 => HandInv

\* Whatever is in a set of hands is the same hand, so there is one at most.
LEMMA HandInvIsOneHand == Unfailed => OneHand
<1> SUFFICES ASSUME HandInv, NEW t \in Turns PROVE Cardinality(Hands(t)) <= 1
  BY DEF Unfailed, OneHand
<1>1. ASSUME NEW h \in Hands(t), NEW g \in Hands(t) PROVE h = g
  <2>1. \/ \E c \in Calls: call[c].turn = t /\ h = <<"call", c>>
        \/ \E k \in Keys: parked[k] = t /\ h = <<"park", k>>
        \/ \E r \in Runs: turnOf[r] = t /\ h = <<"run", r>>
    BY <1>1 DEF Hands
  <2>2. \/ \E c \in Calls: call[c].turn = t /\ g = <<"call", c>>
        \/ \E k \in Keys: parked[k] = t /\ g = <<"park", k>>
        \/ \E r \in Runs: turnOf[r] = t /\ g = <<"run", r>>
    BY <1>1 DEF Hands
  <2>3. t # NoTurn
    BY Constants
  <2> QED
    BY <2>1, <2>2, <2>3 DEF HandInv
<1>2. CASE Hands(t) = {}
  BY <1>2, FS_EmptySet
<1>3. CASE Hands(t) # {}
  <2>1. PICK h : Hands(t) = {h}
    BY <1>1, <1>3
  <2>2. Cardinality({h}) = 1
    BY FS_Singleton
  <2> QED
    BY <2>1, <2>2
<1> QED
  BY <1>2, <1>3

\* Letting go of turns gives nobody a second one.
LEMMA LetGo ==
  ASSUME HandInv,
         \A d \in Calls: call'[d].turn = call[d].turn \/ call'[d].turn = NoTurn,
         \A k \in Keys: parked'[k] = parked[k] \/ parked'[k] = NoTurn,
         turnOf' = turnOf, posted' = posted
  PROVE  HandInv'
  BY DEF HandInv

\* A failure is never forgotten.
LEMMA NextSpends ==
  ASSUME TypeOK, [Next]_vars, spent'["faults"] = 0
  PROVE  spent["faults"] = 0
<1>1. spent' = spent \/ \E kind \in {"faults", "crashes", "stops", "boots"}, max \in {MaxFaults, MaxCrashes, MaxStops, MaxBoots}: Spend(kind, max)
  <2>1. ASSUME NEW c \in Calls, Continue(c) PROVE \E ok \in BOOLEAN: FaultUnless(ok)
    <3>1. CASE StopList(c) \/ StopReturn(c)
      BY <3>1 DEF StopList, StopReturn, FaultUnless
    <3>2. CASE \E r \in Runs: StopCancel(c, r) \/ BootRestore(c, r)
      BY <3>2 DEF StopCancel, BootRestore, FaultUnless
    <3>3. CASE \E ok, applied \in BOOLEAN: ClaimTurn(c, ok, applied) \/ HealSlot(c, ok, applied)
                                          \/ Park(c, ok, applied) \/ Take(c, ok, applied)
      BY <3>3 DEF ClaimTurn, HealSlot, Park, Take
    <3>4. CASE \E ok \in BOOLEAN: ReadHolder(c, ok) \/ CheckHolder(c, ok) \/ CreateRun(c, ok) \/ Index(c, ok)
                        \/ Look(c, ok) \/ Unindex(c, ok) \/ Release(c, ok) \/ StopDrop(c, ok)
      BY <3>4 DEF ReadHolder, CheckHolder, CreateRun, Index, Look, Unindex, Release, StopDrop
    <3> QED
      BY <2>1, <3>1, <3>2, <3>3, <3>4 DEF Continue
  <2>2. ASSUME NEW c \in Calls, Arrive(c) \/ Crash(c)
        PROVE spent' = spent \/ \E kind \in {"crashes", "stops", "boots"}, max \in {MaxCrashes, MaxStops, MaxBoots}: Spend(kind, max)
    BY <2>2 DEF Arrive, Crash, Post, EndRun, StopRead, BootRead
  <2>3. ASSUME NEW k \in Keys, Expire(k) \/ ExpireSlot(k) PROVE spent' = spent
    BY <2>3 DEF Expire, ExpireSlot
  <2>4. CASE UNCHANGED vars
    BY <2>4 DEF vars
  <2> QED
    BY <2>1, <2>2, <2>3, <2>4 DEF Next, FaultUnless
<1>2. spent["faults"] \in Nat
  BY DEF TypeOK
<1> QED
  BY <1>1, <1>2 DEF Spend, TypeOK

\* A step of a call takes a turn on or lets it go.
LEMMA StepHand ==
  ASSUME Typed, HandInv, NEW c \in Calls, Continue(c), spent'["faults"] = 0
  PROVE  HandInv'
<1>0. TypeOK /\ call[c] \in CallStates /\ Placed(call[c]) /\ call \in [Calls -> CallStates]
  BY DEF Typed, TypeOK
<1>1. ASSUME NEW rec, rec.turn = call[c].turn \/ rec.turn = NoTurn, call' = [call EXCEPT ![c] = rec],
             \A k \in Keys: parked'[k] = parked[k] \/ parked'[k] = NoTurn,
             turnOf' = turnOf, posted' = posted
      PROVE  HandInv'
  <2>1. \A d \in Calls: call'[d].turn = call[d].turn \/ call'[d].turn = NoTurn
    BY <1>0, <1>1
  <2> QED
    BY <1>1, <2>1, LetGo
<1>2. ASSUME Return(c), \A k \in Keys: parked'[k] = parked[k] \/ parked'[k] = NoTurn,
             turnOf' = turnOf, posted' = posted
      PROVE  HandInv'
  BY <1>1, <1>2 DEF Return, Idle
<1>3. ASSUME NEW pc, Goto(c, pc), \A k \in Keys: parked'[k] = parked[k] \/ parked'[k] = NoTurn,
             turnOf' = turnOf, posted' = posted
      PROVE  HandInv'
  <2>1. [call[c] EXCEPT !.pc = pc].turn = call[c].turn
    BY <1>0 DEF CallStates
  <2> QED
    BY <1>1, <1>3, <2>1 DEF Goto
<1>4. ASSUME Busy(c), parked' = parked, turnOf' = turnOf, posted' = posted
      PROVE  HandInv'
  <2>1. [call[c] EXCEPT !.pc = "park", !.run = NoRun, !.held = NoRun, !.blind = FALSE].turn = call[c].turn
    BY <1>0 DEF CallStates
  <2> QED
    BY <1>1, <1>2, <1>4, <2>1 DEF Busy
<1>4a. ASSUME NEW astray, Ahead(c, astray), parked' = parked, turnOf' = turnOf, posted' = posted
      PROVE  HandInv'
  <2>1. [call[c] EXCEPT !.pc = "create", !.held = NoRun, !.blind = FALSE].turn = call[c].turn
    BY <1>0 DEF CallStates
  <2> QED
    BY <1>1, <1>4a, <2>1 DEF Ahead
<1>5. ASSUME NEW ok \in BOOLEAN, NEW applied \in BOOLEAN, ClaimTurn(c, ok, applied) PROVE HandInv'
  BY <1>3, <1>4a, <1>5 DEF ClaimTurn, owed
<1>6. ASSUME NEW ok \in BOOLEAN, ReadHolder(c, ok) PROVE HandInv'
  <2> DEFINE h == IF ok THEN slot[call[c].key] ELSE NoRun
             rec == [call[c] EXCEPT !.held = h, !.pc = "check"]
  <2>1. rec.turn = call[c].turn
    BY <1>0 DEF CallStates
  <2>2. parked' = parked /\ turnOf' = turnOf /\ posted' = posted
    BY <1>6 DEF ReadHolder, owed, shared
  <2>3. Ahead(c, {call[c].run}) \/ call' = [call EXCEPT ![c] = rec]
    BY <1>6 DEF ReadHolder
  <2> HIDE DEF rec
  <2> QED
    BY <1>1, <1>4a, <2>1, <2>2, <2>3
<1>7. ASSUME NEW ok \in BOOLEAN, CheckHolder(c, ok) PROVE HandInv'
  <2> DEFINE rec == [call[c] EXCEPT !.pc = "heal", !.blind = ~ok \/ run[call[c].held] = "none"]
  <2>1. rec.turn = call[c].turn
    BY <1>0 DEF CallStates
  <2>2. parked' = parked /\ turnOf' = turnOf /\ posted' = posted
    BY <1>7 DEF CheckHolder, rows, shared
  <2>3. Busy(c) \/ call' = [call EXCEPT ![c] = rec]
    BY <1>7 DEF CheckHolder
  <2> HIDE DEF rec
  <2> QED
    BY <1>1, <1>4, <2>1, <2>2, <2>3
<1>8. ASSUME NEW ok \in BOOLEAN, NEW applied \in BOOLEAN, HealSlot(c, ok, applied) PROVE HandInv'
  BY <1>4, <1>4a, <1>8 DEF HealSlot
<1>9. ASSUME NEW ok \in BOOLEAN, CreateRun(c, ok) PROVE HandInv'
  <2>1. ok = TRUE
    BY <1>0, <1>9, FaultFact DEF CreateRun
  <2>2. /\ turnOf' = [turnOf EXCEPT ![call[c].run] = call[c].turn]
        /\ call' = [call EXCEPT ![c] = Idle] /\ parked' = parked /\ posted' = posted
    BY <1>9, <2>1 DEF CreateRun, Return, shared
  <2>3. /\ \A r \in Runs: turnOf'[r] = turnOf[r] \/ (turnOf'[r] = call[c].turn /\ r = call[c].run)
        /\ call'[c].turn = NoTurn /\ \A d \in Calls: d # c => call'[d].turn = call[d].turn
    BY <1>0, <2>2 DEF TypeOK, Idle
  <2> DEFINE t == call[c].turn
  <2>4. /\ t \in posted \cup {NoTurn} /\ \A d \in Calls: d # c /\ t # NoTurn => call[d].turn # t
        /\ \A k \in Keys: t # NoTurn => parked[k] # t
        /\ \A r \in Runs: t # NoTurn => turnOf[r] # t
    BY DEF HandInv
  <2> HIDE DEF t
  <2>5. \A r \in Runs: turnOf'[r] = turnOf[r] \/ (turnOf'[r] = t /\ r = call[c].run)
    BY <2>3 DEF t
  <2> QED
    BY <2>2, <2>3, <2>4, <2>5 DEF HandInv
<1>10. ASSUME NEW ok \in BOOLEAN, NEW applied \in BOOLEAN, Park(c, ok, applied) PROVE HandInv'
  <2>1. ok = TRUE
    BY <1>0, <1>10, FaultFact DEF Park
  <2> DEFINE k == ParkKey[call[c].turn]
  <2>2. CASE parked[k] = NoTurn
    <3>1. /\ parked' = [parked EXCEPT ![k] = call[c].turn]
          /\ call' = [call EXCEPT ![c] = [Idle EXCEPT !.op = "dispatch", !.pc = "index", !.key = k]]
          /\ turnOf' = turnOf /\ posted' = posted
      BY <1>10, <2>1, <2>2 DEF Park, rows, owed
    <3>2. /\ \A l \in Keys: parked'[l] = parked[l] \/ (parked'[l] = call[c].turn /\ l = k)
          /\ call'[c].turn = NoTurn /\ \A d \in Calls: d # c => call'[d].turn = call[d].turn
      BY <1>0, <3>1 DEF TypeOK, Idle
    <3> DEFINE t == call[c].turn
    <3>3. /\ t \in posted \cup {NoTurn} /\ \A d \in Calls: d # c /\ t # NoTurn => call[d].turn # t
          /\ \A l \in Keys: t # NoTurn => parked[l] # t
          /\ \A r \in Runs: t # NoTurn => turnOf[r] # t
      BY DEF HandInv
    <3> HIDE DEF t, k
    <3>4. \A l \in Keys: parked'[l] = parked[l] \/ (parked'[l] = t /\ l = k)
      BY <3>2 DEF t
    <3> QED
      BY <3>1, <3>2, <3>3, <3>4 DEF HandInv
  <2>3. CASE parked[k] # NoTurn
    BY <1>2, <1>10, <2>1, <2>3 DEF Park, rows, owed
  <2> QED
    BY <2>2, <2>3
<1>11. ASSUME NEW ok \in BOOLEAN, Index(c, ok) PROVE HandInv'
  BY <1>3, <1>11 DEF Index, rows, owed
<1>12. ASSUME NEW ok \in BOOLEAN, Look(c, ok) PROVE HandInv'
  BY <1>2, <1>3, <1>12 DEF Look, rows, owed, shared
<1>13. ASSUME NEW ok \in BOOLEAN, NEW applied \in BOOLEAN, Take(c, ok, applied) PROVE HandInv'
  <2>1. ok = TRUE
    BY <1>0, <1>13, FaultFact DEF Take
  <2> DEFINE k == call[c].key
             t == parked[k]
  <2>2. k \in Keys /\ parked' = [parked EXCEPT ![k] = NoTurn] /\ turnOf' = turnOf /\ posted' = posted
    BY <1>0, <1>13, <2>1 DEF Take, rows, owed, Placed
  <2>3. \A l \in Keys: parked'[l] = IF l = k THEN NoTurn ELSE parked[l]
    BY <1>0, <2>2 DEF TypeOK
  <2>4. CASE t # NoTurn
    <3>1. call' = [call EXCEPT ![c] = [Idle EXCEPT !.op = "deferred", !.pc = "unindex", !.turn = t, !.key = k]]
      BY <1>13, <2>1, <2>4 DEF Take
    <3>2. call'[c].turn = t /\ \A d \in Calls \ {c}: call'[d] = call[d]
      BY <1>0, <3>1 DEF Idle
    <3> QED
      BY <2>2, <2>3, <2>4, <3>2 DEF HandInv
  <2>5. CASE t = NoTurn
    BY <1>2, <1>13, <2>1, <2>2, <2>3, <2>5 DEF Take
  <2> QED
    BY <2>4, <2>5
<1>14. ASSUME NEW ok \in BOOLEAN, Unindex(c, ok) PROVE HandInv'
  <2>1. Starting("deferred", call[c].turn).turn = call[c].turn
    BY DEF Starting, Idle
  <2> QED
    BY <1>1, <1>14, <2>1 DEF Unindex, rows, owed
<1>15. ASSUME NEW ok \in BOOLEAN, Release(c, ok) PROVE HandInv'
  <2>1. /\ [call[c] EXCEPT !.pc = "take", !.run = NoRun].turn = call[c].turn
        /\ [call[c] EXCEPT !.pc = "cancel", !.run = NoRun].turn = call[c].turn
    BY <1>0 DEF CallStates
  <2>2. CASE call[c].op = "end"
    BY <1>1, <1>15, <2>1, <2>2 DEF Release, rows, owed
  <2>3. CASE call[c].op = "stop"
    BY <1>1, <1>15, <2>1, <2>3 DEF Release, rows, owed
  <2>4. CASE call[c].op \notin {"end", "stop"}
    BY <1>2, <1>15, <2>4 DEF Release, rows, owed
  <2> QED
    BY <2>2, <2>3, <2>4
<1>16. ASSUME NEW ok \in BOOLEAN, StopDrop(c, ok) PROVE HandInv'
  BY <1>0, <1>3, <1>16 DEF StopDrop, rows, TypeOK
<1>17. CASE StopList(c)
  <2>1. [call[c] EXCEPT !.pc = "cancel", !.runs = LiveRuns].turn = call[c].turn
    BY <1>0 DEF CallStates
  <2> QED
    BY <1>1, <1>17, <2>1 DEF StopList, rows, owed, shared
<1>18. CASE StopReturn(c)
  BY <1>2, <1>18 DEF StopReturn, rows, shared
<1>19. ASSUME NEW r \in Runs, StopCancel(c, r) PROVE HandInv'
  <2>1. /\ [call[c] EXCEPT !.runs = call[c].runs \ {r}, !.pc = "release", !.run = r, !.key = KeyOf(r)].turn = call[c].turn
        /\ [call[c] EXCEPT !.runs = call[c].runs \ {r}].turn = call[c].turn
    BY <1>0 DEF CallStates
  <2> QED
    BY <1>1, <1>19, <2>1 DEF StopCancel, owed, shared
<1>20. ASSUME NEW r \in Runs, BootRestore(c, r) PROVE HandInv'
  <2>1. [call[c] EXCEPT !.runs = call[c].runs \ {r}].turn = call[c].turn
    BY <1>0 DEF CallStates
  <2>2. CASE call[c].runs \ {r} = {}
    BY <1>2, <1>20, <2>2 DEF BootRestore, Return, rows, owed
  <2>3. CASE call[c].runs \ {r} # {}
    BY <1>1, <1>20, <2>1, <2>3 DEF BootRestore, rows, owed
  <2> QED
    BY <2>2, <2>3
<1> QED
  BY <1>5, <1>6, <1>7, <1>8, <1>9, <1>10, <1>11, <1>12, <1>13, <1>14, <1>15, <1>16, <1>17, <1>18, <1>19, <1>20
  DEF Continue

\* Only Post brings a turn, and that for the first time.
LEMMA NextHand == Typed /\ Unfailed /\ [Next]_vars => Unfailed'
<1> SUFFICES ASSUME Typed, Unfailed, [Next]_vars, spent'["faults"] = 0 PROVE HandInv'
  BY DEF Unfailed
<1>0. TypeOK /\ call \in [Calls -> CallStates]
  BY DEF Typed, TypeOK
<1>1. spent["faults"] = 0
  BY <1>0, NextSpends
<1>2. HandInv
  BY <1>1 DEF Unfailed
<1>3. ASSUME NEW c \in Calls, Crash(c) PROVE HandInv'
  BY <1>0, <1>2, <1>3, LetGo DEF Crash, Return, Idle, rows, owed, shared
<1>4. ASSUME NEW c \in Calls, NEW t \in Turns, Post(c, t) PROVE HandInv'
  <2>1. /\ call'[c].turn = t /\ \A d \in Calls \ {c}: call'[d] = call[d]
        /\ t \notin posted /\ posted' = posted \cup {t} /\ parked' = parked /\ turnOf' = turnOf
    BY <1>0, <1>4 DEF Post, Starting, Idle, rows, shared
  <2> QED
    BY <1>2, <2>1, Constants DEF HandInv
<1>5. ASSUME NEW c \in Calls, NEW r \in Runs, EndRun(c, r) PROVE HandInv'
  BY <1>0, <1>2, <1>5, LetGo DEF EndRun, Idle, shared, owed
<1>6. ASSUME NEW c \in Calls, StopRead(c) PROVE HandInv'
  BY <1>0, <1>2, <1>6, LetGo DEF StopRead, Idle, rows, shared, owed
<1>7. ASSUME NEW c \in Calls, BootRead(c) PROVE HandInv'
  BY <1>0, <1>2, <1>7, LetGo DEF BootRead, Idle, rows, shared, owed
<1>8. ASSUME NEW k \in Keys, Expire(k) PROVE HandInv'
  BY <1>0, <1>2, <1>8, LetGo DEF Expire, TypeOK, rows, owed
<1>9. ASSUME NEW k \in Keys, ExpireSlot(k) PROVE HandInv'
  BY <1>2, <1>9, LetGo DEF ExpireSlot, owed
<1>10. CASE UNCHANGED vars
  BY <1>2, <1>10 DEF vars, rows, shared, owed, HandInv
<1> QED
  BY <1>2, <1>3, <1>4, <1>5, <1>6, <1>7, <1>8, <1>9, <1>10, StepHand DEF Next, Arrive

\* While no Redis or store operation has failed, every turn is in one hand at most: whoever
\* overtakes deferTurn, afterTerminal, a stop or a boot, whatever dies and whatever runs out,
\* a parked hand-off starts one run (startDeferredTurn).
THEOREM HandedOnce == Spec => []OneHand
<1>1. Init => Unfailed
  BY DEF Init, Unfailed, HandInv, Idle
<1> QED
  BY <1>1, InitTyped, NextTyped, NextHand, HandInvIsOneHand, PTL DEF Spec

-----------------------------------------------------------------------------
(* A live run keeps its slot *)

\* A call that claims a turn has an id of its own, which no row and no other call knows;
\* a slot is healed after a look from a run that has ended, and released from one that is not live.
IdInv ==
  /\ \A c \in Calls: call[c].pc \in Claiming =>
       run[call[c].run] = "none" /\ \A d \in Calls: d # c => call[d].run # call[c].run
  /\ \A c \in Calls: call[c].pc = "heal" /\ ~call[c].blind => run[call[c].held] = "ended"
  /\ \A c \in Calls: call[c].pc = "release" => run[call[c].run] # "live"

\* How a step of a call takes a slot from the run that has it.
SlotMoves(c) ==
  \A k \in Keys: \/ slot'[k] = slot[k]
                 \/ slot[k] = NoRun
                 \/ call[c].pc = "release" /\ slot[k] = call[c].run
                 \/ /\ call[c].pc = "heal" /\ call[c].key = k /\ call[c].held = slot[k]
                    /\ call[c].blind => slot[k] \in loose'

LEMMA ContinueMoves ==
  ASSUME Typed, NEW c \in Calls, Continue(c)
  PROVE  SlotMoves(c)
<1>0. slot \in [Keys -> Runs \cup {NoRun}]
  BY DEF Typed, TypeOK
<1>1. CASE slot' = slot
  BY <1>1 DEF SlotMoves
<1>2. ASSUME NEW ok \in BOOLEAN, NEW applied \in BOOLEAN, ClaimTurn(c, ok, applied) PROVE SlotMoves(c)
  BY <1>0, <1>2 DEF ClaimTurn, SlotMoves
<1>3. ASSUME NEW ok \in BOOLEAN, NEW applied \in BOOLEAN, HealSlot(c, ok, applied) PROVE SlotMoves(c)
  <2> DEFINE k == call[c].key
             took == slot[k] = call[c].held /\ (ok \/ applied)
  <2>1. call[c].pc = "heal" /\ slot' = IF took THEN [slot EXCEPT ![k] = call[c].run] ELSE slot
    BY <1>3 DEF HealSlot
  <2>2. CASE took
    <3>1. Ahead(c, IF call[c].blind THEN {call[c].held} ELSE {})
      BY <1>3, <2>2 DEF HealSlot
    <3>2. call[c].blind => call[c].held \in loose'
      BY <3>1 DEF Ahead
    <3> QED
      BY <1>0, <2>1, <2>2, <3>2 DEF SlotMoves
  <2>3. CASE ~took
    BY <1>1, <2>1, <2>3
  <2> QED
    BY <2>2, <2>3
<1>4. ASSUME NEW ok \in BOOLEAN, Release(c, ok) PROVE SlotMoves(c)
  <2>1. call[c].pc = "release" /\ (Released(call[c].key, call[c].run) \/ slot' = slot)
    BY <1>4 DEF Release
  <2> QED
    BY <1>0, <1>1, <2>1 DEF Released, SlotMoves
<1>5. ASSUME NEW r \in Runs, BootRestore(c, r) PROVE SlotMoves(c)
  BY <1>0, <1>5 DEF BootRestore, SlotMoves
<1>6. ASSUME NEW ok \in BOOLEAN, NEW applied \in BOOLEAN, Park(c, ok, applied) \/ Take(c, ok, applied) PROVE slot' = slot
  BY <1>6 DEF Park, Take
<1>7. ASSUME NEW ok \in BOOLEAN, ReadHolder(c, ok) \/ CheckHolder(c, ok) \/ CreateRun(c, ok) \/ Index(c, ok) PROVE slot' = slot
  BY <1>7 DEF ReadHolder, CheckHolder, CreateRun, Index, shared
<1>8. ASSUME NEW ok \in BOOLEAN, Look(c, ok) \/ Unindex(c, ok) \/ StopDrop(c, ok) PROVE slot' = slot
  BY <1>8 DEF Look, Unindex, StopDrop, shared
<1>9. ASSUME StopList(c) \/ StopReturn(c) \/ \E r \in Runs: StopCancel(c, r) PROVE slot' = slot
  BY <1>9 DEF StopList, StopReturn, StopCancel, shared
<1> QED
  BY <1>1, <1>2, <1>3, <1>4, <1>5, <1>6, <1>7, <1>8, <1>9 DEF Continue

\* Whoever loses a slot so is not live, or beside it from then on.
LEMMA MovesSpare ==
  ASSUME Typed, IdInv, NEW c \in Calls, SlotMoves(c), NEW k \in Keys, slot'[k] # slot[k]
  PROVE  \/ slot[k] = NoRun
         \/ slot[k] \in loose'
         \/ run[slot[k]] # "live" /\ \A d \in Calls: d # c /\ call[d].pc = "create" => call[d].run # slot[k]
  BY DEF SlotMoves, IdInv, Typed, Placed, Claiming, Inner

\* What the new record of a call and the runs it writes must satisfy for the ids to stay apart.
IdsFit(c, rec) ==
  /\ call' = [call EXCEPT ![c] = rec]
  /\ \A d \in Calls: d # c /\ call[d].pc \in Claiming => rec.run # call[d].run
  /\ rec.pc \in Claiming => run'[rec.run] = "none" /\ \A d \in Calls: d # c => call[d].run # rec.run
  /\ rec.pc = "heal" /\ ~rec.blind => run'[rec.held] = "ended"
  /\ rec.pc = "release" => run'[rec.run] # "live"
  /\ \A r \in Runs: \/ run'[r] = run[r]
                    \/ run[r] = "live" /\ run'[r] = "ended"
                    \/ r = call[c].run /\ call[c].pc \in Claiming /\ run'[r] = "live"

LEMMA IdStays ==
  ASSUME Typed, IdInv, NEW c \in Calls, NEW rec, IdsFit(c, rec)
  PROVE  IdInv'
<1>0. call \in [Calls -> CallStates] /\ \A d \in Calls: Placed(call[d])
  BY DEF Typed, TypeOK
<1>1. call'[c] = rec /\ \A d \in Calls: d # c => call'[d] = call[d]
  BY <1>0 DEF IdsFit
<1>2. ASSUME NEW d \in Calls, d # c, call[d].pc \in Claiming PROVE run'[call[d].run] = "none"
  <2>1. call[d].run \in Runs /\ run[call[d].run] = "none" /\ call[c].run # call[d].run
    BY <1>0, <1>2 DEF Placed, IdInv
  <2> QED
    BY <2>1 DEF IdsFit
<1>3. ASSUME NEW d \in Calls, d # c, call[d].pc = "heal", ~call[d].blind PROVE run'[call[d].held] = "ended"
  <2>1. call[d].held \in Runs /\ run[call[d].held] = "ended"
    BY <1>0, <1>3 DEF Placed, IdInv
  <2> QED
    BY <2>1 DEF IdsFit, IdInv
<1>4. ASSUME NEW d \in Calls, d # c, call[d].pc = "release" PROVE run'[call[d].run] # "live"
  <2>1. call[d].run \in Runs /\ run[call[d].run] # "live"
    BY <1>0, <1>4 DEF Placed, IdInv
  <2> QED
    BY <1>4, <2>1 DEF IdsFit, IdInv
<1>5. \A e \in Calls: call'[e].pc \in Claiming =>
        run'[call'[e].run] = "none" /\ \A d \in Calls: d # e => call'[d].run # call'[e].run
  BY <1>1, <1>2 DEF IdsFit, IdInv
<1>6. \A e \in Calls: call'[e].pc = "heal" /\ ~call'[e].blind => run'[call'[e].held] = "ended"
  BY <1>1, <1>3 DEF IdsFit
<1>7. \A e \in Calls: call'[e].pc = "release" => run'[call'[e].run] # "live"
  BY <1>1, <1>4 DEF IdsFit
<1> QED
  BY <1>5, <1>6, <1>7 DEF IdInv

-----------------------------------------------------------------------------
(* One run of a key has its slot *)

\* A live run that is not beside its slot has it, and so has one that is about to be created.
SlotInv ==
  /\ \A r \in Runs: run[r] = "live" /\ r \notin loose => slot[KeyOf(r)] = r
  /\ \A c \in Calls: call[c].pc = "create" /\ call[c].run \notin loose => slot[call[c].key] = call[c].run

Apart == IdInv /\ SlotInv

\* A step that makes no run live leaves them apart.
LEMMA ApartStays ==
  ASSUME Typed, Apart, NEW c \in Calls, NEW rec, IdsFit(c, rec), SlotMoves(c), turnOf' = turnOf, loose \subseteq loose',
         \A r \in Runs: run'[r] = "live" => run[r] = "live",
         rec.pc = "create" /\ rec.run \notin loose' => slot'[rec.key] = rec.run
  PROVE  Apart'
<1>0. /\ call \in [Calls -> CallStates] /\ \A d \in Calls: Placed(call[d])
      /\ slot \in [Keys -> Runs \cup {NoRun}]
  BY DEF Typed, TypeOK
<1>1. call'[c] = rec /\ \A d \in Calls: d # c => call'[d] = call[d]
  BY <1>0 DEF IdsFit
<1>2. IdInv'
  BY IdStays DEF Apart
<1>3. ASSUME NEW r \in Runs, run'[r] = "live", r \notin loose' PROVE slot'[KeyOf(r)'] = r
  <2>1. run[r] = "live" /\ r \notin loose /\ KeyOf(r)' = KeyOf(r)
    BY <1>3 DEF KeyOf
  <2>2. slot[KeyOf(r)] = r /\ KeyOf(r) \in Keys /\ r # NoRun
    BY <2>1, KeyFact DEF Apart, SlotInv, Runs, NoRun
  <2> QED
    BY <1>3, <2>1, <2>2, MovesSpare DEF Apart
<1>4. ASSUME NEW d \in Calls, d # c, call[d].pc = "create", call[d].run \notin loose'
      PROVE  slot'[call[d].key] = call[d].run
  <2>1. /\ slot[call[d].key] = call[d].run /\ call[d].key \in Keys /\ call[d].run # NoRun
    BY <1>0, <1>4, Constants DEF Apart, SlotInv, Placed, Claiming, Inner, Runs, NoRun
  <2> QED
    BY <1>4, <2>1, MovesSpare DEF Apart
<1>5. SlotInv'
  BY <1>1, <1>3, <1>4 DEF SlotInv
<1> QED
  BY <1>2, <1>5 DEF Apart

\* So does one that takes a call out of startRun, or leaves it outside.
LEMMA ApartOutside ==
  ASSUME Typed, Apart, NEW c \in Calls, NEW rec, call' = [call EXCEPT ![c] = rec],
         rec.pc \notin Claiming \cup {"release"}, rec.run \in {NoRun, call[c].run},
         SlotMoves(c), run' = run, turnOf' = turnOf, loose' = loose
  PROVE  Apart'
<1>1. \A d \in Calls: Placed(call[d]) /\ (call[d].pc \in Claiming => call[d].run # NoRun)
  BY DEF Typed, Placed, Runs, NoRun
<1>2. IdsFit(c, rec) /\ rec.pc # "create"
  BY <1>1 DEF IdsFit, Apart, IdInv, Claiming, Inner
<1> QED
  BY <1>2, ApartStays

LEMMA ApartReturn ==
  ASSUME Typed, Apart, NEW c \in Calls, Return(c), SlotMoves(c), run' = run, turnOf' = turnOf, loose' = loose
  PROVE  Apart'
<1>1. Idle.pc \notin Claiming \cup {"release"} /\ Idle.run = NoRun
  BY DEF Idle, Claiming, Inner
<1> QED
  BY <1>1, ApartOutside DEF Return

\* A call that starts a turn has an id that nobody knows.
LEMMA ApartStarting ==
  ASSUME Typed, Apart, NEW c \in Calls, NEW op \in {"dispatch", "deferred"}, NEW t \in Turns, Fresh # {},
         call' = [call EXCEPT ![c] = Starting(op, t)], SlotMoves(c), run' = run, turnOf' = turnOf, loose' = loose
  PROVE  Apart'
<1> DEFINE rec == Starting(op, t)
<1>1. rec.run \in Fresh /\ rec.pc = "claim"
  BY StartingFact
<1>2. call' = [call EXCEPT ![c] = rec]
  OBVIOUS
<1> HIDE DEF rec
<1>3. run[rec.run] = "none" /\ \A d \in Calls: call[d].run # rec.run
  BY <1>1 DEF Fresh
<1>4. IdsFit(c, rec)
  BY <1>1, <1>2, <1>3 DEF IdsFit
<1> QED
  BY <1>1, <1>4, ApartStays

\* And one that goes on inside startRun keeps its own.
LEMMA ApartInside ==
  ASSUME Typed, Apart, NEW c \in Calls, NEW rec, call' = [call EXCEPT ![c] = rec],
         call[c].pc \in Claiming, rec.pc \in Claiming, rec.run = call[c].run,
         rec.pc = "heal" /\ ~rec.blind => run[rec.held] = "ended",
         rec.pc = "create" /\ rec.run \notin loose' => slot'[rec.key] = rec.run,
         SlotMoves(c), run' = run, turnOf' = turnOf, loose \subseteq loose'
  PROVE  Apart'
<1>1. IdsFit(c, rec)
  BY DEF IdsFit, Apart, IdInv, Claiming, Inner
<1> QED
  BY <1>1, ApartStays

LEMMA ApartAhead ==
  ASSUME Typed, Apart, NEW c \in Calls, call[c].pc \in Claiming, NEW astray, Ahead(c, astray),
         SlotMoves(c), run' = run, turnOf' = turnOf,
         call[c].run \in astray \/ slot'[call[c].key] = call[c].run
  PROVE  Apart'
<1> DEFINE rec == [call[c] EXCEPT !.pc = "create", !.held = NoRun, !.blind = FALSE]
<1>1. rec.pc = "create" /\ rec.run = call[c].run /\ rec.key = call[c].key
  BY DEF Typed, TypeOK, CallStates
<1>2. call' = [call EXCEPT ![c] = rec] /\ loose' = loose \cup astray
  BY DEF Ahead
<1> HIDE DEF rec
<1>3. rec.pc \in Claiming /\ rec.pc # "heal"
  BY <1>1 DEF Claiming, Inner
<1> QED
  BY <1>1, <1>2, <1>3, ApartInside

LEMMA ApartBusy ==
  ASSUME Typed, Apart, NEW c \in Calls, Busy(c), SlotMoves(c), run' = run, turnOf' = turnOf, loose' = loose
  PROVE  Apart'
<1> DEFINE rec == [call[c] EXCEPT !.pc = "park", !.run = NoRun, !.held = NoRun, !.blind = FALSE]
<1>1. rec.pc = "park" /\ rec.run = NoRun
  BY DEF Typed, TypeOK, CallStates
<1>2. Return(c) \/ call' = [call EXCEPT ![c] = rec]
  BY DEF Busy
<1> HIDE DEF rec
<1>3. rec.pc \notin Claiming \cup {"release"}
  BY <1>1 DEF Claiming, Inner
<1> QED
  BY <1>1, <1>2, <1>3, ApartOutside, ApartReturn

\* A run that ends is on its way to release its slot.
LEMMA ApartEnd ==
  ASSUME Typed, Apart, NEW c \in Calls, NEW r \in Runs, NEW rec, rec.pc = "release", rec.run = r,
         call' = [call EXCEPT ![c] = rec], run[r] = "live", run' = [run EXCEPT ![r] = "ended"],
         SlotMoves(c), turnOf' = turnOf, loose' = loose
  PROVE  Apart'
<1>1. run \in [Runs -> {"none", "live", "ended"}]
  BY DEF Typed, TypeOK
<1>2. IdsFit(c, rec)
  BY <1>1 DEF IdsFit, Apart, IdInv, Claiming, Inner
<1> QED
  BY <1>1, <1>2, ApartStays

\* startRun,
LEMMA StartRunApart ==
  ASSUME Typed, Apart, NEW c \in Calls, SlotMoves(c), NEW ok \in BOOLEAN, NEW applied \in BOOLEAN,
         ClaimTurn(c, ok, applied) \/ HealSlot(c, ok, applied) \/ ReadHolder(c, ok) \/ CheckHolder(c, ok) \/ CreateRun(c, ok)
  PROVE  Apart'
<1>0. /\ call \in [Calls -> CallStates] /\ call[c] \in CallStates /\ \A d \in Calls: Placed(call[d])
      /\ slot \in [Keys -> Runs \cup {NoRun}] /\ run \in [Runs -> {"none", "live", "ended"}]
      /\ turnOf \in [Runs -> Turns \cup {NoTurn}]
  BY DEF Typed, TypeOK
<1>1. call[c].pc \in Claiming
  BY DEF ClaimTurn, HealSlot, ReadHolder, CheckHolder, CreateRun, Claiming, Inner
<1>2. call[c].run \in Runs /\ call[c].turn \in Turns /\ call[c].key = RunKey[call[c].turn] /\ call[c].key \in Keys
  BY <1>0, <1>1, Constants DEF Placed
<1>3. ASSUME ClaimTurn(c, ok, applied) PROVE Apart'
  <2> DEFINE took == slot[call[c].key] = NoRun /\ (ok \/ applied)
             rec  == [call[c] EXCEPT !.pc = "holder"]
  <2>1. run' = run /\ turnOf' = turnOf
    BY <1>3 DEF ClaimTurn
  <2>2. CASE Ahead(c, IF took THEN {} ELSE {call[c].run})
    <3>1. took => slot'[call[c].key] = call[c].run
      BY <1>0, <1>2, <1>3 DEF ClaimTurn
    <3> QED
      BY <1>1, <2>1, <2>2, <3>1, ApartAhead
  <2>3. CASE call' = [call EXCEPT ![c] = rec] /\ loose' = loose
    <3>1. rec.pc = "holder" /\ rec.run = call[c].run
      BY <1>0 DEF CallStates
    <3> HIDE DEF rec
    <3>2. rec.pc \in Claiming /\ rec.pc # "heal" /\ rec.pc # "create"
      BY <3>1 DEF Claiming, Inner
    <3> QED
      BY <1>1, <2>1, <2>3, <3>1, <3>2, ApartInside
  <2> QED
    BY <1>3, <2>2, <2>3 DEF ClaimTurn, Goto
<1>4. ASSUME ReadHolder(c, ok) PROVE Apart'
  <2> DEFINE h == IF ok THEN slot[call[c].key] ELSE NoRun
             rec == [call[c] EXCEPT !.held = h, !.pc = "check"]
  <2>1. run' = run /\ turnOf' = turnOf
    BY <1>4 DEF ReadHolder
  <2>2. CASE Ahead(c, {call[c].run})
    BY <1>1, <2>1, <2>2, ApartAhead
  <2>3. CASE call' = [call EXCEPT ![c] = rec] /\ loose' = loose
    <3>1. rec.pc = "check" /\ rec.run = call[c].run
      BY <1>0 DEF CallStates
    <3> HIDE DEF rec
    <3>2. rec.pc \in Claiming /\ rec.pc # "heal" /\ rec.pc # "create"
      BY <3>1 DEF Claiming, Inner
    <3> QED
      BY <1>1, <2>1, <2>3, <3>1, <3>2, ApartInside
  <2> QED
    BY <1>4, <2>2, <2>3 DEF ReadHolder
<1>5. ASSUME CheckHolder(c, ok) PROVE Apart'
  <2> DEFINE state == run[call[c].held]
             rec == [call[c] EXCEPT !.pc = "heal", !.blind = ~ok \/ state = "none"]
  <2>1. run' = run /\ turnOf' = turnOf /\ loose' = loose /\ call[c].held \in Runs
    BY <1>0, <1>5 DEF CheckHolder, rows, Placed
  <2>2. CASE ok /\ state = "live"
    BY <1>5, <2>1, <2>2, ApartBusy DEF CheckHolder
  <2>3. CASE ~(ok /\ state = "live")
    <3>1. call' = [call EXCEPT ![c] = rec]
      BY <1>5, <2>3 DEF CheckHolder
    <3>2. rec.pc = "heal" /\ rec.run = call[c].run /\ rec.held = call[c].held /\ rec.blind = (~ok \/ state = "none")
      BY <1>0 DEF CallStates
    <3>3. ~rec.blind => run[rec.held] = "ended"
      BY <1>0, <2>1, <2>3, <3>2
    <3> HIDE DEF rec
    <3>4. rec.pc \in Claiming /\ rec.pc # "create"
      BY <3>2 DEF Claiming, Inner
    <3> QED
      BY <1>1, <2>1, <3>1, <3>2, <3>3, <3>4, ApartInside
  <2> QED
    BY <2>2, <2>3
<1>6. ASSUME HealSlot(c, ok, applied) PROVE Apart'
  <2> DEFINE mine == slot[call[c].key] = call[c].held
             took == mine /\ (ok \/ applied)
             astray == IF ~took THEN {call[c].run} ELSE IF call[c].blind THEN {call[c].held} ELSE {}
  <2>1. run' = run /\ turnOf' = turnOf
    BY <1>6 DEF HealSlot
  <2>2. CASE mine \/ ~ok
    <3>1. Ahead(c, astray)
      BY <1>6, <2>2 DEF HealSlot
    <3>2. took => slot'[call[c].key] = call[c].run
      BY <1>0, <1>2, <1>6 DEF HealSlot
    <3>3. call[c].run \in astray \/ slot'[call[c].key] = call[c].run
      BY <3>2
    <3> HIDE DEF astray
    <3> QED
      BY <1>1, <2>1, <3>1, <3>3, ApartAhead
  <2>3. CASE ~(mine \/ ~ok)
    <3>1. Busy(c) /\ loose' = loose
      BY <1>6, <2>3 DEF HealSlot
    <3> QED
      BY <2>1, <3>1, ApartBusy
  <2> QED
    BY <2>2, <2>3
<1>7. ASSUME CreateRun(c, ok) PROVE Apart'
  <2>1. slot' = slot /\ loose' = loose /\ call[c].pc = "create"
    BY <1>7 DEF CreateRun, shared
  <2>2. CASE ok = TRUE
    <3> DEFINE n == call[c].run
    <3>1. /\ call' = [call EXCEPT ![c] = Idle] /\ run' = [run EXCEPT ![n] = "live"]
          /\ turnOf' = [turnOf EXCEPT ![n] = call[c].turn]
      BY <1>7, <2>2 DEF CreateRun, Return
    <3>2. Idle.pc = "idle" /\ Idle.run = NoRun
      BY DEF Idle
    <3>3. \A d \in Calls: call[d].pc \in Claiming => call[d].run # NoRun
      BY <1>0 DEF Placed, Runs, NoRun
    <3>4. IdsFit(c, Idle)
      BY <1>0, <1>1, <1>2, <3>1, <3>2, <3>3 DEF IdsFit, Claiming, Inner
    <3>5. IdInv'
      BY <3>4, IdStays DEF Apart
    <3>6. n \notin loose => slot[call[c].key] = n
      BY <2>1 DEF Apart, SlotInv
    <3>7. ASSUME NEW r \in Runs, run'[r] = "live", r \notin loose PROVE slot[RunKey[turnOf'[r]]] = r
      <4>1. CASE r = n
        BY <1>0, <1>2, <3>1, <3>6, <3>7, <4>1
      <4>2. CASE r # n
        BY <1>0, <1>2, <3>1, <3>7, <4>2 DEF Apart, SlotInv, KeyOf
      <4> QED
        BY <4>1, <4>2
    <3>8. ASSUME NEW d \in Calls, call'[d].pc = "create", call'[d].run \notin loose PROVE slot[call'[d].key] = call'[d].run
      BY <1>0, <3>1, <3>2, <3>8 DEF Apart, SlotInv
    <3> QED
      BY <2>1, <3>5, <3>7, <3>8 DEF Apart, SlotInv, KeyOf
  <2>3. CASE ok = FALSE
    <3> DEFINE rec == [call[c] EXCEPT !.op = "refused", !.pc = "release", !.turn = NoTurn]
    <3>1. call' = [call EXCEPT ![c] = rec] /\ run' = run /\ turnOf' = turnOf
      BY <1>7, <2>3 DEF CreateRun
    <3>2. rec.pc = "release" /\ rec.run = call[c].run
      BY <1>0 DEF CallStates
    <3> HIDE DEF rec
    <3>3. IdsFit(c, rec)
      BY <1>1, <3>1, <3>2 DEF IdsFit, Apart, IdInv, Claiming, Inner
    <3> QED
      BY <2>1, <3>1, <3>2, <3>3, ApartStays
  <2> QED
    BY <2>2, <2>3
<1> QED
  BY <1>3, <1>4, <1>5, <1>6, <1>7

\* deferTurn, afterTerminal, a stop and a boot leave them apart too.
LEMMA ContinueApart ==
  ASSUME Typed, Apart, NEW c \in Calls, Continue(c)
  PROVE  Apart'
<1>0. call \in [Calls -> CallStates] /\ call[c] \in CallStates /\ Placed(call[c]) /\ SlotMoves(c)
  BY ContinueMoves DEF Typed, TypeOK
<1>1. ASSUME Return(c), rows' = rows PROVE Apart'
  BY <1>0, <1>1, ApartReturn DEF rows
<1>2. ASSUME NEW rec, call' = [call EXCEPT ![c] = rec], rec.pc \notin Claiming \cup {"release"},
             rec.run \in {NoRun, call[c].run}, rows' = rows
      PROVE  Apart'
  BY <1>0, <1>2, ApartOutside DEF rows
<1>3. ASSUME NEW pc \in {"look", "take", "list"}, Goto(c, pc), rows' = rows PROVE Apart'
  <2> DEFINE rec == [call[c] EXCEPT !.pc = pc]
  <2>1. rec.run = call[c].run /\ rec.pc = pc /\ call' = [call EXCEPT ![c] = rec]
    BY <1>0, <1>3 DEF Goto, CallStates
  <2> HIDE DEF rec
  <2>2. rec.pc \notin Claiming \cup {"release"}
    BY <2>1 DEF Claiming, Inner
  <2> QED
    BY <1>2, <1>3, <2>1, <2>2
<1>4. ASSUME NEW ok \in BOOLEAN, NEW applied \in BOOLEAN, Park(c, ok, applied) PROVE Apart'
  <2>1. rows' = rows /\ call[c].turn \in Turns
    BY <1>0, <1>4 DEF Park, Placed
  <2> DEFINE k == ParkKey[call[c].turn]
             rec == [Idle EXCEPT !.op = "dispatch", !.pc = "index", !.key = k]
  <2>2. \/ Fresh # {} /\ call' = [call EXCEPT ![c] = Starting("deferred", call[c].turn)]
        \/ call' = [call EXCEPT ![c] = rec]
        \/ Return(c)
    BY <1>4 DEF Park
  <2>3. rec.pc = "index" /\ rec.run = NoRun
    BY DEF Idle
  <2> HIDE DEF rec
  <2>4. rec.pc \notin Claiming \cup {"release"}
    BY <2>3 DEF Claiming, Inner
  <2> QED
    BY <1>0, <1>1, <1>2, <2>1, <2>2, <2>3, <2>4, ApartStarting DEF rows
<1>5. ASSUME NEW ok \in BOOLEAN, Index(c, ok) PROVE Apart'
  BY <1>3, <1>5 DEF Index
<1>6. ASSUME NEW ok \in BOOLEAN, Look(c, ok) PROVE Apart'
  BY <1>1, <1>3, <1>6 DEF Look
<1>7. ASSUME NEW ok \in BOOLEAN, NEW applied \in BOOLEAN, Take(c, ok, applied) PROVE Apart'
  <2> DEFINE rec == [Idle EXCEPT !.op = "deferred", !.pc = "unindex", !.turn = parked[call[c].key], !.key = call[c].key]
  <2>1. rows' = rows /\ (Return(c) \/ call' = [call EXCEPT ![c] = rec])
    BY <1>7 DEF Take
  <2>2. rec.pc = "unindex" /\ rec.run = NoRun
    BY DEF Idle
  <2> HIDE DEF rec
  <2>3. rec.pc \notin Claiming \cup {"release"}
    BY <2>2 DEF Claiming, Inner
  <2> QED
    BY <1>1, <1>2, <2>1, <2>2, <2>3
<1>8. ASSUME NEW ok \in BOOLEAN, Unindex(c, ok) PROVE Apart'
  <2>1. /\ rows' = rows /\ call[c].turn \in Turns /\ Fresh # {}
        /\ call' = [call EXCEPT ![c] = Starting("deferred", call[c].turn)]
    BY <1>0, <1>8 DEF Unindex, Placed
  <2> QED
    BY <1>0, <2>1, ApartStarting DEF rows
<1>9. ASSUME NEW ok \in BOOLEAN, Release(c, ok) PROVE Apart'
  <2> DEFINE take   == [call[c] EXCEPT !.pc = "take", !.run = NoRun]
             cancel == [call[c] EXCEPT !.pc = "cancel", !.run = NoRun]
  <2>1. take.pc = "take" /\ take.run = NoRun /\ cancel.pc = "cancel" /\ cancel.run = NoRun
    BY <1>0 DEF CallStates
  <2>2. rows' = rows
    BY <1>9 DEF Release
  <2>3. CASE call[c].op = "end"
    <3>1. call' = [call EXCEPT ![c] = take]
      BY <1>9, <2>3 DEF Release
    <3> HIDE DEF take, cancel
    <3>2. take.pc \notin Claiming \cup {"release"}
      BY <2>1 DEF Claiming, Inner
    <3> QED
      BY <1>2, <2>1, <2>2, <3>1, <3>2
  <2>4. CASE call[c].op = "stop"
    <3>1. call' = [call EXCEPT ![c] = cancel]
      BY <1>9, <2>4 DEF Release
    <3> HIDE DEF take, cancel
    <3>2. cancel.pc \notin Claiming \cup {"release"}
      BY <2>1 DEF Claiming, Inner
    <3> QED
      BY <1>2, <2>1, <2>2, <3>1, <3>2
  <2>5. CASE call[c].op \notin {"end", "stop"}
    BY <1>1, <1>9, <2>2, <2>5 DEF Release
  <2> QED
    BY <2>3, <2>4, <2>5
<1>10. ASSUME NEW ok \in BOOLEAN, StopDrop(c, ok) PROVE Apart'
  BY <1>3, <1>10 DEF StopDrop
<1>11. CASE StopList(c)
  <2> DEFINE rec == [call[c] EXCEPT !.pc = "cancel", !.runs = LiveRuns]
  <2>1. rows' = rows /\ call' = [call EXCEPT ![c] = rec]
    BY <1>11 DEF StopList
  <2>2. rec.pc = "cancel" /\ rec.run = call[c].run
    BY <1>0 DEF CallStates
  <2> HIDE DEF rec
  <2>3. rec.pc \notin Claiming \cup {"release"}
    BY <2>2 DEF Claiming, Inner
  <2> QED
    BY <1>2, <2>1, <2>2, <2>3
<1>12. CASE StopReturn(c)
  BY <1>1, <1>12 DEF StopReturn
<1>13. ASSUME NEW r \in Runs, StopCancel(c, r) PROVE Apart'
  <2> DEFINE left == [call[c] EXCEPT !.runs = call[c].runs \ {r}]
             done == [call[c] EXCEPT !.runs = call[c].runs \ {r}, !.pc = "release", !.run = r, !.key = KeyOf(r)]
  <2>1. turnOf' = turnOf /\ loose' = loose /\ call[c].pc = "cancel"
    BY <1>13 DEF StopCancel
  <2>2. /\ left.pc = call[c].pc /\ left.run = call[c].run
        /\ done.pc = "release" /\ done.run = r
    BY <1>0 DEF CallStates
  <2>3. \/ run' = run /\ call' = [call EXCEPT ![c] = left]
        \/ run[r] = "live" /\ run' = [run EXCEPT ![r] = "ended"] /\ call' = [call EXCEPT ![c] = done]
    BY <1>13 DEF StopCancel
  <2> HIDE DEF left, done
  <2>4. left.pc \notin Claiming \cup {"release"}
    BY <2>1, <2>2 DEF Claiming, Inner
  <2>5. ASSUME run[r] = "live", run' = [run EXCEPT ![r] = "ended"], call' = [call EXCEPT ![c] = done]
        PROVE  Apart'
    BY <1>0, <2>1, <2>2, <2>5, ApartEnd
  <2> QED
    BY <1>2, <2>1, <2>2, <2>3, <2>4, <2>5 DEF rows
<1>14. ASSUME NEW r \in Runs, BootRestore(c, r) PROVE Apart'
  <2> DEFINE rec == [call[c] EXCEPT !.runs = call[c].runs \ {r}]
  <2>1. rows' = rows /\ call[c].pc = "restore" /\ (Return(c) \/ call' = [call EXCEPT ![c] = rec])
    BY <1>14 DEF BootRestore, Return
  <2>2. rec.pc = call[c].pc /\ rec.run = call[c].run
    BY <1>0 DEF CallStates
  <2> HIDE DEF rec
  <2>3. rec.pc \notin Claiming \cup {"release"}
    BY <2>1, <2>2 DEF Claiming, Inner
  <2> QED
    BY <1>1, <1>2, <2>1, <2>2, <2>3
<1>15. ASSUME NEW ok \in BOOLEAN, NEW applied \in BOOLEAN, ClaimTurn(c, ok, applied) \/ HealSlot(c, ok, applied) PROVE Apart'
  BY <1>0, <1>15, StartRunApart
<1>16. ASSUME NEW ok \in BOOLEAN, ReadHolder(c, ok) \/ CheckHolder(c, ok) \/ CreateRun(c, ok) PROVE Apart'
  BY <1>0, <1>16, StartRunApart
<1> QED
  BY <1>4, <1>5, <1>6, <1>7, <1>8, <1>9, <1>10, <1>11, <1>12, <1>13, <1>14, <1>15, <1>16 DEF Continue

\* Nothing else brings them together.
LEMMA NextApart == Typed /\ Apart /\ [Next]_vars => Apart'
<1> SUFFICES ASSUME Typed, Apart, [Next]_vars PROVE Apart'
  OBVIOUS
<1>0. call \in [Calls -> CallStates] /\ slot \in [Keys -> Runs \cup {NoRun}]
  BY DEF Typed, TypeOK
<1>1. ASSUME NEW c \in Calls, slot' = slot PROVE SlotMoves(c)
  BY <1>1 DEF SlotMoves
<1>2. ASSUME NEW c \in Calls, Crash(c) PROVE Apart'
  BY <1>1, <1>2, ApartReturn DEF Crash, rows, shared
<1>3. ASSUME NEW c \in Calls, NEW t \in Turns, Post(c, t) PROVE Apart'
  BY <1>1, <1>3, ApartStarting DEF Post, rows, shared
<1>4. ASSUME NEW c \in Calls, NEW r \in Runs, EndRun(c, r) PROVE Apart'
  <2> DEFINE rec == [Idle EXCEPT !.op = "end", !.pc = "release", !.key = KeyOf(r), !.run = r]
  <2>1. rec.pc = "release" /\ rec.run = r
    BY DEF Idle
  <2>2. /\ run[r] = "live" /\ run' = [run EXCEPT ![r] = "ended"] /\ call' = [call EXCEPT ![c] = rec]
        /\ turnOf' = turnOf /\ loose' = loose /\ slot' = slot
    BY <1>4 DEF EndRun, shared
  <2> HIDE DEF rec
  <2> QED
    BY <1>1, <2>1, <2>2, ApartEnd
<1>5. ASSUME NEW c \in Calls, StopRead(c) \/ BootRead(c) PROVE Apart'
  <2> DEFINE stop == [Idle EXCEPT !.op = "stop", !.pc = "drop", !.keys = index, !.before = posted]
             boot == [Idle EXCEPT !.op = "boot", !.pc = "restore", !.runs = LiveRuns]
  <2>1. stop.pc = "drop" /\ stop.run = NoRun /\ boot.pc = "restore" /\ boot.run = NoRun
    BY DEF Idle
  <2>2. /\ call' = [call EXCEPT ![c] = stop] \/ call' = [call EXCEPT ![c] = boot]
        /\ run' = run /\ turnOf' = turnOf /\ loose' = loose /\ slot' = slot
    BY <1>5 DEF StopRead, BootRead, rows, shared
  <2> HIDE DEF stop, boot
  <2>3. stop.pc \notin Claiming \cup {"release"} /\ boot.pc \notin Claiming \cup {"release"}
    BY <2>1 DEF Claiming, Inner
  <2> QED
    BY <1>1, <2>1, <2>2, <2>3, ApartOutside
<1>6. ASSUME NEW k \in Keys, Expire(k) PROVE Apart'
  BY <1>6 DEF Expire, Apart, IdInv, SlotInv, KeyOf, rows
<1>7. ASSUME NEW k \in Keys, ExpireSlot(k) PROVE Apart'
  <2>1. /\ run' = run /\ turnOf' = turnOf /\ call' = call /\ loose' = loose \cup {slot[k]}
        /\ \A l \in Keys: slot'[l] = slot[l] \/ slot[l] \in loose'
    BY <1>0, <1>7 DEF ExpireSlot
  <2>2. IdInv'
    BY <2>1 DEF Apart, IdInv
  <2>3. ASSUME NEW r \in Runs, run[r] = "live", r \notin loose' PROVE slot'[KeyOf(r)] = r
    BY <2>1, <2>3, KeyFact DEF Apart, SlotInv
  <2>4. ASSUME NEW c \in Calls, call[c].pc = "create", call[c].run \notin loose' PROVE slot'[call[c].key] = call[c].run
    <3>1. call[c].key \in Keys
      BY <2>4, Constants DEF Typed, Placed, Claiming, Inner
    <3> QED
      BY <2>1, <2>4, <3>1 DEF Apart, SlotInv
  <2> QED
    BY <2>1, <2>2, <2>3, <2>4 DEF Apart, SlotInv, KeyOf
<1>8. CASE UNCHANGED vars
  BY <1>8 DEF vars, rows, shared, Apart, IdInv, SlotInv, KeyOf
<1> QED
  BY <1>2, <1>3, <1>4, <1>5, <1>6, <1>7, <1>8, ContinueApart DEF Next, Arrive

LEMMA InitApart == Init => Apart
  BY DEF Init, Idle, Apart, IdInv, SlotInv, Claiming, Inner

\* Whatever the interleaving, whatever fails, dies, is stopped, restarts or runs out: a run
\* that holds its slot loses it to nobody while it lives, but to a heal that was told the run is
\* not there, or to time.
THEOREM SlotIsKept == Spec => LiveKeepsSlot
<1>1. ASSUME Typed, Apart, [Next]_vars, NEW k \in Keys,
             slot[k] \in LiveRuns, slot[k] \in LiveRuns', slot'[k] # slot[k]
      PROVE  \/ \E c \in Calls: call[c].pc = "heal" /\ call[c].key = k /\ call[c].held = slot[k] /\ call[c].blind
             \/ Expiry /\ slot'[k] = NoRun /\ UNCHANGED call
  <2>1. slot[k] # NoRun /\ run[slot[k]] = "live" /\ slot \in [Keys -> Runs \cup {NoRun}]
    BY <1>1 DEF LiveRuns, Runs, NoRun, Typed, TypeOK
  <2>2. ASSUME NEW c \in Calls, Continue(c)
        PROVE  call[c].pc = "heal" /\ call[c].key = k /\ call[c].held = slot[k] /\ call[c].blind
    BY <1>1, <2>1, <2>2, ContinueMoves DEF SlotMoves, Apart, IdInv
  <2>3. ASSUME NEW c \in Calls, Crash(c) \/ Arrive(c) PROVE FALSE
    BY <1>1, <2>3 DEF Crash, Arrive, Post, EndRun, StopRead, BootRead, shared
  <2>4. ASSUME NEW l \in Keys, Expire(l) PROVE FALSE
    BY <1>1, <2>4 DEF Expire
  <2>5. ASSUME NEW l \in Keys, ExpireSlot(l) PROVE Expiry /\ slot'[k] = NoRun /\ UNCHANGED call
    BY <1>1, <2>1, <2>5 DEF ExpireSlot
  <2>6. CASE UNCHANGED vars
    BY <1>1, <2>6 DEF vars, shared
  <2> QED
    BY <1>1, <2>2, <2>3, <2>4, <2>5, <2>6 DEF Next
<1>2. Typed /\ Apart /\ [Next]_vars
        => [\A k \in Keys: slot[k] \in LiveRuns /\ slot[k] \in LiveRuns' /\ slot'[k] # slot[k] =>
              \/ \E c \in Calls: call[c].pc = "heal" /\ call[c].key = k /\ call[c].held = slot[k] /\ call[c].blind
              \/ Expiry /\ slot'[k] = NoRun /\ UNCHANGED call]_vars
  BY <1>1
<1> QED
  BY <1>2, InitTyped, NextTyped, InitApart, NextApart, PTL DEF Spec, LiveKeepsSlot

\* Nor are two runs of one key live together, unless one of them is beside its slot.
THEOREM OneRunPerKey == Spec => []OneLiveRun
<1>1. Apart => OneLiveRun
  BY DEF Apart, SlotInv, OneLiveRun, LiveRuns
<1> QED
  BY <1>1, InitTyped, NextTyped, InitApart, NextApart, PTL DEF Spec
=============================================================================
