------------------------- MODULE RunLifecycleProofs --------------------------
(***************************************************************************)
(* Machine-checked facts about RunLifecycle, for every value of its        *)
(* constants: any number of concurrent calls and runners, any clock.       *)
(***************************************************************************)
EXTENDS RunLifecycle, FiniteSetTheorems, TLAPS

-----------------------------------------------------------------------------
(* Type correctness *)

\* The empty row and the idle call are of their types.
LEMMA IdleType == NoRow \in Rows /\ Idle \in CallStates
  BY DEF NoRow, Idle, Rows, CallStates, Ops, Pcs, States

\* Each of the three ways a handler moves a call keeps the calls' type.
LEMMA EnterType ==
  ASSUME TypeOK, NEW c \in Calls, NEW op \in Ops, NEW pc \in Pcs, Enter(c, op, pc)
  PROVE  call' \in [Calls -> CallStates]
  BY IdleType DEF TypeOK, Enter, Idle, CallStates

\* A handler that goes on with a copy of the row keeps the type.
LEMMA GotoType ==
  ASSUME TypeOK, NEW c \in Calls, NEW pc \in Pcs, NEW copy \in Rows, Goto(c, pc, copy)
  PROVE  call' \in [Calls -> CallStates]
  BY DEF TypeOK, Goto, CallStates

\* And so does one that returns.
LEMMA ReturnType ==
  ASSUME TypeOK, NEW c \in Calls, Return(c)
  PROVE  call' \in [Calls -> CallStates]
  BY IdleType DEF TypeOK, Return

\* What a batch writes is a row.
LEMMA SpentType ==
  ASSUME TypeOK, NEW b \in CallStates
  PROVE  Spent(b) \in Rows /\ Ledger(b) \in Rows
<1>1. Fresh(b) \in Nat /\ Max2(b.copy.seq, b.to) \in Nat
  BY DEF Fresh, Max2, CallStates, Rows
<1>2. ASSUME NEW d \in Nat PROVE Extension(b, d) \in Nat
  BY ConstantsAssumption DEF Extension, Min2, CallStates, Rows, ConstantsAssumption
<1>3. row.turns + Fresh(b) \in Nat /\ b.at + LeaseTTL \in Nat /\ row.deadline \in Nat
  BY <1>1, ConstantsAssumption DEF TypeOK, CallStates, Rows, ConstantsAssumption
<1>4. "running" \in States
  BY DEF States, LiveStates
<1>5. Spent(b) \in Rows
  BY <1>1, <1>2, <1>3, <1>4 DEF TypeOK, Spent, Rows
<1>6. b.copy.state \in States
  BY DEF CallStates, Rows
<1> QED
  BY <1>4, <1>5, <1>6 DEF Ledger, Rows

\* The actions that only read the store and open a call.
LEMMA ReadType ==
  ASSUME TypeOK, ReadOnly, call' \in [Calls -> CallStates]
  PROVE  TypeOK'
  BY DEF TypeOK, ReadOnly, store, runner, posts, told

\* Every variable keeps its type: rows, copies and calls stay well formed, and no
\* counter or clock of the model ever becomes negative.
THEOREM TypeCorrect == Spec => []TypeOK
<1>1. Init => TypeOK
  <2> SUFFICES ASSUME Init PROVE TypeOK
    OBVIOUS
  <2>1. now \in Nat /\ row \in Rows /\ queueRow \in BOOLEAN /\ call \in [Calls -> CallStates]
    BY IdleType DEF Init
  <2> QED
    BY <2>1 DEF Init, TypeOK
<1>2. TypeOK /\ [Next]_vars => TypeOK'
  <2> SUFFICES ASSUME TypeOK, [Next]_vars PROVE TypeOK'
    OBVIOUS
  <2>0. CASE UNCHANGED vars
    BY <2>0 DEF TypeOK, vars, store, runner, posts, told
  <2>1. ASSUME NEW c \in Calls, Arrive(c) PROVE TypeOK'
    <3>1. ASSUME NEW offline \in Policies, Create(c, offline) PROVE TypeOK'
      <4>1. row' \in Rows
        <5>1. now + ClaimWindow \in Nat
          BY ConstantsAssumption DEF TypeOK, ConstantsAssumption
        <5> QED BY <3>1, <5>1, IdleType DEF Create, Rows, States, LiveStates
      <4>2. call' \in [Calls -> CallStates]
        <5>1. [Idle EXCEPT !.op = "offline", !.pc = "extend", !.copy = row'] \in CallStates
          BY <4>1, IdleType DEF CallStates, Ops, Pcs
        <5> QED BY <3>1, <5>1 DEF Create, TypeOK
      <4> QED
        BY <3>1, <4>1, <4>2 DEF TypeOK, Create, runner, posts, told
    <3>2. ASSUME NEW r \in Runners, ClaimRead(c, r) PROVE TypeOK'
      <4>1. [Idle EXCEPT !.op = "claim", !.pc = "claim", !.copy = row, !.who = r] \in CallStates
        BY IdleType DEF TypeOK, CallStates, Ops, Pcs
      <4> QED BY <3>2, <4>1, ReadType DEF ClaimRead, TypeOK
    <3>3. ASSUME NEW r \in Runners, HeartbeatRead(c, r) PROVE TypeOK'
      <4>1. [Idle EXCEPT !.op = "heartbeat", !.pc = "renew", !.who = r, !.at = now] \in CallStates
        BY IdleType DEF TypeOK, CallStates, Ops, Pcs
      <4> QED BY <3>3, <4>1, ReadType DEF HeartbeatRead, TypeOK
    <3>4. ASSUME NEW r \in Runners, PostRead(c, r) PROVE TypeOK'
      <4>1. [Idle EXCEPT !.op = "post", !.pc = "send"] \in CallStates
        BY IdleType DEF CallStates, Ops, Pcs
      <4> QED BY <3>4, <4>1, ReadType DEF PostRead, TypeOK
    <3>5. ASSUME NEW r \in Runners, NEW to \in 0..MaxTurns, NEW begun \in BOOLEAN, ReportRead(c, r, to, begun)
          PROVE TypeOK'
      <4>1. [op |-> "report", pc |-> "spend", copy |-> row, who |-> r, at |-> now,
             from |-> acked, to |-> to, begun |-> begun] \in CallStates
        BY DEF TypeOK, CallStates, Ops, Pcs
      <4> QED BY <3>5, <4>1, ReadType DEF ReportRead, TypeOK
    <3>6. ASSUME NEW op \in Ops, Enter(c, op, "end"), ReadOnly PROVE TypeOK'
      BY <3>6, EnterType, ReadType DEF Pcs
    <3> QED
      BY <2>1, <3>1, <3>2, <3>3, <3>4, <3>5, <3>6
      DEF Arrive, CompleteRead, FailRead, CancelRead, LeaseTimerRead, Ops
  <2>2. ASSUME NEW c \in Calls, Continue(c) PROVE TypeOK'
    <3> DEFINE copy == call[c].copy
    <3>0. call[c] \in CallStates /\ copy \in Rows
      BY DEF TypeOK, CallStates
    <3>1. ASSUME NEW ok \in BOOLEAN, ExtendOffline(c, ok) PROVE TypeOK'
      <4>1. now + OfflineTTL \in Nat
        BY ConstantsAssumption DEF TypeOK, ConstantsAssumption
      <4>2. [copy EXCEPT !.deadline = now + OfflineTTL] \in Rows
        BY <3>0, <4>1 DEF Rows
      <4> QED
        BY <3>0, <3>1, <4>1, <4>2, ReturnType DEF TypeOK, ExtendOffline, FaultUnless, Rows, runner, posts
    <3>2. ASSUME NEW ok \in BOOLEAN, ClaimRebase(c, ok) PROVE TypeOK'
      <4>1. Rebased(copy) \in Rows
        <5>1. now + HardWindow \in Nat /\ Min2(now + ClaimWindow, now + HardWindow) \in Nat
          BY ConstantsAssumption DEF TypeOK, Min2, ConstantsAssumption
        <5> QED BY <3>0, <5>1 DEF Rebased, Rows
      <4>2. Goto(c, "mint", Rebased(copy)) => call' \in [Calls -> CallStates]
        BY <4>1, GotoType DEF Pcs
      <4> QED
        BY <3>2, <4>1, <4>2, ReturnType DEF TypeOK, ClaimRebase, FaultUnless, runner, posts, told
    <3>3. ASSUME NEW ok \in BOOLEAN, ClaimAssign(c, ok) PROVE TypeOK'
      <4>1. call[c].who \in Runners \cup {NoRunner}
        BY <3>0 DEF CallStates
      <4> QED
        BY <3>3, <4>1, ReturnType DEF TypeOK, ClaimAssign, FaultUnless, store, posts, told
    <3>4. ASSUME NEW ok \in BOOLEAN, ReportSpend(c, ok) PROVE TypeOK'
      <4>1. call' \in [Calls -> CallStates]
        <5>1. [Idle EXCEPT !.op = "limit", !.pc = "end", !.copy = Ledger(call[c])] \in CallStates
          BY <3>0, SpentType, IdleType DEF CallStates, Ops, Pcs
        <5> QED BY <3>4, <5>1, ReturnType DEF ReportSpend, TypeOK
      <4>2. row' \in Rows /\ acked' \in Nat
        BY <3>0, <3>4, SpentType DEF ReportSpend, Confirmed, TypeOK, CallStates
      <4> QED
        BY <3>4, <4>1, <4>2 DEF TypeOK, ReportSpend, FaultUnless, posts, told
    <3>5. CASE ClaimStaleEntry(c)
      BY <3>5, ReturnType DEF TypeOK, ClaimStaleEntry, runner, posts, told
    <3>6. CASE ClaimTake(c)
      <4> DEFINE claimed == [copy EXCEPT !.state = "acknowledged", !.runner = call[c].who, !.lease = now + LeaseTTL]
      <4>1. claimed \in Rows
        <5>1. now + LeaseTTL \in Nat
          BY ConstantsAssumption DEF TypeOK, ConstantsAssumption
        <5>2. "acknowledged" \in States /\ call[c].who \in Runners \cup {NoRunner}
          BY <3>0 DEF States, LiveStates, CallStates
        <5> QED BY <3>0, <5>1, <5>2 DEF Rows
      <4>2. Goto(c, "rebase", claimed) => call' \in [Calls -> CallStates]
        BY <4>1, GotoType DEF Pcs
      <4> QED
        BY <3>6, <4>1, <4>2, ReturnType DEF TypeOK, ClaimTake, runner, posts, told, store
    <3>7. CASE ClaimMintFails(c)
      <4>1. call' \in [Calls -> CallStates]
        <5>1. [call[c] EXCEPT !.op = "fail", !.pc = "end"] \in CallStates
          BY <3>0 DEF CallStates, Ops, Pcs
        <5>2. call' = [call EXCEPT ![c] = [call[c] EXCEPT !.op = "fail", !.pc = "end"]]
          BY <3>7 DEF ClaimMintFails
        <5> QED BY <5>1, <5>2 DEF TypeOK
      <4> QED BY <3>7, <4>1, ReadType DEF ClaimMintFails
    <3>8. CASE HeartbeatRenew(c)
      <4>1. call[c].at + LeaseTTL \in Nat
        BY <3>0, ConstantsAssumption DEF CallStates, ConstantsAssumption
      <4>2. row' \in Rows
        BY <3>8, <4>1 DEF TypeOK, HeartbeatRenew, Rows
      <4> QED
        BY <3>8, <4>2, ReturnType DEF TypeOK, HeartbeatRenew, runner, posts, told
    <3>9. CASE PostSend(c)
      <4>1. call' \in [Calls -> CallStates]
        BY <3>9, GotoType, IdleType DEF PostSend, Pcs
      <4> QED BY <3>9, <4>1 DEF TypeOK, PostSend, store, runner, told
    <3>10. ASSUME NEW ok \in BOOLEAN, PostCount(c, ok) PROVE TypeOK'
      BY <3>10, ReturnType DEF TypeOK, PostCount, FaultUnless, Rows, runner, told
    <3>11. CASE EndWrite(c)
      <4> DEFINE ended == [copy EXCEPT !.state = Ending(call[c].op)]
      <4>1. Ending(call[c].op) \in States
        BY DEF Ending, States, TerminalStates
      <4>2. ended \in Rows /\ Outcome(ended) \in Rows
        BY <3>0, <4>1, IdleType DEF Rows, Outcome
      <4>3. ASSUME NEW pc \in Pcs, Goto(c, pc, Outcome(ended)) PROVE call' \in [Calls -> CallStates]
        BY <4>2, <4>3, GotoType
      <4>4. call' \in [Calls -> CallStates]
        BY <3>11, <4>3, ReturnType DEF EndWrite, Pcs
      <4> QED BY <3>11, <4>2, <4>4 DEF TypeOK, EndWrite, runner, posts
    <3>12. CASE EndDequeue(c)
      <4>1. call' \in [Calls -> CallStates]
        BY <3>0, <3>12, GotoType DEF EndDequeue, Pcs
      <4> QED BY <3>12, <4>1 DEF TypeOK, EndDequeue, runner, posts, told
    <3>13. CASE EndFinish(c)
      <4>1. call' \in [Calls -> CallStates]
        BY <3>13, ReturnType DEF EndFinish
      <4>2. copy.state \in States
        BY <3>0 DEF Rows
      <4>3. announced' \subseteq States
        BY <3>13, <4>2 DEF EndFinish, TypeOK
      <4>4. limitSaid' \in BOOLEAN /\ answered' \in BOOLEAN
        BY <3>13 DEF EndFinish, TypeOK
      <4> QED
        BY <3>13, <4>1, <4>3, <4>4 DEF TypeOK, EndFinish, store, runner, posts
    <3> QED
      BY <2>2, <3>1, <3>2, <3>3, <3>4, <3>5, <3>6, <3>7, <3>8, <3>9, <3>10, <3>11, <3>12, <3>13 DEF Continue
  <2>3. ASSUME NEW c \in Calls, Crash(c) PROVE TypeOK'
    BY <2>3, ReturnType DEF TypeOK, Crash, FaultUnless, store, runner, posts, told
  <2>4. CASE SweepLeasesRead \/ SweepDeadlinesRead
    BY <2>4, EnterType, ReadType, ConstantsAssumption
    DEF SweepLeasesRead, SweepDeadlinesRead, ConstantsAssumption, Ops, Pcs
  <2>5. CASE Tick
    BY <2>5 DEF TypeOK, Tick, store, runner, posts, told
  <2> QED BY <2>0, <2>1, <2>2, <2>3, <2>4, <2>5 DEF Next
<1> QED BY <1>1, <1>2, PTL DEF Spec
-----------------------------------------------------------------------------
(* The ladder.  Whatever its caller last read, an action moves the row along   *)
(* the ladder or leaves its state and runner alone.                            *)

Entered == row.state = "none" /\ row'.state = "queued" /\ row'.runner = NoRunner
Kept    == row'.state = row.state /\ row'.runner = row.runner /\ (Terminal(row.state) => row' = row)
Taken   == row.state = "queued" /\ row'.state = "acknowledged" /\ row'.runner \in Runners
Started == row.state = "acknowledged" /\ row'.state = "running" /\ row'.runner = row.runner
Ended   == Live(row.state) /\ Terminal(row'.state) /\ row'.runner = row.runner

Climbs == Entered \/ Kept \/ Taken \/ Started \/ Ended

\* The queue row is there for as long as the run is queued.
QueueKept == /\ row'.state = "none" => ~queueRow'
             /\ row'.state = "queued" => queueRow'

\* An action changes its own call only.
OthersIdle(c) == \A d \in Calls \ {c}: call'[d] = call[d]

\* Return changes the call it is given.
LEMMA ReturnMoves ==
  ASSUME TypeOK, NEW c \in Calls, Return(c)
  PROVE  OthersIdle(c) /\ call'[c] = Idle
  BY DEF TypeOK, Return, OthersIdle

\* An idle call knows nothing, so nothing it knows can be wrong.
LEMMA IdleSound == CallSound(Idle) /\ CallSound(Idle)'
  BY DEF CallSound, Idle

\* A run that is past the queue stays past it, with its runner.
LEMMA PastStays ==
  ASSUME Climbs, Past
  PROVE  Past' /\ row'.runner = row.runner
  BY DEF Climbs, Entered, Kept, Taken, Started, Ended, Past, Live, LiveStates, Terminal, TerminalStates

\* What a call knows of the row outlives every step of the others: that is why a
\* handler may act on an old copy.
LEMMA OvertakenSound ==
  ASSUME Climbs, NEW d \in Calls, CallSound(call[d]), call'[d] = call[d]
  PROVE  CallSound(call[d])'
<1> DEFINE k == call[d]
<1>1. ASSUME CopySound(k.copy) PROVE CopySound(k.copy)'
  BY <1>1, PastStays DEF CopySound
<1>2. Terminal(row.state) => row'.state = row.state
  BY DEF Climbs, Entered, Kept, Taken, Started, Ended, Live, LiveStates, Terminal, TerminalStates
<1>3. k.pc = "spend" => row'.runner = k.who /\ Past'
  BY PastStays DEF CallSound
<1>4. k.pc \in {"dequeue", "finish"} /\ k.op # "limit" => k.copy.state = row'.state /\ Terminal(row'.state)
  BY <1>2 DEF CallSound
<1> QED
  BY <1>1, <1>3, <1>4 DEF CallSound

\* Announcements and hand-outs stay true when the row climbs.
LEMMA ToldStays ==
  ASSUME ToldSound, Climbs, UNCHANGED <<assigned, announced>>
  PROVE  ToldSound'
<1>1. Terminal(row.state) => row'.state = row.state
  BY DEF Climbs, Entered, Kept, Taken, Started, Ended, Live, LiveStates, Terminal, TerminalStates
<1>2. Past => Past' /\ row'.runner = row.runner
  BY PastStays
<1>3. assigned' \subseteq {row'.runner} /\ (assigned' # {} => Past')
  BY <1>2 DEF ToldSound
<1>4. announced' \subseteq {row'.state} /\ (announced' # {} => Terminal(row'.state))
  BY <1>1 DEF ToldSound
<1> QED
  BY <1>3, <1>4 DEF ToldSound

\* All that a step of call c owes to the invariant.
SoundStep(c) == Climbs /\ QueueKept /\ OthersIdle(c) /\ CallSound(call[c])' /\ ToldSound'

\* A sound step climbs and keeps the invariant.
LEMMA SoundStepKeeps ==
  ASSUME RaceInv, NEW c \in Calls, SoundStep(c)
  PROVE  Climbs /\ RaceInv'
<1>1. RowSound'
  BY DEF RaceInv, RowSound, SoundStep, QueueKept, Climbs, Entered, Kept, Taken, Started, Ended,
         Live, LiveStates, Terminal, TerminalStates
<1>2. ASSUME NEW d \in Calls \ {c} PROVE CallSound(call[d])'
  BY OvertakenSound DEF RaceInv, SoundStep, OthersIdle
<1> QED
  BY <1>1, <1>2 DEF RaceInv, SoundStep

\* The actions that only read the store: what is left to show is what the call knows.
LEMMA ReadKeeps ==
  ASSUME RaceInv, NEW c \in Calls, ReadOnly, OthersIdle(c), CallSound(call[c])'
  PROVE  Climbs /\ RaceInv'
<1>1. Climbs /\ QueueKept
  BY DEF RaceInv, RowSound, ReadOnly, store, Climbs, Kept, QueueKept
<1>2. ToldSound'
  BY <1>1, ToldStays DEF RaceInv, ReadOnly, runner, told
<1> QED
  BY <1>1, <1>2, SoundStepKeeps DEF SoundStep

\* A request that arrives knows what it has just read.
LEMMA ArriveKeeps ==
  ASSUME TypeOK, RaceInv, NEW c \in Calls, Arrive(c)
  PROVE  Climbs /\ RaceInv'
<1> USE DEF RaceInv
<1>0. call \in [Calls -> CallStates]
  BY DEF TypeOK
<1>1. ASSUME NEW offline \in Policies, Create(c, offline) PROVE Climbs /\ RaceInv'
  <2>1. Climbs /\ QueueKept /\ row'.state = "queued" /\ row'.runner = NoRunner
    BY <1>1 DEF Create, Climbs, Entered, QueueKept, NoRow
  <2>2. ToldSound'
    BY <1>1, <2>1, ToldStays DEF Create, runner, told
  <2>3. OthersIdle(c) /\ CallSound(call[c])'
    BY <1>0, <1>1, <2>1, IdleSound, ZenonT(30) DEF Create, Free, OthersIdle, CallSound, Idle
  <2> QED BY <2>1, <2>2, <2>3, SoundStepKeeps DEF SoundStep
<1>2. ASSUME NEW r \in Runners, ClaimRead(c, r) PROVE Climbs /\ RaceInv'
  <2>1. CopySound(row)
    BY <1>2 DEF ClaimRead, RowSound, CopySound, Past
  <2>2. OthersIdle(c) /\ CallSound(call[c])'
    BY <1>0, <1>2, <2>1 DEF ClaimRead, ReadOnly, store, OthersIdle, CallSound, CopySound, Past, Idle
  <2> QED BY <1>2, <2>2, ReadKeeps DEF ClaimRead
<1>3. ASSUME NEW r \in Runners, HeartbeatRead(c, r) PROVE Climbs /\ RaceInv'
  <2>1. OthersIdle(c) /\ CallSound(call[c])'
    BY <1>0, <1>3 DEF HeartbeatRead, OthersIdle, CallSound, Idle
  <2> QED BY <1>3, <2>1, ReadKeeps DEF HeartbeatRead
<1>4. ASSUME NEW r \in Runners, PostRead(c, r) PROVE Climbs /\ RaceInv'
  <2>1. OthersIdle(c) /\ CallSound(call[c])'
    BY <1>0, <1>4 DEF PostRead, OthersIdle, CallSound, Idle
  <2> QED BY <1>4, <2>1, ReadKeeps DEF PostRead
<1>5. ASSUME NEW r \in Runners, RunForRunner(r)
      PROVE  row.state \in {"acknowledged", "running"} /\ row.runner = r /\ Past
  BY <1>5, ConstantsAssumption DEF RunForRunner, RowSound, Live, LiveStates, Past, ConstantsAssumption
<1>6. ASSUME NEW r \in Runners, NEW to, NEW begun, ReportRead(c, r, to, begun) PROVE Climbs /\ RaceInv'
  <2>1. row.state \in {"acknowledged", "running"} /\ row.runner = r /\ Past
    BY <1>5, <1>6 DEF ReportRead
  <2>2. OthersIdle(c) /\ CallSound(call[c])'
    BY <1>0, <1>6, <2>1 DEF ReportRead, ReadOnly, store, OthersIdle, CallSound, Past
  <2> QED BY <1>6, <2>2, ReadKeeps DEF ReportRead
<1>7. ASSUME NEW op, op # "limit", Enter(c, op, "end"), ReadOnly, Live(row.state) PROVE Climbs /\ RaceInv'
  <2>1. CopySound(row)
    BY <1>7 DEF RowSound, CopySound, Live, LiveStates, Past
  <2>2. OthersIdle(c) /\ call'[c] = [Idle EXCEPT !.op = op, !.pc = "end", !.copy = row]
    BY <1>0, <1>7 DEF Enter, Free, OthersIdle
  <2>3. CallSound(call[c])'
    BY <1>7, <2>1, <2>2 DEF ReadOnly, store, CallSound, CopySound, Past, Idle
  <2> QED BY <1>7, <2>2, <2>3, ReadKeeps
<1> QED
  BY <1>1, <1>2, <1>3, <1>4, <1>5, <1>6, <1>7
  DEF Arrive, CompleteRead, FailRead, CancelRead, LeaseTimerRead, RunForRunner, Live, LiveStates

\* A call that returns has nothing left to know.
LEMMA ReturnKeeps ==
  ASSUME TypeOK, RaceInv, NEW c \in Calls, Climbs, QueueKept, ToldSound', Return(c)
  PROVE  Climbs /\ RaceInv'
<1>1. OthersIdle(c) /\ call'[c] = Idle
  BY ReturnMoves
<1>2. CallSound(call[c])'
  BY <1>1, IdleSound
<1> QED
  BY <1>1, <1>2, SoundStepKeeps DEF SoundStep

\* A row that is not written is a step of the ladder too.
LEMMA RowKept ==
  ASSUME RaceInv, UNCHANGED row, queueRow' = queueRow \/ Past
  PROVE  Climbs /\ QueueKept
  BY DEF RaceInv, RowSound, Climbs, Kept, QueueKept, Past

\* The whole-row writes: under Unmoved, a copy that agrees with the row is one step up
\* the ladder from it.
LEMMA ExtendOfflineKeeps ==
  ASSUME TypeOK, RaceInv, NEW c \in Calls, NEW ok \in BOOLEAN, ExtendOffline(c, ok)
  PROVE  Climbs /\ RaceInv'
<1>1. CallSound(call[c]) /\ call[c] \in CallStates /\ RowSound
  BY DEF RaceInv, TypeOK
<1>2. Climbs /\ QueueKept
  BY <1>1 DEF ExtendOffline, Unmoved, CallSound, RowSound, CallStates, Rows, Climbs, Kept, QueueKept,
              Terminal, TerminalStates
<1>3. ToldSound'
  BY <1>2, ToldStays DEF RaceInv, ExtendOffline, runner
<1> QED
  BY <1>2, <1>3, ReturnKeeps DEF ExtendOffline

\* A claim that meets a run past the queue only drops the stale queue entry.
LEMMA ClaimStaleEntryKeeps ==
  ASSUME TypeOK, RaceInv, NEW c \in Calls, ClaimStaleEntry(c)
  PROVE  Climbs /\ RaceInv'
<1>1. Past
  BY DEF RaceInv, CallSound, CopySound, ClaimStaleEntry
<1>2. Climbs /\ QueueKept
  BY <1>1, RowKept DEF ClaimStaleEntry
<1>3. ToldSound'
  BY <1>2, ToldStays DEF RaceInv, ClaimStaleEntry, runner, told
<1> QED
  BY <1>2, <1>3, ReturnKeeps DEF ClaimStaleEntry

\* The claim: under Unmoved the run was queued and ownerless, and gets this runner.
LEMMA ClaimTakeKeeps ==
  ASSUME TypeOK, RaceInv, NEW c \in Calls, ClaimTake(c)
  PROVE  Climbs /\ RaceInv'
<1> DEFINE k == call[c]
           claimed == [k.copy EXCEPT !.state = "acknowledged", !.runner = k.who, !.lease = now + LeaseTTL]
<1>1. k \in CallStates /\ CallSound(k) /\ k.who \in Runners /\ k.copy \in Rows
  BY DEF RaceInv, TypeOK, ClaimTake, CallSound, CallStates
<1>2. claimed.state = "acknowledged" /\ claimed.runner = k.who
  BY <1>1 DEF Rows
<1>3. CASE Unmoved("queued")
  <2>1. row' = claimed /\ queueRow' = FALSE /\ Goto(c, "rebase", claimed)
    BY <1>3 DEF ClaimTake
  <2>2. Climbs /\ QueueKept
    BY <1>1, <1>2, <1>3, <2>1 DEF Unmoved, Climbs, Taken, QueueKept
  <2>3. ToldSound'
    BY <2>2, ToldStays DEF RaceInv, ClaimTake, runner, told
  <2>4. OthersIdle(c) /\ call'[c] = [k EXCEPT !.pc = "rebase", !.copy = claimed]
    BY <2>1 DEF Goto, TypeOK, OthersIdle, CallStates
  <2>5. CallSound(call[c])'
    BY <1>1, <1>2, <2>1, <2>4 DEF CallSound, CopySound, Past, CallStates
  <2> QED
    BY <2>2, <2>3, <2>4, <2>5, SoundStepKeeps DEF SoundStep
<1>4. CASE ~Unmoved("queued")
  <2>1. UNCHANGED store /\ Return(c)
    BY <1>4 DEF ClaimTake
  <2>2. Climbs /\ QueueKept
    BY <2>1, RowKept DEF store
  <2>3. ToldSound'
    BY <2>2, ToldStays DEF RaceInv, ClaimTake, runner, told
  <2> QED
    BY <2>1, <2>2, <2>3, ReturnKeeps
<1> QED
  BY <1>3, <1>4

\* The rebase writes the copy the claim wrote, with other deadlines.
LEMMA ClaimRebaseKeeps ==
  ASSUME TypeOK, RaceInv, NEW c \in Calls, NEW ok \in BOOLEAN, ClaimRebase(c, ok)
  PROVE  Climbs /\ RaceInv'
<1> DEFINE k == call[c]
           copy == Rebased(k.copy)
<1>1. k \in CallStates /\ CallSound(k) /\ k.copy \in Rows /\ k.pc = "rebase"
  BY DEF RaceInv, TypeOK, ClaimRebase, CallStates
<1>2. copy.state = "acknowledged" /\ copy.runner = k.who /\ row.runner = k.who /\ Past
  BY <1>1 DEF CallSound, CopySound, Rebased, Rows
<1>3. Climbs /\ QueueKept
  <2>1. CASE row' = copy /\ Unmoved("acknowledged") /\ UNCHANGED queueRow
    BY <1>2, <2>1 DEF Unmoved, Climbs, Kept, QueueKept, Terminal, TerminalStates
  <2>2. CASE UNCHANGED row /\ UNCHANGED queueRow
    BY <2>2, RowKept
  <2> QED BY <2>1, <2>2 DEF ClaimRebase
<1>4. ToldSound'
  BY <1>3, ToldStays DEF RaceInv, ClaimRebase, runner, told
<1>5. CASE Return(c)
  BY <1>3, <1>4, <1>5, ReturnKeeps
<1>6. CASE Goto(c, "mint", copy)
  <2>1. OthersIdle(c) /\ call'[c] = [k EXCEPT !.pc = "mint", !.copy = copy]
    BY <1>6 DEF Goto, TypeOK, OthersIdle, CallStates
  <2>2. call'[c].pc = "mint" /\ call'[c].copy = copy /\ call'[c].who = k.who
    BY <1>1, <2>1 DEF CallStates
  <2>3. CallSound(call[c])'
    BY <1>2, <1>3, <2>2, PastStays DEF CallSound, CopySound
  <2> QED
    BY <1>3, <1>4, <2>1, <2>3, SoundStepKeeps DEF SoundStep
<1> QED
  BY <1>5, <1>6 DEF ClaimRebase

\* The answer to the runner: it is the one on the row.
LEMMA ClaimAssignKeeps ==
  ASSUME TypeOK, RaceInv, NEW c \in Calls, NEW ok \in BOOLEAN, ClaimAssign(c, ok)
  PROVE  Climbs /\ RaceInv'
<1>1. row.runner = call[c].who /\ Past
  BY DEF RaceInv, ClaimAssign, CallSound, CopySound
<1>2. Climbs /\ QueueKept
  BY RowKept DEF ClaimAssign, store
<1>3. ToldSound'
  BY <1>1 DEF RaceInv, ToldSound, ClaimAssign, store, told, Past
<1> QED
  BY <1>2, <1>3, ReturnKeeps DEF ClaimAssign

\* A claim that cannot mint a token turns to ending the run it holds.
LEMMA ClaimMintFailsKeeps ==
  ASSUME TypeOK, RaceInv, NEW c \in Calls, ClaimMintFails(c)
  PROVE  Climbs /\ RaceInv'
<1>1. OthersIdle(c) /\ call'[c] = [call[c] EXCEPT !.op = "fail", !.pc = "end"]
  BY DEF ClaimMintFails, TypeOK, OthersIdle, CallStates
<1>2. CallSound(call[c]) /\ call[c] \in CallStates
  BY DEF RaceInv, TypeOK
<1>3. CallSound(call[c])'
  BY <1>1, <1>2 DEF ClaimMintFails, ReadOnly, store, CallSound, CopySound, Past, CallStates, Live, LiveStates
<1> QED
  BY <1>1, <1>3, ReadKeeps DEF ClaimMintFails

\* The partial writes leave the runner alone and move the state no further than
\* acknowledged -> running.
LEMMA ReportSpendKeeps ==
  ASSUME TypeOK, RaceInv, NEW c \in Calls, NEW ok \in BOOLEAN, ReportSpend(c, ok)
  PROVE  Climbs /\ RaceInv'
<1> DEFINE k == call[c]
           limit == [Idle EXCEPT !.op = "limit", !.pc = "end", !.copy = Ledger(k)]
<1>1. k \in CallStates /\ CallSound(k) /\ k.pc = "spend" /\ row \in Rows /\ UNCHANGED queueRow
  BY DEF RaceInv, TypeOK, ReportSpend
<1>2. k.copy.state \in {"acknowledged", "running"} /\ row.runner = k.who /\ Past
  BY <1>1 DEF CallSound
<1>3. CASE ~HeldBy(k.who)
  <2>1. Climbs /\ QueueKept
    BY <1>1, <1>3, RowKept DEF ReportSpend
  <2>2. ToldSound'
    BY <2>1, ToldStays DEF RaceInv, ReportSpend, told
  <2> QED
    BY <1>3, <2>1, <2>2, ReturnKeeps DEF ReportSpend
<1>4. CASE HeldBy(k.who)
  <2>1. row' = Spent(k) /\ Live(row.state)
    BY <1>4 DEF ReportSpend, HeldBy
  <2>2. row'.runner = row.runner /\ row'.state = IF Begins(k) THEN "running" ELSE row.state
    BY <1>1, <2>1 DEF Spent, Rows
  <2>3. row.state \in {"acknowledged", "running"}
    BY <1>2, <2>1 DEF Past, Live, LiveStates
  <2>4. Climbs /\ QueueKept
    BY <2>2, <2>3 DEF Climbs, Kept, Started, QueueKept, Terminal, TerminalStates
  <2>5. ToldSound'
    BY <2>4, ToldStays DEF RaceInv, ReportSpend, told
  <2>6. CASE Return(c)
    BY <2>4, <2>5, <2>6, ReturnKeeps
  <2>7. CASE call' = [call EXCEPT ![c] = limit]
    <3>1. OthersIdle(c) /\ call'[c] = limit
      BY <2>7 DEF TypeOK, OthersIdle
    <3>2. Ledger(k).state \in {"acknowledged", "running"} /\ Ledger(k).runner = row.runner
      BY <1>1, <1>2, <2>1, <2>2 DEF Ledger, Spent, Rows
    <3>3. CallSound(call[c])'
      BY <1>2, <2>4, <3>1, <3>2, PastStays DEF CallSound, CopySound, Idle, Live, LiveStates
    <3> QED
      BY <2>4, <2>5, <3>1, <3>3, SoundStepKeeps DEF SoundStep
  <2> QED
    BY <1>4, <2>6, <2>7 DEF ReportSpend
<1> QED
  BY <1>3, <1>4

\* A heartbeat touches the lease alone.
LEMMA HeartbeatRenewKeeps ==
  ASSUME TypeOK, RaceInv, NEW c \in Calls, HeartbeatRenew(c)
  PROVE  Climbs /\ RaceInv'
<1>1. row \in Rows /\ RowSound /\ UNCHANGED queueRow
  BY DEF TypeOK, RaceInv, HeartbeatRenew
<1>2. Climbs /\ QueueKept
  BY <1>1 DEF HeartbeatRenew, HeldBy, Live, LiveStates, Rows, RowSound, Climbs, Kept, QueueKept,
              Terminal, TerminalStates
<1>3. ToldSound'
  BY <1>2, ToldStays DEF RaceInv, HeartbeatRenew, runner, told
<1> QED
  BY <1>2, <1>3, ReturnKeeps DEF HeartbeatRenew

\* A post is sent without looking at the row again.
LEMMA PostSendKeeps ==
  ASSUME TypeOK, RaceInv, NEW c \in Calls, PostSend(c)
  PROVE  Climbs /\ RaceInv'
<1>1. OthersIdle(c) /\ call'[c].pc = "count"
  BY DEF PostSend, Goto, TypeOK, OthersIdle, CallStates
<1>2. CallSound(call[c])'
  BY <1>1 DEF CallSound
<1>3. Climbs /\ QueueKept
  BY RowKept DEF PostSend, store
<1>4. ToldSound'
  BY <1>3, ToldStays DEF RaceInv, PostSend, runner, told
<1> QED
  BY <1>1, <1>2, <1>3, <1>4, SoundStepKeeps DEF SoundStep

\* It is counted on the row, whatever its state.
LEMMA PostCountKeeps ==
  ASSUME TypeOK, RaceInv, NEW c \in Calls, NEW ok \in BOOLEAN, PostCount(c, ok)
  PROVE  Climbs /\ RaceInv'
<1>1. row \in Rows /\ RowSound /\ UNCHANGED queueRow
  BY DEF TypeOK, RaceInv, PostCount
<1>2. Climbs /\ QueueKept
  BY <1>1 DEF PostCount, Live, LiveStates, Rows, RowSound, Climbs, Kept, QueueKept, Terminal, TerminalStates
<1>3. ToldSound'
  BY <1>2, ToldStays DEF RaceInv, PostCount, runner, told
<1> QED
  BY <1>2, <1>3, ReturnKeeps DEF PostCount

\* beginTerminal: the winner's copy differs from the row in its state alone, as far as
\* state and runner go, and the losers, finishLimit apart, are gone.
LEMMA EndWriteKeeps ==
  ASSUME TypeOK, RaceInv, NEW c \in Calls, EndWrite(c)
  PROVE  Climbs /\ RaceInv'
<1> DEFINE k == call[c]
           copy == [k.copy EXCEPT !.state = Ending(k.op)]
<1>1. k \in CallStates /\ CallSound(k) /\ k.pc = "end" /\ RowSound /\ UNCHANGED queueRow
  BY DEF RaceInv, TypeOK, EndWrite
<1>2. /\ Live(k.copy.state) /\ CopySound(k.copy) /\ (k.op = "limit" => k.copy.state # "queued")
      /\ copy.state = Ending(k.op) /\ copy.runner = k.copy.runner /\ Terminal(copy.state)
      /\ Outcome(copy).state = copy.state
  BY <1>1 DEF CallSound, CallStates, Rows, Ending, Terminal, TerminalStates, Outcome, NoRow
<1>3. CASE Unmoved(k.copy.state)
  <2> DEFINE next == IF k.copy.state = "queued" THEN "dequeue" ELSE "finish"
  <2>1. row' = copy /\ Goto(c, next, Outcome(copy)) /\ row.state = k.copy.state
    BY <1>3 DEF EndWrite, Unmoved
  <2>2. Climbs /\ QueueKept
    BY <1>1, <1>2, <2>1 DEF RowSound, CopySound, Climbs, Ended, QueueKept, Terminal, TerminalStates
  <2>3. ToldSound'
    BY <2>2, ToldStays DEF RaceInv, EndWrite, runner
  <2>4. /\ OthersIdle(c)
        /\ call'[c].pc = next /\ call'[c].copy = Outcome(copy) /\ call'[c].op = k.op
    BY <1>1, <2>1 DEF Goto, TypeOK, OthersIdle, CallStates
  <2>5. CallSound(call[c])'
    BY <1>2, <2>1, <2>4 DEF CallSound
  <2> QED
    BY <2>2, <2>3, <2>4, <2>5, SoundStepKeeps DEF SoundStep
<1>4. CASE ~Unmoved(k.copy.state)
  <2>1. UNCHANGED row /\ IF k.op = "limit" THEN Goto(c, "finish", Outcome(copy)) ELSE Return(c)
    BY <1>4 DEF EndWrite
  <2>2. Climbs /\ QueueKept
    BY <1>1, <2>1, RowKept
  <2>3. ToldSound'
    BY <2>2, ToldStays DEF RaceInv, EndWrite, runner
  <2>4. CASE k.op = "limit"
    <3>1. OthersIdle(c) /\ call'[c].pc = "finish" /\ call'[c].op = "limit"
      BY <1>1, <2>1, <2>4, ZenonT(30) DEF Goto, TypeOK, OthersIdle, CallStates
    <3>2. CallSound(call[c])'
      BY <3>1 DEF CallSound
    <3> QED
      BY <2>2, <2>3, <3>1, <3>2, SoundStepKeeps DEF SoundStep
  <2>5. CASE k.op # "limit"
    BY <2>1, <2>2, <2>3, <2>5, ReturnKeeps
  <2> QED BY <2>4, <2>5
<1> QED
  BY <1>3, <1>4

\* The queue entry of an ended run goes.
LEMMA EndDequeueKeeps ==
  ASSUME TypeOK, RaceInv, NEW c \in Calls, EndDequeue(c)
  PROVE  Climbs /\ RaceInv'
<1>1. CallSound(call[c]) /\ call[c] \in CallStates
  BY DEF RaceInv, TypeOK
<1>2. call[c].op # "limit" /\ call[c].copy.state = row.state /\ Terminal(row.state)
  BY <1>1 DEF EndDequeue, CallSound
<1>3. Climbs /\ QueueKept
  BY <1>2, RowKept DEF EndDequeue, Past, Terminal, TerminalStates
<1>4. ToldSound'
  BY <1>3, ToldStays DEF RaceInv, EndDequeue, runner, told
<1>5. /\ OthersIdle(c)
      /\ call'[c].pc = "finish" /\ call'[c].copy = call[c].copy
  BY <1>1 DEF EndDequeue, Goto, TypeOK, OthersIdle, CallStates
<1>6. CallSound(call[c])'
  BY <1>2, <1>5 DEF EndDequeue, CallSound
<1> QED
  BY <1>3, <1>4, <1>5, <1>6, SoundStepKeeps DEF SoundStep

\* The announcement: the run has ended, and as the copy says.
LEMMA EndFinishKeeps ==
  ASSUME TypeOK, RaceInv, NEW c \in Calls, EndFinish(c)
  PROVE  Climbs /\ RaceInv'
<1>1. Climbs /\ QueueKept
  BY RowKept DEF EndFinish, store
<1>2. call[c].op # "limit" => call[c].copy.state = row.state /\ Terminal(row.state)
  BY DEF RaceInv, EndFinish, CallSound
<1>3. ToldSound'
  BY <1>2 DEF RaceInv, ToldSound, EndFinish, store, runner, Past
<1> QED
  BY <1>1, <1>3, ReturnKeeps DEF EndFinish

\* A handler that dies leaves the row as it is.
LEMMA CrashKeeps ==
  ASSUME TypeOK, RaceInv, NEW c \in Calls, Crash(c)
  PROVE  Climbs /\ RaceInv'
<1>1. Climbs /\ QueueKept
  BY RowKept DEF Crash, store
<1>2. ToldSound'
  BY <1>1, ToldStays DEF RaceInv, Crash, runner, told
<1> QED
  BY <1>1, <1>2, ReturnKeeps DEF Crash

\* The reconciler reads, and ends what it read.
LEMMA SweepKeeps ==
  ASSUME TypeOK, RaceInv, SweepLeasesRead \/ SweepDeadlinesRead
  PROVE  Climbs /\ RaceInv'
<1> DEFINE c == Reconciler
<1>1. PICK op : op # "limit" /\ Enter(c, op, "end") /\ ReadOnly /\ Live(row.state)
  BY DEF SweepLeasesRead, SweepDeadlinesRead, Live, LiveStates
<1>2. c \in Calls
  BY ConstantsAssumption DEF ConstantsAssumption
<1>3. CopySound(row)
  BY <1>1 DEF RaceInv, RowSound, CopySound, Live, LiveStates, Past
<1>4. OthersIdle(c) /\ call'[c] = [Idle EXCEPT !.op = op, !.pc = "end", !.copy = row]
  BY <1>1, <1>2 DEF Enter, Free, OthersIdle, TypeOK
<1>5. CallSound(call[c])'
  BY <1>1, <1>3, <1>4 DEF ReadOnly, store, CallSound, CopySound, Past, Idle
<1> QED
  BY <1>1, <1>2, <1>4, <1>5, ReadKeeps

\* Time passes.
LEMMA TickKeeps ==
  ASSUME RaceInv, Tick \/ UNCHANGED vars
  PROVE  Climbs /\ RaceInv'
<1>1. UNCHANGED <<row, queueRow, call, assigned, announced>>
  BY DEF Tick, vars, store, runner, told
<1>2. Climbs
  BY <1>1 DEF Climbs, Kept
<1> QED
  BY <1>1, <1>2 DEF RaceInv, RowSound, ToldSound, CallSound, CopySound, Past

\* RaceInv is inductive.
LEMMA RaceInvKept ==
  ASSUME TypeOK, RaceInv, [Next]_vars
  PROVE  Climbs /\ RaceInv'
<1>1. ASSUME NEW c \in Calls, Continue(c) PROVE Climbs /\ RaceInv'
  BY <1>1, ExtendOfflineKeeps, ClaimRebaseKeeps, ClaimAssignKeeps, ReportSpendKeeps,
     ClaimStaleEntryKeeps, ClaimTakeKeeps, ClaimMintFailsKeeps, HeartbeatRenewKeeps,
     PostSendKeeps, PostCountKeeps, EndWriteKeeps, EndDequeueKeeps, EndFinishKeeps DEF Continue
<1> QED
  BY <1>1, ArriveKeeps, CrashKeeps, SweepKeeps, TickKeeps DEF Next

\* At every point where one handler can overtake another, the row, the queue row, the
\* announcements and each handler's copy agree on who holds the run and how far it is.
THEOREM RaceSound == Spec => []RaceInv
<1>1. Init => RaceInv
  BY IdleSound DEF Init, RaceInv, RowSound, ToldSound, NoRow
<1>2. TypeOK /\ RaceInv /\ [Next]_vars => RaceInv'
  BY RaceInvKept
<1> QED
  BY <1>1, <1>2, TypeCorrect, PTL DEF Spec

\* A queued run always has its claim-queue entry and no runner.
THEOREM QueuedClaimable == Spec => []QueuedIsClaimable
<1>1. RaceInv => QueuedIsClaimable
  BY DEF RaceInv, RowSound, QueuedIsClaimable
<1> QED
  BY <1>1, RaceSound, PTL

\* At most one runner is ever handed the run, and it is the one on the row.
THEOREM HandedToOne == Spec => []OneHolder
<1>1. RaceInv => OneHolder
  BY DEF RaceInv, ToldSound, OneHolder
<1> QED
  BY <1>1, RaceSound, PTL

\* The limit path apart, what was announced is how the run ended.
THEOREM AnnouncedAsEnded == Spec => []EndingAnnouncedAsIs
<1>1. RaceInv => EndingAnnouncedAsIs
  BY DEF RaceInv, ToldSound, EndingAnnouncedAsIs
<1> QED
  BY <1>1, RaceSound, PTL

-----------------------------------------------------------------------------
(* Steps *)

\* A run that has ended is never written again, by any handler.
THEOREM EndedIsFinal == Spec => TerminalIsFinal
<1>1. TypeOK /\ RaceInv /\ [Next]_vars => [Terminal(row.state) => row' = row]_vars
  BY RaceInvKept DEF Climbs, Entered, Kept, Taken, Started, Ended, Live, LiveStates, Terminal, TerminalStates
<1> QED
  BY <1>1, TypeCorrect, RaceSound, PTL DEF Spec, TerminalIsFinal

\* finishTerminal is the one place that announces, and it announces the row's ending.
Announces == UNCHANGED row /\ Terminal(row.state) /\ announced' = {row.state}

\* Nothing but finishTerminal announces an ending.
LEMMA OnlyFinishAnnounces ==
  ASSUME RaceInv, [Next]_vars
  PROVE  UNCHANGED announced \/ Announces
<1>1. ASSUME NEW c \in Calls, EndFinish(c) PROVE UNCHANGED announced \/ Announces
  BY <1>1 DEF RaceInv, ToldSound, CallSound, EndFinish, store, Announces
<1>2. ASSUME NEW c \in Calls, Continue(c) PROVE UNCHANGED announced \/ Announces
  BY <1>1, <1>2
  DEF Continue, ExtendOffline, ClaimRebase, ClaimAssign, ReportSpend, ClaimStaleEntry, ClaimTake,
      ClaimMintFails, HeartbeatRenew, PostSend, PostCount, EndWrite, EndDequeue, ReadOnly, told
<1>3. ASSUME NEW c \in Calls, Arrive(c) \/ Crash(c) PROVE UNCHANGED announced
  BY <1>3
  DEF Arrive, Create, ClaimRead, HeartbeatRead, PostRead, CompleteRead, FailRead, ReportRead,
      CancelRead, LeaseTimerRead, ReadOnly, Crash, told
<1> QED
  BY <1>2, <1>3 DEF Next, SweepLeasesRead, SweepDeadlinesRead, ReadOnly, Tick, vars, told

\* The racing handlers implement RunProtocol: to everybody outside, a run climbs its
\* ladder, one runner takes it, and what is announced is how it ended.
THEOREM Implements == Spec => ProtocolSpec
<1>1. Init => Protocol!Init
  BY DEF Init, NoRow, Protocol!Init
<1>2. TypeOK /\ RaceInv /\ [Next]_vars => [Protocol!Next]_(Protocol!vars)
  <2> SUFFICES ASSUME TypeOK, RaceInv, [Next]_vars PROVE [Protocol!Next]_(Protocol!vars)
    OBVIOUS
  <2> USE DEF Protocol!Next, Protocol!vars
  <2>1. CASE Announces
    BY <2>1 DEF Announces, Protocol!Announce, Protocol!TerminalStates, Terminal, TerminalStates
  <2>2. CASE UNCHANGED announced
    <3>1. CASE Entered
      BY <2>2, <3>1 DEF Entered, Protocol!Create, RaceInv, RowSound
    <3>2. CASE Kept
      BY <2>2, <3>2 DEF Kept
    <3>3. CASE Taken
      BY <2>2, <3>3 DEF Taken, Protocol!Take
    <3>4. CASE Started
      BY <2>2, <3>4 DEF Started, Protocol!Start
    <3>5. CASE Ended
      BY <2>2, <3>5 DEF Ended, Protocol!End, Protocol!LiveStates, Protocol!TerminalStates,
                        Live, LiveStates, Terminal, TerminalStates
    <3> QED
      BY <3>1, <3>2, <3>3, <3>4, <3>5, RaceInvKept DEF Climbs
  <2> QED
    BY <2>1, <2>2, OnlyFinishAnnounces
<1> QED
  BY <1>1, <1>2, TypeCorrect, RaceSound, PTL DEF Spec, ProtocolSpec, Protocol!Spec

-----------------------------------------------------------------------------
(* The ledger of a run *)

\* The calls about to count a post are finitely many.
LEMMA CountedType ==
  ASSUME TypeOK
  PROVE  IsFiniteSet(BeingCounted) /\ Cardinality(BeingCounted) \in Nat /\ Counted \in Int
<1>1. IsFiniteSet(BeingCounted)
  BY ConstantsAssumption, FS_Subset DEF ConstantsAssumption, BeingCounted
<1> QED
  BY <1>1, FS_CardinalityType DEF Counted, TypeOK

\* A step of a call that is not about to count a post counts none,
LEMMA CountedSame ==
  ASSUME NEW c \in Calls, OthersIdle(c), UNCHANGED posts, call[c].pc # "count", call'[c].pc # "count"
  PROVE  Counted' = Counted
<1>1. BeingCounted' = BeingCounted
  BY DEF BeingCounted, OthersIdle
<1> QED
  BY <1>1 DEF Counted, posts

\* and one that stops counting takes its post off those on their way.
LEMMA CountEnds ==
  ASSUME TypeOK, NEW c \in Calls, OthersIdle(c), call[c].pc = "count", call'[c].pc # "count"
  PROVE  Cardinality(BeingCounted') = Cardinality(BeingCounted) - 1
<1>1. BeingCounted' = BeingCounted \ {c} /\ c \in BeingCounted
  BY DEF BeingCounted, OthersIdle
<1> QED
  BY <1>1, CountedType, FS_RemoveElement

\* What the calls in flight were told of the row's clocks and counters still holds.
SameBooks ==
  /\ UNCHANGED <<assigned, acked, Counted>>
  /\ assigned # {} /\ Live(row'.state) => Live(row.state) /\ row'.hard = row.hard /\ row'.seq = row.seq

\* The call takes up no post and no batch, and wins no claim.
NoNewWork(c) ==
  /\ call'[c].op \in {"post", "report"} => call'[c].op = call[c].op
  /\ call'[c].pc \in {"rebase", "mint"} => call[c].pc \in {"rebase", "mint"}

\* What another call knows outlives a step that leaves the books alone.
LEMMA BooksOvertaken ==
  ASSUME LedgerInv, NEW c \in Calls, NEW d \in Calls \ {c}, OthersIdle(c), NoNewWork(c), SameBooks
  PROVE  CallLedger(call[d])'
<1>1. CallLedger(call[d]) /\ call'[d] = call[d]
  BY DEF LedgerInv, OthersIdle
<1>2. /\ InFlight({"report"}) = {} => InFlight({"report"})' = {}
      /\ InFlight({"post"}) = {} => InFlight({"post"})' = {}
  BY DEF InFlight, OthersIdle, NoNewWork
<1> QED
  BY <1>1, <1>2 DEF CallLedger, SameBooks

\* A step that leaves the books alone owes the invariant its row and its own call.
LEMMA QuietKeeps ==
  ASSUME LedgerInv, NEW c \in Calls, OthersIdle(c), NoNewWork(c), SameBooks,
         LedgerRow', CallLedger(call[c])', answered' => answered \/ InFlight({"post"}) = {}
  PROVE  LedgerInv'
<1>0. answered' => InFlight({"post"})' = {}
  BY DEF LedgerInv, InFlight, OthersIdle, NoNewWork
<1>1. AtMostOne({d \in Calls: call[d].pc \in {"rebase", "mint"}})'
  BY DEF LedgerInv, AtMostOne, OthersIdle, NoNewWork
<1>2. ~Overlap => AtMostOne(InFlight({"report"}))'
  BY DEF LedgerInv, AtMostOne, InFlight, OthersIdle, NoNewWork
<1> QED
  BY <1>0, <1>1, <1>2, BooksOvertaken DEF LedgerInv

\* And only its own call, when it leaves the row alone too.
LEMMA RowUnread ==
  ASSUME LedgerInv, NEW c \in Calls, OthersIdle(c), NoNewWork(c), CallLedger(call[c])',
         UNCHANGED <<row, assigned, acked, Counted, answered>>
  PROVE  LedgerInv'
<1>1. LedgerRow'
  BY DEF LedgerInv, LedgerRow, Past, PostsCountedOnce, DeadlineUnderCeiling, TurnsCountedOnce
<1> QED
  BY <1>1, QuietKeeps DEF SameBooks

\* A call that returns owes nothing.
LEMMA ReturnBooks ==
  ASSUME TypeOK, NEW c \in Calls, Return(c)
  PROVE  /\ OthersIdle(c) /\ NoNewWork(c) /\ CallLedger(call[c])'
         /\ call[c].pc # "count" /\ UNCHANGED posts => Counted' = Counted
<1>1. OthersIdle(c) /\ call'[c] = Idle
  BY ReturnMoves
<1> QED
  BY <1>1, CountedSame DEF Idle, NoNewWork, CallLedger

\* A request that arrives copies the books as they are.
LEMMA ArriveBooks ==
  ASSUME TypeOK, RaceInv, LedgerInv, NEW c \in Calls, Arrive(c)
  PROVE  LedgerInv'
<1>0. call \in [Calls -> CallStates] /\ LedgerRow
  BY DEF TypeOK, LedgerInv
<1>1. ASSUME NEW offline \in Policies, Create(c, offline) PROVE LedgerInv'
  <2>1. row.state = "none" /\ assigned = {} /\ Counted = 0 /\ acked = 0 /\ answered = FALSE
    BY <1>0, <1>1 DEF Create, RaceInv, ToldSound, Past, LedgerRow, Terminal, TerminalStates, TypeOK
  <2>2. /\ row'.state = "queued" /\ Unworked(row') /\ row'.hard = 0
        /\ UNCHANGED <<assigned, acked, answered, posts>>
    BY <1>1 DEF Create, NoRow, Unworked, runner, told
  <2>0. Counted' = Counted
    <3>1. /\ call[c].pc # "count"
          /\ UNCHANGED call \/ call' = [call EXCEPT ![c] = [Idle EXCEPT !.op = "offline", !.pc = "extend", !.copy = row']]
      BY <1>1 DEF Create, Free, Idle
    <3>2. OthersIdle(c) /\ call'[c].pc # "count"
      BY <1>0, <3>1 DEF OthersIdle, Idle
    <3> QED
      BY <2>2, <3>1, <3>2, CountedSame
  <2>3. LedgerRow'
    BY <2>0, <2>1, <2>2 DEF LedgerRow, Past, PostsCountedOnce, DeadlineUnderCeiling, TurnsCountedOnce, Unworked
  <2>4. OthersIdle(c) /\ NoNewWork(c) /\ CallLedger(call[c])'
    <3>1. OthersIdle(c) /\ (call'[c] = Idle \/ call'[c] = [Idle EXCEPT !.op = "offline", !.pc = "extend", !.copy = row'])
      BY <1>0, <1>1 DEF Create, Free, OthersIdle
    <3>2. CASE call'[c] = Idle
      BY <3>1, <3>2 DEF NoNewWork, CallLedger, Idle
    <3>3. CASE call'[c] = [Idle EXCEPT !.op = "offline", !.pc = "extend", !.copy = row']
      <4>1. call'[c].op = "offline" /\ call'[c].pc = "extend" /\ call'[c].copy = row'
        BY <3>3 DEF Idle
      <4> QED BY <2>2, <3>1, <4>1 DEF NoNewWork, CallLedger
    <3> QED BY <3>1, <3>2, <3>3
  <2> QED BY <2>0, <2>1, <2>2, <2>3, <2>4, QuietKeeps DEF SameBooks
<1>2. ASSUME NEW r \in Runners, ClaimRead(c, r) PROVE LedgerInv'
  <2>0. call[c] = Idle /\ UNCHANGED <<row, assigned, acked, posts, answered>>
    BY <1>2 DEF ClaimRead, ReadOnly, store, runner, told, Free
  <2>1. OthersIdle(c) /\ NoNewWork(c) /\ UNCHANGED <<row, assigned, acked, Counted, answered>>
    <3>1. OthersIdle(c) /\ call'[c].op = "claim" /\ call'[c].pc = "claim"
      BY <1>0, <1>2 DEF ClaimRead, OthersIdle, Idle
    <3>2. Counted' = Counted
      BY <2>0, <3>1, CountedSame DEF Idle
    <3> QED
      BY <2>0, <3>1, <3>2 DEF NoNewWork
  <2>2. row.state = "queued" => Unworked(row) /\ row.hard = 0
    BY <1>0 DEF LedgerRow, RaceInv, ToldSound, Past, Live, LiveStates
  <2>3. CallLedger(call[c])'
    BY <1>0, <1>2, <2>2 DEF ClaimRead, CallLedger, Idle
  <2> QED BY <2>1, <2>3, RowUnread
<1>3. ASSUME NEW r \in Runners, HeartbeatRead(c, r) PROVE LedgerInv'
  <2>1. /\ OthersIdle(c) /\ NoNewWork(c) /\ CallLedger(call[c])'
        /\ UNCHANGED <<row, assigned, acked, Counted, answered>>
    <3>1. call[c] = Idle /\ UNCHANGED <<row, assigned, acked, posts, answered>>
      BY <1>3 DEF HeartbeatRead, ReadOnly, store, runner, told, Free
    <3>2. OthersIdle(c) /\ call'[c].op = "heartbeat" /\ call'[c].pc = "renew"
      BY <1>0, <1>3 DEF HeartbeatRead, OthersIdle, Idle
    <3>3. Counted' = Counted
      BY <3>1, <3>2, CountedSame DEF Idle
    <3> QED
      BY <3>1, <3>2, <3>3 DEF NoNewWork, CallLedger
  <2> QED BY <2>1, RowUnread
<1>4. ASSUME NEW op, op \in {"complete", "fail", "cancel", "lost"}, Enter(c, op, "end"), ReadOnly, Live(row.state),
             op = "complete" => InFlight({"post", "report"}) = {} /\ assigned # {}
      PROVE  LedgerInv'
  <2>1. call' = [call EXCEPT ![c] = [Idle EXCEPT !.op = op, !.pc = "end", !.copy = row]] /\ Free(c)
    BY <1>4 DEF Enter
  <2>2. /\ OthersIdle(c) /\ NoNewWork(c)
        /\ UNCHANGED <<row, assigned, acked, Counted, answered>>
    <3>1. call[c] = Idle /\ UNCHANGED <<row, assigned, acked, posts, answered>>
      BY <1>4, <2>1 DEF ReadOnly, store, runner, told, Free
    <3>2. call'[c] = [Idle EXCEPT !.op = op, !.pc = "end", !.copy = row] /\ OthersIdle(c)
      BY <1>0, <2>1 DEF OthersIdle
    <3>3. call[c].pc # "count" /\ call'[c].pc = "end" /\ call'[c].op = op
      BY <3>1, <3>2 DEF Idle
    <3>4. call'[c].pc # "count"
      BY <3>3
    <3> QED
      BY <1>4, <3>1, <3>2, <3>3, <3>4, CountedSame DEF NoNewWork
  <2>3. op = "complete" => InFlight({"post", "report"})' = {}
    BY <1>0, <1>4, <2>1, <2>2 DEF InFlight, OthersIdle, Idle
  <2>4. CallLedger(call[c])'
    <3>1. call'[c].op = op /\ call'[c].pc = "end" /\ call'[c].copy = row
      BY <1>0, <2>1 DEF Idle
    <3>2. op = "complete" => row.posts = Counted /\ (~Overlap => row.turns = row.seq /\ acked <= row.seq)
      BY <1>0, <1>4 DEF LedgerRow, PostsCountedOnce, TurnsCountedOnce
    <3>3. op = "complete" => InFlight({"post"})' = {} /\ InFlight({"report"})' = {}
      BY <2>3 DEF InFlight
    <3> QED
      BY <1>4, <2>2, <3>1, <3>2, <3>3 DEF CallLedger
  <2> QED BY <2>2, <2>4, RowUnread
<1>5. ASSUME NEW r \in Runners, PostRead(c, r) PROVE LedgerInv'
  <2>1. /\ call'[c] = [Idle EXCEPT !.op = "post", !.pc = "send"] /\ Free(c) /\ OthersIdle(c)
        /\ UNCHANGED <<row, assigned, acked, Counted, answered>>
    <3>1. call[c] = Idle /\ UNCHANGED <<row, assigned, acked, posts, answered>>
      BY <1>5 DEF PostRead, ReadOnly, store, runner, told, Free
    <3>2. call'[c] = [Idle EXCEPT !.op = "post", !.pc = "send"] /\ OthersIdle(c)
      BY <1>0, <1>5 DEF PostRead, OthersIdle
    <3>3. call[c].pc # "count" /\ call'[c].pc # "count"
      BY <3>1, <3>2 DEF Idle
    <3> QED
      BY <3>1, <3>2, <3>3, CountedSame DEF Free
  <2>2. assigned # {} /\ InFlight({"complete"}) = {} /\ ~answered
    BY <1>0, <1>5 DEF PostRead, RunForRunner, LedgerRow, Live, LiveStates, Terminal, TerminalStates
  <2>3. LedgerRow'
    BY <1>0, <2>1 DEF LedgerRow, Past, PostsCountedOnce, DeadlineUnderCeiling, TurnsCountedOnce
  <2>4. ASSUME NEW d \in Calls PROVE CallLedger(call[d])'
    <3>1. CASE d = c
      BY <2>1, <2>2, <3>1 DEF CallLedger, Idle
    <3>2. CASE d # c
      BY <2>1, <2>2, <3>2 DEF LedgerInv, OthersIdle, CallLedger, InFlight
    <3> QED BY <3>1, <3>2
  <2>5. AtMostOne({d \in Calls: call[d].pc \in {"rebase", "mint"}})' /\ (~Overlap => AtMostOne(InFlight({"report"}))')
    BY <2>1 DEF LedgerInv, AtMostOne, InFlight, OthersIdle, Idle
  <2> QED BY <2>1, <2>2, <2>3, <2>4, <2>5 DEF LedgerInv
<1>6. ASSUME NEW r \in Runners, NEW to \in 0..MaxTurns, NEW begun \in BOOLEAN, ReportRead(c, r, to, begun)
      PROVE  LedgerInv'
  <2>1. /\ call'[c] = [op |-> "report", pc |-> "spend", copy |-> row, who |-> r, at |-> now,
                       from |-> acked, to |-> to, begun |-> begun]
        /\ Free(c) /\ OthersIdle(c)
        /\ UNCHANGED <<row, assigned, acked, Counted, answered>>
    <3>1. call[c] = Idle /\ UNCHANGED <<row, assigned, acked, posts, answered>>
      BY <1>6 DEF ReportRead, ReadOnly, store, runner, told, Free
    <3>2. /\ call'[c] = [op |-> "report", pc |-> "spend", copy |-> row, who |-> r, at |-> now,
                         from |-> acked, to |-> to, begun |-> begun]
          /\ OthersIdle(c)
      BY <1>0, <1>6 DEF ReportRead, OthersIdle
    <3>3. call[c].pc # "count" /\ call'[c].pc # "count"
      BY <3>1, <3>2 DEF Idle
    <3> QED
      BY <3>1, <3>2, <3>3, CountedSame DEF Free
  <2>2. assigned # {} /\ InFlight({"complete"}) = {} /\ (~Overlap => InFlight({"report"}) = {}) /\ ~answered
    BY <1>0, <1>6 DEF ReportRead, RunForRunner, LedgerRow, Live, LiveStates, Terminal, TerminalStates
  <2>3. LedgerRow'
    BY <1>0, <2>1 DEF LedgerRow, Past, PostsCountedOnce, DeadlineUnderCeiling, TurnsCountedOnce
  <2>4. ASSUME NEW d \in Calls PROVE CallLedger(call[d])'
    <3>1. CASE d = c
      BY <2>1, <2>2, <3>1 DEF CallLedger
    <3>2. CASE d # c
      BY <2>1, <2>2, <3>2 DEF LedgerInv, OthersIdle, CallLedger, InFlight
    <3> QED BY <3>1, <3>2
  <2>5. AtMostOne({d \in Calls: call[d].pc \in {"rebase", "mint"}})' /\ (~Overlap => AtMostOne(InFlight({"report"}))')
    BY <2>1, <2>2 DEF LedgerInv, AtMostOne, InFlight, OthersIdle
  <2> QED BY <2>1, <2>2, <2>3, <2>4, <2>5 DEF LedgerInv
<1> QED
  BY <1>1, <1>2, <1>3, <1>4, <1>5, <1>6
  DEF Arrive, CompleteRead, FailRead, CancelRead, LeaseTimerRead, RunForRunner, Live, LiveStates

\* The queued run is blank on the row and in every copy that may replace it.
LEMMA ExtendOfflineBooks ==
  ASSUME TypeOK, RaceInv, LedgerInv, NEW c \in Calls, NEW ok \in BOOLEAN, ExtendOffline(c, ok)
  PROVE  LedgerInv'
<1>1. call[c] \in CallStates /\ CallSound(call[c]) /\ CallLedger(call[c]) /\ LedgerRow
  BY DEF TypeOK, RaceInv, LedgerInv
<1>2. OthersIdle(c) /\ NoNewWork(c) /\ CallLedger(call[c])' /\ UNCHANGED <<assigned, acked, Counted, answered>>
  BY ReturnBooks DEF ExtendOffline, runner
<1>3. CASE UNCHANGED row
  BY <1>2, <1>3, RowUnread
<1>4. CASE row.state = "queued" /\ row' = [call[c].copy EXCEPT !.deadline = now + OfflineTTL]
  <2>1. row'.state = "queued" /\ Unworked(row') /\ row'.hard = 0
    BY <1>1, <1>4 DEF ExtendOffline, CallSound, CallLedger, CallStates, Rows, Unworked
  <2>2. assigned = {} /\ Counted = 0 /\ acked = 0 /\ ~answered
    BY <1>1, <1>4 DEF RaceInv, ToldSound, Past, LedgerRow, Terminal, TerminalStates
  <2>3. LedgerRow'
    BY <1>2, <2>1, <2>2 DEF LedgerRow, Past, PostsCountedOnce, DeadlineUnderCeiling, TurnsCountedOnce, Unworked
  <2> QED BY <1>2, <2>2, <2>3, QuietKeeps DEF SameBooks
<1> QED
  BY <1>3, <1>4 DEF ExtendOffline, Unmoved

\* A claim that meets a run past the queue touches neither the row nor the books.
LEMMA ClaimStaleEntryBooks ==
  ASSUME TypeOK, LedgerInv, NEW c \in Calls, ClaimStaleEntry(c)
  PROVE  LedgerInv'
BY ReturnBooks, RowUnread DEF ClaimStaleEntry, runner, told

\* The claim that wins is the only one, and nobody was handed the run before.
LEMMA ClaimTakeBooks ==
  ASSUME TypeOK, RaceInv, LedgerInv, NEW c \in Calls, ClaimTake(c)
  PROVE  LedgerInv'
<1> DEFINE k == call[c]
           claimed == [k.copy EXCEPT !.state = "acknowledged", !.runner = k.who, !.lease = now + LeaseTTL]
<1>1. k \in CallStates /\ CallLedger(k) /\ LedgerRow /\ k.pc = "claim" /\ k.copy.state = "queued" /\ k.copy \in Rows
  BY DEF TypeOK, LedgerInv, ClaimTake, CallStates
<1>2. CASE ~Unmoved("queued")
  BY <1>1, <1>2, ReturnBooks, RowUnread DEF ClaimTake, runner, told, store
<1>3. CASE Unmoved("queued")
  <2>1. row' = claimed /\ Goto(c, "rebase", claimed) /\ UNCHANGED <<assigned, acked, Counted, answered>>
    <3>1. row' = claimed /\ Goto(c, "rebase", claimed) /\ UNCHANGED <<assigned, acked, posts, answered>>
      BY <1>3 DEF ClaimTake, runner, told
    <3>2. OthersIdle(c) /\ call'[c].pc = "rebase"
      BY <1>1, <3>1 DEF Goto, TypeOK, OthersIdle, CallStates
    <3> QED
      BY <1>1, <3>1, <3>2, CountedSame
  <2>2. assigned = {} /\ Counted = 0 /\ acked = 0 /\ ~answered
    BY <1>1, <1>3 DEF Unmoved, RaceInv, ToldSound, Past, LedgerRow, Terminal, TerminalStates
  <2>3. claimed.state = "acknowledged" /\ Unworked(claimed) /\ claimed.hard = 0
    BY <1>1 DEF CallLedger, Unworked, Rows
  <2>4. LedgerRow'
    BY <2>1, <2>2, <2>3 DEF LedgerRow, Past, PostsCountedOnce, DeadlineUnderCeiling, TurnsCountedOnce, Unworked
  <2>5. /\ OthersIdle(c)
        /\ call'[c].pc = "rebase" /\ call'[c].copy = claimed /\ call'[c].op = k.op
    BY <1>1, <2>1 DEF Goto, TypeOK, OthersIdle, CallStates
  <2>6. ASSUME NEW d \in Calls PROVE call[d].pc \notin {"rebase", "mint"}
    BY <1>3 DEF Unmoved, RaceInv, CallSound, CopySound, Past
  <2>7. CallLedger(call[c])'
    BY <1>1, <2>1, <2>2, <2>3, <2>5 DEF CallLedger
  <2>8. ASSUME NEW d \in Calls \ {c} PROVE CallLedger(call[d])'
    BY <2>1, <2>2, <2>5 DEF LedgerInv, CallLedger, OthersIdle
  <2>9. AtMostOne({d \in Calls: call[d].pc \in {"rebase", "mint"}})'
    BY <2>5, <2>6 DEF AtMostOne, OthersIdle
  <2>10. ~Overlap => AtMostOne(InFlight({"report"}))'
    BY <2>5 DEF LedgerInv, AtMostOne, InFlight, OthersIdle
  <2> QED BY <2>1, <2>2, <2>4, <2>7, <2>8, <2>9, <2>10 DEF LedgerInv
<1> QED
  BY <1>2, <1>3

\* The rebase comes before the assignment, so what it writes over is blank.
LEMMA ClaimRebaseBooks ==
  ASSUME TypeOK, RaceInv, LedgerInv, NEW c \in Calls, NEW ok \in BOOLEAN, ClaimRebase(c, ok)
  PROVE  LedgerInv'
<1> DEFINE k == call[c]
           copy == Rebased(k.copy)
<1>1. k \in CallStates /\ CallLedger(k) /\ CallSound(k) /\ LedgerRow /\ k.copy \in Rows /\ k.pc = "rebase"
  BY DEF TypeOK, RaceInv, LedgerInv, ClaimRebase, CallStates
<1>2. /\ copy.state = "acknowledged" /\ Unworked(copy) /\ copy.deadline <= copy.hard
      /\ assigned = {} /\ Counted = 0 /\ acked = 0
  <2>1. copy.deadline <= copy.hard
    BY <1>1, ConstantsAssumption DEF Rebased, Min2, Rows, TypeOK, ConstantsAssumption
  <2> QED BY <1>1, <2>1 DEF CallLedger, CallSound, LedgerRow, Rebased, Unworked, Rows
<1>3. UNCHANGED <<assigned, acked, posts, answered>>
  BY DEF ClaimRebase, runner, told
<1>4. OthersIdle(c) /\ NoNewWork(c) /\ CallLedger(call[c])' /\ Counted' = Counted
  <2>1. CASE Return(c)
    BY <1>1, <1>3, <2>1, ReturnBooks
  <2>2. CASE Goto(c, "mint", copy)
    <3>1. OthersIdle(c) /\ call'[c].pc = "mint" /\ call'[c].copy = copy /\ call'[c].op = k.op
      BY <1>1, <2>2 DEF Goto, TypeOK, OthersIdle, CallStates
    <3>2. Counted' = Counted
      BY <1>1, <1>3, <3>1, CountedSame
    <3> QED BY <1>1, <1>2, <1>3, <3>1, <3>2 DEF CallLedger, NoNewWork
  <2> QED BY <2>1, <2>2 DEF ClaimRebase
<1>5. CASE UNCHANGED row
  BY <1>3, <1>4, <1>5, RowUnread
<1>6. CASE row' = copy /\ row.state = "acknowledged"
  <2>1. ~answered
    BY <1>1, <1>6 DEF LedgerRow, Terminal, TerminalStates
  <2>2. LedgerRow'
    BY <1>2, <1>3, <1>4, <1>6, <2>1
    DEF LedgerRow, Past, PostsCountedOnce, DeadlineUnderCeiling, TurnsCountedOnce, Unworked
  <2> QED BY <1>2, <1>3, <1>4, <2>1, <2>2, QuietKeeps DEF SameBooks
<1> QED
  BY <1>5, <1>6 DEF ClaimRebase, Unmoved

\* The assignment: from here on the runner may work, and no clock is moved from a copy
\* that has not seen what it does.
LEMMA ClaimAssignBooks ==
  ASSUME TypeOK, RaceInv, LedgerInv, NEW c \in Calls, NEW ok \in BOOLEAN, ClaimAssign(c, ok)
  PROVE  LedgerInv'
<1>1. CallLedger(call[c]) /\ LedgerRow /\ call[c].pc = "mint" /\ assigned = {}
  BY DEF LedgerInv, ClaimAssign, CallLedger
<1>2. OthersIdle(c) /\ NoNewWork(c) /\ CallLedger(call[c])' /\ UNCHANGED <<row, acked, Counted, answered>>
  BY <1>1, ReturnBooks DEF ClaimAssign, store, told
<1>3. LedgerRow'
  BY <1>1, <1>2 DEF LedgerRow, Past, PostsCountedOnce, DeadlineUnderCeiling, TurnsCountedOnce
<1>4. ASSUME NEW d \in Calls \ {c} PROVE CallLedger(call[d])'
  <2>1. call[d].pc \notin {"rebase", "mint"}
    BY <1>1 DEF LedgerInv, AtMostOne
  <2>2. CallLedger(call[d]) /\ call[d].op \notin {"post", "report", "complete"} /\ call'[d] = call[d]
    BY <1>1, <1>2 DEF LedgerInv, CallLedger, OthersIdle
  <2> QED BY <2>1, <2>2 DEF CallLedger
<1>5. AtMostOne({d \in Calls: call[d].pc \in {"rebase", "mint"}})' /\ (~Overlap => AtMostOne(InFlight({"report"}))')
  BY <1>2 DEF LedgerInv, AtMostOne, InFlight, OthersIdle, NoNewWork
<1>6. answered' => InFlight({"post"})' = {}
  BY <1>2 DEF LedgerInv, InFlight, OthersIdle, NoNewWork
<1> QED
  BY <1>2, <1>3, <1>4, <1>5, <1>6 DEF LedgerInv

\* A claim that cannot mint a token has worked nothing.
LEMMA ClaimMintFailsBooks ==
  ASSUME TypeOK, LedgerInv, NEW c \in Calls, ClaimMintFails(c)
  PROVE  LedgerInv'
<1>1. /\ OthersIdle(c) /\ call'[c].op = "fail" /\ call'[c].pc = "end"
      /\ UNCHANGED <<row, assigned, acked, posts, answered>> /\ call[c].pc = "mint"
  BY DEF ClaimMintFails, TypeOK, OthersIdle, CallStates, ReadOnly, store, runner, told
<1>2. NoNewWork(c) /\ CallLedger(call[c])' /\ Counted' = Counted
  BY <1>1, CountedSame DEF NoNewWork, CallLedger
<1> QED
  BY <1>1, <1>2, RowUnread

\* What a batch adds brings the turns to the mark it sets, if the row is as it was read.
LEMMA FreshBrings ==
  ASSUME TypeOK, NEW b \in CallStates, b.copy.seq = row.seq, b.from = acked, row.turns = row.seq, acked <= row.seq
  PROVE  Spent(b).turns = Spent(b).seq /\ b.to <= Spent(b).seq /\ acked <= Spent(b).seq
<1>1. b.copy \in Rows /\ row \in Rows /\ b.to \in Nat /\ acked \in Nat
  BY DEF TypeOK, CallStates
<1>2. Spent(b).turns = row.turns + Fresh(b) /\ Spent(b).seq = Max2(b.copy.seq, b.to)
  BY <1>1 DEF Spent, Rows
<1>3. row.seq \in Nat /\ Max2(b.from, b.copy.seq) = row.seq
  BY <1>1 DEF Max2, Rows
<1>4. CASE b.to >= row.seq
  <2>1. Fresh(b) = b.to - row.seq /\ Max2(b.copy.seq, b.to) = b.to
    BY <1>1, <1>3, <1>4 DEF Fresh, Max2
  <2> QED BY <1>1, <1>2, <1>3, <1>4, <2>1
<1>5. CASE b.to < row.seq
  <2>1. Fresh(b) = 0 /\ Max2(b.copy.seq, b.to) = row.seq
    BY <1>1, <1>3, <1>5 DEF Fresh, Max2
  <2> QED BY <1>1, <1>2, <1>3, <1>5, <2>1
<1> QED
  BY <1>1, <1>3, <1>4, <1>5

\* An extension stays under the ceiling the batch has read.
LEMMA ExtensionUnderCeiling ==
  ASSUME NEW b \in CallStates, NEW d \in Nat, b.copy.hard # 0 => d <= b.copy.hard
  PROVE  b.copy.hard # 0 => Extension(b, d) <= b.copy.hard
BY ConstantsAssumption DEF Extension, Min2, CallStates, Rows, ConstantsAssumption

\* The batch: the only one its runner has on the way, it was read on the row it is added
\* to, and no completion has copied the books meanwhile.
LEMMA ReportSpendBooks ==
  ASSUME TypeOK, RaceInv, LedgerInv, NEW c \in Calls, NEW ok \in BOOLEAN, ReportSpend(c, ok)
  PROVE  LedgerInv'
<1> DEFINE k == call[c]
           limit == [Idle EXCEPT !.op = "limit", !.pc = "end", !.copy = Ledger(k)]
<1>1. /\ k \in CallStates /\ CallLedger(k) /\ LedgerRow /\ k.pc = "spend" /\ k.op = "report"
      /\ row \in Rows /\ assigned # {} /\ acked \in Nat /\ k.to \in Nat
  BY DEF TypeOK, LedgerInv, ReportSpend, CallLedger, CallStates
<1>2. UNCHANGED <<assigned, answered, posts>>
  BY DEF ReportSpend, told
<1>3. CASE ~HeldBy(k.who)
  BY <1>1, <1>2, <1>3, ReturnBooks, RowUnread DEF ReportSpend
<1>4. CASE HeldBy(k.who)
  <2>1. row' = Spent(k) /\ Live(row.state) /\ (acked' = acked \/ acked' = k.to)
    BY <1>4 DEF ReportSpend, HeldBy, Confirmed
  <2>2. /\ row'.posts = row.posts /\ row'.hard = row.hard /\ row'.deadline = Extension(k, row.deadline)
        /\ row'.state = IF Begins(k) THEN "running" ELSE row.state
        /\ k.copy.hard = row.hard
    BY <1>1, <2>1 DEF Spent, Rows, CallLedger
  <2>3. Past /\ Past' /\ ~answered
    BY <1>1, <2>1, <2>2 DEF RaceInv, ToldSound, Past, LedgerRow, Live, LiveStates, Terminal, TerminalStates
  <2>4. DeadlineUnderCeiling'
    <3>1. row.deadline \in Nat /\ (row.hard # 0 => row.deadline <= row.hard)
      BY <1>1, <2>1 DEF LedgerRow, DeadlineUnderCeiling, Rows
    <3> QED BY <1>1, <2>2, <3>1, ExtensionUnderCeiling DEF DeadlineUnderCeiling
  <2>5. ~Overlap => TurnsCountedOnce'
    <3> SUFFICES ASSUME ~Overlap PROVE TurnsCountedOnce'
      OBVIOUS
    <3>1. k.copy.seq = row.seq /\ k.from = acked /\ row.turns = row.seq /\ acked <= row.seq
      BY <1>1, <2>1 DEF CallLedger, LedgerRow, TurnsCountedOnce
    <3>2. row'.turns = row'.seq /\ acked' <= row'.seq
      BY <1>1, <2>1, <3>1, FreshBrings
    <3> QED BY <3>2 DEF TurnsCountedOnce
  <2>6. OthersIdle(c) /\ NoNewWork(c) /\ CallLedger(call[c])' /\ call'[c].op # "report" /\ Counted' = Counted
    <3>1. CASE Return(c)
      BY <1>1, <1>2, <3>1, ReturnBooks, ReturnMoves DEF Idle
    <3>2. CASE call' = [call EXCEPT ![c] = limit]
      <4>1. OthersIdle(c) /\ call'[c].op = "limit" /\ call'[c].pc = "end"
        BY <3>2 DEF TypeOK, OthersIdle, Idle
      <4>2. Counted' = Counted
        BY <1>1, <1>2, <4>1, CountedSame
      <4> QED BY <4>1, <4>2 DEF NoNewWork, CallLedger
    <3> QED BY <1>4, <3>1, <3>2 DEF ReportSpend
  <2>7. LedgerRow'
    BY <1>1, <1>2, <2>1, <2>2, <2>3, <2>4, <2>5, <2>6 DEF LedgerRow, PostsCountedOnce
  <2>8. ASSUME NEW d \in Calls \ {c} PROVE CallLedger(call[d])'
    <3>1. CallLedger(call[d]) /\ call'[d] = call[d] /\ c \in InFlight({"post", "report"})
      BY <1>1, <2>6 DEF LedgerInv, OthersIdle, InFlight
    <3>2. ~(call[d].op = "complete" /\ call[d].pc = "end")
      BY <1>1, <3>1 DEF CallLedger, InFlight
    <3>3. ~Overlap => call[d].op # "report"
      BY <1>1 DEF LedgerInv, AtMostOne, InFlight
    <3>4. InFlight({"post"}) = {} => InFlight({"post"})' = {}
      BY <2>6 DEF InFlight, OthersIdle, NoNewWork
    <3> QED BY <1>2, <2>1, <2>2, <2>6, <3>1, <3>2, <3>3, <3>4 DEF CallLedger
  <2>9. AtMostOne({d \in Calls: call[d].pc \in {"rebase", "mint"}})' /\ (~Overlap => AtMostOne(InFlight({"report"}))')
    BY <2>6 DEF LedgerInv, AtMostOne, InFlight, OthersIdle, NoNewWork
  <2> QED BY <1>2, <2>3, <2>6, <2>7, <2>8, <2>9 DEF LedgerInv
<1> QED
  BY <1>3, <1>4

\* A heartbeat leaves the books alone.
LEMMA HeartbeatRenewBooks ==
  ASSUME TypeOK, LedgerInv, NEW c \in Calls, HeartbeatRenew(c)
  PROVE  LedgerInv'
<1>1. OthersIdle(c) /\ NoNewWork(c) /\ CallLedger(call[c])' /\ UNCHANGED <<assigned, acked, Counted, answered>>
  BY ReturnBooks DEF HeartbeatRenew, runner, told
<1>2. /\ row'.state = row.state /\ row'.posts = row.posts /\ row'.turns = row.turns /\ row'.seq = row.seq
      /\ row'.hard = row.hard /\ row'.deadline = row.deadline
  BY DEF HeartbeatRenew, TypeOK, Rows
<1>3. LedgerRow'
  BY <1>1, <1>2
  DEF LedgerInv, LedgerRow, Past, PostsCountedOnce, DeadlineUnderCeiling, TurnsCountedOnce, Unworked
<1> QED
  BY <1>1, <1>2, <1>3, QuietKeeps DEF SameBooks

\* A post on its way is not counted yet.
LEMMA PostSendBooks ==
  ASSUME TypeOK, LedgerInv, NEW c \in Calls, PostSend(c)
  PROVE  LedgerInv'
<1>1. CallLedger(call[c]) /\ call[c].pc = "send" /\ call[c].op = "post"
  BY DEF LedgerInv, PostSend, CallLedger
<1>2. /\ OthersIdle(c) /\ call'[c].op = "post" /\ call'[c].pc = "count"
      /\ UNCHANGED <<row, assigned, acked, answered, uncounted>> /\ posted' = posted + 1
  BY <1>1 DEF PostSend, Goto, TypeOK, OthersIdle, CallStates, store, runner, told
<1>3. NoNewWork(c) /\ CallLedger(call[c])'
  BY <1>1, <1>2 DEF NoNewWork, CallLedger
<1>4. Counted' = Counted
  <2>1. BeingCounted' = BeingCounted \cup {c} /\ c \notin BeingCounted
    BY <1>1, <1>2 DEF BeingCounted, OthersIdle
  <2>2. Cardinality(BeingCounted') = Cardinality(BeingCounted) + 1
    BY <2>1, CountedType, FS_AddElement
  <2> QED
    BY <1>2, <2>2, CountedType DEF Counted, TypeOK
<1> QED
  BY <1>2, <1>3, <1>4, RowUnread

\* The count: on a live run no completion has copied the books while the post was on
\* its way, and the final text was not posted.
LEMMA PostCountBooks ==
  ASSUME TypeOK, RaceInv, LedgerInv, NEW c \in Calls, NEW ok \in BOOLEAN, PostCount(c, ok)
  PROVE  LedgerInv'
<1>1. CallLedger(call[c]) /\ LedgerRow /\ call[c].op = "post" /\ assigned # {}
  BY DEF LedgerInv, PostCount, CallLedger
<1>2. OthersIdle(c) /\ NoNewWork(c) /\ CallLedger(call[c])' /\ UNCHANGED <<assigned, acked, answered, posted>>
  BY ReturnBooks DEF PostCount, runner, told
<1>0. Cardinality(BeingCounted') = Cardinality(BeingCounted) - 1
  BY <1>2, CountEnds, ReturnMoves DEF PostCount, Idle
<1>3. CASE ~(ok /\ Live(row.state))
  <2>1. uncounted' = uncounted + 1 /\ UNCHANGED row
    BY <1>3 DEF PostCount
  <2>2. Counted' = Counted
    BY <1>0, <1>2, <2>1, CountedType DEF Counted, TypeOK
  <2> QED
    BY <1>2, <2>1, <2>2, RowUnread
<1>4. CASE ok /\ Live(row.state)
  <2>1. /\ row'.state = row.state /\ row'.posts = row.posts + 1 /\ row'.turns = row.turns /\ row'.seq = row.seq
        /\ row'.hard = row.hard /\ row'.deadline = row.deadline /\ uncounted' = uncounted
    BY <1>4 DEF PostCount, TypeOK, Rows
  <2>0. Counted' = Counted + 1
    BY <1>0, <1>2, <2>1, CountedType DEF Counted, TypeOK
  <2>2. ~answered
    BY <1>1, <1>4 DEF LedgerRow, Live, LiveStates, Terminal, TerminalStates
  <2>3. LedgerRow'
    BY <1>1, <1>2, <2>0, <2>1, <2>2
    DEF LedgerRow, Past, PostsCountedOnce, DeadlineUnderCeiling, TurnsCountedOnce
  <2>4. ASSUME NEW d \in Calls \ {c} PROVE CallLedger(call[d])'
    <3>1. CallLedger(call[d]) /\ call'[d] = call[d] /\ c \in InFlight({"post"})
      BY <1>1, <1>2 DEF LedgerInv, OthersIdle, InFlight
    <3>2. call[d].op # "complete"
      BY <3>1 DEF CallLedger
    <3> QED BY <1>2, <2>1, <3>1, <3>2 DEF CallLedger
  <2>5. AtMostOne({d \in Calls: call[d].pc \in {"rebase", "mint"}})' /\ (~Overlap => AtMostOne(InFlight({"report"}))')
    BY <1>2 DEF LedgerInv, AtMostOne, InFlight, OthersIdle, NoNewWork
  <2> QED BY <1>2, <2>2, <2>3, <2>4, <2>5 DEF LedgerInv
<1> QED
  BY <1>3, <1>4

\* beginTerminal: a completion writes the books as they are, and what any other ending
\* writes over them ends the run without a completion.
LEMMA EndWriteBooks ==
  ASSUME TypeOK, RaceInv, LedgerInv, NEW c \in Calls, EndWrite(c)
  PROVE  LedgerInv'
<1> DEFINE k == call[c]
           copy == [k.copy EXCEPT !.state = Ending(k.op)]
           next == IF k.copy.state = "queued" THEN "dequeue" ELSE "finish"
<1>1. /\ k \in CallStates /\ CallLedger(k) /\ CallSound(k) /\ LedgerRow /\ k.pc = "end" /\ k.copy \in Rows
      /\ UNCHANGED <<assigned, acked, answered, posts>>
  BY DEF TypeOK, RaceInv, LedgerInv, EndWrite, CallStates, runner
<1>2. Outcome(copy).posts = k.copy.posts /\ copy.posts = k.copy.posts /\ copy.state = Ending(k.op)
      /\ copy.turns = k.copy.turns /\ copy.seq = k.copy.seq
  BY <1>1 DEF Outcome, NoRow, Rows
<1>3. OthersIdle(c) /\ NoNewWork(c) /\ CallLedger(call[c])' /\ Counted' = Counted
  <2>1. CASE Return(c)
    BY <1>1, <2>1, ReturnBooks
  <2>2. ASSUME NEW pc \in {"dequeue", "finish"}, Goto(c, pc, Outcome(copy))
        PROVE  OthersIdle(c) /\ NoNewWork(c) /\ CallLedger(call[c])' /\ Counted' = Counted
    <3>1. OthersIdle(c) /\ call'[c].pc = pc /\ call'[c].copy = Outcome(copy) /\ call'[c].op = k.op
      BY <1>1, <2>2 DEF Goto, TypeOK, OthersIdle, CallStates
    <3>2. k.op \notin {"post", "report"}
      BY <1>1 DEF CallLedger
    <3>3. NoNewWork(c) /\ Counted' = Counted
      BY <1>1, <3>1, <3>2, CountedSame DEF NoNewWork
    <3>4. InFlight({"post"}) = {} => InFlight({"post"})' = {}
      BY <3>1, <3>2 DEF InFlight, OthersIdle
    <3> QED BY <1>1, <1>2, <3>1, <3>2, <3>3, <3>4 DEF CallLedger
  <2> QED BY <2>1, <2>2 DEF EndWrite
<1>4. CASE UNCHANGED row
  BY <1>1, <1>3, <1>4, RowUnread
<1>5. CASE row' = copy /\ row.state = k.copy.state
  <2>1. Live(row.state) /\ Terminal(row'.state) /\ ~Live(row'.state) /\ ~answered
    BY <1>1, <1>2, <1>5
    DEF CallSound, LedgerRow, Ending, Live, LiveStates, Terminal, TerminalStates
  <2>2. row'.state = "completed" => k.op = "complete"
    BY <1>2, <1>5 DEF Ending
  <2>3. PostsCountedOnce' /\ (~Overlap => TurnsCountedOnce')
    BY <1>1, <1>2, <1>3, <1>5, <2>1, <2>2 DEF CallLedger, PostsCountedOnce, TurnsCountedOnce
  <2>4. LedgerRow'
    BY <1>1, <1>3, <2>1, <2>3 DEF LedgerRow, Past, DeadlineUnderCeiling, Terminal, TerminalStates
  <2> QED BY <1>1, <1>3, <2>1, <2>4, QuietKeeps DEF SameBooks
<1> QED
  BY <1>4, <1>5 DEF EndWrite, Unmoved

\* Leaving the claim queue leaves the books alone.
LEMMA EndDequeueBooks ==
  ASSUME TypeOK, LedgerInv, NEW c \in Calls, EndDequeue(c)
  PROVE  LedgerInv'
<1>1. CallLedger(call[c]) /\ call[c] \in CallStates
  BY DEF TypeOK, LedgerInv
<1>2. /\ OthersIdle(c) /\ call'[c] = [call[c] EXCEPT !.pc = "finish", !.copy = call[c].copy]
      /\ UNCHANGED <<row, assigned, acked, posts, answered>>
  BY <1>1 DEF EndDequeue, Goto, TypeOK, OthersIdle, runner, told
<1>3. call'[c].pc = "finish" /\ call'[c].op = call[c].op /\ call'[c].copy = call[c].copy
      /\ call'[c].from = call[c].from
  BY <1>1, <1>2 DEF CallStates
<1>4. call[c].pc = "dequeue" /\ call[c].op \notin {"post", "report"}
  BY <1>1 DEF EndDequeue, CallLedger
<1>5. NoNewWork(c) /\ Counted' = Counted
  BY <1>2, <1>3, <1>4, CountedSame DEF NoNewWork
<1>6. InFlight({"post"}) = {} => InFlight({"post"})' = {}
  <2>1. \A d \in Calls: call'[d].op = call[d].op
    BY <1>2, <1>3 DEF OthersIdle
  <2> QED BY <2>1 DEF InFlight
<1>7. CallLedger(call[c])'
  BY <1>1, <1>2, <1>3, <1>4, <1>5, <1>6 DEF CallLedger
<1> QED
  BY <1>2, <1>5, <1>7, RowUnread

\* The final text is posted for a run that counted no post, and that counts none any more.
LEMMA EndFinishBooks ==
  ASSUME TypeOK, RaceInv, LedgerInv, NEW c \in Calls, EndFinish(c)
  PROVE  LedgerInv'
<1>1. CallLedger(call[c]) /\ CallSound(call[c]) /\ LedgerRow /\ call[c].pc = "finish"
  BY DEF RaceInv, LedgerInv, EndFinish
<1>2. OthersIdle(c) /\ NoNewWork(c) /\ CallLedger(call[c])' /\ UNCHANGED <<row, assigned, acked, Counted>>
  BY <1>1, ReturnBooks DEF EndFinish, store, runner
<1>3. (answered' => Counted = 0 /\ Terminal(row.state)) /\ (answered' => answered \/ InFlight({"post"}) = {})
  BY <1>1 DEF EndFinish, CallLedger, CallSound, LedgerRow
<1>4. LedgerRow'
  BY <1>1, <1>2, <1>3 DEF LedgerRow, Past, PostsCountedOnce, DeadlineUnderCeiling, TurnsCountedOnce
<1>5. SameBooks
  BY <1>2 DEF SameBooks
<1> QED
  BY <1>2, <1>3, <1>4, <1>5, QuietKeeps

\* The reconciler copies the books as they are.
LEMMA SweepBooks ==
  ASSUME TypeOK, LedgerInv, SweepLeasesRead \/ SweepDeadlinesRead
  PROVE  LedgerInv'
<1> DEFINE c == Reconciler
<1>1. PICK op : op \in {"lost", "fail"} /\ Enter(c, op, "end") /\ ReadOnly
  BY DEF SweepLeasesRead, SweepDeadlinesRead
<1>2. c \in Calls
  BY ConstantsAssumption DEF ConstantsAssumption
<1>3. OthersIdle(c) /\ call'[c] = [Idle EXCEPT !.op = op, !.pc = "end", !.copy = row]
  BY <1>1, <1>2 DEF Enter, Free, OthersIdle, TypeOK
<1>0. call[c] = Idle /\ UNCHANGED <<row, assigned, acked, posts, answered>>
  BY <1>1 DEF Enter, Free, ReadOnly, store, runner, told
<1>4. call[c].pc # "count" /\ call'[c].pc # "count" /\ call'[c].op = op /\ call'[c].pc = "end"
  BY <1>0, <1>3 DEF Idle
<1>5. Counted' = Counted
  BY <1>0, <1>2, <1>3, <1>4, CountedSame
<1>6. NoNewWork(c) /\ CallLedger(call[c])'
  BY <1>1, <1>4 DEF NoNewWork, CallLedger
<1> QED
  BY <1>0, <1>2, <1>3, <1>5, <1>6, RowUnread

\* LedgerInv is inductive.
LEMMA LedgerKept ==
  ASSUME TypeOK, RaceInv, LedgerInv, [Next]_vars
  PROVE  LedgerInv'
<1>1. ASSUME NEW c \in Calls, Continue(c) PROVE LedgerInv'
  BY <1>1, ExtendOfflineBooks, ClaimRebaseBooks, ClaimAssignBooks, ReportSpendBooks,
     ClaimStaleEntryBooks, ClaimTakeBooks, ClaimMintFailsBooks, HeartbeatRenewBooks,
     PostSendBooks, PostCountBooks, EndWriteBooks, EndDequeueBooks, EndFinishBooks DEF Continue
<1>2. ASSUME NEW c \in Calls, Crash(c) PROVE LedgerInv'
  <2>1. OthersIdle(c) /\ NoNewWork(c) /\ CallLedger(call[c])' /\ call'[c] = Idle
        /\ UNCHANGED <<row, assigned, acked, answered, posted>>
    BY <1>2, ReturnBooks, ReturnMoves DEF Crash, store, runner, told
  <2>2. CASE call[c].pc = "count"
    <3>1. uncounted' = uncounted + 1 /\ Cardinality(BeingCounted') = Cardinality(BeingCounted) - 1
      BY <1>2, <2>1, <2>2, CountEnds DEF Crash, Idle
    <3>2. Counted' = Counted
      BY <2>1, <3>1, CountedType DEF Counted, TypeOK
    <3> QED
      BY <2>1, <3>2, RowUnread
  <2>3. CASE call[c].pc # "count"
    BY <1>2, <2>1, <2>3, CountedSame, RowUnread DEF Crash, Idle, posts
  <2> QED
    BY <2>2, <2>3
<1>3. CASE Tick \/ UNCHANGED vars
  <2>1. UNCHANGED <<row, call, assigned, acked, Counted, answered>>
    BY <1>3 DEF Tick, vars, store, runner, posts, told, Counted, BeingCounted
  <2> QED BY <2>1 DEF LedgerInv, LedgerRow, CallLedger, InFlight, Past, PostsCountedOnce,
                      DeadlineUnderCeiling, TurnsCountedOnce
<1> QED
  BY <1>1, <1>2, <1>3, ArriveBooks, SweepBooks DEF Next

\* The row's counters and clocks, what was counted and confirmed, and what every call in
\* flight is about to write fit together at every point where handlers can overtake one
\* another (the reason AddRunSpend, AddRunPosts and RenewRunLease are partial writes).
THEOREM LedgerSound == Spec => []LedgerInv
<1>1. Init => LedgerInv
  <2> SUFFICES ASSUME Init PROVE LedgerInv
    OBVIOUS
  <2>1. \A c \in Calls: call[c] = Idle
    BY DEF Init
  <2>2. LedgerRow
    <3>1. BeingCounted = {}
      BY <2>1 DEF BeingCounted, Idle
    <3>2. Counted = 0
      BY <3>1, FS_EmptySet DEF Init, Counted
    <3> QED
      BY <3>2 DEF Init, NoRow, LedgerRow, Past, Live, LiveStates, PostsCountedOnce, DeadlineUnderCeiling, TurnsCountedOnce
  <2>3. \A c \in Calls: CallLedger(call[c])
    BY <2>1 DEF CallLedger, Idle
  <2> QED BY <2>1, <2>2, <2>3 DEF LedgerInv, AtMostOne, InFlight, Idle, Init
<1>2. TypeOK /\ RaceInv /\ LedgerInv /\ [Next]_vars => LedgerInv'
  BY LedgerKept
<1> QED
  BY <1>1, <1>2, TypeCorrect, RaceSound, PTL DEF Spec

\* As long as the run is live and when it completes, every message its agent has sent is counted on
\* the row, or is about to be, or its count failed; no whole-row write takes a count back: the
\* completion's copy was read with no tool call on its way (AddRunPosts, CompleteRun).
THEOREM PostsCounted == Spec => []PostsCountedOnce
<1>1. LedgerInv => PostsCountedOnce
  BY DEF LedgerInv, LedgerRow
<1> QED
  BY <1>1, LedgerSound, PTL

\* The final text is posted on top of no message but those whose count failed (RecordAgentPost,
\* CompleteRun): none that was sent before and counted, and none that is sent after.
THEOREM NoSecondAnswer == Spec => []AnswerNotDuplicated
<1>1. TypeOK /\ LedgerInv => AnswerNotDuplicated
  <2> SUFFICES ASSUME TypeOK, LedgerInv, answered PROVE posted = uncounted
    BY DEF AnswerNotDuplicated
  <2>1. BeingCounted = {}
    BY DEF LedgerInv, CallLedger, BeingCounted, InFlight
  <2>2. Cardinality(BeingCounted) = 0
    BY <2>1, FS_EmptySet
  <2>3. Counted = 0
    BY DEF LedgerInv, LedgerRow
  <2>4. posted \in Nat /\ uncounted \in Nat
    BY DEF TypeOK
  <2> QED
    BY <2>2, <2>3, <2>4 DEF Counted
<1> QED
  BY <1>1, TypeCorrect, LedgerSound, PTL

\* No stream of activity pushes a claimed run's deadline past its ceiling.
THEOREM CeilingHolds == Spec => []DeadlineUnderCeiling
<1>1. LedgerInv => DeadlineUnderCeiling
  BY DEF LedgerInv, LedgerRow
<1> QED
  BY <1>1, LedgerSound, PTL

\* Every turn event is charged once, whatever is resent after a lost response, if the
\* runner sends a batch only when the one before was answered or given up.
THEOREM TurnsCounted ==
  ASSUME Overlap = FALSE
  PROVE  Spec => []TurnsCountedOnce
<1>1. LedgerInv => TurnsCountedOnce
  BY DEF LedgerInv, LedgerRow
<1> QED
  BY <1>1, LedgerSound, PTL

=============================================================================
