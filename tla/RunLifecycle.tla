---------------------------- MODULE RunLifecycle -----------------------------
(***************************************************************************)
(* One agent run: its META row and claim-queue row in the store            *)
(* (internal/store/run.go) and every orchestrator handler that moves it    *)
(* (internal/agents/orchestrator.go, orchestrator_gates.go).               *)
(*                                                                         *)
(* Several instances serve the handlers and nothing locks a run.  Each     *)
(* handler reads the row, decides on its copy and writes back under a      *)
(* condition, so a handler is a CALL whose store operations are separate   *)
(* steps and whose copy may be out of date at every one of them.           *)
(*                                                                         *)
(* Rows of different runs never touch each other, so one run is modelled.  *)
(* Time is a small integer clock that starts when the run is created.      *)
(***************************************************************************)
EXTENDS Integers, FiniteSets

CONSTANTS
  Calls,        \* handler invocations that can be in flight at once
  Reconciler,   \* the one of them that is StartReconciler's goroutine
  Runners,      \* runner ids (the engine's serverRunnerID is one of them)
  NoRunner,     \* RunnerID "" of an unclaimed run
  ClaimWindow,  \* Limits.MaxWallClockSec: claim window and conversation window
  HardWindow,   \* Limits.WallClockFor(mode)
  IdleWindow,   \* taskIdleWindow
  OfflineTTL,   \* offlineQueueTTL
  LeaseTTL,     \* runLeaseTTL
  Grace,        \* leaseSweepGrace
  TurnLimit,    \* Limits.TurnsFor(mode)
  MaxPosts,     \* Limits.MaxPosts
  MaxTurns,     \* bound: turn events the runner produces
  MaxNow,       \* bound: last instant of the clock
  MaxFaults,    \* bound: calls that die half-way, store errors, lost responses
  Policies,     \* for each way of starting a run: is the runner offline, policy "queue"?
  Overlap       \* TRUE: the runner may resend a batch still being handled

ASSUME ConstantsAssumption ==
  /\ Reconciler \in Calls /\ IsFiniteSet(Calls)
  /\ NoRunner \notin Runners
  /\ {ClaimWindow, HardWindow, IdleWindow, LeaseTTL} \subseteq Nat \ {0}
  /\ {OfflineTTL, Grace, TurnLimit, MaxPosts, MaxTurns, MaxNow, MaxFaults} \subseteq Nat
  /\ Policies \subseteq BOOLEAN /\ Overlap \in BOOLEAN

VARIABLES
  now,        \* the clock every instance reads
  row,        \* the META row; state "none" while there is no row
  queueRow,   \* the claim-queue row exists
  call,       \* the handler invocations in flight
  assigned,   \* runners that were handed the assignment
  acked,      \* the runner's own record of the turn events the server confirmed
  posted,     \* messages the agent has put in the conversation with its tools
  uncounted,  \* those of them that the row will never count
  announced,  \* endings published by finishTerminal, the limit path apart
  limitSaid,  \* the limit path published "failed" and its notice
  answered,   \* CompleteRun posted the final text itself
  stopped,    \* a human stop returned without an error
  promised,   \* "until" of the run.queued_offline event (0 when there is none)
  faults      \* calls that died half-way, store errors and lost responses so far

store  == <<row, queueRow>>
runner == <<assigned, acked>>
posts  == <<posted, uncounted>>
told   == <<announced, limitSaid, answered, stopped, promised>>
vars   == <<now, store, call, runner, posts, told, faults>>

TerminalStates == {"completed", "failed", "canceled"}
LiveStates     == {"queued", "acknowledged", "running"}
Terminal(s)    == s \in TerminalStates
Live(s)        == s \in LiveStates

NoRow == [state |-> "none", runner |-> NoRunner, lease |-> 0, deadline |-> 0,
          hard |-> 0, turns |-> 0, seq |-> 0, posts |-> 0]

Min2(a, b) == IF a <= b THEN a ELSE b
Max2(a, b) == IF a >= b THEN a ELSE b

-----------------------------------------------------------------------------
(* Calls.  A call remembers the row it read (copy), the runner it speaks for *)
(* (who), the instant its handler looked at the clock (at) and, for an event *)
(* batch, the turn events from+1..to it carries and whether it carries a     *)
(* "state" event (begun).                                                    *)

Idle == [op |-> "idle", pc |-> "idle", copy |-> NoRow, who |-> NoRunner, at |-> 0,
         from |-> 0, to |-> 0, begun |-> FALSE]

\* Mutant: a stop recorded under a state nobody else knows.
EndingStopped(op) == IF op = "complete" THEN "completed" ELSE IF op = "cancel" THEN "stopped" ELSE "failed"

\* The terminal state each finishing handler asks beginTerminal for.
Ending(op) == CASE op = "complete" -> "completed"
                [] op = "cancel"   -> "canceled"
                [] OTHER           -> "failed"

InFlight(ops) == {c \in Calls: call[c].op \in ops}

Free(c) == call[c] = Idle

\* Something outside the handler fails, or does not: a fault is spent when it does.
FaultUnless(ok) == /\ ~ok => faults < MaxFaults
                   /\ faults' = IF ok THEN faults ELSE faults + 1

\* A step that only reads the store.
ReadOnly == UNCHANGED <<now, store, runner, posts, told, faults>>

\* A handler starts by reading the row.
Enter(c, op, pc) ==
  Free(c) /\ call' = [call EXCEPT ![c] = [Idle EXCEPT !.op = op, !.pc = pc, !.copy = row]]

Goto(c, pc, copy) == call' = [call EXCEPT ![c] = [@ EXCEPT !.pc = pc, !.copy = copy]]

Return(c) == call' = [call EXCEPT ![c] = Idle]

\* Mutant: the write is not conditioned on the state, only on the row being there.
UnmovedUnchecked(state) == row.state # "none"

\* The condition of the whole-row writes (UpdateRun, ClaimRun): the row is still in
\* the state the caller saw.  Nothing else of the row is compared.
Unmoved(state) == row.state = state

\* The condition of the partial writes made on behalf of a runner.
HeldBy(r) == row.runner = r /\ Live(row.state)

\* runForRunner lets the call in: the run is live and leased to the reporting runner.
RunForRunner(r) == Live(row.state) /\ row.runner = r /\ r \in assigned

-----------------------------------------------------------------------------
(* Creation *)

\* startRun: CreateRun puts the META row and the claim-queue row in one transaction.
\* With offlinePolicy "queue" the handler goes on to extend the deadline.
Create(c, offline) ==
  /\ Free(c) /\ row.state = "none"
  /\ row' = [NoRow EXCEPT !.state = "queued", !.deadline = now + ClaimWindow]
  /\ queueRow' = TRUE
  /\ IF offline
     THEN call' = [call EXCEPT ![c] = [Idle EXCEPT !.op = "offline", !.pc = "extend", !.copy = row']]
     ELSE UNCHANGED call
  /\ UNCHANGED <<now, runner, posts, told, faults>>

\* queueOfflineRun extends the deadline under the state it created, then says until when.
\* The copy carries the new deadline whether the write succeeds or not.
ExtendOffline(c, storeOk) ==
  /\ call[c].pc = "extend"
  /\ LET until == now + OfflineTTL
         copy  == [call[c].copy EXCEPT !.deadline = until]
     IN /\ IF storeOk /\ Unmoved("queued") THEN row' = copy ELSE UNCHANGED row
        /\ promised' = copy.deadline
  /\ FaultUnless(storeOk)
  /\ Return(c)
  /\ UNCHANGED <<now, queueRow, runner, posts, announced, limitSaid, answered, stopped>>

-----------------------------------------------------------------------------
(* Claiming *)

\* claimOnce lists the claim queue and reads the run behind an entry; the engine's
\* claimServerRun reads a run it was told of, which is in the queue while it is
\* queued.  The bound on the clock leaves every claimed run the time to reach its hard deadline.
ClaimRead(c, r) ==
  /\ Free(c) /\ queueRow
  /\ row.state = "queued" => now + HardWindow < MaxNow
  /\ call' = [call EXCEPT ![c] =
                [Idle EXCEPT !.op = "claim", !.pc = "claim", !.copy = row, !.who = r]]
  /\ ReadOnly

\* A run no longer queued leaves a stale entry, which is cleaned up.
ClaimStaleEntry(c) ==
  /\ call[c].pc = "claim" /\ call[c].copy.state # "queued"
  /\ queueRow' = FALSE
  /\ Return(c)
  /\ UNCHANGED <<now, row, runner, posts, told, faults>>

\* ClaimRun: META queued -> acknowledged with runner and lease, and the queue row
\* deleted, in one transaction; the loser of a race gets ErrStaleRun.
ClaimTake(c) ==
  /\ call[c].pc = "claim" /\ call[c].copy.state = "queued"
  /\ LET claimed == [call[c].copy EXCEPT !.state = "acknowledged", !.runner = call[c].who,
                                         !.lease = now + LeaseTTL]
     IN IF Unmoved("queued")
        THEN row' = claimed /\ queueRow' = FALSE /\ Goto(c, "rebase", claimed)
        ELSE UNCHANGED store /\ Return(c)
  /\ UNCHANGED <<now, runner, posts, told, faults>>

Rebased(r) == [r EXCEPT !.hard = now + HardWindow,
                        !.deadline = Min2(now + ClaimWindow, now + HardWindow)]

\* The two clocks start when a runner takes the work.  A stale write drops the
\* assignment; any other failure of the store is logged and the claim goes on.
ClaimRebase(c, storeOk) ==
  /\ call[c].pc = "rebase"
  /\ LET copy == Rebased(call[c].copy)
     IN \/ storeOk /\ Unmoved("acknowledged") /\ row' = copy /\ Goto(c, "mint", copy)
        \/ storeOk /\ ~Unmoved("acknowledged") /\ UNCHANGED row /\ Return(c)
        \/ ~storeOk /\ UNCHANGED row /\ Goto(c, "mint", copy)
  /\ FaultUnless(storeOk)
  /\ UNCHANGED <<now, queueRow, runner, posts, told>>

\* The run token is minted and the assignment sent; the response may be lost.
ClaimAssign(c, delivered) ==
  /\ call[c].pc = "mint"
  /\ assigned' = IF delivered THEN assigned \cup {call[c].who} ELSE assigned
  /\ Return(c)
  /\ FaultUnless(delivered)
  /\ UNCHANGED <<now, store, acked, posts, told>>

\* No token: the claim fails the run from the copy it holds.
ClaimMintFails(c) ==
  /\ call[c].pc = "mint"
  /\ call' = [call EXCEPT ![c] = [@ EXCEPT !.op = "fail", !.pc = "end"]]
  /\ ReadOnly

-----------------------------------------------------------------------------
(* Event batches *)

Confirmed(c, delivered) == acked' = IF delivered THEN call[c].to ELSE acked

\* ReportEvents reads the run.  The runner sends its turn events in order, from the
\* first one not confirmed yet, so a batch whose response was lost is sent again.
ReportRead(c, r, to, begun) ==
  /\ Free(c) /\ RunForRunner(r)
  /\ Overlap \/ InFlight({"report"}) = {}
  /\ InFlight({"complete"}) = {}
  /\ to \in acked..MaxTurns
  /\ call' = [call EXCEPT ![c] =
                [op |-> "report", pc |-> "spend", copy |-> row, who |-> r, at |-> now,
                 from |-> acked, to |-> to, begun |-> begun]]
  /\ ReadOnly

\* Mutant: every event of a batch counts, whatever was counted before.
FreshAlways(b) == b.to - b.from

\* What the batch adds, judged on the row as it was read: only events above the
\* high-water mark are counted, a run past its deadline earns no extension.
Fresh(b)   == Max2(0, b.to - Max2(b.from, b.copy.seq))
Expired(b) == b.at > b.copy.deadline

\* Mutant: the extension is not clipped to the hard ceiling.
ExtensionUnclipped(b, deadline) ==
  IF ~Expired(b) /\ b.copy.hard # 0 THEN b.at + IdleWindow ELSE deadline

\* Activity pushes the rolling deadline out, never past the ceiling.
Extension(b, deadline) ==
  IF ~Expired(b) /\ b.copy.hard # 0 /\ b.at + IdleWindow > b.copy.deadline
  THEN Min2(b.at + IdleWindow, b.copy.hard) ELSE deadline
Begins(b) == b.begun /\ b.copy.state = "acknowledged"

\* Mutant: the batch rewrites the whole row from its read, as UpdateRun would.
SpentWholeRow(b) == [b.copy EXCEPT !.turns = @ + Fresh(b), !.seq = Max2(b.copy.seq, b.to),
                                   !.state = IF Begins(b) THEN "running" ELSE @,
                                   !.deadline = Extension(b, @), !.lease = b.at + LeaseTTL]

\* AddRunSpend: turns are added to the committed value, the rest is set.
Spent(b) == [row EXCEPT !.turns = @ + Fresh(b), !.seq = Max2(b.copy.seq, b.to),
                        !.state = IF Begins(b) THEN "running" ELSE @,
                        !.deadline = Extension(b, @), !.lease = b.at + LeaseTTL]

\* The handler's run after the write: spend and clocks as committed, the state its own.
Ledger(b) == [Spent(b) EXCEPT !.state = IF Begins(b) THEN "running" ELSE b.copy.state]

OverLimit(b) == Spent(b).turns > TurnLimit \/ Expired(b)

ReportSpend(c, delivered) ==
  /\ call[c].pc = "spend"
  /\ LET b == call[c]
     IN IF HeldBy(b.who)
        THEN /\ row' = Spent(b)
             /\ IF OverLimit(b)
                THEN /\ call' = [call EXCEPT ![c] = [Idle EXCEPT !.op = "limit", !.pc = "end", !.copy = Ledger(b)]]
                     /\ UNCHANGED acked
                ELSE Return(c) /\ Confirmed(c, delivered)
        ELSE Return(c) /\ UNCHANGED <<row, acked>>
  /\ FaultUnless(delivered)
  /\ UNCHANGED <<now, queueRow, assigned, posts, told>>

-----------------------------------------------------------------------------
(* Heartbeats and posts *)

HeartbeatRead(c, r) ==
  /\ Free(c) /\ RunForRunner(r) /\ InFlight({"heartbeat"}) = {}
  /\ call' = [call EXCEPT ![c] = [Idle EXCEPT !.op = "heartbeat", !.pc = "renew", !.who = r, !.at = now]]
  /\ ReadOnly

\* RenewRunLease touches the lease and nothing else.
HeartbeatRenew(c) ==
  /\ call[c].pc = "renew"
  /\ row' = IF HeldBy(call[c].who) THEN [row EXCEPT !.lease = call[c].at + LeaseTTL] ELSE row
  /\ Return(c)
  /\ UNCHANGED <<now, queueRow, runner, posts, told, faults>>

\* PostMessage: liveRun and the cap are checked on the row as read.
PostRead(c, r) ==
  /\ Free(c) /\ RunForRunner(r) /\ row.posts < MaxPosts /\ InFlight({"complete"}) = {}
  /\ call' = [call EXCEPT ![c] = [Idle EXCEPT !.op = "post", !.pc = "send"]]
  /\ ReadOnly

PostSend(c) ==
  /\ call[c].pc = "send"
  /\ posted' = posted + 1
  /\ Goto(c, "count", NoRow)
  /\ UNCHANGED <<now, store, runner, uncounted, told, faults>>

\* RecordAgentPost: AddRunPosts on a live run, ErrRunClosed otherwise.  An error is swallowed.
PostCount(c, storeOk) ==
  /\ call[c].pc = "count"
  /\ IF storeOk /\ Live(row.state)
     THEN row' = [row EXCEPT !.posts = @ + 1] /\ UNCHANGED uncounted
     ELSE uncounted' = uncounted + 1 /\ UNCHANGED row
  /\ FaultUnless(storeOk)
  /\ Return(c)
  /\ UNCHANGED <<now, queueRow, runner, posted, told>>

-----------------------------------------------------------------------------
(* Endings.  Every path reads the run, then beginTerminal writes the copy with *)
(* its terminal state on condition that the row still has the copy's state.   *)

\* The runner finishes its turn only when its tool calls have returned.
CompleteRead(c, r) ==
  /\ RunForRunner(r) /\ InFlight({"post", "report"}) = {}
  /\ Enter(c, "complete", "end") /\ ReadOnly

\* FailRun: the leased runner, or anybody of the owner's before a runner has the run.
FailRead(c, r) ==
  /\ RunForRunner(r) \/ (Live(row.state) /\ row.runner = NoRunner)
  /\ Enter(c, "fail", "end") /\ ReadOnly

\* StopThread (and StopUserAutomations) cancels what the active-run index lists.
CancelRead(c) == Live(row.state) /\ Enter(c, "cancel", "end") /\ ReadOnly

\* onLeaseExpired on the instance that saw the last renewal, and recoverActive at boot.
LeaseTimerRead(c) ==
  /\ row.state \in {"acknowledged", "running"} /\ row.lease <= now
  /\ Enter(c, "lost", "end") /\ ReadOnly

SweepLeasesRead ==
  /\ row.state \in {"acknowledged", "running"} /\ now > row.lease + Grace
  /\ Enter(Reconciler, "lost", "end") /\ ReadOnly

SweepDeadlinesRead ==
  /\ Live(row.state) /\ row.deadline < now
  /\ Enter(Reconciler, "fail", "end") /\ ReadOnly

\* What finishTerminal still needs of the run.
Outcome(copy) == [NoRow EXCEPT !.state = copy.state, !.posts = copy.posts]

\* beginTerminal.  A stale write ends a failure, a cancellation and a completion
\* without a word; finishLimit takes it as "the run is terminal either way".
EndWrite(c) ==
  /\ call[c].pc = "end"
  /\ LET copy == [call[c].copy EXCEPT !.state = Ending(call[c].op)]
         next == IF call[c].copy.state = "queued" THEN "dequeue" ELSE "finish"
     IN IF Unmoved(call[c].copy.state)
        THEN row' = copy /\ Goto(c, next, Outcome(copy))
        ELSE /\ UNCHANGED row
             /\ IF call[c].op = "limit" THEN Goto(c, "finish", Outcome(copy)) ELSE Return(c)
  /\ stopped' = (stopped \/ call[c].op = "cancel")
  /\ UNCHANGED <<now, queueRow, runner, posts, announced, limitSaid, answered, promised, faults>>

\* beginTerminal's second write: a run that was still queued leaves the claim queue.
EndDequeue(c) ==
  /\ call[c].pc = "dequeue"
  /\ queueRow' = FALSE
  /\ Goto(c, "finish", call[c].copy)
  /\ UNCHANGED <<now, row, runner, posts, told, faults>>

\* finishTerminal and what each path posts: a completion that counted no post of the
\* agent's posts the final text itself.
EndFinish(c) ==
  /\ call[c].pc = "finish"
  /\ IF call[c].op = "limit"
     THEN limitSaid' = TRUE /\ UNCHANGED announced
     ELSE announced' = announced \cup {call[c].copy.state} /\ UNCHANGED limitSaid
  /\ answered' = (answered \/ (call[c].op = "complete" /\ call[c].copy.posts = 0))
  /\ Return(c)
  /\ UNCHANGED <<now, store, runner, posts, stopped, promised, faults>>

-----------------------------------------------------------------------------
\* The clock.  Bound: a deadline about to be set is not outrun by the end of modelled time.
Tick ==
  /\ row.state # "none" /\ now < MaxNow
  /\ InFlight({"claim", "offline"}) # {} => now + 1 + Max2(HardWindow, OfflineTTL) < MaxNow
  /\ now' = now + 1
  /\ UNCHANGED <<store, call, runner, posts, told, faults>>

\* An instance dies, or the request's context ends, between two store operations.
Crash(c) ==
  /\ ~Free(c) /\ FaultUnless(FALSE)
  /\ Return(c)
  /\ uncounted' = IF call[c].pc = "count" THEN uncounted + 1 ELSE uncounted
  /\ UNCHANGED <<now, store, runner, posted, told>>

\* The next store operation of a call that is in flight.
Continue(c) ==
  \/ \E ok \in BOOLEAN: ExtendOffline(c, ok) \/ ClaimRebase(c, ok) \/ ClaimAssign(c, ok)
                        \/ ReportSpend(c, ok) \/ PostCount(c, ok)
  \/ ClaimStaleEntry(c) \/ ClaimTake(c) \/ ClaimMintFails(c)
  \/ HeartbeatRenew(c) \/ PostSend(c)
  \/ EndWrite(c) \/ EndDequeue(c) \/ EndFinish(c)

\* A request arrives, a timer fires, or the reconciler looks at the run.
Arrive(c) ==
  \/ \E offline \in Policies: Create(c, offline)
  \/ \E r \in Runners:
       \/ ClaimRead(c, r) \/ HeartbeatRead(c, r) \/ PostRead(c, r)
       \/ CompleteRead(c, r) \/ FailRead(c, r)
       \/ \E to \in 0..MaxTurns, begun \in BOOLEAN: ReportRead(c, r, to, begun)
  \/ CancelRead(c) \/ LeaseTimerRead(c)

Next ==
  \/ \E c \in Calls \ {Reconciler}: Arrive(c)
  \/ \E c \in Calls: Continue(c) \/ Crash(c)
  \/ SweepLeasesRead \/ SweepDeadlinesRead
  \/ Tick

Init ==
  /\ now = 0 /\ row = NoRow /\ queueRow = FALSE
  /\ call = [c \in Calls |-> Idle]
  /\ assigned = {} /\ acked = 0 /\ posted = 0 /\ uncounted = 0
  /\ announced = {} /\ limitSaid = FALSE /\ answered = FALSE
  /\ stopped = FALSE /\ promised = 0 /\ faults = 0

Spec == Init /\ [][Next]_vars

\* Time passes, a call in flight goes on to its next store operation, and the
\* reconciler's ticker keeps sweeping.  Runners and people owe nothing.
Fairness == WF_vars(Tick) /\ WF_vars(SweepDeadlinesRead) /\ \A c \in Calls: WF_vars(Continue(c))

FairSpec == Spec /\ Fairness

-----------------------------------------------------------------------------
(* Types *)

Ops == {"idle", "offline", "claim", "report", "limit", "heartbeat", "post",
        "complete", "fail", "lost", "cancel"}
Pcs == {"idle", "extend", "claim", "rebase", "mint", "spend", "renew", "send", "count",
        "end", "dequeue", "finish"}

States == {"none"} \cup LiveStates \cup TerminalStates

Rows == [state: States, runner: Runners \cup {NoRunner},
         lease: Nat, deadline: Nat, hard: Nat, turns: Nat, seq: Nat, posts: Nat]

CallStates == [op: Ops, pc: Pcs, copy: Rows, who: Runners \cup {NoRunner},
               at: Nat, from: Nat, to: Nat, begun: BOOLEAN]

TypeOK ==
  /\ now \in Nat /\ row \in Rows /\ queueRow \in BOOLEAN
  /\ call \in [Calls -> CallStates]
  /\ assigned \subseteq Runners \cup {NoRunner} /\ acked \in Nat
  /\ posted \in Nat /\ uncounted \in Nat
  /\ announced \subseteq States
  /\ limitSaid \in BOOLEAN /\ answered \in BOOLEAN /\ stopped \in BOOLEAN
  /\ promised \in Nat /\ faults \in Nat

-----------------------------------------------------------------------------
(* Safety *)

\* A queued run can be found by the runner it waits for: whatever handlers clean up
\* the claim queue meanwhile, no queued run loses its entry (store/run.go CreateRun,
\* ClaimRun; claimOnce's stale-entry clean-up; beginTerminal's DeleteQueueEntry).
QueuedIsClaimable == row.state = "queued" => queueRow /\ row.runner = NoRunner

\* At most one runner is ever handed the run, and it is the one on the row: the loser
\* of a claim race never executes (ClaimRun).
OneHolder == assigned \subseteq {row.runner}

\* Every turn event is charged exactly once, although batches are resent when their
\* response is lost and whole-row writes race the ADDs (ReportEvents, AddRunSpend).
TurnsCountedOnce == Live(row.state) \/ row.state = "completed" => row.turns = row.seq /\ acked <= row.seq

\* While the run is live and when it completes, every message its agent has sent is
\* counted on the row once, is about to be, or its count failed on the way: no writer
\* reverts another's count (the reason RenewRunLease, AddRunSpend and AddRunPosts are
\* partial writes).
BeingCounted == {c \in Calls: call[c].pc = "count"}
Counted == posted - uncounted - Cardinality(BeingCounted)
PostsCountedOnce == Live(row.state) \/ row.state = "completed" => row.posts = Counted

\* CompleteRun posts the final text on top of no message of the agent's, but of those
\* whose count failed: a count that was taken is never overlooked or lost again.
AnswerNotDuplicated == answered => posted = uncounted

\* Once a run was claimed its rolling deadline never passes the hard ceiling
\* (rebaseClaimDeadlines, ReportEvents).
DeadlineUnderCeiling == Live(row.state) /\ row.hard # 0 => row.deadline <= row.hard

\* Of all the handlers racing to finish a run one wins, and what it announced is how
\* the row ended (beginTerminal, finishTerminal; the limit path apart).
EndingAnnouncedAsIs == announced \subseteq {row.state}

\* A run that has ended is never touched again: no heartbeat, batch, post, claim or
\* second ending changes its row.
TerminalIsFinal == [][Terminal(row.state) => row' = row]_vars

\* The handlers together implement the promise of RunProtocol.
Protocol == INSTANCE RunProtocol WITH state <- row.state, holder <- row.runner
ProtocolSpec == Protocol!Spec

\* Every run ends: whoever stops reporting, claiming or renewing, the deadline sweep
\* gets it, and no stream of activity or race of writers can put that off for ever.
EveryRunEnds == (row.state = "queued") ~> Terminal(row.state)

-----------------------------------------------------------------------------
(* The inductive invariant behind the safety properties: what the row, the    *)
(* announcements and each call in flight know of one another.                 *)

\* The run has been taken by a runner, or has ended: it is past the queue for good.
Past == row.state \notin {"none", "queued"}

RowSound ==
  /\ row.state = "none" => ~queueRow /\ row.runner = NoRunner
  /\ row.state = "queued" => queueRow /\ row.runner = NoRunner

ToldSound ==
  /\ assigned \subseteq {row.runner} /\ (assigned # {} => Past)
  /\ announced \subseteq {row.state} /\ (announced # {} => Terminal(row.state))

\* A copy that is going to be written back under its own state agrees with the row
\* on the runner: no runner while it is queued, the row's runner from then on.
CopySound(copy) ==
  IF copy.state = "queued" THEN copy.runner = NoRunner ELSE copy.runner = row.runner /\ Past

CallSound(k) ==
  /\ k.pc = "extend" => k.copy.state = "queued" /\ k.copy.runner = NoRunner
  /\ k.pc = "claim" => k.who \in Runners /\ CopySound(k.copy)
  /\ k.pc \in {"rebase", "mint"} => k.copy.state = "acknowledged" /\ k.copy.runner = k.who /\ CopySound(k.copy)
  /\ k.pc = "spend" => k.copy.state \in {"acknowledged", "running"} /\ row.runner = k.who /\ Past
  /\ k.pc = "end" => Live(k.copy.state) /\ CopySound(k.copy) /\ (k.op = "limit" => k.copy.state # "queued")
  /\ k.pc = "dequeue" => k.op # "limit"
  /\ k.pc \in {"dequeue", "finish"} /\ k.op # "limit" => k.copy.state = row.state /\ Terminal(row.state)

\* Handlers and rows agree, at every point where a handler can be overtaken
\* (beginTerminal's prevState, ClaimRun's condition, runForRunner).
RaceInv == RowSound /\ ToldSound /\ \A c \in Calls: CallSound(call[c])

-----------------------------------------------------------------------------
(* The inductive invariant behind the run's ledger: what the row's counters and *)
(* clocks, what was counted and confirmed, and what the calls in flight are     *)
(* about to write know of one another.                                          *)

\* Nothing was done on behalf of the run yet.
Unworked(r) == r.posts = 0 /\ r.turns = 0 /\ r.seq = 0

LedgerRow ==
  /\ assigned = {} => Counted = 0 /\ acked = 0 /\ (Live(row.state) => Unworked(row))
  /\ ~Past => row.hard = 0
  /\ PostsCountedOnce /\ DeadlineUnderCeiling /\ (~Overlap => TurnsCountedOnce)
  /\ answered => Counted = 0 /\ Terminal(row.state)

\* A copy from before the assignment was sent is still blank, and a runner that was
\* handed the run changes no clock; a batch was read on the row it will be added to;
\* a completion overtakes no tool call and no batch of its runner.
CallLedger(k) ==
  /\ k.pc = "extend" \/ (k.pc = "claim" /\ k.copy.state = "queued") => Unworked(k.copy) /\ k.copy.hard = 0
  /\ k.pc \in {"rebase", "mint"} => Unworked(k.copy) /\ assigned = {}
  /\ k.op \in {"post", "report", "complete"} => assigned # {}
  /\ (k.pc \in {"send", "count"} <=> k.op = "post") /\ (k.pc = "spend" <=> k.op = "report")
  /\ k.op = "report" /\ Live(row.state) =>
       k.copy.hard = row.hard /\ (~Overlap => k.copy.seq = row.seq /\ k.from = acked)
  /\ k.op = "complete" =>
       /\ k.pc \in {"end", "dequeue", "finish"} /\ k.copy.posts = Counted /\ InFlight({"post"}) = {}
       /\ k.pc = "end" => /\ InFlight({"report"}) = {}
                          /\ ~Overlap => k.copy.turns = k.copy.seq /\ acked <= k.copy.seq

\* One claim won the run, and its runner sends one batch at a time.
AtMostOne(S) == \A c, d \in S: c = d

LedgerInv ==
  /\ LedgerRow /\ \A c \in Calls: CallLedger(call[c])
  /\ answered => InFlight({"post"}) = {}
  /\ AtMostOne({c \in Calls: call[c].pc \in {"rebase", "mint"}})
  /\ ~Overlap => AtMostOne(InFlight({"report"}))

-----------------------------------------------------------------------------
(* What the comments say and the code does not keep *)

\* cancelRun takes ErrStaleRun for "finished in the meantime - fine".
StopEndsTheRun == stopped => Terminal(row.state)

\* finishTerminal: no path publishes a state emoji that contradicts the state.
LimitSaysHowItEnded == limitSaid => row.state = "failed"

\* queueOfflineRun: if the extension is not written, correct the notice too.
QueueNoticeIsTrue == promised # 0 /\ row.state = "queued" => row.deadline >= promised

\* CompleteRun: the final text is posted if the agent never posted during the run.
AnswersOnlyTheSilent == answered => posted = 0

\* PostMessage posts into the run's thread as the agent, capped per run.
PostCapHolds == posted <= MaxPosts

\* onLeaseExpired and sweepLeases end the runs whose lease lapsed.
OnlyLapsedLeaseIsReaped ==
  [][\A c \in Calls: call[c].op = "lost" /\ call[c].pc = "end" /\ row' # row => row.lease <= now]_vars
=============================================================================
