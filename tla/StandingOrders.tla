--------------------------- MODULE StandingOrders ----------------------------
(***************************************************************************)
(* One standing order of a member (internal/model/agent.go,                *)
(* AgentSubscription): a watcher on messages, a heartbeat or a schedule,   *)
(* which starts runs of an agent on its creator's behalf                   *)
(* (internal/agents/orchestrator.go, internal/agents/agent.go,             *)
(* internal/store/agentmem.go, orchestrator_deactivation.go).              *)
(*                                                                         *)
(* The order is one row.  The sweeps of every instance, the dispatch of    *)
(* every message and the creator's calls each read it, change their copy   *)
(* and put it back whole, with no condition.  Every read of the row, every *)
(* put and every look at the creator is a step of its own.  A message or   *)
(* firing that could not be acted on leaves the order pending, and a       *)
(* catch-up covers everything that was missed with one run.                *)
(* Names that most modules have say Order here, so that one module of      *)
(* proofs can extend this one and another.                                 *)
(***************************************************************************)
EXTENDS Naturals, FiniteSets

CONSTANTS
  Sweepers,   \* instances, each with its reconciler
  Requests,   \* message dispatches and the creator's calls that can be in flight at once
  Harnesses,  \* where the agent may work: "cli" (the creator's machine and tokens), "api", "server"
  Kinds,      \* the orders: any of "watch", "beat" (a watcher with a heartbeat), "schedule"
  Firings,    \* the instants the schedule names
  Interval,   \* HeartbeatMins
  ThreadTTL,  \* threadSubTTL, of an order that is scoped to a thread
  Threaded,   \* the kinds that are
  Busy,       \* the kinds whose agent may be busy elsewhere to begin with
  MaxNow, MaxMessages, MaxEdits, MaxChanges, MaxLost  \* bounds

Calls == Sweepers \cup Requests

ASSUME OrderAssumption ==
  /\ Sweepers \cap Requests = {}
  /\ Harnesses \subseteq {"cli", "api", "server"} /\ Kinds \subseteq {"watch", "beat", "schedule"}
  /\ Firings \subseteq Nat \ {0} /\ Interval \in Nat \ {0} /\ ThreadTTL \in Nat /\ Threaded \cup Busy \subseteq Kinds
  /\ {MaxNow, MaxMessages, MaxEdits, MaxChanges, MaxLost} \subseteq Nat

VARIABLES
  now,
  row,       \* the order as stored
  world,     \* its creator and agent: runner online, agent busy elsewhere, can see the channel, account active
  live,      \* is a run that the order started still going?
  call,      \* the calls in flight
  missed,    \* what could not be acted on since the last catch-up: "no", "busy" or "offline"
  claims,    \* how often a firing or a heartbeat was claimed
  saved,     \* what its creator was last told is saved; Gone once told that it is deleted
  stopped,   \* has the deactivation of the creator's account finished?
  heard,     \* when a message last triggered it
  lost,      \* writes that failed, that went over a row changed since it was read, or that a stale copy saved
  messages, edits, changes

env  == <<now, world, live, stopped, heard, messages, edits, changes>>
orderVars == <<env, row, call, missed, claims, saved, lost>>

NoRow == [instr |-> 0, sched |-> FALSE, last |-> 0, pending |-> FALSE,
          offline |-> FALSE, asked |-> FALSE, here |-> FALSE]
Gone  == MaxEdits + 1
Idle  == [op |-> "idle", pc |-> "idle", copy |-> NoRow, stale |-> FALSE, active |-> FALSE, at |-> 0,
          offline |-> FALSE, ran |-> FALSE]

Free(c) == call[c].pc = "idle"
Step(c, b)   == call' = [call EXCEPT ![c] = b]
Goto(c, pc)  == Step(c, [call[c] EXCEPT !.pc = pc])
Return(c)    == Step(c, Idle)

Start(c, op, pc) == Step(c, [Idle EXCEPT !.op = op, !.pc = pc, !.copy = row])

\* The row changes, under the copies of the other calls, and call c goes on as b.
Wrote(c, b) ==
  call' = [d \in Calls |-> IF d = c THEN b
                           ELSE [call[d] EXCEPT !.stale = ~Free(d) /\ (@ \/ row' # row)]]

LoseIf(harm) == lost' = (IF harm THEN lost + 1 ELSE lost) /\ lost' <= MaxLost

\* PutAgentSubscription replaces the row whatever it is by now, and brings a deleted one back.
Put(c, r, ok) ==
  /\ row' = IF ok THEN r ELSE row
  /\ LoseIf(~ok \/ call[c].stale)

PutAndReturn(c, r, ok) == Put(c, r, ok) /\ Wrote(c, Idle)

\* A sweep goes on with its copy, whether or not it was stored.
PutAndGo(c, pc, r, ok) ==
  /\ Put(c, r, ok)
  /\ Wrote(c, [Idle EXCEPT !.op = call[c].op, !.pc = pc, !.copy = r, !.stale = ~ok])

-----------------------------------------------------------------------------
(* When it is due *)

\* cron.Due: a firing after the last one (or after the creation, at instant 0) has come.
DueBySchedule(r) == r.sched /\ \E f \in Firings: r.last < f /\ f <= now
DueByHeartbeat(r) == world.beat /\ ~r.sched /\ (r.last = 0 \/ now >= r.last + Interval)

Due(r) == DueBySchedule(r) \/ DueByHeartbeat(r)

\* mutant: an order that is pending is left as it is
MarkedFirst(r, offline) == r.pending

\* mutant: a busy agent is no reason to note a miss
MarkedOffline(r, offline) == r.pending \/ ~offline

\* markWatchPending: a miss is noted once, and once more when the first was not for being offline.
MarkedAlready(r, offline) == r.pending /\ (r.offline \/ ~offline)

Marked(r, offline) ==
  IF MarkedAlready(r, offline) THEN r ELSE [r EXCEPT !.pending = TRUE, !.offline = @ \/ offline]

\* mutant: only a start that succeeds counts
AdvancedLater(r, at) == r
Advanced(r, at) == [r EXCEPT !.last = at]

\* mutant: that the creator was asked is not forgotten
DismissedAsked(r) == [r EXCEPT !.pending = FALSE, !.offline = FALSE]

\* clearCatchUp
Dismissed(r)   == [r EXCEPT !.pending = FALSE, !.offline = FALSE, !.asked = FALSE]
Cleared(r, b) == IF b.ran THEN Advanced(Dismissed(r), b.at) ELSE Dismissed(r)

\* invoke: what comes of starting a run for an invoker whose account was read as active.
Outcome(active) ==
  CASE ~active -> "inactive"
    [] active /\ world.harness # "server" /\ ~world.online -> "offline"
    [] active /\ (world.harness = "server" \/ world.online) /\ (live \/ world.busy) -> "busy"
    [] OTHER -> "started"

-----------------------------------------------------------------------------
(* The sweeps: sweepHeartbeats, sweepSchedules and sweepWatchCatchUps work through one     *)
(* listing per tick, on the same copies.                                                   *)

SweepList(c) ==
  /\ Free(c) /\ row.here
  /\ Start(c, "sweep", "clock")
  /\ UNCHANGED <<env, row, missed, claims, saved, lost>>

SweepClock(c) ==
  /\ call[c].pc = "clock"
  /\ Step(c, [call[c] EXCEPT !.at = now, !.pc = IF Due(call[c].copy) THEN "advance" ELSE "catch"])
  /\ UNCHANGED <<env, row, missed, claims, saved, lost>>

\* LastRunAt moves before the run is started, so that a start that fails waits for the next time.
Advance(c, ok) ==
  LET r == Advanced(call[c].copy, call[c].at) IN
  /\ call[c].pc = "advance"
  /\ PutAndGo(c, IF ok THEN "look" ELSE "catch", r, ok)
  /\ claims' = IF ok THEN claims + 1 ELSE claims
  /\ UNCHANGED <<env, missed, saved>>

\* dispatchSubscriptions: a message in what it watches.
DispatchList(c) ==
  /\ Free(c) /\ row.here /\ ~row.sched /\ messages < MaxMessages
  /\ Start(c, "message", "look")
  /\ messages' = messages + 1
  /\ heard' = IF world.thread THEN now ELSE heard
  /\ UNCHANGED <<now, world, live, stopped, edits, changes, row, missed, claims, saved, lost>>

\* What follows when a sweep or a dispatch is through with the order's own trigger.
Through(c) ==
  IF call[c].op = "sweep" THEN Step(c, [call[c] EXCEPT !.pc = "catch", !.active = FALSE]) ELSE Return(c)

\* GetUser, creatorLeft
Look(c) ==
  /\ call[c].pc = "look"
  /\ IF world.member THEN Step(c, [call[c] EXCEPT !.pc = "invoke", !.active = world.active])
     ELSE Through(c)
  /\ UNCHANGED <<env, row, missed, claims, saved, lost>>

Worse(reason) == IF missed = "offline" THEN "offline" ELSE reason
Noted(c) == call[c].op = "message" \/ call[c].copy.sched  \* a heartbeat that is missed is dropped

Invoke(c) ==
  LET outcome == Outcome(call[c].active)
      note    == Noted(c) /\ outcome \in {"offline", "busy"}
  IN
  /\ call[c].pc = "invoke"
  /\ live' = (live \/ outcome = "started")
  /\ IF note THEN Step(c, [call[c] EXCEPT !.pc = "mark", !.offline = outcome = "offline"])
     ELSE Through(c)
  /\ missed' = IF note THEN Worse(outcome) ELSE missed
  /\ UNCHANGED <<now, world, stopped, heard, messages, edits, changes, row, claims, saved, lost>>

\* markWatchPending writes nothing when its copy says all there is to say.
Mark(c, ok) ==
  LET r == Marked(call[c].copy, call[c].offline) IN
  /\ call[c].pc = "mark"
  /\ IF r = call[c].copy
     THEN ok /\ Through(c) /\ LoseIf(call[c].stale) /\ UNCHANGED row
     ELSE IF call[c].op = "sweep" THEN PutAndGo(c, "catch", r, ok) ELSE PutAndReturn(c, r, ok)
  /\ UNCHANGED <<env, missed, claims, saved>>

\* A watcher's offline backlog on the creator's own machine needs the creator's word.
NeedsConsent(r) == ~r.sched /\ r.offline /\ world.harness = "cli"

\* sweepWatchCatchUps: dropped when the creator has left, asked about, or started.
CatchUpLook(c) ==
  LET r == call[c].copy IN
  /\ call[c].pc = "catch"
  /\ IF r.pending /\ ~world.member THEN Step(c, [call[c] EXCEPT !.pc = "clear", !.at = 0])
     ELSE IF r.pending /\ ~NeedsConsent(r) THEN Step(c, [call[c] EXCEPT !.pc = "start", !.active = world.active])
     ELSE IF r.pending /\ ~r.asked /\ world.online THEN Goto(c, "ask")
     ELSE Return(c)
  /\ UNCHANGED <<env, row, missed, claims, saved, lost>>

\* askCatchUp: the creator has been notified; the order remembers it.
AskCatchUp(c, ok) ==
  /\ call[c].pc = "ask"
  /\ PutAndReturn(c, [call[c].copy EXCEPT !.asked = TRUE], ok)
  /\ UNCHANGED <<env, missed, claims, saved>>

\* startWatchCatchUp, of a sweep or of the creator's decision.
StartCatchUp(c) ==
  LET started == Outcome(call[c].active) = "started" IN
  /\ call[c].pc = "start"
  /\ live' = (live \/ started)
  /\ missed' = IF started THEN "no" ELSE missed
  /\ IF started THEN Step(c, [call[c] EXCEPT !.pc = "clear", !.ran = TRUE, !.at = now]) ELSE Return(c)
  /\ UNCHANGED <<now, world, stopped, heard, messages, edits, changes, row, claims, saved, lost>>

\* clearCatchUp: after a start, on a dismissal, or for a creator who left.  What was missed
\* since the start is cleared with the rest.
ClearCatchUp(c, ok) ==
  /\ call[c].pc = "clear"
  /\ row' = (IF ok THEN Cleared(call[c].copy, call[c]) ELSE row) /\ Wrote(c, Idle)
  /\ LoseIf(~ok \/ call[c].stale \/ (call[c].ran /\ missed # "no"))
  /\ missed' = IF ok /\ ~call[c].ran THEN "no" ELSE missed
  /\ UNCHANGED <<env, claims, saved>>

-----------------------------------------------------------------------------
(* The creator's calls *)

\* DecideCatchUp: start the catch-up now, or drop the backlog.
DecideRead(c, process) ==
  /\ Free(c) /\ row.pending
  /\ Step(c, [Idle EXCEPT !.op = "decide", !.pc = IF process THEN "start" ELSE "clear",
                          !.copy = row, !.active = world.active])
  /\ UNCHANGED <<env, row, missed, claims, saved, lost>>

\* UpdateSubscription sets the order's instruction and schedule, and puts the rest back as read.
UpdateRead(c) ==
  /\ Free(c) /\ row.here /\ edits < MaxEdits
  /\ Start(c, "update", "update")
  /\ edits' = edits + 1
  /\ UNCHANGED <<now, world, live, stopped, heard, messages, changes, row, missed, claims, saved, lost>>

UpdatePut(c, sched, ok) ==
  /\ call[c].pc = "update"
  /\ PutAndReturn(c, [call[c].copy EXCEPT !.instr = edits, !.sched = sched], ok)
  /\ saved' = IF ok THEN edits ELSE saved
  /\ UNCHANGED <<env, missed, claims>>

DeleteRow == row' = NoRow /\ missed' = "no"

\* DeleteSubscription
DeleteRead(c) ==
  /\ Free(c) /\ row.here
  /\ Start(c, "delete", "delete")
  /\ UNCHANGED <<env, row, missed, claims, saved, lost>>

Delete(c, ok) ==
  /\ call[c].pc = "delete"
  /\ IF ok THEN DeleteRow /\ saved' = Gone ELSE UNCHANGED <<row, missed, saved>>
  /\ LoseIf(~ok)
  /\ Wrote(c, Idle)
  /\ UNCHANGED <<env, claims>>

\* ListSubscriptionsFor: where the creator's index shows nothing, all rows are listed and put again.
ListRead(c) ==
  /\ Free(c) /\ row.here
  /\ Start(c, "list", "refile")
  /\ UNCHANGED <<env, row, missed, claims, saved, lost>>

Refile(c, ok) ==
  /\ call[c].pc = "refile"
  /\ PutAndReturn(c, call[c].copy, ok)
  /\ UNCHANGED <<env, missed, claims, saved>>

\* An administrator deactivates the creator's account: the account first, then
\* StopUserAutomations lists and deletes its orders and cancels its runs.
Deactivate(c) ==
  /\ Free(c) /\ world.active /\ changes < MaxChanges
  /\ world' = [world EXCEPT !.active = FALSE] /\ changes' = changes + 1
  /\ Step(c, [Idle EXCEPT !.op = "deactivate", !.pc = "stopList"])
  /\ UNCHANGED <<now, live, stopped, heard, messages, edits, row, missed, claims, saved, lost>>

StopList(c) ==
  /\ call[c].pc = "stopList"
  /\ Step(c, [call[c] EXCEPT !.copy = row, !.pc = IF row.here THEN "stopOrder" ELSE "stopRuns"])
  /\ UNCHANGED <<env, row, missed, claims, saved, lost>>

\* A delete that fails is reported; the runs are stopped all the same.
StopOrder(c, ok) ==
  /\ call[c].pc = "stopOrder"
  /\ IF ok THEN DeleteRow /\ saved' = Gone ELSE UNCHANGED <<row, missed, saved>>
  /\ LoseIf(~ok)
  /\ Wrote(c, [call[c] EXCEPT !.pc = "stopRuns", !.copy = NoRow])
  /\ UNCHANGED <<env, claims>>

StopRuns(c) ==
  /\ call[c].pc = "stopRuns"
  /\ live' = FALSE /\ stopped' = TRUE
  /\ Return(c)
  /\ UNCHANGED <<now, world, heard, messages, edits, changes, row, missed, claims, saved, lost>>

-----------------------------------------------------------------------------
(* The world *)

\* The creator's runner goes offline, the agent gets busy, the creator leaves the channel.
Disturb ==
  /\ changes < MaxChanges /\ changes' = changes + 1
  /\ world' \in {[world EXCEPT !.online = FALSE], [world EXCEPT !.busy = TRUE], [world EXCEPT !.member = FALSE]}
  /\ world' # world
  /\ UNCHANGED <<now, live, stopped, heard, messages, edits, row, call, missed, claims, saved, lost>>

Recover ==
  /\ world' \in {[world EXCEPT !.online = TRUE], [world EXCEPT !.busy = FALSE], [world EXCEPT !.member = TRUE]}
                \cup (IF stopped THEN {[world EXCEPT !.active = TRUE]} ELSE {})
  /\ world' # world
  /\ stopped' = (stopped /\ ~world'.active)
  /\ UNCHANGED <<now, live, heard, messages, edits, changes, row, call, missed, claims, saved, lost>>

EndRun ==
  /\ live /\ live' = FALSE
  /\ UNCHANGED <<now, world, stopped, heard, messages, edits, changes, row, call, missed, claims, saved, lost>>

\* The time-to-live of a thread's order counts from its last run, as the row says.
Reap ==
  /\ world.thread /\ row.here /\ now >= row.last + ThreadTTL
  /\ DeleteRow
  /\ call' = [d \in Calls |-> [call[d] EXCEPT !.stale = ~Free(d)]]
  /\ UNCHANGED <<env, claims, saved, lost>>

Tick ==
  /\ now < MaxNow /\ now' = now + 1
  /\ UNCHANGED <<world, live, stopped, heard, messages, edits, changes, row, call, missed, claims, saved, lost>>

Continue(c) ==
  \/ SweepClock(c) \/ Look(c) \/ Invoke(c) \/ CatchUpLook(c) \/ StartCatchUp(c)
  \/ StopList(c) \/ StopRuns(c)
  \/ \E ok \in BOOLEAN: \/ Advance(c, ok) \/ Mark(c, ok) \/ AskCatchUp(c, ok) \/ ClearCatchUp(c, ok)
                        \/ Delete(c, ok) \/ Refile(c, ok) \/ StopOrder(c, ok)
                        \/ \E sched \in BOOLEAN: UpdatePut(c, sched, ok)

Begin(c) ==
  \/ DispatchList(c) \/ UpdateRead(c) \/ DeleteRead(c) \/ ListRead(c) \/ Deactivate(c)
  \/ \E process \in BOOLEAN: DecideRead(c, process)

OrderNext ==
  \/ \E c \in Sweepers: SweepList(c)
  \/ \E c \in Requests: Begin(c)
  \/ \E c \in Calls: Continue(c)
  \/ Disturb \/ Recover \/ EndRun \/ Reap \/ Tick

\* CreateSubscription
Created(kind) == [NoRow EXCEPT !.here = TRUE, !.sched = kind = "schedule"]

OrderInit ==
  /\ now = 1
  /\ \E kind \in Kinds, h \in Harnesses, busy \in BOOLEAN:
       /\ busy => kind \in Busy
       /\ row = Created(kind)
       /\ world = [harness |-> h, beat |-> kind = "beat", thread |-> kind \in Threaded,
                   online |-> TRUE, busy |-> busy, member |-> TRUE, active |-> TRUE]
  /\ live = FALSE /\ call = [c \in Calls |-> Idle]
  /\ missed = "no" /\ claims = 0 /\ saved = 0 /\ stopped = FALSE /\ heard = 0 /\ lost = 0
  /\ messages = 0 /\ edits = 0 /\ changes = 0

OrderSpec == OrderInit /\ [][OrderNext]_orderVars

\* Every reconciler ticks, a call that was started goes on, and runs end (RunLifecycle, EveryRunEnds).
FairSpec ==
  /\ OrderSpec /\ WF_orderVars(EndRun)
  /\ \A c \in Sweepers: WF_orderVars(SweepList(c))
  /\ \A c \in Calls: WF_orderVars(Continue(c))

-----------------------------------------------------------------------------
(* Types *)

Rows ==
  [instr: 0..MaxEdits, sched: BOOLEAN, last: Nat, pending: BOOLEAN, offline: BOOLEAN, asked: BOOLEAN, here: BOOLEAN]
CallStates ==
  [op: {"idle", "sweep", "message", "decide", "update", "delete", "list", "deactivate"},
   pc: {"idle", "clock", "advance", "look", "invoke", "mark", "catch", "ask", "start", "clear", "update",
        "delete", "refile", "stopList", "stopOrder", "stopRuns"},
   copy: Rows, stale: BOOLEAN, active: BOOLEAN, at: Nat, offline: BOOLEAN, ran: BOOLEAN]

OrderTypeOK ==
  /\ now \in 1..MaxNow /\ row \in Rows
  /\ world \in [harness: Harnesses, beat: BOOLEAN, thread: BOOLEAN, online: BOOLEAN, busy: BOOLEAN, member: BOOLEAN, active: BOOLEAN]
  /\ live \in BOOLEAN /\ call \in [Calls -> CallStates]
  /\ missed \in {"no", "busy", "offline"} /\ claims \in Nat /\ saved \in 0..Gone
  /\ stopped \in BOOLEAN /\ heard \in 0..MaxNow /\ lost \in Nat
  /\ messages \in 0..MaxMessages /\ edits \in 0..MaxEdits /\ changes \in 0..MaxChanges
  /\ row.offline \/ row.asked => row.pending

-----------------------------------------------------------------------------
(* Properties *)

\* A firing is claimed once, however many sweeps, restarts of the listing and failed starts
\* there are, and heartbeats keep their interval.  A put that is lost, or that goes over a
\* newer row, has two claims too many behind it at most: the one it makes itself, and the one
\* for the time since the older run that it puts back (sweepSchedules: a start that fails
\* "waits for the next firing").
FiringsBy(t) == Cardinality({f \in Firings: f <= t})
BeatsBy(t)   == 1 + (t - 1) \div Interval
ClaimsBy(t)  == FiringsBy(t) + (IF world.beat THEN BeatsBy(t) ELSE 0)
FiresOnce == claims <= ClaimsBy(now) + 2 * lost

\* What was missed is caught up with as soon as the creator can: with a run, by the creator's
\* decision, or not at all because the order went away or a put was lost ("retried every
\* reconcile tick, never lost").
Able == (world.online \/ world.harness = "server") /\ ~world.busy /\ world.member /\ world.active
MissedIsCaught == missed # "no" ~> missed = "no" \/ ~Able \/ row.asked \/ lost > 0

\* A sweep that knows the order as it is starts nothing on the creator's own machine for a
\* watcher that missed messages while the creator was away (catchUpNeedsConsent).
ConsentFirst ==
  [][\A c \in Sweepers:
       /\ call[c].pc = "start" /\ call'[c].pc = "clear" /\ ~call[c].stale /\ lost = 0
       /\ \A d \in Calls: call[d].pc # "mark"
       => ~(world.harness = "cli" /\ ~row.sched /\ missed = "offline")]_orderVars

-----------------------------------------------------------------------------
(* The inductive invariant behind FiresOnce: what the row still allows to claim. *)

\* An order that last ran at `last` is due at instant t, by a firing or by its heartbeat,
DueAt(last, t) ==
  \/ \E f \in Firings: last < f /\ f <= t
  \/ world.beat /\ (last = 0 \/ t >= last + Interval)

\* and then one of the claims that there may be by t is still to be made; otherwise the
\* heartbeat has none before its interval is over.
Allowed(last, t) ==
  IF DueAt(last, t) THEN ClaimsBy(t) - 1
  ELSE FiringsBy(t) + (IF world.beat THEN BeatsBy(last) ELSE 0)

Paid(t) == claims <= Allowed(row.last, t) + 2 * lost

\* The row as it is: only where it exists can anybody claim by it.
RowSound == row.last <= now /\ FiresOnce /\ (row.here => Paid(now))

\* A call in flight: one that is to put the row back and has not been overtaken holds it as
\* it is; what is about to claim has its claim left; what clears the order after a start
\* takes no claim back.
Putting == {"clock", "advance", "look", "invoke", "mark", "catch", "ask", "start", "clear", "update", "refile"}
CallSound(b) ==
  /\ b.copy.last <= now /\ b.at <= now
  /\ b.pc \in {"clock", "advance"} => b.copy.here
  /\ b.pc \in Putting /\ ~b.stale => b.copy = row
  /\ b.pc = "advance" => b.at >= 1 /\ (~b.stale => DueAt(row.last, b.at) /\ Paid(b.at))
  /\ b.ran => b.pc = "clear" /\ (~b.stale => row.last <= b.at)

FiresInv == RowSound /\ \A c \in Calls: CallSound(call[c])

(* And behind ConsentFirst: an offline miss is on the row, or about to be noted there, and *)
(* what a sweep is about to start was found to need no consent.                            *)
AboutToNote(b) == b.pc = "mark" /\ b.offline
Backlog == missed = "offline" /\ lost = 0 => row.offline \/ \E c \in Calls: AboutToNote(call[c])
Judged  == \A c \in Sweepers: call[c].pc = "start" => ~NeedsConsent(call[c].copy)

ConsentInv == FiresInv /\ Backlog /\ Judged

-----------------------------------------------------------------------------
\* Refuted on demand.

\* An order that its creator was told is deleted stays deleted, and what the creator was told
\* is saved is what is stored (DeleteSubscription, UpdateSubscription).
SavedIsStored == saved = Gone => ~row.here
EditIsKept == saved < Gone /\ row.here => row.instr = saved

\* "a new schedule never fires retroactively" (sweepSchedules): an order that is given a
\* schedule is not due by it at once.
NotRetroactive ==
  [][\A c \in Calls: call[c].pc = "update" /\ row'.sched /\ ~row.sched => ~DueBySchedule(row')]_orderVars

\* Once the deactivation of an account has finished, nothing runs on its behalf
\* (StopUserAutomations: "ends everything agents do on userID's behalf").
NothingAfterStop == stopped /\ ~world.active => ~live

\* The order of a thread goes when the thread has been quiet for its time-to-live (threadSubTTL).
ReapedWhenQuiet == [][Reap => now >= heard + ThreadTTL]_orderVars
=============================================================================
