----------------------------- MODULE CodingTasks -----------------------------
(***************************************************************************)
(* The coding tasks of one requester in one project channel                *)
(* (internal/agents/codingtask.go, internal/agents/orchestrator_task.go,   *)
(* internal/store/codingtask.go, internal/model/codingtask.go).            *)
(*                                                                         *)
(* A task is one row.  Every handler reads it, changes its copy and puts   *)
(* the whole row back on the condition that the STATE is still the one it  *)
(* read: two writers that move the state resolve to one winner, two that   *)
(* leave it alone overwrite each other.  A creation takes an id, posts the *)
(* card of the task, stores the row, and then looks for a competitor with  *)
(* a smaller id.  Reads, writes, card posts and rewrites and run starts    *)
(* are steps of their own; any of them can fail, and an instance can die   *)
(* between.  A run works in the name of its invoker: the requester, or a   *)
(* member of the channel whom the requester lets steer the task.           *)
(***************************************************************************)
EXTENDS Naturals, FiniteSets

CONSTANTS
  Ids,        \* task ids: ULIDs, whose order is that of the instances' clocks and dice
  Ops,        \* handler calls that can be in flight at once
  Requester,  \* the one the tasks are done for
  Members,    \* others in the channel
  Runners,    \* machines
  Owner,      \* of each machine: it executes the runs of its owner alone
  Reported,   \* the states that task runs report
  IndexLags,  \* may the index that lists a channel's tasks be behind the rows?
  Existing,   \* the states the first task may be in to begin with; "none" when there is none
  MaxLost, MaxOutages, MaxCalls  \* bounds: operations that fail, turns of the machines, calls of an Op

States   == {"created", "workspace_ready", "setup_failed", "in_progress",
             "awaiting_user_test", "mr_created", "done", "abandoned"}
Terminal == {"done", "abandoned"}

ASSUME ConstantsAssumption ==
  /\ Ids \subseteq Nat /\ IsFiniteSet(Ids)
  /\ Requester \notin Members /\ Owner \in [Runners -> Members \cup {Requester}]
  /\ {"none", "queued"} \cap Runners = {}
  /\ Reported \subseteq States /\ IndexLags \in BOOLEAN
  /\ Existing \subseteq {"none", "created", "in_progress", "awaiting_user_test", "mr_created"}
  /\ {MaxLost, MaxOutages, MaxCalls} \subseteq Nat

VARIABLES
  task,     \* the rows
  card,     \* what the card message of a task shows: the state as last rewritten, or "retracted"
  run,      \* a task's run for a person: "none", "queued", or the machine that executes it
  gate,     \* the approval that request_mr raised in that run
  up,       \* machines online
  op,       \* the calls in flight
  blessed,  \* tasks that the requester has signed off, on the card or on the server's approval
  lent,     \* tasks that a member has signed off, on the approval of a run of theirs
  opened,   \* tasks that the requester has let anyone steer
  excuse,   \* what has kept a creation from settling with its competitors
  lost, outages

rows   == <<task, card>>
runs   == <<run, gate, up, outages>>
words  == <<blessed, lent, opened>>
vars   == <<rows, runs, op, words, excuse, lost>>

People == Members \cup {Requester}

Nowhere == "none"
NoRow   == [state |-> "none", signed |-> FALSE, mr |-> FALSE, pin |-> Nowhere, open |-> FALSE]
Created == [NoRow EXCEPT !.state = "created"]
Rows    == [state : States \cup {"none"}, signed : BOOLEAN, mr : BOOLEAN, pin : Runners \cup {Nowhere},
            open : BOOLEAN]

Idle == [kind |-> "idle", pc |-> "idle", id |-> 0, by |-> Requester, copy |-> NoRow, expect |-> "none",
         old |-> {}, n |-> 0]

\* A task whose merge requests are open does not block the next one.
Active(r) == r.state \notin Terminal \cup {"none", "mr_created"}
LiveIds   == {t \in Ids : task[t].state \notin Terminal \cup {"none"}}

\* taskTransitions
Edges == [s \in States |->
  CASE s = "created"            -> {"workspace_ready", "in_progress", "setup_failed", "abandoned"}
    [] s = "workspace_ready"    -> {"in_progress", "setup_failed", "awaiting_user_test", "abandoned"}
    [] s = "setup_failed"       -> {"workspace_ready", "in_progress", "abandoned"}
    [] s = "in_progress"        -> {"awaiting_user_test", "setup_failed", "abandoned"}
    [] s = "awaiting_user_test" -> {"in_progress", "mr_created", "abandoned"}
    [] s = "mr_created"         -> {"in_progress", "done", "abandoned"}
    [] OTHER                    -> {}]

CanTransition(s, t) == s = t \/ t \in Edges[s]

Free(o)      == op[o].pc = "idle" /\ op[o].n < MaxCalls
At(o, pc)    == op[o].pc = pc
Step(o, b)   == op' = [op EXCEPT ![o] = [b EXCEPT !.n = IF At(o, "idle") THEN op[o].n + 1 ELSE op[o].n]]
Goto(o, pc)  == Step(o, [op[o] EXCEPT !.pc = pc])
Return(o)    == Step(o, Idle)
LoseIf(harm) == lost' = (IF harm THEN lost + 1 ELSE lost) /\ lost' <= MaxLost

\* A call of this kind has read task t, for w, and goes on with its copy as row r.
HoldsFor(o, kind, pc, t, w, r) ==
  Step(o, [Idle EXCEPT !.kind = kind, !.pc = pc, !.id = t, !.by = w, !.copy = r, !.expect = task[t].state])
Holds(o, kind, pc, t, r) == HoldsFor(o, kind, pc, t, Requester, r)

\* mutant: the run is bound to no task
Unbound(t, w)   == [Idle EXCEPT !.kind = "start", !.pc = "kick", !.by = w]

\* A call goes on to start a run for w that is bound to task t.
Starting(t, w)  == [Idle EXCEPT !.kind = "start", !.pc = "kick", !.id = t, !.by = w]
Starts(o, t, w) == Step(o, Starting(t, w))

\* Is a creation of task t at one of these points?
Creating(t, pcs) == \E p \in Ops: op[p].kind = "create" /\ op[p].id = t /\ op[p].pc \in pcs

\* mutant: a write has no condition but that the row is there
AnyState(t, expect) == task[t].state # "none"

\* UpdateTask's condition; a row that is gone meets none.
Expected(t, expect) == task[t].state = expect

-----------------------------------------------------------------------------
(* Create *)

\* ListActiveTasksByChannel: the live rows, or some of them while the index is behind
Listings == IF IndexLags THEN SUBSET LiveIds ELSE {LiveIds}

\* Nothing has this id yet.
Unused(t) == card[t] = "none" /\ ~Creating(t, {"card"})

\* An active task refuses the request; shipped ones will be superseded.  The id is taken last.
CreateList(o, t, listing) ==
  /\ Free(o) /\ Unused(t)
  /\ listing \in Listings /\ \A u \in listing: ~Active(task[u])
  /\ Step(o, [Idle EXCEPT !.kind = "create", !.pc = "card", !.id = t, !.copy = Created,
                          !.old = {<<u, task[u]>> : u \in listing}])
  /\ UNCHANGED <<rows, runs, words, excuse, lost>>

\* The card comes before the row, which needs the message's id.  A failure ends the call, also
\* when the card was posted and the answer is lost.
PostCard(o, sent, answered) ==
  /\ At(o, "card") /\ (answered => sent)
  /\ LoseIf(~answered)
  /\ card' = IF sent THEN [card EXCEPT ![op[o].id] = "created"] ELSE card
  /\ excuse' = IF sent /\ ~answered THEN excuse \cup {"post"} ELSE excuse
  /\ IF answered THEN Goto(o, "store") ELSE Return(o)
  /\ UNCHANGED <<task, runs, words>>

\* A task that no creation is still deciding about.
Stands(t) == Active(task[t]) /\ ~Creating(t, {"settle", "delete"})

\* One that will not yield to a row of id t: its id is the larger one, and it has looked already.
Overtaken(t) == \E u \in Ids: t < u /\ Stands(u)

\* CreateTask; its answer can be lost although the row is stored.
StoreTask(o, stored, answered) ==
  LET t == op[o].id
      harm == {IF Overtaken(t) THEN "order" ELSE "none", IF answered THEN "none" ELSE "answer"} \ {"none"}
  IN /\ At(o, "store") /\ (answered => stored)
     /\ LoseIf(~answered)
     /\ task' = IF stored THEN [task EXCEPT ![t] = Created] ELSE task
     /\ excuse' = IF stored THEN excuse \cup harm ELSE excuse
     /\ Goto(o, IF answered THEN "settle" ELSE "retract")
     /\ UNCHANGED <<card, runs, words>>

\* mutant: a creation yields to those that came later
YieldsToLater(t, u) == u > t /\ Active(task[u])

\* settleTaskRace: the smaller id wins.
YieldsTo(t, u) == u < t /\ Active(task[u])

SettleRace(o, listing) ==
  LET t == op[o].id IN
  /\ At(o, "settle") /\ listing \in Listings
  /\ Goto(o, IF \E u \in listing: YieldsTo(t, u) THEN "delete" ELSE "supersede")
  /\ excuse' = IF LiveIds \subseteq listing \cup {t} THEN excuse ELSE excuse \cup {"index"}
  /\ UNCHANGED <<rows, runs, words, lost>>

\* The listing fails: the task stands.
SettleBlind(o) ==
  /\ At(o, "settle")
  /\ LoseIf(TRUE)
  /\ Goto(o, "supersede")
  /\ excuse' = excuse \cup {"read"}
  /\ UNCHANGED <<rows, runs, words>>

\* A failure to remove the loser's row is only logged.
DeleteLoser(o, ok) ==
  /\ At(o, "delete")
  /\ LoseIf(~ok)
  /\ task' = IF ok THEN [task EXCEPT ![op[o].id] = NoRow] ELSE task
  /\ excuse' = IF ok THEN excuse ELSE excuse \cup {"delete"}
  /\ Goto(o, "retract")
  /\ UNCHANGED <<card, runs, words>>

\* mutant: the card of a task that does not exist is left as it is
KeptCard(c) == c

\* retractCard
RetractedCard(c) == "retracted"

RetractCard(o, ok) ==
  /\ At(o, "retract")
  /\ LoseIf(~ok)
  /\ card' = IF ok THEN [card EXCEPT ![op[o].id] = RetractedCard(@)] ELSE card
  /\ excuse' = IF ok THEN excuse ELSE excuse \cup {"card"}
  /\ Return(o)
  /\ UNCHANGED <<task, runs, words>>

\* A shipped task is closed as its copy says, if it is still shipped; if not, the next one is tried.
Supersede(o, u, ok) ==
  \E r \in {p[2] : p \in {q \in op[o].old : q[1] = u}}:
    LET stored == ok /\ Expected(u, "mr_created")
    IN /\ At(o, "supersede") /\ r.state = "mr_created"
       /\ LoseIf(~ok)
       /\ task' = IF stored THEN [task EXCEPT ![u] = [r EXCEPT !.state = "done"]] ELSE task
       /\ Step(o, IF stored THEN [op[o] EXCEPT !.old = (@ \ {<<u, r>>}) \cup {<<u, task'[u]>>}]
                  ELSE [op[o] EXCEPT !.old = @ \ {<<u, r>>}])
       /\ UNCHANGED <<card, runs, words, excuse>>

SupersededCard(o, u, ok) ==
  \E p \in op[o].old:
    /\ At(o, "supersede") /\ p[1] = u /\ p[2].state = "done"
    /\ LoseIf(~ok)
    /\ card' = IF ok THEN [card EXCEPT ![u] = "done"] ELSE card
    /\ excuse' = IF ok THEN excuse ELSE excuse \cup {"card"}
    /\ Step(o, [op[o] EXCEPT !.old = @ \ {p}])
    /\ UNCHANGED <<task, runs, words>>

AllSuperseded(o) ==
  /\ At(o, "supersede") /\ op[o].old = {}
  /\ Starts(o, op[o].id, Requester)
  /\ UNCHANGED <<rows, runs, words, excuse, lost>>

\* invoke: queued for the machines of the person it is for, unless none of them is online or a
\* run for that person is going on.
Kick(o) ==
  LET t == op[o].id
      w == op[o].by
  IN /\ At(o, "kick")
     /\ run' = IF (\E m \in up: Owner[m] = w) /\ run[t][w] = "none" THEN [run EXCEPT ![t][w] = "queued"] ELSE run
     /\ Return(o)
     /\ UNCHANGED <<rows, gate, up, outages, words, excuse, lost>>

-----------------------------------------------------------------------------
(* The calls of a task's run, whoever it is for; GetLiveRun lets them in. *)

Working(t) == \E w \in People: run[t][w] \in Runners

\* mr_created needs the sign-off and the address of a merge request.
MayBecome(r, s, mr) == s = "mr_created" => r.signed /\ (r.mr \/ mr)

\* Report; s is the state read when the report names none.
Report(o, t, s, mr) ==
  /\ Free(o) /\ Working(t) /\ task[t].state # "none"
  /\ CanTransition(task[t].state, s) /\ MayBecome(task[t], s, mr)
  /\ Holds(o, "report", "write", t, [task[t] EXCEPT !.state = s, !.mr = @ \/ mr])
  /\ UNCHANGED <<rows, runs, words, excuse, lost>>

\* PublishTestPlan: the plan is written, and then the task is read again to report the state.
PublishTestPlan(o, t) ==
  /\ Free(o) /\ Working(t) /\ task[t].state # "none"
  /\ Holds(o, "plan", "write", t, task[t])
  /\ UNCHANGED <<rows, runs, words, excuse, lost>>

ReportPlan(o) ==
  LET r == task[op[o].id] IN
  /\ At(o, "again")
  /\ IF r.state # "none" /\ CanTransition(r.state, "awaiting_user_test")
     THEN Holds(o, "report", "write", op[o].id, [r EXCEPT !.state = "awaiting_user_test"])
     ELSE Return(o)
  /\ UNCHANGED <<rows, runs, words, excuse, lost>>

\* RequestMR before the requester is done testing is not ready, and changes nothing; on a task
\* that is signed off it answers "approved", and changes nothing either.
Asks(t, w) == run[t][w] \in Runners /\ task[t].state \in {"awaiting_user_test", "mr_created"} /\ ~task[t].signed

\* With no approval the server raises its own card, for the run's invoker.
RequestMR(t, w) ==
  /\ Asks(t, w) /\ gate[t][w] = "none"
  /\ gate' = [gate EXCEPT ![t][w] = "pending"]
  /\ UNCHANGED <<rows, run, up, outages, op, words, excuse, lost>>

\* The call names an approval: the server's card once decided, or one of the agent's own making.
RequestMRWith(o, t, w, which) ==
  /\ Free(o) /\ Asks(t, w)
  /\ which = "mr" => gate[t][w] \in {"granted", "denied", "spent"}
  /\ HoldsFor(o, which, "consume", t, w, [task[t] EXCEPT !.signed = TRUE])
  /\ UNCHANGED <<rows, runs, words, excuse, lost>>

\* mutant: any card that was approved in the run stands for the sign-off
AnyGrant(t, w, which) == which = "mrown" \/ gate[t][w] = "granted"

\* ApprovalGranted: the card carries the server's purpose, is approved and not spent.
Granted(t, w, which) == which = "mr" /\ gate[t][w] = "granted"

\* The approval is spent before the sign-off is written, and nobody asks whose word it was.  A card
\* of the agent's own (LegacyApproval) makes the server raise its own; any other one was declined.
ConsumeApproval(o) ==
  LET t == op[o].id
      w == op[o].by
  IN /\ At(o, "consume")
     /\ IF Granted(t, w, op[o].kind)
        THEN Goto(o, "write") /\ gate' = [gate EXCEPT ![t][w] = IF @ = "granted" THEN "spent" ELSE @]
        ELSE Return(o) /\ gate' = [gate EXCEPT ![t][w] = IF op[o].kind = "mrown" /\ @ = "none" /\ run[t][w] \in Runners
                                                           THEN "pending" ELSE @]
     /\ UNCHANGED <<rows, run, up, outages, words, excuse, lost>>

-----------------------------------------------------------------------------
(* The requester: SignOff, SetSteering, Close; the cards of a run; the messages that steer *)

\* A second click on a signed task tries the merge-request run again.
SignOff(o, t) ==
  /\ Free(o) /\ task[t].state = "awaiting_user_test"
  /\ blessed' = blessed \cup {t}
  /\ IF task[t].signed THEN Starts(o, t, Requester)
     ELSE Holds(o, "signoff", "write", t, [task[t] EXCEPT !.signed = TRUE])
  /\ UNCHANGED <<rows, runs, lent, opened, excuse, lost>>

\* The task is for the requester alone to steer, or open to the members.
SetSteering(o, t) ==
  /\ Free(o) /\ task[t].state # "none"
  /\ opened' = IF task[t].open THEN opened ELSE opened \cup {t}
  /\ Holds(o, "steering", "write", t, [task[t] EXCEPT !.open = ~@])
  /\ UNCHANGED <<rows, runs, blessed, lent, excuse, lost>>

Close(o, t, s) ==
  /\ Free(o) /\ task[t].state \notin Terminal \cup {"none"}
  /\ s \in Terminal /\ CanTransition(task[t].state, s)
  /\ Holds(o, "close", "write", t, [task[t] EXCEPT !.state = s])
  /\ UNCHANGED <<rows, runs, words, excuse, lost>>

\* DecideApproval: the verdict is for the run's invoker to give.
Decide(t, w, verdict) ==
  /\ gate[t][w] = "pending" /\ verdict \in {"granted", "denied"}
  /\ gate' = [gate EXCEPT ![t][w] = verdict]
  /\ blessed' = IF verdict = "granted" /\ w = Requester THEN blessed \cup {t} ELSE blessed
  /\ lent' = IF verdict = "granted" /\ w # Requester THEN lent \cup {t} ELSE lent
  /\ UNCHANGED <<rows, run, up, outages, op, opened, excuse, lost>>

\* dispatchTask: a message of someone entitled to steer resumes the agent of a live task, in the
\* name of the requester.
Steer(o, t) ==
  /\ Free(o) /\ t \in LiveIds
  /\ Starts(o, t, Requester)
  /\ UNCHANGED <<rows, runs, words, excuse, lost>>

\* startRun: a mention of the agent by a member who may steer starts a run of the task in the
\* member's own name.
Mention(o, t, w) ==
  /\ Free(o) /\ t \in LiveIds /\ task[t].open
  /\ Starts(o, t, w)
  /\ UNCHANGED <<rows, runs, words, excuse, lost>>

-----------------------------------------------------------------------------
(* The shared end of the calls: UpdateTask, and what follows it *)

AfterWrite(b) ==
  CASE b.kind = "plan" -> [Idle EXCEPT !.kind = "plan", !.pc = "again", !.id = b.id]
    [] b.kind = "signoff" -> Starting(b.id, Requester)
    [] b.kind \in {"report", "close"} /\ b.copy.state # b.expect ->
         [Idle EXCEPT !.kind = b.kind, !.pc = "refresh", !.id = b.id, !.copy.state = b.copy.state]
    [] OTHER -> Idle

\* What a write of call b does to the excuses.
Excusing(b) ==
  {IF b.expect = "mr_created" /\ Active(b.copy)
      /\ ((\E u \in Ids \ {b.id}: Active(task[u])) \/ \E p \in Ops: op[p].kind = "create")
   THEN "bounce" ELSE "none",
   IF Creating(b.id, {"settle", "delete", "retract"}) THEN "early" ELSE "none"} \ {"none"}

Write(o, stored, answered) ==
  LET b == op[o]
      fits == Expected(b.id, b.expect)
  IN /\ At(o, "write") /\ (answered => stored) /\ (~fits => stored /\ answered)
     /\ LoseIf(~answered)
     /\ task' = IF fits /\ stored THEN [task EXCEPT ![b.id] = b.copy] ELSE task
     /\ excuse' = IF fits /\ stored THEN excuse \cup Excusing(b) ELSE excuse
     /\ Step(o, IF fits /\ answered THEN AfterWrite(b) ELSE Idle)
     /\ UNCHANGED <<card, runs, words>>

\* refreshCard shows the writer's copy.
RefreshCard(o, ok) ==
  /\ At(o, "refresh")
  /\ LoseIf(~ok)
  /\ card' = IF ok THEN [card EXCEPT ![op[o].id] = op[o].copy.state] ELSE card
  /\ excuse' = IF ok THEN excuse ELSE excuse \cup {"card"}
  /\ Return(o)
  /\ UNCHANGED <<task, runs, words>>

-----------------------------------------------------------------------------
(* The machines *)

\* taskForClaim: a task that is pinned to another machine is left to it while that one is online.
ClaimRead(o, m, t) ==
  /\ Free(o) /\ m \in up /\ run[t][Owner[m]] = "queued" /\ task[t].state # "none"
  /\ task[t].pin \in {Nowhere, m} \/ task[t].pin \notin up
  /\ Holds(o, "pin", "claim", t, [task[t] EXCEPT !.pin = m])
  /\ UNCHANGED <<rows, runs, words, excuse, lost>>

\* ClaimRun; pinTaskRun then writes the copy that was read before.
ClaimRun(o) ==
  LET t == op[o].id
      m == op[o].copy.pin
  IN /\ At(o, "claim")
     /\ IF run[t][Owner[m]] = "queued" THEN run' = [run EXCEPT ![t][Owner[m]] = m] /\ Goto(o, "write")
        ELSE UNCHANGED run /\ Return(o)
     /\ UNCHANGED <<rows, gate, up, outages, words, excuse, lost>>

RunEnds(t, w) ==
  /\ run[t][w] # "none"
  /\ run' = [run EXCEPT ![t][w] = "none"]
  /\ gate' = [gate EXCEPT ![t][w] = "none"]
  /\ UNCHANGED <<rows, up, outages, op, words, excuse, lost>>

\* A machine goes offline, or comes back.
MachineTurns(m) ==
  /\ outages < MaxOutages
  /\ up' = (up \cup {m}) \ (up \cap {m}) /\ outages' = outages + 1
  /\ UNCHANGED <<rows, run, gate, op, words, excuse, lost>>

\* The instance dies in the middle of a creation or before a card is refreshed; before another
\* step, that is the same as the failure of that step.
Crash(o) ==
  /\ ~At(o, "idle") /\ (op[o].kind = "create" \/ At(o, "refresh"))
  /\ LoseIf(TRUE)
  /\ excuse' = excuse \cup {"crash"}
  /\ Return(o)
  /\ UNCHANGED <<rows, runs, words>>

-----------------------------------------------------------------------------
\* A task that has come this far on the usual way; a shipped one is signed off and has its merge request.
Arrived(s) == [NoRow EXCEPT !.state = s, !.signed = (s = "mr_created"), !.mr = (s = "mr_created")]
First(t)   == \A u \in Ids: t <= u

Init ==
  /\ \E s \in Existing, open \in BOOLEAN:
       /\ open => s # "none"
       /\ task = [t \in Ids |-> IF First(t) THEN [Arrived(s) EXCEPT !.open = open] ELSE NoRow]
       /\ card = [t \in Ids |-> IF First(t) THEN s ELSE "none"]
       /\ blessed = {t \in Ids : First(t) /\ s = "mr_created"}
       /\ opened = {t \in Ids : First(t) /\ open}
  /\ lent = {}
  /\ run = [t \in Ids |-> [w \in People |-> "none"]] /\ gate = run
  /\ up = Runners /\ op = [o \in Ops |-> Idle]
  /\ excuse = {}
  /\ lost = 0 /\ outages = 0

CreateStep(o) ==
  \/ \E listing \in SUBSET Ids: \/ \E t \in Ids: CreateList(o, t, listing)
                                \/ SettleRace(o, listing)
  \/ \E did, answered \in BOOLEAN: PostCard(o, did, answered) \/ StoreTask(o, did, answered)
  \/ SettleBlind(o) \/ AllSuperseded(o) \/ Kick(o)
  \/ \E ok \in BOOLEAN: DeleteLoser(o, ok) \/ RetractCard(o, ok)
  \/ \E u \in Ids, ok \in BOOLEAN: Supersede(o, u, ok) \/ SupersededCard(o, u, ok)

CallStep(o) ==
  \/ \E t \in Ids: \/ \E s \in Reported \cup {task[t].state}, mr \in BOOLEAN: Report(o, t, s, mr)
                   \/ PublishTestPlan(o, t)
                   \/ \E w \in People, which \in {"mr", "mrown"}: RequestMRWith(o, t, w, which)
                   \/ SignOff(o, t) \/ SetSteering(o, t) \/ Steer(o, t)
                   \/ \E w \in Members: Mention(o, t, w)
                   \/ \E s \in Terminal: Close(o, t, s)
                   \/ \E m \in Runners: ClaimRead(o, m, t)
  \/ ReportPlan(o) \/ ConsumeApproval(o) \/ ClaimRun(o)
  \/ \E stored, answered \in BOOLEAN: Write(o, stored, answered)
  \/ \E ok \in BOOLEAN: RefreshCard(o, ok)
  \/ Crash(o)

WorldStep ==
  \/ \E t \in Ids, w \in People: \/ RequestMR(t, w) \/ RunEnds(t, w)
                                \/ \E verdict \in {"granted", "denied"}: Decide(t, w, verdict)
  \/ \E m \in Runners: MachineTurns(m)

Next == WorldStep \/ \E o \in Ops: CreateStep(o) \/ CallStep(o)

Spec == Init /\ [][Next]_vars

-----------------------------------------------------------------------------
Calls == [kind : {"idle", "create", "report", "plan", "mr", "mrown", "signoff", "steering", "close", "start", "pin"},
          pc : {"idle", "card", "store", "settle", "delete", "retract", "supersede", "kick",
                "write", "again", "consume", "refresh", "claim"},
          id : Ids \cup {0}, by : People, copy : Rows, expect : States \cup {"none"}, old : SUBSET (Ids \X Rows), n : 0..MaxCalls]

(* The variables keep their types, and a call that is in flight is about a task. *)
TypeOK ==
  /\ task \in [Ids -> Rows]
  /\ card \in [Ids -> States \cup {"none", "retracted"}]
  /\ run \in [Ids -> [People -> Runners \cup {"none", "queued"}]]
  /\ gate \in [Ids -> [People -> {"none", "pending", "granted", "denied", "spent"}]]
  /\ up \subseteq Runners /\ lost \in 0..MaxLost /\ outages \in 0..MaxOutages
  /\ blessed \subseteq Ids /\ lent \subseteq Ids /\ opened \subseteq Ids
  /\ excuse \subseteq {"post", "answer", "order", "index", "read", "delete", "card", "early", "bounce", "crash"}
  /\ op \in [Ops -> Calls]
  /\ \A o \in Ops: op[o].pc # "idle" => op[o].id \in Ids

(* A project has one active task: concurrent creations settle on one of them, unless a call of *)
(* theirs failed, the index was behind, a shipped task came back, or the loser's id is the     *)
(* smaller one and its row was stored after the winner had looked.                             *)
OneActive == \A t, u \in Ids: t # u /\ Stands(t) /\ Stands(u) =>
               excuse \cap {"answer", "order", "index", "read", "delete", "bounce", "crash"} # {}

(* "ULIDs give both racers the same verdict without coordinating: the task created first wins, *)
(* the loser retracts itself" (codingtask.go, Create): the same without the last exception.    *)
OneVerdict == \A t, u \in Ids: t # u /\ Stands(t) /\ Stands(u) =>
                excuse \cap {"answer", "index", "read", "delete", "bounce", "crash"} # {}

(* No push without a word: a task counts as signed off, which is what request_mr answers        *)
(* "approved" on, and as shipped, only after that task was signed off by its requester, or by a *)
(* member in a run of theirs after the requester had let the members steer that task; and a     *)
(* shipped one has a merge request.                                                             *)
PushNeedsSignOff ==
  \A t \in Ids: /\ task[t].signed => t \in blessed \cup (lent \cap opened)
                /\ task[t].state \in {"mr_created", "done"} => task[t].signed /\ task[t].mr

(* A row moves along the edges of the lifecycle, whatever copies are in flight: of two writers *)
(* that race, one wins, and a finished task stays finished until it is deleted.                *)
MovesAlongEdges == [][\A t \in Ids: /\ task[t].state \in States /\ task'[t].state \in States =>
                                        CanTransition(task[t].state, task'[t].state)
                                    /\ task[t].state \in Terminal => task'[t].state \in {task[t].state, "none"}]_task

(* A card for a task that does not exist says so, and the card of one that exists shows it,    *)
(* once its creation is over, unless a post or a rewrite failed or the instance died, or       *)
(* somebody used the loser of a race while it was there.                                       *)
CardTellsTruth ==
  \A t \in Ids: ~Creating(t, {"store", "settle", "delete", "retract"}) =>
    /\ card[t] \in States /\ task[t].state = "none" => excuse \cap {"post", "card", "crash", "early"} # {}
    /\ card[t] = "retracted" /\ task[t].state # "none" => excuse \cap {"delete", "answer"} # {}

-----------------------------------------------------------------------------
(* The inductive invariant behind OneActive and CardTellsTruth: what creations in flight, rows *)
(* and cards know of one another.                                                              *)

\* The points of a creation that has posted its card and is not over.
Making == {"store", "settle", "delete", "retract"}

\* Call o is about task t, or has it in its list.
Concerns(o, t) == \/ op[o].pc \notin {"idle", "card"} /\ op[o].id = t
                  \/ \E p \in op[o].old: p[1] = t

\* An id, a card and a row belong to one creation.
CreationInv ==
  /\ \A t \in Ids: card[t] = "none" => task[t].state = "none"
  /\ \A o, p \in Ops:
       op[o].pc \in Making \cup {"card"} /\ op[p].pc \in Making \cup {"card"} /\ op[o].id = op[p].id => o = p
  /\ \A o \in Ops:
       /\ op[o].pc \in Making \cup {"card", "supersede"} => op[o].kind = "create"
       /\ op[o].pc = "card" => card[op[o].id] = "none"
       /\ \A t \in Ids: Concerns(o, t) => card[t] # "none"
       /\ op[o].pc = "store" => task[op[o].id].state = "none" /\ card[op[o].id] # "retracted"
       /\ op[o].pc \in {"settle", "delete"} => task[op[o].id].state # "none"

\* Nothing has kept the creations so far from settling.
Clean == excuse \cap {"answer", "order", "index", "read", "delete", "bounce", "crash"} = {}

\* While one task stands, every creation that has yet to look has the larger id and will see it.
SettledInv ==
  Clean => \A t \in Ids: \A u \in Ids \ {t}: Stands(t) =>
             /\ ~Stands(u)
             /\ Active(task[u]) /\ Creating(u, {"settle"}) => t < u

\* The task exists, and the one creation that could take it back is over.
Made(t) == task[t].state # "none" /\ ~Creating(t, Making)

\* Call o is about to rewrite the card of task t.
Rewrites(o, t) == \/ At(o, "refresh") /\ op[o].id = t
                  \/ \E p \in op[o].old: p[1] = t /\ p[2].state = "done"

\* While nobody uses a task before its creation is over, who rewrites a card has its task made.
UnusedInv ==
  "early" \notin excuse => \A t \in Ids: /\ Creating(t, Making) => task[t].state \in {"none", "created"}
                                         /\ \A o \in Ops: Rewrites(o, t) => Made(t)

\* A card is retracted when the task is gone, unless that could not be seen to.
GoneInv ==
  excuse \cap {"delete", "answer"} = {} =>
    /\ \A o \in Ops: At(o, "retract") => task[op[o].id].state = "none"
    /\ \A t \in Ids: card[t] = "retracted" => task[t].state = "none"

\* A card that shows a state has its task, or a creation that will see to it.
ShownInv ==
  excuse \cap {"post", "card", "crash", "early"} = {} =>
    \A t \in Ids: card[t] \in States => task[t].state # "none" \/ Creating(t, Making)

CardInv == UnusedInv /\ GoneInv /\ ShownInv

-----------------------------------------------------------------------------
(* What does not hold *)

(* The sign-off that the thread announced stays on record. *)
SignOffKept == [][\A t \in Ids: task[t].signed /\ task'[t].state # "none" => task'[t].signed]_task

(* A task stays with the machine that holds its checkout while that machine is online. *)
PinKept == [][\A t \in Ids: task[t].pin \in up /\ task'[t].state # "none" => task'[t].pin = task[t].pin]_task

(* An approval that is spent has signed the task off (or the call that spent it is still on):  *)
(* the next call with it is told that the requester declined.                                  *)
SpentIsSignedOff ==
  \A t \in Ids, w \in People: gate[t][w] = "spent" /\ (\A o \in Ops: op[o].id # t) => task[t].signed

(* "Authority (approvals, MR sign-off) stays with the requester regardless" of who steers     *)
(* (model/codingtask.go, Steering).                                                           *)
AuthorityStays == \A t \in Ids: task[t].signed => t \in blessed

(* When nothing is going on with a task and nothing has failed, its card shows its state. *)
CardFollows == \A t \in Ids: lost = 0 /\ (\A o \in Ops: op[o].id # t /\ \A p \in op[o].old: p[1] # t)
                 => card[t] \in {task[t].state, "retracted"}
=============================================================================
