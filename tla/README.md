# Verification of ex

ex is a team messenger with agents: a Go server (`internal/`) that runs as several identical
instances over DynamoDB, Redis and object storage, a web client, and runner programs on members'
desktops that execute the agents' work. This directory holds TLA+ models of the parts in which
several actors move one piece of state, the TLC configurations that check them on small
instances, and proofs checked by TLAPS.

Paths below are relative to `internal/`. Abbreviations: *orch* = `agents/orchestrator.go`,
*gates* = `agents/orchestrator_gates.go`, *coord* = `agents/orchestrator_coord.go`.

## 1. Inventory

### What the system consists of

| Part | State | Operations | Talks to |
|---|---|---|---|
| Run lifecycle and ledger (orch, `store/run.go`, `handler/agentrunner.go`) | the run row: state, runner, lease, deadlines, event sequence, turns, posts; the claim-queue row | start, queue offline, claim, event batch, heartbeat, post, complete, fail, cancel, lease timer, sweeps | turn slots (afterTerminal), approvals, messages, event log |
| Turn coordination (coord, orch) | in Redis: the slot of each (thread, agent, invoker) key, one parked hand-off per key and its index | claim, read holder, heal, park, take, release, drop, restore after a restart | run lifecycle |
| Approval cards (gates, `store/runextras.go`) | a row per card: state, class (its purpose, options, draft), spent | request, poll (and expire), decide, gate an action, consume | runs, messages, the engine |
| Scheduled messages (`service/scheduled_message.go` and its store) | a row per message; its place in the due index | schedule, edit, delete, send now, poll, deliver | message sending |
| Coding tasks and pinning (`agents/codingtask.go`, `agents/orchestrator_task.go`, `store/codingtask.go`) | the task row: state, sign-off, merge request, pinned machine; its card message | create (card, row, settle), supersede, report, publish a plan, request a merge request, sign off, steer, close, claim | runs, approvals, messages |
| Server engine (`agents/serverengine*.go`) | slots of the in-process runner, aborts | claim loop, converse with the model, call tools | run lifecycle as a runner, approvals |
| Standing orders (orch, `agents/agent.go`, `store/agentmem.go`, `agents/orchestrator_deactivation.go`) | a row per order: schedule, last run, what was missed and whether the creator was asked | create, edit, delete, list, sweep, dispatch, catch up, decide, reap; the deactivation of an account | starts runs |
| Event stream of a user (`pubsub/redis.go`, `eventlog`, `handler/ws.go`, `src/hooks/useWebSocket.ts`) | stamped events, the stream and payloads in Redis, the socket's buffer, the tab's cursor | stamp, publish, append, trim, drop, connect, replay, handle, read views again | every part publishes |
| Subscriptions (`pubsub/broker.go`, `handler/ws.go`, `handler/broker_adapter.go`) | sockets, who is subscribed to what per instance, what Redis sends to the instance | register, list, subscribe, unregister, tear down, apply a control frame | memberships |
| Cached audiences (`service/notification_audience.go`, `eventlog/recipients.go`, `cache/audience.go`) | per instance, members of a channel stamped with a generation; the generation in Redis | change and announce, look up, fill, expire | memberships, notifications, the event stream |
| Alerts (`service/notification_*.go`, `service/push_scheduler.go`, `service/message.go`) | the notified marker and acknowledgements in Redis, the check of a message and its pushes in the task queue | fan out beside the send, check and fan out again, push, acknowledge | messages, audiences, presence, the push provider |
| Reminders | a due set in Redis | schedule, claim, fire | alerts |
| Presence | counts per user and instance | connect, disconnect, expire | sessions |
| Sessions and tokens (`service/auth.go`, `store/token.go`) | refresh-token families | sign in, rotate, detect reuse, revoke | every request |
| Directory sync | users from Microsoft Graph, leader election | sync, deactivate | users, memberships |
| Channels, messages, threads, unread, drafts, files, search, caches, bots, importer, web client | their rows, indexes and caches | CRUD, read cursors, reindex, invalidate | each other |

`PROJECT.json` lists each of them with its sources and whether it is modelled.

Everything durable is a DynamoDB item. An update carries a condition (`UpdateRun` compares the
state that was read, `SettleApproval` and `ConsumeApproval` the card's state,
`ClaimScheduledMessage` the place in the queue) or is an atomic ADD (`AddRunSpend`); there are
no transactions across items. So the atomic step of every model is one store, Redis or send
operation, and whatever a handler read before may be old when it writes.

### Where it is hard

* **Interleaving.** Any instance serves any request; a run is moved by its runner's posts, the
  member's stop, the lease timer and the sweeps of every instance.
* **Copies.** Handlers write the row they read, whole, under a condition on one field.
* **Faults.** An operation fails before or after it was applied, a response is lost and the
  runner sends again, a handler dies between two operations.
* **Time.** Claim windows, leases, rolling deadlines under a ceiling, parked hand-offs that
  expire, leases of due messages.
* **Two stores.** The slot in Redis and the run in DynamoDB are not written together.

### What makes each part right

Run: one runner is handed it, it only climbs `queued → acknowledged → running → ended`, an
ended run is never written again, its ending is announced as it is, a message or a turn is counted
at most once and a count that was taken is not taken back, and it ends. Turns: one live run per key but for those that went ahead beside the slot; every message to a busy agent is answered; no
key wedges. Approvals: one yes, one action, and only the action asked for; a decision is
final. Scheduled messages: sent once, not early, not after a delete, and sent. Coding tasks:
one active task per project, no push without the word of the requester or of a member the requester lets
steer, a card that says what is there. Standing orders: a due order fires once, what was missed is caught up with, nothing starts
on the creator's machine unasked after an absence. Event stream: a tab that comes back is given
everything or told that it was not. Subscriptions: a member's sockets hear the channel and nobody
else's do. Audiences: no alert by members from before a change. Alerts: every recipient of a message
is reached though the sender dies or presence is wrong, and no phone twice without a lost answer. Tokens: one
descendant per refresh token.

## 2. The modules

| Module | What it is |
|---|---|
| `RunProtocol` | the abstract promise of a run: a ladder that is climbed, one hand-over, an ending that is announced as what it is |
| `RunLifecycle` | the handlers over one run; refines `RunProtocol` |
| `TurnCoordination` | the turns of one thread: slots and parked hand-offs in Redis over runs that are live or not |
| `Approvals` | the cards of one run and the calls that raise, settle and spend them |
| `ScheduledMessages` | one scheduled message, its author's calls and the pollers |
| `CodingTasks` | the tasks of one requester in one project channel, the members who may steer them, their cards, runs and machines |
| `StandingOrders` | one standing order under sweeps, requests and deactivation |
| `EventStream` | one user's events from the publisher through Redis and a socket to a tab |
| `Subscriptions` | the members of one channel, their sockets, and the broker of every instance |
| `AudienceCache` | the cached members of one channel on every instance |
| `Alerts` | the alerts of messages: fan-outs, checks, pushes, acknowledgements |
| `MC...` | instances for TLC (symmetry, model values) |
| `...Proofs` | theorems about a component (two of the modules: about two components), for every value of its constants |

**The shape all of them share.** `call` maps each handler invocation that can be in flight to
the operation it performs, the point `pc` it has reached, and what it has read (`copy`, `seen`,
`key`, ...). A handler is a `...Read` action and one action per later operation; between two,
anything else may happen. `Return` ends a call, `Crash` ends it
anywhere. `FaultUnless(ok)` makes an operation fail and pays for it from `MaxFaults`. In each
module the operators called *mutant* are faulty variants of the definition that follows them;
no specification uses them.

### RunLifecycle

`row` is `model.Run` without what no property reads; `queueRow` its claim-queue item;
`acked` what the runner knows was taken of its events; `assigned`, `announced`, `posted` and
`uncounted` are history: what was told to whom, the messages the agent sent, and those of them whose count
failed or died on the way (the tool call swallows `RecordAgentPost`'s error). `Create` is `startRun` with `CreateRun` (row and queue entry in one write),
`ExtendOffline` is `queueOfflineRun`. `ClaimRead`, `ClaimStaleEntry`, `ClaimTake`,
`ClaimRebase`, `ClaimAssign` and `ClaimMintFails` are `claimOnce` with its five store
operations; `ReportRead`/`ReportSpend` are `ReportEvents` over `AddRunSpend`; `PostRead`,
`PostSend`, `PostCount` the runner's `Post`; `EndWrite`, `EndDequeue`, `EndFinish` are
`beginTerminal`, `dequeueRun` and `finishTerminal`, shared by complete, fail, cancel, limit,
lease loss and sweeps, whose reads are actions of their own.
Abstracted: the context bundle, the conversation the run posts into, typing, token usage other
than turns. The clock is a number; windows and leases are small numbers of ticks.

`Overlap = FALSE` says that a runner sends a batch again only after its first copy is no longer
being handled. The handler's deadline makes that the normal case; with `TRUE`, a second
handler and limits of two turns in `MCRunEnds.cfg`, `TurnsCountedOnce` is refuted.

### TurnCoordination

`slot`, `parked` and `index` are the Redis keys of *coord*; `run`, `turnOf` what the store says
of runs. Each of their operations is a step of its own, so that handlers overtake each other wherever the code
lets them. `Post`, `ClaimTurn`, `ReadHolder`, `CheckHolder`, `HealSlot`, `CreateRun` are `OnMessage`
and `startRun`; `Park`, `Index`, `Look`, `Take`, `Unindex`, `Release` are `deferTurn` and
`runDeferredTurn`; `EndRun` is `afterTerminal`; `Stop...` `StopThread`; `Boot...` `recoverActive`.
The code prefers an extra turn to a lost one, so not every live run has its slot. Three variables keep the
exceptions apart, each with the step that makes one:

* `loose`: runs that `startRun` lets ahead without the slot (`Ahead`: the claim, the read or the swap failed, or
  the slot was gone between SETNX and GET), runs whose slot was swapped away blindly, and those that outlasted
  it (`ExpireSlot`, `turnSlotTTL`);
* `blind`: a call on its way to `replaceTurn` whose look in the store (`CheckHolder`) failed or did not find the
  holder, which may live, or be about to be created;
* `stranded`: messages nobody has in hand any more when the last hand-off of their key is dropped as busy.

`OneLiveRun`, `LiveKeepsSlot` and `HandoffIsAnswered` say that there are no others. Without the exceptions
they are `OneRunAtATime` and `NeverNeither`, which *Deviations* refutes; `NeverForgotten` is the latter less
`stranded`. The fallback without Redis is not modelled.

### Approvals

A card has a class: the exact action it was raised for (`Actions`, `AuthorizeAction`), a
connector or merge request (`Subjects`, `ApprovalGranted`), or one of the loose kinds: plain,
question (`ask_user`), tool, reply (a draft). `GateList`, `GrantRead` read, `Consume` spends,
`Act` does the thing; `Ask` raises a card when there is no verdict yet. `DecideRead`,
`DecideSettle`, `SettledLook`, `SettledUnblock`, `DecideReply` are `DecideApproval`;
`StatusRead`, `StatusExpire` `ApprovalStatus`. Task claims and artifacts are left out.

### ScheduledMessages

`msg` is the row and `due` its place in the queue: a send time or a lease (`DueKey`,
`LeaseKey`). `UpdateRead`/`ChangeRead` read the row, `Claim` is `ClaimScheduledMessage` for
the author's calls and the pollers alike, `UpdateWrite`, `DeleteRemove`, `Deliver`,
`DeliverClear`, `DeliverFail` are what the holder does. Reads are steps, so an eventually
consistent read or index is a read that came earlier. A send can post and report a failure
(`"lost"`). A holder finishes before its lease lapses; `LongRounds = FALSE` says the same of
a poller with its batch, and the code does not enforce it (see `MCScheduledRound.cfg`).
The keys are milliseconds: a lease is assumed never to equal a send time.

### CodingTasks

`task` is the row (`model.CodingTask`: state, sign-off, merge request, pin), `card` what its card
message shows, `run` each person's run of it up to the machine that has it, `gate` the server's merge-request
approval in that run. `UpdateTask` is conditioned on the state alone, so the calls share one `Write` with
`Expected`; the reads are `Report`, `PublishTestPlan`, `RequestMRWith`, `SignOff`, `SetSteering`,
`Close` and `ClaimRead` (`taskForClaim`). `CreateList`, `PostCard`, `StoreTask`, `SettleRace`,
`DeleteLoser`, `RetractCard`, `Supersede` and `Kick` are `Create` in its order: the id is taken before the card is
posted and the row stored, so ids follow neither. A card can be posted although the answer is lost (`PostCard`).
`Mention` is `startRun`'s implicit bind: a member of an open task has a run in their own name, on their own
machine, and `Decide` is for the run's invoker; so `blessed` (the requester's word), `lent` (a member's) and `opened`
(tasks the requester let anyone steer) are told apart. `excuse` is history:
what kept a creation from settling. The project's channel, its registry of repositories and the
worktree are left out; a report is a state with or without a merge request.

### StandingOrders

`row` is the subscription; a call carries the `copy` it listed. `SweepList`, `SweepClock`,
`Advance`, `Look`, `Invoke`, `Mark` and `CatchUpLook` are the three sweeps of one reconciler tick,
which work on the same copies one after the other; `DispatchList` is `dispatchSubscriptions`,
`Decide...` `DecideCatchUp`, `Update...`, `Delete...`, `List...` the creator's calls, `Stop...`
`StopUserAutomations`. `PutSubscription` has no condition, so each put is paid for with `lost` when
the row has moved since it was read: the properties say what holds as long as few puts are lost.
A schedule is the set `Firings` of its times; one run (`live`) stands for the order's runs.

### EventStream

`stage` is how far the publication of an event has come: stamped, published (`GoLive`), appended
by its own routine (`AppendMany`, with `Retries`), or given up and the stream dropped; a routine that cannot
read who is to get the event appends to nobody and drops nothing (`ResolveFails`). `excuse` is history: what
became of an event that the code accepts to lose. `Replay` is
`Stream.Replay` with `runReplay`: `Newer` is the walk from the newest of the `MaxLen + 1` entries it reads (`Oldest`
is the last of them) down to the cursor, `Resolved` and `Gap` are `resolvePayloads`. The socket's `frames` are
the live frames that wait, up to `Buffer`, and a full one closes the socket (`SendFrame`). The tab's side (`Handle...`, `Refetch`) is `useWebSocket.ts`: it is
part of the protocol, since the cursor lives there.

### Subscriptions

`subs` is `userSubs` and `redisSubs` in one relation, `upstream` what Redis sends, `pending` the
commands between the two; `subMu` is held while there is one. A change of membership is `Ask`,
`WriteRow`, `ApplyHere`, `PublishFrame`; a socket `RegisterClient`, `ListChannels`, `Subscribe`,
`UnregisterClient`, `DropSubscriptions`. A list that fails or panics (`ListFails`) leaves the socket up without its
channels, and `read` tells it from one that listed none. A SUBSCRIBE or UNSUBSCRIBE that answers with an error
(`broker.go:176`, `230`: logged, and go-redis subscribes again when it reconnects) is not modelled.

### AudienceCache

A change is `WriteRow` and `Bump` (`audienceWritten`, `ChannelAudienceChanged`). A read is `Begin`,
`Check`, `ReadGen`, `Look`, `Fetch`, `Keep`, for alerts (`loadChannelAudience`: consistent fill) and
inboxes (`cachedResolve`: ordinary fill, joined lookups). `in` and `out` are history: the users that
were in, or out, at some moment of the read; `off` marks what a Redis failure or a read that was
behind excuses; readers whose generation could not be read share a fetch of their own. A generation that Redis loses and reseeds is not modelled.

### Alerts

`Send` commits the message and begins the fan-out `"live"`, which runs beside the request: `ArmSafetyNet`
queues the durable check, `LoadMemberSnapshot`, `Record`, `PublishDesktop`, `OnlineSet`, `SchedulePush` (one
recipient at a time, in any order) and `MarkNotified` are `fanOut` and `notifyAndMark` in their order. The check
(`WasNotified`, `ReadMessage`) is `NotifyCheckTaskHandler` and runs the same fan-out under the name `"check"`;
`WasAcked`, `SendPush` and `AnswerLost` are the push worker and its provider; `Popup` and
`MarkNotificationAcked` are the desktop, which may see an alert, be away, or acknowledge too late. Who is
alerted is decided without a write and is a constant. Presence (`online`) is any set. There is no clock: a
deferred push is due at any time, a fan-out slot is only a delay, and the marker, the acknowledgement and the
retained tasks are kept longer than the retries last, as their time-outs say. The queue repeats a task that
failed or whose worker died until its retries are used up, and then keeps it in its archive. Messages
share no state but the queue's workers, so one message at a time is looked at.

## 3. What is checked

Regular runs. All pass; what the repository says of itself and the code contradicts is under *Deviations*.

| Configuration | Question | Instance |
|---|---|---|
| `MCRunRaces` | Do racing handlers keep one runner and exact posts, and implement `RunProtocol`? | 2 handlers and the reconciler, 2 runners, 1 fault, 3 instants; 2.6 M states |
| `MCRunEnds` | Does every run end, charged once and under its ceiling? | 1 handler and the reconciler, 1 fault, 6 instants, fair; 0.84 M |
| `MCTurnRaces` | One live run, one hand, live runs keep their slot? | 3 messages, 3 calls, a fault, crash, stop or restart, expiry; 1.9 M |
| `MCTurnHandoff` | Is every message answered while nothing fails, and does a key recover afterwards? | 3 messages, 2 calls, 1 fault, 1 crash, fair; 0.19 M |
| `MCApprovalRaces` | One yes, one action, the right one, final, and is an approved draft posted? | 2 cards of every origin, 2 calls, 1 fault, fair |
| `MCScheduled` | Sent once, not after a delete, and settled? | 2 author calls, 2 pollers, 1 edit, 1 fault, fair; 0.5 M |
| `MCOrders` | Claimed once, caught up with, and not unasked? | 1 sweep, 1 request of any kind, 2 instants, 1 change of the world, 1 lost put, fair; 1.2 M |
| `MCTasks` | One active task, signed off by those who may, along the lifecycle, with a true card? | 2 tasks, 2 calls of any kind, 2 people, 3 machines, 1 failed operation, 1 outage; 2.3 M |
| `MCEvents` | Is a replay complete or said not to be, and does the tab end up with everything? | 4 events, 1 ephemeral, streams of 2, buffers of 2, 2 connections, 1 fault; 9.5 M |
| `MCSubs` | Do maps, Redis and memberships agree when they have come to rest? | 2 users, 2 instances, 2 sockets, 2 changes, 1 failure; 1.5 M |
| `MCAudience` | Does a read that begins after a change know of it? | 1 user, 2 instances, 2 readers, 3 changes, 1 failure; 6.1 M |
| `MCAlerts` | Is every recipient reached, and no phone twice, whatever dies or fails? | 1 message, a desktop and 2 phones, 1 retry each, 1 fault, 1 death, fair; 0.9 M |

**Why the bounds are enough.** Two handlers are needed for any race over a row, a third actor
(the reconciler) for a race over its ending, two runners for a double hand-over; a call is
reused after it returns, so the number of handlers over time is not bounded. Three messages
are the least with which a hand-off can be parked behind the *successor* of the run it was
meant for. `OneHarm` lets one thing go wrong in a behaviour of `MCTurnRaces`, be it a fault, a crash, a stop or a
restart, besides what runs out; two of them, or all four with two messages, are as clean (up to 6.3 M states, too
many for a regular run), and the proofs have no such limit. `InOrder` sends the messages of `MCTurnHandoff`, which
differ in nothing else, in one order. Two cards are the least with which a denial and a grant coexist. A lease of two ticks leaves
one tick in which its holder may be slow; `GiveUpAfter` of one tick leaves a retry. Two tasks are the least
for a race of creations, whose ids come in either order, two people for a word that is not the requester's, and each
call starts twice, so that a claim meets a report meets a close.
One order, one sweep and one request meet in every place, for the sweep's copy is what the others
make stale. Four events are the least with a full stream, a trimmed one and one under way;
one user is enough for an audience, whose reads treat each user alike. Two phones are the
least with which one push is queued and the other is not when the fan-out breaks off, and one retry the
least with which a task that failed is run again or given up (the proof is for any number).
One fault (an
error, a lost answer or a death anywhere) is the unit the code handles; the proofs are for
any number. Counters stop at their bounds in the guards (`MaxTurns`, `MaxPosts`, `MaxEdits`, `MaxNow`,
`MaxRuns`, `MaxCards`); the clock of `ScheduledMessages` goes on past `MaxNow` to the next due
message, so that the bound never stops it short of the event a property waits for.
Deadlock checking is off everywhere: these systems may rest when nobody asks anything.

**Fairness.** *RunLifecycle*: the clock ticks, a call that started goes on (`Continue`; goroutines
are scheduled and store calls have time-outs), and the reconciler looks at deadlines
(`StartReconciler` ticks for ever). No fairness for runners or members: a run must end when
everybody else is silent. *TurnCoordination*: calls go on, and a run that is left alone ends,
which is the conclusion of `EveryRunEnds`. *Approvals*: calls go on. *StandingOrders*: every reconciler
lists (`Run`'s ticker), calls that started go on, and runs end. *CodingTasks*, *EventStream*,
*Subscriptions* and *AudienceCache* are checked for safety alone. *Alerts*: fan-outs go on, and the
queue's workers run what is due (asynq's servers on every instance); nothing is assumed of the desktop. *ScheduledMessages*: the
clock, calls that started, and the pollers' look at the queue (`runDuePoller`).

Every property has a faulty variant of one definition under which TLC refutes it
(`PROJECT.json`, "mutants").

### Deviations

Found while translating the code; each can be replayed with `tlc -config <file> <module>`.
Where a configuration names several properties, TLC stops at the first, and `-continue` goes on to the others:

| Configuration | What the code says | What happens |
|---|---|---|
| `MCRunStopLost` | a stop that finds the run moved takes it for "finished in the meantime — fine" (gates:855) | `StopEndsTheRun`: the runner's first state event is as stale, and the stopped run goes on |
| `MCRunLost` | no path can "publish a state emoji that contradicts the state" (orch:2112) | `LimitSaysHowItEnded`: `finishLimit` goes on with its own copy after it lost the race to end the run |
| | posts are "capped per run" (`handler/agentrunner.go:316`) | `PostCapHolds`: the cap is compared before, and counted after, the send: concurrent posts all pass |
| | "if the agent never posted during the run, the final text is posted on its behalf" (orch:2159) | `AnswersOnlyTheSilent`: a message whose count failed or died is on the row as if it had not been sent, and the final text is posted on top |
| `MCRunQueueNotice` | "correct the notice too" when the extension fails (orch:913) | the correction assigns the deadline already extended in the copy |
| `MCRunLeaseReap` | "a heartbeat may have renewed between arm and fire" (orch:2909) | the write compares the state only: a lease renewed after the check is no help |
| `MCRunEnds`, with `Overlap = TRUE`, two handlers, two turns | a retried batch "contributes nothing twice" (`store/run.go:187`) | it does while the first copy is still being handled |
| `MCTurnTwoLive` | "At most one active run per (thread, agent)" (orch:984) | `OneRunAtATime`: a slot found taken and then gone is not taken, or a holder not yet created (or unreadable) is judged dead |
| `MCTurnHandoff`, with `NeverNeither`, `MaxFaults = MaxCrashes = 0` | "afterTerminal's to start or ours, never neither" (orch:1225) | the ended run's release takes what is parked behind its successor, and drops it as busy |
| `MCTurnSteering` | steering "that lands mid-run must not be lost" (`agents/orchestrator_task.go:107`) | `NeverNeither`: it is parked under the member's key, which is free, so it is taken at once and dropped as busy; the run it should wait for releases the requester's |
| `MCTurnHandoff`, with `NeverForgotten`, `MaxFaults = MaxCrashes = 0`, `Expiry = TRUE` | "never neither" (orch:1225) | the hand-off expires after 30 minutes; a task run has no wall-clock limit |
| `MCTurnHandoff`, with `NeverForgotten`, `MaxCrashes = 0` | "never a silently dropped reply" (coord:192) | a failed GETDEL counts as nothing parked |
| `MCTurnStop` | a stop "drops queued handoffs, so nothing restarts the chain" (gates:815) | a hand-off already taken on its way to `startRun` is neither parked nor active |
| `MCApprovalDraftLost` | "on approval, the SERVER posts the drafted reply" (gates:356) | the card is settled first; when the send fails nothing repeats it |
| `MCApprovalLost` | "A denied action stays denied" (gates:661) | `DeniedStaysDenied`: two concurrent calls raise a card each, and with one denied and one approved the action goes ahead |
| | a deliberate yes is "a plain request_approval answer" (gates:615) | `PostsNeedARequest`: an answered question passes the same filter |
| | "Only a LIVE run goes back to working" (gates:260) | `FinishedIsNotWorking`: the run is read before the badge is written |
| `MCScheduledEdit` | a claim fails when "the message changed" (`store/scheduled_message.go:184`) | a text-only edit puts it back at the same place, so a poller that listed it earlier sends the old text |
| `MCScheduledRound` | instances "never double-deliver" (`app/run.go:163`) | the leases of a batch count from its listing: late claims of a long batch take a lapsed lease |
| `MCTasksLost` | "ULIDs give both racers the same verdict without coordinating: the task created first wins" (`agents/codingtask.go:435`) | `OneVerdict`: ids are taken before the card is posted, so the row with the smaller id can be stored after the other has looked, and both stand |
| | "Authority (approvals, MR sign-off) stays with the requester regardless" (`model/codingtask.go:161`) | `AuthorityStays`: the merge-request approval goes to the run's invoker, who may be a member the requester lets steer |
| | the sign-off and the pin are recorded on the row | `SignOffKept`, `PinKept`: writes are conditioned on the state alone, so a copy read before overwrites them; `SpentIsSignedOff`: then the approval is spent and nothing is signed; `CardFollows`: a card can show the older of two states |
| `MCOrdersLost` | an order its creator deleted is gone, an edit is saved | `SavedIsStored`, `EditIsKept`: a sweep that listed the row before puts its whole copy back |
| | `StopUserAutomations` "ends everything agents do on userID's behalf" | `NothingAfterStop`: an invocation whose account was read as active starts its run afterwards |
| | "a new schedule never fires retroactively" (`sweepSchedules`) | `NotRetroactive`: an edit that gives an old order a schedule leaves its last run where it was, and a past firing is due at once |
| | the order of a quiet thread is reaped (`threadSubTTL`) | `ReapedWhenQuiet`: the time-to-live counts from `LastRunAt`, which messages do not move, so a busy thread's order goes too |
| `MCEventsLost` | "Comparison is lexicographic, which matches ULID's chronological ordering" (`Replay`) | `DoneIsAll`: an older id appended late is taken for the cursor, and entries beneath it are left out of a replay that ends with `replay.done` |
| | a frame whose handler threw "can still be replayed on the next reconnect" (`useWebSocket.ts`) | `ThrownIsReplayed`: the next event handled takes the cursor past it |
| | "Sending the partial entries first is harmless" (`runReplay`) | `PartialIsHarmless`: the socket can go before the word about the gap |
| | | `FirstPageIsComplete`: what is published between a page's first read and its first subscription is neither sent nor replayed |
| | "a possible mid-stream hole can never masquerade as a complete replay" (`inboxDropper`) | `HoleIsTold`: an event whose recipients could not be read is appended to nobody and drops no stream, and the replay after it ends with `replay.done` |
| `MCSubsLost` | live delivery "is already correct on join" (`eventlog/recipients.go`) | `FollowsMembership`: a change published between a socket's list and its subscription is undone by it |
| | subscriptions "are torn down only when the user's last client disconnects" (`Broker`) | `NoLeftover`: the instance that served the request subscribes users who have no socket there, and nothing tears that down |
| | the channel list fails or panics "and the handler proceeds" (`handler/ws.go:291`) | `MembersHear`: the member's socket is up and deaf to the channel until the next change or connection |
| `MCAudienceLost` | "A cache fill must read consistently" (`consistentMemberLister`) | `InboxFollows`: `app/infra.go:120` fills the recipients of durable events by ordinary reads, and keeps what they missed under the new generation |
| | a topic whose generation cannot be read "is then fetched and not cached" (`eventlog/recipients.go`) | `UnreadIsFetched`: all who could not read it share one fetch under one key, begun before or after a change (takes two failures) |
| `MCAlertsLost` | "The scheduled task must survive a process restart", and presence can be wrong "without losing an alert" (`sendMobilePush`) | `NobodyMissedEver`: a push that could not be queued is logged, and the fan-out is marked as completed all the same |
| | a badge "self-heals on the next list fetch" (`fanOut`) | `BadgeCountedOnce`: a fan-out that is repeated adds to the stored count again |

Also visible in `ScheduledMessages`, and excused there by `rushed`: an edit or a delete that
claims a message and then fails leaves it at the lease, so it goes out within the lease, however
far its send time is. And `ErrScheduledBusy` ("being delivered at that very moment") is also
the answer while a message merely waits out the lease of a failed attempt.

## 4. What is proved

For every set of handlers, runners, cards, pollers (finite where they are counted or numbered: the calls of `RunLifecycle`, the ids of `CodingTasks`, the events of `EventStream`), and every limit. Each argument is an inductive invariant.

* **`RunLifecycleProofs`.** `TypeCorrect` is types. The safety properties are not inductive: they say
  nothing of what handlers in flight are about to write. `RaceInv` adds that: for every call, the
  copy it holds was true of the row and has been *overtaken* only up the ladder (`CallSound`); the
  row and its queue entry agree (`RowSound`); what was handed out and announced agrees with the
  row (`ToldSound`). Each lemma `...Keeps` shows for one action that the row `Climbs` and the
  invariant stays. `RaceSound` gives `QueuedClaimable`, `HandedToOne`, `AnnouncedAsEnded`;
  `EndedIsFinal` and `Implements` (the refinement of `RunProtocol`) read the ladder off `Climbs`.
  The counters and clocks need a second one, `LedgerInv` (`LedgerSound`): a copy read before the assignment was
  sent is still blank, so that writing it back takes no post and no turn away; a batch was read on the row it will
  be added to; a completion overtakes no tool call of its runner. The row is compared with the messages *sent*, less
  those about to be counted and those whose count was lost (`Counted`), so `PostsCounted` and `NoSecondAnswer`
  say by name what escapes the row (`AnswersOnlyTheSilent`, without that exception, is refuted). They and
  `CeilingHolds` follow for every runner, `TurnsCounted` for one that sends a batch at a time (`Overlap = FALSE`);
  for the others it is false, which `MCRunEnds` shows with `Overlap = TRUE`.
* **`TurnCoordinationProofs`.** `HandInv`: no message is held twice by calls, by parking places and by runs;
  it holds until the first failure (`Unfailed`), for an operation on what is parked can be applied although its
  answer is lost, which gives `HandedOnce`. `IdInv`: the run a start claims for is nowhere else, neither stored
  nor known to another call; a slot is healed after a look from a run that has ended, and released from one that
  is not live. `SlotMoves` says how any step of a call takes a slot, which with `IdInv` gives `SlotIsKept`.
  `SlotInv`: every live run not in `loose` has its slot, and who is about to store one has it already; two runs
  of one key would have to share it, which is `OneRunPerKey`. Nothing is assumed of failures, interleavings,
  keys, messages, calls, instances, crashes or expiries.
* **`ApprovalsProofs`.** `YesInv` says who has a yes *in hand*: the call that spent it until it
  acts, or for a draft the call whose decision settled it. No two calls hold one card; an acted
  card is spent. `YesCorrect` gives `OneYes` and `SpendingSound`; `Final` follows step by
  step. `OnlyAllowed` holds for cards of every origin: nothing is done on a yes that was given for something else. An
  answered `ask_user` question has no purpose, class or draft to tell it from a request, and it does permit
  a post: that is the code's filter, and `PostsNeedARequest`, which is what the code's comment says, is refuted
  (`MCApprovalLost`). `RepliesArePosted` rests on `DraftsInHand`: the property itself is not
  inductive, since a decision that read the card before it was settled counts for it too and then returns empty-handed.
* **`ScheduledMessagesProofs`.** `Inv` says that whoever holds the message holds it under a lease that
  is its own, lies ahead and that nobody can have read as due; that a deleted message has
  no row and no holder; and that posts beyond the first are paid for by faults. It gives `Hands`,
  `Twice` and `Deleted`. `Early` needs `DueInv` on top: a message under a lease is due, rushed,
  or being changed by its author. All four assume `~LongRounds`; `TypeCorrect` does not.
* **`CodingTasksProofs`.** `NoPushUnsigned` is not inductive: a call that read a row before may write
  it whole after. `WordInv` says that every row and every copy in flight that is signed off, or shipped,
  belongs to a task for which the requester gave the word, or a member once the task was open to them (`GoodRow`, `GoodCall`),
  and that a member's run, and so a member's approval, is of a task that was opened; `StoreInv` that a creation
  stores over no row, so a new task starts unsigned. `EdgesKept` follows from what each `Write` may
  expect of the state it replaces. Races of creations (`CreationsSound`) rest on three more. `CreationInv`: an id, a
  card and a row belong to one creation; nothing is said of the order of ids. `SettledInv`: while a task
  stands, no other does, and a creation that is stored and has yet to look has the larger id, so that it will see
  that task and yield; a smaller id stored behind it, or a listing that does not show every row, is an excuse.
  `CardInv`: whoever is about to rewrite a card has its task made, and a card is retracted only after its row. They
  give `OneSettles` and `CardsTell`, with `IndexLags` TRUE or FALSE.
* **`SubscriptionsAndOrdersProofs`.** Behind `InOrderUpstream` is that `subMu` lets one command be on its way at
  most, and that what Redis sends, with that command applied, is what the maps want. Behind `UpHeard` is
  that no other socket's coming takes a topic away: lists
  shrink only for the socket that leaves or is evicted, and the tear-down looks at what is left.
  `HearsAsMember` says that no non-member's socket hears the channel and every member's does whose list was read. It needs `FollowInv`, of users without a race on record: they have one change at a time
  (`OneChange`); between a written row and its frame nothing is promised, and otherwise every instance that has the
  user's topic, and for a member a socket that read its list (`MustKnow`), *comes to* the membership once its frames are applied (`HeardOf`). An instance that Redis does not
  send the topic yet gets no frame: its SUBSCRIBE is on its way for a socket that knows what it listed (`OnItsWay`), and
  a change that finds it with an older list is a race.
  For `StandingOrders`, which this module extends too, `FiresOncePerFiring` rests on `FiresInv`. A due order has one claim of
  those there may be by now still to be made (`Allowed`); a row that exists never has more behind it than that
  allows (`Paid`), a call that is to put the row back and was not overtaken holds it as it is, and a sweep that found it
  due holds a row that still is (`CallSound`). The lemmas on `Allowed` say that it grows with time and with each run,
  and that it is one claim short at most, which is what a lost put costs, beside the claim of a stale sweep. That
  bound had to be corrected: one claim for a lost put, as stated at first, held with the run's one reconciler and
  is wrong with two, where a stale sweep claims and also puts back an older `LastRunAt`, by which the next one
  claims again (TLC found it on two sweepers when the invariant was tried).
  `AsksFirst` (`ConsentFirst`) adds two parts, together `ConsentInv`: an offline miss is on the row, or a call is
  about to note it there (`Backlog`), and what a sweep is about to start was found to need no consent (`Judged`).
  A sweep that was not overtaken holds the row as it is, so where nobody is about to note it was told of the miss.
* **`AlertsAndEventsProofs`.** `GoodPush`, of each queued push: one still to be sent was taken only where the answer was
  lost, one that is over was taken or stood down. `GivenInv`: what a fan-out has taken off its list, what the marker and a
  check that is done stand for, were queued or logged as unqueueable. They give `OnePush` and `NobodyLeftOut`.
  For `EventStream`, which this module extends too, the three properties stand on each other, and together on
  `StreamInv`. `InTurn` is the order of time: ids are stamped in turn, and an event that overlapped no other was over
  before the next was stamped. From that follows `Placed`: the entry of such an event has the older before it
  and the newer behind it (`SplitKept`, by cases of append and trim), and once it is gone, so is everything older. That
  is what makes a replay that meets its cursor complete (`ReplayIsComplete`): an event beyond the cursor
  either has an entry behind the cursor's, or everything the stream holds is newer than it, and the cursor is not met.
  `GivenUp` says that what never reached the stream, and did not empty it, is excused; `Opening` that the cursor a
  socket was opened with is still the tab's until the replay, `Carried` that only what was published is under way, and
  `Shown` that the tab shows what it has handled.
  `Covered`, of a live tab between any two steps, is what comes to `NothingMissing` at rest: each durable event that is
  out is shown, in the replay, among the frames that wait or excused, or the views are still to be read. A full buffer
  keeps it by closing the socket, a thrown handler by an excuse, `replay.exhausted` by the reading that follows.

* **`AudienceCacheProofs`.** `Wide`: a reader under way counts as in, and as out, every user of a change that
  has not returned. `Near`: members that differ from the rows by such users only. An entry, or members read
  and not stored yet, of the present generation is near (`GoodEntry`, `GoodFetch`), because a change moves the
  generation before it returns; and whatever carries the generation a reader has read fits that
  reader (`FitsEntry`, `FitsFetch`), be it a hit, a joined read or a late store. Both properties follow.

They rest on `ConstantsAssumption` of each module, `OrderAssumption` of `StandingOrders` (naturals, the reconciler
is a call, names are distinct) and `StreamAssumption` of `EventStream` (ids are positive, buffers and streams hold
something), which TLC evaluates on every instance. Proved without a run of its own: `RaceInv`,
`LedgerInv`, `Apart`, `Unfailed`, `FollowInv`, `FiresInv`, `ConsentInv`, `StreamInv`, `DraftsInHand`, `QueuedIsClaimable`, `EndingAnnouncedAsIs`, `TerminalIsFinal` (runs), `Spending` (approvals), `OneHand`
and `NotEarly` (scheduled messages), the invariants of creations, and the types of `TurnCoordination`,
`AudienceCache` and `Alerts`; TLC has checked each as an invariant on the instances above before.

**Only model-checked:** liveness, which the prover cannot treat with fairness (`EveryRunEnds`,
`HandoffIsAnswered`, `NeverWedged`, `EveryMessageSettles`, `MissedIsCaught`, `EveryAlertSettles`). Every safety property that a run checks is stated by a theorem.

## 5. The plan

Standing orders, coding tasks, the event stream, subscriptions, cached audiences and alerts have been modelled.
What is left, in order:

1. **EventArchive** (`archiveRunEvents`): append, archive, mark, prune; a reader finds every event in one place.
2. **ServerEngine** as a runner of `RunLifecycle` composed with `Approvals`: aborts, slots, orphan cards.
3. **RefreshTokens**: two refreshes that rotate one token (`store/token.go`), reuse detection and sign-out.
4. **Unread state**: read cursors against counts, and marking unread, over messages that are deleted.
5. **Reminders** over the promise of `Alerts`; **Presence**; **DirectorySync**; the conversion of conversations.

Abstract specifications worth stating: the turn key as a mutex with a one-place mailbox, for
`TurnCoordination`; the due queue as a lock with expiry, shared by scheduled messages and reminders; the
event stream.

Theorems next: the refinements of the abstract specifications above; the invariants of the modules to come.
Runs: one safety run and one fair run per module; the deviations stay as configurations on demand.

**Not modelled, and why.** Rendering, parsing and formatting of messages; object storage, image
conversion, e-mail, unfurling (pure I/O); single-row records that one member edits (profiles,
emoji, skills, connectors); Bedrock, Microsoft Graph, the push provider and the search engine
(external); the importer and the web client (outside the server). The in-process fallbacks
for a deployment without Redis.
