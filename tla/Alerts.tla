------------------------------- MODULE Alerts --------------------------------
(***************************************************************************)
(* The alerts of a message: the fan-out that runs beside the send, the     *)
(* durable check that runs it again unless it was completed, the queued    *)
(* mobile pushes and the desktop's acknowledgement that stands them down   *)
(* (internal/service: message.go, notification_fanout.go,                  *)
(* notification_push.go, notification_durable.go, push_scheduler.go).      *)
(*                                                                         *)
(* Who is alerted is decided without a write and given here: some on the   *)
(* desktop, some on the phone.  Presence may be wrong in either direction. *)
(* A task of the queue is run by a worker of any instance, again after a   *)
(* failure or when its worker died, and archived when its retries are used *)
(* up.                                                                     *)
(***************************************************************************)
EXTENDS Naturals

CONSTANTS
  Msgs, DesktopUsers, MobileUsers,
  CheckRetries, PushRetries, \* notifyCheckMaxRetry, pushMaxRetry
  MaxFaults, MaxCrashes      \* bounds: failed operations, deaths

ASSUME ConstantsAssumption ==
  {CheckRetries, PushRetries, MaxFaults, MaxCrashes} \subseteq Nat

Users   == DesktopUsers \cup MobileUsers
Runs    == {"live", "check"}  \* beside the send, and by the check
Alerts  == Msgs \X MobileUsers
Working == {"load", "record", "desktop", "online", "push"}

VARIABLES
  msg,          \* "none", "sent" or "deleted"
  fan,          \* the two fan-outs of a message
  check,        \* its check in the queue
  marked,       \* messages with the notified marker
  task,         \* its pushes in the queue
  desk,         \* a desktop alert on its way, or its acknowledgement
  acked,        \* acknowledged alerts
  pushed,       \* pushes the provider took, per alert
  again,        \* of those, the ones whose answer was lost
  counted,      \* how often the message went into its recipients' badges
  unscheduled,  \* alerts whose push could not be queued
  faults, crashes

bounds == <<faults, crashes>>
client == <<desk, acked>>
queue  == <<task, pushed, again, unscheduled>>
vars   == <<msg, fan, check, marked, client, queue, counted, bounds>>

Idle == [pc |-> "none", todo |-> {}]
NoTask == [state |-> "none", tries |-> 0]

Init ==
  /\ msg = [m \in Msgs |-> "none"]
  /\ fan = [r \in Runs |-> [m \in Msgs |-> Idle]]
  /\ check = [m \in Msgs |-> NoTask] /\ marked = {}
  /\ task = [a \in Alerts |-> NoTask]
  /\ desk = [a \in Msgs \X DesktopUsers |-> "none"] /\ acked = {}
  /\ pushed = [a \in Alerts |-> 0] /\ again = [a \in Alerts |-> 0]
  /\ counted = [m \in Msgs |-> 0] /\ unscheduled = {}
  /\ faults = 0 /\ crashes = 0

At(r, m, pc)   == fan[r][m].pc = pc
Goto(r, m, pc) == fan' = [fan EXCEPT ![r][m].pc = pc]

\* An operation fails; a process dies.
Fault == faults < MaxFaults /\ faults' = faults + 1 /\ UNCHANGED crashes
Death == crashes < MaxCrashes /\ crashes' = crashes + 1 /\ UNCHANGED faults

\* A task that failed goes back to the queue until its retries are used up.
Retried(t, retries) ==
  IF t.tries < retries THEN [state |-> "queued", tries |-> t.tries + 1] ELSE [t EXCEPT !.state = "archived"]

-----------------------------------------------------------------------------
(* The message *)

\* sendRun: the message is stored, and notify begins beside the send.
Send(m) ==
  /\ msg[m] = "none"
  /\ msg' = [msg EXCEPT ![m] = "sent"] /\ Goto("live", m, "arm")
  /\ UNCHANGED <<check, marked, client, queue, counted, bounds>>

Delete(m) ==
  /\ msg[m] = "sent"
  /\ msg' = [msg EXCEPT ![m] = "deleted"]
  /\ UNCHANGED <<fan, check, marked, client, queue, counted, bounds>>

\* The safety net comes first, then the wait for a slot, which is only a delay.
ArmSafetyNet(m) ==
  /\ At("live", m, "arm") /\ Goto("live", m, "load")
  /\ \/ check' = [check EXCEPT ![m].state = "queued"] /\ UNCHANGED bounds
     \/ Fault /\ UNCHANGED check
  /\ UNCHANGED <<msg, marked, client, queue, counted>>

-----------------------------------------------------------------------------
(* The fan-out *)

\* What the caller of notifyAndMark does with its answer: the check is done,
\* or is tried again.
Returns(r, m, ok) ==
  /\ fan' = [fan EXCEPT ![r][m] = [Idle EXCEPT !.pc = IF r = "live" THEN "done" ELSE "none"]]
  /\ IF r = "live" THEN UNCHANGED check
     ELSE check' = [check EXCEPT ![m] = IF ok THEN [@ EXCEPT !.state = "done"] ELSE Retried(@, CheckRetries)]

\* Mutant: the marker is written all the same.
CompletedAnyway(loaded) == TRUE
\* An audience that could not be read alerted nobody.
Completed(loaded) == loaded

LoadMemberSnapshot(r, m) ==
  /\ At(r, m, "load")
  /\ \/ Goto(r, m, "record") /\ UNCHANGED <<check, marked, bounds>>
     \/ /\ Fault /\ Returns(r, m, Completed(FALSE))
        /\ marked' = IF Completed(FALSE) THEN marked \cup {m} ELSE marked
  /\ UNCHANGED <<msg, client, queue, counted>>

\* Activity rows and badges; each write is best-effort.
Record(r, m) ==
  /\ At(r, m, "record") /\ Goto(r, m, "desktop")
  /\ counted' = [counted EXCEPT ![m] = @ + 1]
  /\ UNCHANGED <<msg, check, marked, client, queue, bounds>>

\* Published to whatever sockets there are, and kept nowhere.
PublishDesktop(r, m) ==
  /\ At(r, m, "desktop") /\ Goto(r, m, "online")
  /\ \E got \in SUBSET DesktopUsers :
       desk' = [a \in DOMAIN desk |-> IF a[1] = m /\ a[2] \in got THEN "coming" ELSE desk[a]]
  /\ UNCHANGED <<msg, check, marked, acked, queue, counted, bounds>>

\* Presence decides when a push is due, not whether there is one: at once, or
\* after ackFallbackDelay, which is any time here.
\* Mutant: who is online needs no push.
OfflineOnly(online) == MobileUsers \ online
Pushable(online) == MobileUsers

OnlineSet(r, m) ==
  /\ At(r, m, "online")
  /\ \E online \in SUBSET MobileUsers :
       fan' = [fan EXCEPT ![r][m] = [pc |-> "push", todo |-> Pushable(online)]]
  /\ UNCHANGED <<msg, check, marked, client, queue, counted, bounds>>

\* mobilePushTaskID: the queue refuses a second task for an alert while it has
\* or retains one.
\* Mutant: it retains none.
Pending(a) == task[a].state \in {"queued", "sending"}
Taken(a) == task[a].state # "none"

SchedulePush(r, m) ==
  /\ At(r, m, "push")
  /\ \E u \in fan[r][m].todo :
       /\ fan' = [fan EXCEPT ![r][m].todo = @ \ {u}]
       /\ \/ /\ task' = IF Taken(<<m, u>>) THEN task
                        ELSE [task EXCEPT ![<<m, u>>] = [state |-> "queued", tries |-> 0]]
             /\ UNCHANGED <<unscheduled, bounds>>
          \/ Fault /\ unscheduled' = unscheduled \cup {<<m, u>>} /\ UNCHANGED task
  /\ UNCHANGED <<msg, check, marked, client, pushed, again, counted>>

MarkNotified(r, m) ==
  /\ At(r, m, "push") /\ fan[r][m].todo = {} /\ Returns(r, m, TRUE)
  /\ \/ marked' = marked \cup {m} /\ UNCHANGED bounds
     \/ Fault /\ UNCHANGED marked
  /\ UNCHANGED <<msg, client, queue, counted>>

FanOut(r, m) ==
  \/ LoadMemberSnapshot(r, m) \/ Record(r, m) \/ PublishDesktop(r, m) \/ OnlineSet(r, m)
  \/ SchedulePush(r, m) \/ MarkNotified(r, m)

\* The process dies, and its fan-out with it.
FanOutDies(m) ==
  /\ fan["live"][m].pc \in {"arm"} \cup Working /\ Death
  /\ fan' = [fan EXCEPT !["live"][m] = [Idle EXCEPT !.pc = "done"]]
  /\ UNCHANGED <<msg, check, marked, client, queue, counted>>

-----------------------------------------------------------------------------
(* The check *)

\* The check is due.  The marker is read; without one the message is, as it is
\* now.
WasNotified(m) ==
  /\ check[m].state = "queued"
  /\ \/ /\ m \in marked /\ check' = [check EXCEPT ![m].state = "done"] /\ UNCHANGED <<fan, bounds>>
     \/ /\ m \notin marked /\ check' = [check EXCEPT ![m].state = "active"]
        /\ Goto("check", m, "message") /\ UNCHANGED bounds
     \/ /\ Fault /\ check' = [check EXCEPT ![m] = Retried(@, CheckRetries)] /\ UNCHANGED fan
  /\ UNCHANGED <<msg, marked, client, queue, counted>>

ReadMessage(m) ==
  /\ At("check", m, "message")
  /\ \/ msg[m] = "deleted" /\ Returns("check", m, TRUE) /\ UNCHANGED bounds
     \/ msg[m] = "sent" /\ Goto("check", m, "load") /\ UNCHANGED <<check, bounds>>
     \/ Fault /\ Returns("check", m, FALSE)
  /\ UNCHANGED <<msg, marked, client, queue, counted>>

CheckDies(m) ==
  /\ check[m].state = "active" /\ Death /\ Returns("check", m, FALSE)
  /\ UNCHANGED <<msg, marked, client, queue, counted>>

-----------------------------------------------------------------------------
(* The push worker *)

\* NewMobilePushTaskHandler: the acknowledgement is looked for when the push is due.
WasAcked(a) ==
  /\ task[a].state = "queued"
  /\ task' = [task EXCEPT ![a].state = IF a \in acked THEN "retained" ELSE "sending"]
  /\ UNCHANGED <<msg, fan, check, marked, client, pushed, again, unscheduled, counted, bounds>>

SendPush(a) ==
  /\ task[a].state = "sending"
  /\ \/ task' = [task EXCEPT ![a].state = "retained"] /\ pushed' = [pushed EXCEPT ![a] = @ + 1]
     \/ task' = [task EXCEPT ![a].state = "archived"] /\ UNCHANGED pushed    \* ErrPushUndeliverable
     \/ task' = [task EXCEPT ![a] = Retried(@, PushRetries)] /\ UNCHANGED pushed
  /\ UNCHANGED <<msg, fan, check, marked, client, again, unscheduled, counted, bounds>>

\* The worker dies, before the provider has the push or after.
PushDies(a) ==
  /\ task[a].state = "sending" /\ Death
  /\ task' = [task EXCEPT ![a] = Retried(@, PushRetries)]
  /\ \/ UNCHANGED <<pushed, again>>
     \/ pushed' = [pushed EXCEPT ![a] = @ + 1] /\ again' = [again EXCEPT ![a] = @ + 1]
  /\ UNCHANGED <<msg, fan, check, marked, client, unscheduled, counted>>

\* OneSignalPushSender.Send: the provider took the push and its answer was lost.
\* The request is sent again at once, or the task is tried again later.
AnswerLost(a) ==
  /\ task[a].state = "sending" /\ Fault
  /\ task' \in {task, [task EXCEPT ![a] = Retried(@, PushRetries)]}
  /\ pushed' = [pushed EXCEPT ![a] = @ + 1] /\ again' = [again EXCEPT ![a] = @ + 1]
  /\ UNCHANGED <<msg, fan, check, marked, client, unscheduled, counted>>

-----------------------------------------------------------------------------
(* The desktop: it acknowledges an alert that its user is there to see.  The *)
(* acknowledgement may be too old by the time there is a socket for it.      *)

Popup(a) ==
  /\ desk[a] = "coming" /\ \E seen \in BOOLEAN : desk' = [desk EXCEPT ![a] = IF seen THEN "acking" ELSE "none"]
  /\ UNCHANGED <<msg, fan, check, marked, acked, queue, counted, bounds>>

MarkNotificationAcked(a) ==
  /\ desk[a] = "acking" /\ desk' = [desk EXCEPT ![a] = "none"]
  /\ acked' \in {acked, acked \cup {a}}
  /\ UNCHANGED <<msg, fan, check, marked, queue, counted, bounds>>

-----------------------------------------------------------------------------
Beside(m) == ArmSafetyNet(m) \/ FanOut("live", m)
Checks(m) == WasNotified(m) \/ ReadMessage(m) \/ FanOut("check", m)
Pushes(a) == WasAcked(a) \/ SendPush(a)

Next ==
  \/ \E m \in Msgs : Send(m) \/ Delete(m) \/ Beside(m) \/ FanOutDies(m) \/ Checks(m) \/ CheckDies(m)
  \/ \E a \in Alerts : Pushes(a) \/ PushDies(a) \/ AnswerLost(a)
  \/ \E a \in DOMAIN desk : Popup(a) \/ MarkNotificationAcked(a)

Spec == Init /\ [][Next]_vars

\* What runs goes on, and the queue's workers run what is due.
Fairness == /\ \A m \in Msgs : WF_vars(Beside(m)) /\ WF_vars(Checks(m))
            /\ \A a \in Alerts : WF_vars(Pushes(a))
FairSpec == Spec /\ Fairness

-----------------------------------------------------------------------------
(* Properties *)

Tasks(retries) == [state : {"none", "queued", "active", "sending", "done", "retained", "archived"},
                   tries : 0..retries]

\* Types.
TypeOK ==
  /\ msg \in [Msgs -> {"none", "sent", "deleted"}]
  /\ fan \in [Runs -> [Msgs -> [pc : {"none", "arm", "message", "done"} \cup Working, todo : SUBSET MobileUsers]]]
  /\ check \in [Msgs -> Tasks(CheckRetries)] /\ marked \subseteq Msgs
  /\ task \in [Alerts -> Tasks(PushRetries)]
  /\ desk \in [Msgs \X DesktopUsers -> {"none", "coming", "acking"}]
  /\ acked \subseteq Msgs \X DesktopUsers /\ unscheduled \subseteq Alerts
  /\ pushed \in [Alerts -> Nat] /\ again \in [Alerts -> Nat] /\ counted \in [Msgs -> Nat]
  /\ faults \in 0..MaxFaults /\ crashes \in 0..MaxCrashes

\* "a duplicate NotifyForMessage for the same message cannot double-push"
\* (pushTaskRetention): however often the fan-out of a message is repeated, a
\* phone is alerted once, and once more for every answer of the provider that
\* was lost, on its way or with its worker.
PushedOnce == \A a \in Alerts : pushed[a] <= 1 + again[a]

\* Seen at the desktop, taken by the provider, or kept as a dead letter.
Reached(a) == a \in acked \/ pushed[a] > 0 \/ task[a].state = "archived"

Quiet(m) == /\ fan["live"][m].pc = "done"
            /\ check[m].state = "done" \/ (check[m].state = "none" /\ m \in marked)
            /\ \A u \in MobileUsers : ~Pending(<<m, u>>)

\* "Presence can be wrong in EITHER direction without losing an alert"
\* (sendMobilePush): when a message that still stands has nothing left to run,
\* each of its mobile recipients has seen it at the desktop, was pushed, or is
\* in the archive, unless the push could not even be queued.
NobodyMissed ==
  \A m \in Msgs : msg[m] = "sent" /\ Quiet(m) =>
    \A u \in MobileUsers : Reached(<<m, u>>) \/ <<m, u>> \in unscheduled

\* "a deploy or crash in that window used to lose the message's popup, Activity
\* row and push for good" (notification_durable.go): once its check is armed,
\* every message comes to that, is deleted before, or has its check archived.
EveryAlertSettles ==
  \A m \in Msgs : \A u \in MobileUsers :
    check[m].state # "none" ~> \/ Reached(<<m, u>>) \/ <<m, u>> \in unscheduled
                               \/ msg[m] = "deleted" \/ check[m].state = "archived"

-----------------------------------------------------------------------------
(* What the code means to do and does not in every case; refuted on demand. *)

\* "The scheduled task must survive a process restart", but one that could not
\* be queued is only logged, and the fan-out counts as completed.
NobodyMissedEver ==
  \A m \in Msgs : msg[m] = "sent" /\ Quiet(m) => \A u \in MobileUsers : Reached(<<m, u>>)

\* "the badge/marker self-heals on the next list fetch" (fanOut): a fan-out that
\* is repeated adds to the stored badge a second time.
BadgeCountedOnce == \A m \in Msgs : counted[m] <= 1
=============================================================================
