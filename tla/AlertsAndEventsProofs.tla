----------------------- MODULE AlertsAndEventsProofs -----------------------
(***************************************************************************)
(* Machine-checked facts about Alerts, for any number of messages, users   *)
(* and retries, however often operations fail and processes die; and about *)
(* EventStream, for any number of events, connections and failures, any    *)
(* length of the stream and any size of the buffers.                       *)
(***************************************************************************)
EXTENDS Alerts, EventStream, SequenceTheorems, TLAPS

-----------------------------------------------------------------------------
(* Type correctness *)

FanPcs == {"none", "arm", "message", "done"} \cup Working
Fans   == [pc : FanPcs, todo : SUBSET MobileUsers]

\* A fan-out that goes on, and one that is over, are of their types.
LEMMA GotoType ==
  ASSUME TypeOK, NEW r \in Runs, NEW m \in Msgs, NEW pc \in FanPcs, Goto(r, m, pc)
  PROVE  fan' \in [Runs -> [Msgs -> Fans]]
<1>1. [fan[r][m] EXCEPT !.pc = pc] \in Fans
  <2>1. fan[r][m] \in Fans
    BY DEF TypeOK, Fans, FanPcs
  <2> QED
    BY <2>1 DEF Fans
<1>2. fan' = [fan EXCEPT ![r] = [fan[r] EXCEPT ![m] = [fan[r][m] EXCEPT !.pc = pc]]]
  BY DEF Goto
<1> QED
  BY <1>1, <1>2 DEF TypeOK, Fans, FanPcs

\* A task that is tried again is queued or archived.
LEMMA RetriedType ==
  ASSUME NEW n \in Nat, NEW t \in Tasks(n)
  PROVE  Retried(t, n) \in Tasks(n) /\ Retried(t, n).state \in {"queued", "archived"}
  BY DEF Tasks, Retried

\* So is a fan-out that returns, and its check.
LEMMA ReturnsType ==
  ASSUME TypeOK, NEW r \in Runs, NEW m \in Msgs, NEW ok \in BOOLEAN, Returns(r, m, ok)
  PROVE  fan' \in [Runs -> [Msgs -> Fans]] /\ check' \in [Msgs -> Tasks(CheckRetries)]
<1>1. fan' \in [Runs -> [Msgs -> Fans]]
  BY DEF TypeOK, Returns, Fans, FanPcs, Idle
<1>2. CASE r = "live"
  BY <1>1, <1>2 DEF Returns, TypeOK
<1>3. CASE r # "live"
  <2> DEFINE t == check[m]
             n == IF ok THEN [t EXCEPT !.state = "done"] ELSE Retried(t, CheckRetries)
  <2>1. t \in Tasks(CheckRetries)
    BY DEF TypeOK
  <2>2. n \in Tasks(CheckRetries)
    <3>1. [t EXCEPT !.state = "done"] \in Tasks(CheckRetries)
      BY <2>1 DEF Tasks
    <3>2. Retried(t, CheckRetries) \in Tasks(CheckRetries)
      BY <2>1, RetriedType, ConstantsAssumption DEF ConstantsAssumption
    <3> QED
      BY <3>1, <3>2
  <2>3. check' = [check EXCEPT ![m] = n]
    BY <1>3 DEF Returns
  <2> HIDE DEF n
  <2> QED
    BY <1>1, <2>2, <2>3 DEF TypeOK
<1> QED
  BY <1>2, <1>3

\* The bounds are kept.
LEMMA FaultType ==
  ASSUME TypeOK, (Fault \/ Death \/ UNCHANGED bounds)
  PROVE  faults' \in 0..MaxFaults /\ crashes' \in 0..MaxCrashes
<1>1. MaxFaults \in Nat /\ MaxCrashes \in Nat
  BY ConstantsAssumption DEF ConstantsAssumption
<1> QED
  BY <1>1 DEF TypeOK, Fault, Death, bounds

\* The initial state.
LEMMA InitType == Init => TypeOK
<1> SUFFICES ASSUME Init PROVE TypeOK
  OBVIOUS
<1>1. {CheckRetries, PushRetries, MaxFaults, MaxCrashes} \subseteq Nat
  BY ConstantsAssumption DEF ConstantsAssumption
<1>2. NoTask \in Tasks(CheckRetries) /\ NoTask \in Tasks(PushRetries)
  BY <1>1 DEF Tasks, NoTask
<1>3. Idle \in Fans
  BY DEF Idle, Fans, FanPcs
<1> QED
  BY <1>1, <1>2, <1>3 DEF Init, TypeOK, Fans, FanPcs

\* The message and its check.
LEMMA MessageType ==
  ASSUME TypeOK, NEW m \in Msgs,
         Send(m) \/ Delete(m) \/ ArmSafetyNet(m) \/ FanOutDies(m) \/ WasNotified(m) \/ ReadMessage(m) \/ CheckDies(m)
  PROVE  TypeOK'
<1>1. UNCHANGED <<marked, client, queue, counted>>
  BY DEF Send, Delete, ArmSafetyNet, FanOutDies, WasNotified, ReadMessage, CheckDies
<1>2. faults' \in 0..MaxFaults /\ crashes' \in 0..MaxCrashes
  BY FaultType DEF Send, Delete, ArmSafetyNet, FanOutDies, WasNotified, ReadMessage, CheckDies
<1>3. msg' \in [Msgs -> {"none", "sent", "deleted"}]
  BY DEF Send, Delete, ArmSafetyNet, FanOutDies, WasNotified, ReadMessage, CheckDies, TypeOK
<1>4. CheckRetries \in Nat /\ "live" \in Runs /\ "check" \in Runs
  BY ConstantsAssumption DEF ConstantsAssumption, Runs
<1>5. \A s \in {"queued", "done", "active"} : [check[m] EXCEPT !.state = s] \in Tasks(CheckRetries)
  BY DEF TypeOK, Tasks
<1>6. Retried(check[m], CheckRetries) \in Tasks(CheckRetries)
  BY <1>4, RetriedType DEF TypeOK
<1>7. fan' \in [Runs -> [Msgs -> Fans]] /\ check' \in [Msgs -> Tasks(CheckRetries)]
  <2>1. CASE Send(m)
    BY <1>4, <2>1, GotoType DEF Send, TypeOK, FanPcs
  <2>2. CASE Delete(m)
    BY <2>2 DEF Delete, TypeOK, Fans, FanPcs
  <2>3. CASE ArmSafetyNet(m)
    <3>1. fan' \in [Runs -> [Msgs -> Fans]]
      BY <1>4, <2>3, GotoType DEF ArmSafetyNet, FanPcs, Working
    <3>2. check' = check \/ check' = [check EXCEPT ![m] = [check[m] EXCEPT !.state = "queued"]]
      BY <2>3 DEF ArmSafetyNet
    <3> QED
      BY <1>5, <3>1, <3>2 DEF TypeOK
  <2>4. CASE FanOutDies(m)
    <3>1. fan' = [fan EXCEPT !["live"] = [fan["live"] EXCEPT ![m] = [Idle EXCEPT !.pc = "done"]]] /\ check' = check
      BY <2>4 DEF FanOutDies
    <3>2. [Idle EXCEPT !.pc = "done"] \in Fans
      BY DEF Idle, Fans, FanPcs
    <3> QED
      BY <1>4, <3>1, <3>2 DEF TypeOK, Fans, FanPcs
  <2>5. CASE WasNotified(m)
    <3>1. fan' \in [Runs -> [Msgs -> Fans]]
      <4>1. CASE Goto("check", m, "message")
        BY <1>4, <4>1, GotoType DEF FanPcs
      <4>2. CASE fan' = fan
        BY <4>2 DEF TypeOK, Fans, FanPcs
      <4> QED
        BY <2>5, <4>1, <4>2 DEF WasNotified
    <3>2. \/ check' = [check EXCEPT ![m] = [check[m] EXCEPT !.state = "done"]]
          \/ check' = [check EXCEPT ![m] = [check[m] EXCEPT !.state = "active"]]
          \/ check' = [check EXCEPT ![m] = Retried(check[m], CheckRetries)]
      BY <2>5 DEF WasNotified
    <3> QED
      BY <1>5, <1>6, <3>1, <3>2 DEF TypeOK
  <2>6. CASE ReadMessage(m)
    <3>1. CASE Goto("check", m, "load") /\ UNCHANGED check
      BY <1>4, <3>1, GotoType DEF FanPcs, Working, TypeOK
    <3>2. CASE Returns("check", m, TRUE) \/ Returns("check", m, FALSE)
      BY <1>4, <3>2, ReturnsType
    <3> QED
      BY <2>6, <3>1, <3>2 DEF ReadMessage
  <2>7. CASE CheckDies(m)
    BY <1>4, <2>7, ReturnsType DEF CheckDies
  <2> QED
    BY <2>1, <2>2, <2>3, <2>4, <2>5, <2>6, <2>7
<1> QED
  BY <1>1, <1>2, <1>3, <1>7 DEF TypeOK, client, queue, Fans, FanPcs

\* The steps of a fan-out.
LEMMA FanOutType ==
  ASSUME TypeOK, NEW r \in Runs, NEW m \in Msgs, FanOut(r, m)
  PROVE  TypeOK'
<1>1. CASE LoadMemberSnapshot(r, m)
  <2>1. fan' \in [Runs -> [Msgs -> Fans]] /\ check' \in [Msgs -> Tasks(CheckRetries)]
    <3>1. CASE Goto(r, m, "record") /\ UNCHANGED check
      BY <3>1, GotoType DEF FanPcs, Working, TypeOK
    <3>2. CASE Returns(r, m, Completed(FALSE))
      BY <3>2, ReturnsType DEF Completed
    <3> QED
      BY <1>1, <3>1, <3>2 DEF LoadMemberSnapshot
  <2>2. marked' \subseteq Msgs /\ UNCHANGED <<msg, client, queue, counted>>
    BY <1>1 DEF LoadMemberSnapshot, TypeOK
  <2>3. faults' \in 0..MaxFaults /\ crashes' \in 0..MaxCrashes
    BY <1>1, FaultType DEF LoadMemberSnapshot
  <2> QED
    BY <2>1, <2>2, <2>3 DEF TypeOK, client, queue, Fans, FanPcs
<1>2. CASE Record(r, m)
  <2>1. fan' \in [Runs -> [Msgs -> Fans]]
    BY <1>2, GotoType DEF Record, FanPcs, Working
  <2>2. counted' \in [Msgs -> Nat] /\ UNCHANGED <<msg, check, marked, client, queue, bounds>>
    BY <1>2 DEF Record, TypeOK
  <2> QED
    BY <2>1, <2>2 DEF TypeOK, client, queue, bounds, Fans, FanPcs
<1>3. CASE PublishDesktop(r, m)
  <2>1. fan' \in [Runs -> [Msgs -> Fans]]
    BY <1>3, GotoType DEF PublishDesktop, FanPcs, Working
  <2>2. desk' \in [Msgs \X DesktopUsers -> {"none", "coming", "acking"}]
    BY <1>3 DEF PublishDesktop, TypeOK
  <2> QED
    BY <1>3, <2>1, <2>2 DEF PublishDesktop, TypeOK, queue, bounds, Fans, FanPcs
<1>4. CASE OnlineSet(r, m)
  <2>1. fan' = [fan EXCEPT ![r] = [fan[r] EXCEPT ![m] = [pc |-> "push", todo |-> MobileUsers]]]
    BY <1>4 DEF OnlineSet, Pushable
  <2>2. [pc |-> "push", todo |-> MobileUsers] \in Fans
    BY DEF Fans, FanPcs, Working
  <2>3. fan' \in [Runs -> [Msgs -> Fans]]
    BY <2>1, <2>2 DEF TypeOK, Fans, FanPcs
  <2> QED
    BY <1>4, <2>3 DEF OnlineSet, TypeOK, client, queue, bounds, Fans, FanPcs
<1>5. CASE SchedulePush(r, m)
  <2>1. PICK u \in fan[r][m].todo :
          /\ fan' = [fan EXCEPT ![r][m].todo = @ \ {u}]
          /\ \/ task' = task /\ unscheduled' = unscheduled
             \/ task' = [task EXCEPT ![<<m, u>>] = [state |-> "queued", tries |-> 0]] /\ unscheduled' = unscheduled
             \/ task' = task /\ unscheduled' = unscheduled \cup {<<m, u>>}
    BY <1>5 DEF SchedulePush
  <2>2. fan[r][m] \in Fans
    BY DEF TypeOK, Fans, FanPcs
  <2>3. u \in MobileUsers /\ [fan[r][m] EXCEPT !.todo = @ \ {u}] \in Fans
    BY <2>2 DEF Fans
  <2>4. fan' \in [Runs -> [Msgs -> Fans]]
    BY <2>1, <2>3 DEF TypeOK, Fans, FanPcs
  <2>5. <<m, u>> \in Alerts /\ [state |-> "queued", tries |-> 0] \in Tasks(PushRetries)
    BY <2>3, ConstantsAssumption DEF ConstantsAssumption, Alerts, Tasks
  <2>6. task' \in [Alerts -> Tasks(PushRetries)] /\ unscheduled' \subseteq Alerts
    BY <2>1, <2>5 DEF TypeOK
  <2>7. faults' \in 0..MaxFaults /\ crashes' \in 0..MaxCrashes
    BY <1>5, FaultType DEF SchedulePush
  <2> QED
    BY <1>5, <2>4, <2>6, <2>7 DEF SchedulePush, TypeOK, client, Fans, FanPcs
<1>6. CASE MarkNotified(r, m)
  <2>1. fan' \in [Runs -> [Msgs -> Fans]] /\ check' \in [Msgs -> Tasks(CheckRetries)]
    BY <1>6, ReturnsType DEF MarkNotified
  <2>2. marked' \subseteq Msgs /\ UNCHANGED <<msg, client, queue, counted>>
    BY <1>6 DEF MarkNotified, TypeOK
  <2>3. faults' \in 0..MaxFaults /\ crashes' \in 0..MaxCrashes
    BY <1>6, FaultType DEF MarkNotified
  <2> QED
    BY <2>1, <2>2, <2>3 DEF TypeOK, client, queue, Fans, FanPcs
<1> QED
  BY <1>1, <1>2, <1>3, <1>4, <1>5, <1>6 DEF FanOut

\* What a worker does with a push.
Moves(a) ==
  \/ \E s \in {"retained", "sending"} :
       /\ task[a].state = "queued" /\ (s = "retained" => a \in acked)
       /\ task' = [task EXCEPT ![a] = [task[a] EXCEPT !.state = s]] /\ UNCHANGED <<pushed, again>>
  \/ /\ task[a].state = "sending" /\ task' = [task EXCEPT ![a] = [task[a] EXCEPT !.state = "retained"]]
     /\ pushed' = [pushed EXCEPT ![a] = @ + 1] /\ UNCHANGED again
  \/ /\ task[a].state = "sending" /\ UNCHANGED <<pushed, again>>
     /\ \/ task' = [task EXCEPT ![a] = [task[a] EXCEPT !.state = "archived"]]
        \/ task' = [task EXCEPT ![a] = Retried(task[a], PushRetries)]
  \/ /\ task[a].state = "sending"
     /\ task' = task \/ task' = [task EXCEPT ![a] = Retried(task[a], PushRetries)]
     /\ pushed' = [pushed EXCEPT ![a] = @ + 1] /\ again' = [again EXCEPT ![a] = @ + 1]

\* Every step of a worker is such a move.
LEMMA WorkerMoves ==
  ASSUME NEW a \in Alerts, Pushes(a) \/ PushDies(a) \/ AnswerLost(a)
  PROVE  Moves(a) /\ UNCHANGED <<msg, fan, check, marked, client, unscheduled, counted>>
<1>1. CASE WasAcked(a)
  BY <1>1 DEF WasAcked, Moves
<1>2. CASE SendPush(a)
  BY <1>2 DEF SendPush, Moves
<1>3. CASE PushDies(a)
  BY <1>3 DEF PushDies, Moves
<1>4. CASE AnswerLost(a)
  BY <1>4 DEF AnswerLost, Moves
<1> QED
  BY <1>1, <1>2, <1>3, <1>4 DEF Pushes

\* The push workers.
LEMMA WorkerType ==
  ASSUME TypeOK, NEW a \in Alerts, Pushes(a) \/ PushDies(a) \/ AnswerLost(a)
  PROVE  TypeOK'
<1>1. Moves(a) /\ UNCHANGED <<msg, fan, check, marked, client, unscheduled, counted>>
  BY WorkerMoves
<1>2. \A s \in {"retained", "sending", "archived"} : [task[a] EXCEPT !.state = s] \in Tasks(PushRetries)
  BY DEF TypeOK, Tasks
<1>3. Retried(task[a], PushRetries) \in Tasks(PushRetries)
  BY RetriedType, ConstantsAssumption DEF TypeOK, ConstantsAssumption
<1>4. task' \in [Alerts -> Tasks(PushRetries)]
  BY <1>1, <1>2, <1>3, ZenonT(30) DEF TypeOK, Moves
<1>5. pushed' \in [Alerts -> Nat] /\ again' \in [Alerts -> Nat]
  <2>1. /\ pushed' = pushed \/ pushed' = [pushed EXCEPT ![a] = @ + 1]
        /\ again' = again \/ again' = [again EXCEPT ![a] = @ + 1]
    BY <1>1 DEF Moves
  <2>2. pushed[a] + 1 \in Nat /\ again[a] + 1 \in Nat
    BY DEF TypeOK
  <2>3. pushed \in [Alerts -> Nat] /\ again \in [Alerts -> Nat]
    BY DEF TypeOK
  <2>4. pushed' \in [Alerts -> Nat]
    BY <2>1, <2>2, <2>3
  <2>5. again' \in [Alerts -> Nat]
    BY <2>1, <2>2, <2>3
  <2> QED
    BY <2>4, <2>5
<1>6. faults' \in 0..MaxFaults /\ crashes' \in 0..MaxCrashes
  <2>1. UNCHANGED bounds \/ Death \/ Fault
    BY DEF Pushes, WasAcked, SendPush, PushDies, AnswerLost
  <2> QED
    BY <2>1, FaultType
<1> QED
  BY <1>1, <1>4, <1>5, <1>6 DEF TypeOK, client

\* The desktop.
LEMMA DesktopType ==
  ASSUME TypeOK, NEW a \in DOMAIN desk, Popup(a) \/ MarkNotificationAcked(a)
  PROVE  TypeOK'
<1>1. a \in Msgs \X DesktopUsers
  BY DEF TypeOK
<1>2. desk' \in [Msgs \X DesktopUsers -> {"none", "coming", "acking"}] /\ acked' \subseteq Msgs \X DesktopUsers
  BY <1>1 DEF Popup, MarkNotificationAcked, TypeOK
<1> QED
  BY <1>2 DEF Popup, MarkNotificationAcked, TypeOK, queue, bounds

\* Every step keeps the types.
LEMMA NextType == TypeOK /\ [Next]_vars => TypeOK'
<1> SUFFICES ASSUME TypeOK, [Next]_vars PROVE TypeOK'
  OBVIOUS
<1>1. CASE UNCHANGED vars
  BY <1>1 DEF TypeOK, vars, client, queue, bounds
<1>2. ASSUME NEW m \in Msgs, Send(m) \/ Delete(m) \/ Beside(m) \/ FanOutDies(m) \/ Checks(m) \/ CheckDies(m)
      PROVE  TypeOK'
  BY <1>2, MessageType, FanOutType DEF Beside, Checks, Runs
<1>3. ASSUME NEW a \in Alerts, Pushes(a) \/ PushDies(a) \/ AnswerLost(a) PROVE TypeOK'
  BY <1>3, WorkerType
<1>4. ASSUME NEW a \in DOMAIN desk, Popup(a) \/ MarkNotificationAcked(a) PROVE TypeOK'
  BY <1>4, DesktopType
<1> QED
  BY <1>1, <1>2, <1>3, <1>4 DEF Next

\* Every variable keeps its type.
THEOREM TypeCorrect == Spec => []TypeOK
  BY InitType, NextType, PTL DEF Spec

-----------------------------------------------------------------------------
(* What the queue and the fan-outs know *)

\* A push still to be sent was taken only where the answer was lost; one that
\* is over was taken once more at most, or stood down.
GoodPush(a) ==
  /\ task[a].state \in {"none", "queued", "sending", "retained", "archived"}
  /\ task[a].state \in {"none", "queued", "sending"} => pushed[a] <= again[a]
  /\ pushed[a] <= 1 + again[a]
  /\ task[a].state = "retained" => a \in acked \/ pushed[a] > 0

PushInv == \A a \in Alerts : GoodPush(a)

\* A push was queued for the alert, or could not be.
Given(a) == task[a].state # "none" \/ a \in unscheduled
AllGiven(m) == \A u \in MobileUsers : Given(<<m, u>>)

\* A fan-out has given every alert it no longer has to; a marker, and a check
\* that is done for a message that stands, say that all are given.
GoodFan(r, m) == fan[r][m].pc = "push" => \A u \in MobileUsers \ fan[r][m].todo : Given(<<m, u>>)
GoodEnd(m) == /\ m \in marked => AllGiven(m)
              /\ check[m].state = "done" => AllGiven(m) \/ msg[m] = "deleted"

GivenInv == \A m \in Msgs : GoodEnd(m) /\ \A r \in Runs : GoodFan(r, m)

\* What is inductive.
Inv == TypeOK /\ PushInv /\ GivenInv

\* It holds at first.
LEMMA InitInv == Init => Inv
<1> SUFFICES ASSUME Init PROVE Inv
  OBVIOUS
<1>1. TypeOK
  BY InitType
<1>2. PushInv
  BY DEF Init, PushInv, GoodPush, NoTask
<1>3. GivenInv
  BY DEF Init, GivenInv, GoodEnd, GoodFan, NoTask, Idle
<1> QED
  BY <1>1, <1>2, <1>3 DEF Inv

\* Steps that neither touch the queue nor say more of a fan-out than was known.
LEMMA QuietStep ==
  ASSUME Inv, UNCHANGED <<task, pushed, again, unscheduled>>, acked \subseteq acked'
  PROVE  PushInv' /\ \A a \in Alerts : Given(a)' <=> Given(a)
  BY DEF Inv, PushInv, GoodPush, Given

\* A fan-out of another run or message is as it was.
LEMMA OthersKept ==
  ASSUME Inv, \A a \in Alerts : Given(a) => Given(a)',
         NEW r \in Runs, NEW m \in Msgs, fan[r][m] = fan'[r][m]
  PROVE  GoodFan(r, m)'
  BY DEF Inv, GivenInv, GoodFan, Alerts

\* A message of which nothing new is claimed is as it was.
LEMMA EndKept ==
  ASSUME Inv, \A a \in Alerts : Given(a) => Given(a)',
         NEW m \in Msgs, m \in marked' => m \in marked, check'[m].state = "done" => check[m].state = "done",
         msg[m] = "deleted" => msg'[m] = "deleted"
  PROVE  GoodEnd(m)'
  BY DEF Inv, GivenInv, GoodEnd, AllGiven, Alerts

\* The message, its check and the deaths of either run.
LEMMA MessageInv ==
  ASSUME Inv, NEW m \in Msgs,
         Send(m) \/ Delete(m) \/ ArmSafetyNet(m) \/ FanOutDies(m) \/ WasNotified(m) \/ ReadMessage(m) \/ CheckDies(m)
  PROVE  PushInv' /\ GivenInv'
<1>1. UNCHANGED <<task, pushed, again, unscheduled, acked, marked>>
  BY DEF Send, Delete, ArmSafetyNet, FanOutDies, WasNotified, ReadMessage, CheckDies, queue, client
<1>2. PushInv' /\ \A a \in Alerts : Given(a) => Given(a)'
  BY <1>1, QuietStep
<1>3. ASSUME NEW r \in Runs, NEW n \in Msgs PROVE GoodFan(r, n)'
  <2>1. fan'[r][n] = fan[r][n] \/ fan'[r][n].pc # "push"
    BY DEF Send, Delete, ArmSafetyNet, FanOutDies, WasNotified, ReadMessage, CheckDies, Goto, Returns, Inv, TypeOK, Runs, Idle
  <2> QED
    BY <1>2, <2>1, OthersKept DEF GoodFan
<1>4. ASSUME NEW n \in Msgs PROVE GoodEnd(n)'
  <2>1. msg[n] = "deleted" => msg'[n] = "deleted"
    BY DEF Send, Delete, ArmSafetyNet, FanOutDies, WasNotified, ReadMessage, CheckDies, Inv, TypeOK
  <2>2. CASE check'[n].state = "done" => check[n].state = "done"
    BY <1>1, <1>2, <2>1, <2>2, EndKept
  <2>3. CASE check'[n].state = "done" /\ check[n].state # "done"
    <3>1. n = m /\ (m \in marked \/ msg[m] = "deleted")
      <4>1. CASE WasNotified(m)
        BY <2>3, <4>1 DEF WasNotified, Retried, Inv, TypeOK, Tasks
      <4>2. CASE ReadMessage(m)
        <5>1. CASE Returns("check", m, FALSE)
          BY <2>3, <5>1 DEF Returns, Retried, Inv, TypeOK, Tasks
        <5>2. CASE Returns("check", m, TRUE) /\ msg[m] = "deleted"
          BY <2>3, <5>2 DEF Returns, Inv, TypeOK, Tasks
        <5>3. CASE UNCHANGED check
          BY <2>3, <5>3
        <5> QED
          BY <4>2, <5>1, <5>2, <5>3 DEF ReadMessage
      <4>3. CASE CheckDies(m)
        BY <2>3, <4>3 DEF CheckDies, Returns, Retried, Inv, TypeOK, Tasks
      <4>4. CASE ArmSafetyNet(m)
        BY <2>3, <4>4 DEF ArmSafetyNet, Inv, TypeOK, Tasks
      <4>5. CASE Send(m) \/ Delete(m) \/ FanOutDies(m)
        BY <2>3, <4>5 DEF Send, Delete, FanOutDies
      <4> QED
        BY <4>1, <4>2, <4>3, <4>4, <4>5
    <3>2. m \in marked => AllGiven(m)'
      BY <1>2 DEF Inv, GivenInv, GoodEnd, AllGiven, Alerts
    <3> QED
      BY <1>1, <2>1, <3>1, <3>2 DEF GoodEnd
  <2> QED
    BY <2>2, <2>3
<1> QED
  BY <1>2, <1>3, <1>4 DEF GivenInv

\* Only the fan-out that moves moves, and only to where it goes.
LEMMA GotoFact ==
  ASSUME TypeOK, NEW r \in Runs, NEW m \in Msgs, NEW pc, Goto(r, m, pc)
  PROVE  \A q \in Runs : \A n \in Msgs : fan'[q][n] = fan[q][n] \/ fan'[q][n].pc = pc
<1>1. fan' = [fan EXCEPT ![r] = [fan[r] EXCEPT ![m] = [fan[r][m] EXCEPT !.pc = pc]]]
  BY DEF Goto
<1>2. [fan[r][m] EXCEPT !.pc = pc].pc = pc
  <2>1. fan[r][m] \in Fans
    BY DEF TypeOK, Fans, FanPcs
  <2> QED
    BY <2>1 DEF Fans
<1> QED
  BY <1>1, <1>2 DEF TypeOK

\* One that returns without success is over, and its check is not done.
LEMMA ReturnsFact ==
  ASSUME TypeOK, NEW r \in Runs, NEW m \in Msgs, Returns(r, m, FALSE)
  PROVE  /\ \A q \in Runs : \A n \in Msgs : fan'[q][n] = fan[q][n] \/ fan'[q][n].pc # "push"
         /\ \A n \in Msgs : check'[n].state = "done" => check[n].state = "done"
<1>1. \A q \in Runs : \A n \in Msgs : fan'[q][n] = fan[q][n] \/ fan'[q][n].pc # "push"
  BY DEF Returns, Idle, TypeOK
<1>2. check' = check \/ check' = [check EXCEPT ![m] = Retried(check[m], CheckRetries)]
  BY DEF Returns
<1>3. Retried(check[m], CheckRetries).state # "done"
  BY RetriedType, ConstantsAssumption DEF TypeOK, ConstantsAssumption
<1> QED
  BY <1>1, <1>2, <1>3 DEF TypeOK

\* A fan-out that does not touch the queue: where it goes says no more than
\* before, or all that there is to do.
LEMMA FanQuietInv ==
  ASSUME Inv, NEW r \in Runs, NEW m \in Msgs,
         Record(r, m) \/ PublishDesktop(r, m) \/ OnlineSet(r, m)
  PROVE  PushInv' /\ GivenInv'
<1>1. UNCHANGED <<msg, check, marked, acked, task, pushed, again, unscheduled>>
  BY DEF Record, PublishDesktop, OnlineSet, queue, client
<1>2. PushInv' /\ \A a \in Alerts : Given(a) => Given(a)'
  BY <1>1, QuietStep
<1>3. ASSUME NEW q \in Runs, NEW n \in Msgs PROVE GoodFan(q, n)'
  <2>1. fan'[q][n] = fan[q][n] \/ fan'[q][n].pc # "push" \/ fan'[q][n].todo = MobileUsers
    <3>1. CASE OnlineSet(r, m)
      BY <3>1 DEF OnlineSet, Pushable, Inv, TypeOK
    <3>2. CASE Record(r, m) \/ PublishDesktop(r, m)
      <4>1. Goto(r, m, "desktop") \/ Goto(r, m, "online")
        BY <3>2 DEF Record, PublishDesktop
      <4> QED
        BY <4>1, GotoFact DEF Inv
    <3> QED
      BY <3>1, <3>2
  <2> QED
    BY <1>2, <2>1, OthersKept DEF GoodFan
<1> QED
  BY <1>1, <1>2, <1>3, EndKept DEF GivenInv

\* The audience is read, or the fan-out is over with nothing marked.
LEMMA LoadInv ==
  ASSUME Inv, NEW r \in Runs, NEW m \in Msgs, LoadMemberSnapshot(r, m)
  PROVE  PushInv' /\ GivenInv'
<1>1. UNCHANGED <<msg, marked, acked, task, pushed, again, unscheduled>>
  BY DEF LoadMemberSnapshot, Completed, queue, client
<1>2. PushInv' /\ \A a \in Alerts : Given(a) => Given(a)'
  BY <1>1, QuietStep
<1>3. (Goto(r, m, "record") /\ UNCHANGED check) \/ Returns(r, m, FALSE)
  BY DEF LoadMemberSnapshot, Completed
<1>4. ASSUME NEW q \in Runs, NEW n \in Msgs PROVE GoodFan(q, n)'
  <2>1. fan'[q][n] = fan[q][n] \/ fan'[q][n].pc # "push"
    BY <1>3, GotoFact, ReturnsFact, ZenonT(30) DEF Inv
  <2> QED
    BY <1>2, <2>1, OthersKept DEF GoodFan
<1>5. ASSUME NEW n \in Msgs PROVE check'[n].state = "done" => check[n].state = "done"
  BY <1>3, ReturnsFact DEF Inv
<1> QED
  BY <1>1, <1>2, <1>4, <1>5, EndKept DEF GivenInv

\* A push is queued, refused because it was queued before, or cannot be.
LEMMA ScheduleInv ==
  ASSUME Inv, NEW r \in Runs, NEW m \in Msgs, SchedulePush(r, m)
  PROVE  PushInv' /\ GivenInv'
<1>1. PICK u \in fan[r][m].todo :
        /\ fan' = [fan EXCEPT ![r][m].todo = @ \ {u}]
        /\ \/ Taken(<<m, u>>) /\ task' = task /\ unscheduled' = unscheduled
           \/ ~Taken(<<m, u>>) /\ task' = [task EXCEPT ![<<m, u>>] = [state |-> "queued", tries |-> 0]] /\ unscheduled' = unscheduled
           \/ task' = task /\ unscheduled' = unscheduled \cup {<<m, u>>}
  BY DEF SchedulePush
<1>2. u \in MobileUsers /\ <<m, u>> \in Alerts
  BY DEF Inv, TypeOK, Alerts
<1>3. UNCHANGED <<msg, check, marked, acked, pushed, again>>
  BY DEF SchedulePush, client
<1> DEFINE b == <<m, u>>
<1>4. /\ \A a \in Alerts \ {b} : task'[a] = task[a]
      /\ task'[b] = task[b] \/ (task[b].state = "none" /\ task'[b].state = "queued")
      /\ task'[b].state # "none" \/ b \in unscheduled'
      /\ unscheduled \subseteq unscheduled'
  BY <1>1, <1>2 DEF Taken, Inv, TypeOK
<1> HIDE DEF b
<1>5. PushInv'
  <2> SUFFICES ASSUME NEW a \in Alerts PROVE GoodPush(a)'
    BY DEF PushInv
  <2>1. GoodPush(a)
    BY DEF Inv, PushInv
  <2> QED
    BY <1>3, <1>4, <2>1 DEF GoodPush
<1>6. /\ \A a \in Alerts : Given(a) => Given(a)'
      /\ Given(b)'
  BY <1>4 DEF Given
<1>7. ASSUME NEW q \in Runs, NEW n \in Msgs PROVE GoodFan(q, n)'
  <2>1. CASE q = r /\ n = m
    <3>1. fan'[r][m].todo = fan[r][m].todo \ {u} /\ fan[r][m].pc = "push"
      BY <1>1 DEF Inv, TypeOK, SchedulePush, At
    <3>2. \A v \in MobileUsers \ fan[r][m].todo : Given(<<m, v>>)
      BY <3>1 DEF Inv, GivenInv, GoodFan
    <3> QED
      BY <1>2, <1>6, <2>1, <3>1, <3>2 DEF GoodFan, b, Alerts
  <2>2. CASE ~(q = r /\ n = m)
    <3>1. fan'[q][n] = fan[q][n]
      BY <1>1, <2>2 DEF Inv, TypeOK
    <3> QED
      BY <1>6, <3>1, OthersKept
  <2> QED
    BY <2>1, <2>2
<1> QED
  BY <1>3, <1>5, <1>6, <1>7, EndKept DEF GivenInv

\* The fan-out is complete: every alert is given, marked or not.
LEMMA MarkInv ==
  ASSUME Inv, NEW r \in Runs, NEW m \in Msgs, MarkNotified(r, m)
  PROVE  PushInv' /\ GivenInv'
<1>1. UNCHANGED <<msg, acked, task, pushed, again, unscheduled>>
  BY DEF MarkNotified, queue, client
<1>2. PushInv' /\ \A a \in Alerts : Given(a) => Given(a)'
  BY <1>1, QuietStep
<1>3. AllGiven(m)'
  <2>1. AllGiven(m)
    BY DEF MarkNotified, At, Inv, GivenInv, GoodFan, AllGiven
  <2> QED
    BY <1>2, <2>1 DEF AllGiven, Alerts
<1>4. ASSUME NEW q \in Runs, NEW n \in Msgs PROVE GoodFan(q, n)'
  <2>1. fan'[q][n] = fan[q][n] \/ fan'[q][n].pc # "push"
    BY DEF MarkNotified, Returns, Idle, Inv, TypeOK
  <2> QED
    BY <1>2, <2>1, OthersKept DEF GoodFan
<1>5. ASSUME NEW n \in Msgs \ {m} PROVE GoodEnd(n)'
  <2>1. (n \in marked' => n \in marked) /\ check'[n] = check[n]
    BY DEF MarkNotified, Returns, Inv, TypeOK
  <2> QED
    BY <1>1, <1>2, <2>1, EndKept
<1> QED
  BY <1>2, <1>3, <1>4, <1>5 DEF GivenInv, GoodEnd

\* A worker takes a push on.
LEMMA WorkerInv ==
  ASSUME Inv, NEW a \in Alerts, Pushes(a) \/ PushDies(a) \/ AnswerLost(a)
  PROVE  PushInv' /\ GivenInv'
<1>1. Moves(a) /\ UNCHANGED <<msg, fan, check, marked, client, unscheduled, counted>>
  BY WorkerMoves
<1>2. /\ \A b \in Alerts \ {a} : task'[b] = task[b] /\ pushed'[b] = pushed[b] /\ again'[b] = again[b]
      /\ task[a].state # "none" /\ task'[a].state # "none" /\ acked' = acked
  BY <1>1 DEF Moves, Retried, Inv, TypeOK, Tasks, client
<1>3. GoodPush(a)'
  <2>1. GoodPush(a) /\ pushed[a] \in Nat /\ again[a] \in Nat /\ task[a] \in Tasks(PushRetries)
    BY DEF Inv, PushInv, TypeOK
  <2>2. Retried(task[a], PushRetries).state \in {"queued", "archived"}
    BY <2>1, RetriedType, ConstantsAssumption DEF ConstantsAssumption
  <2>3. /\ task' = [task EXCEPT ![a] = task'[a]]
        /\ pushed'[a] = pushed[a] \/ pushed'[a] = pushed[a] + 1
    BY <1>1 DEF Moves, Inv, TypeOK
  <2>4. CASE task[a].state = "queued"
    <3>1. /\ task'[a].state \in {"retained", "sending"} /\ (task'[a].state = "retained" => a \in acked)
          /\ pushed'[a] = pushed[a] /\ again'[a] = again[a]
      BY <1>1, <2>1, <2>4 DEF Moves, Inv, TypeOK, Tasks
    <3> QED
      BY <1>2, <2>1, <2>4, <3>1 DEF GoodPush
  <2>5. CASE task[a].state = "sending"
    <3>1. \/ task'[a].state = "retained" /\ pushed'[a] = pushed[a] + 1 /\ again'[a] = again[a]
          \/ task'[a].state \in {"queued", "archived"} /\ pushed'[a] = pushed[a] /\ again'[a] = again[a]
          \/ task'[a].state \in {"sending", "queued", "archived"} /\ pushed'[a] = pushed[a] + 1 /\ again'[a] = again[a] + 1
      BY <1>1, <2>1, <2>2, <2>5 DEF Moves, Inv, TypeOK, Tasks
    <3> QED
      BY <1>2, <2>1, <2>5, <3>1 DEF GoodPush
  <2> QED
    BY <1>1, <2>4, <2>5 DEF Moves
<1>4. PushInv'
  BY <1>2, <1>3 DEF Inv, PushInv, GoodPush
<1>5. \A b \in Alerts : Given(b) => Given(b)'
  BY <1>1, <1>2 DEF Given
<1> QED
  BY <1>1, <1>4, <1>5, OthersKept, EndKept DEF GivenInv

\* The desktop only adds acknowledgements.
LEMMA DesktopInv ==
  ASSUME Inv, NEW a \in DOMAIN desk, Popup(a) \/ MarkNotificationAcked(a)
  PROVE  PushInv' /\ GivenInv'
<1>1. UNCHANGED <<msg, fan, check, marked, task, pushed, again, unscheduled>> /\ acked \subseteq acked'
  BY DEF Popup, MarkNotificationAcked, queue
<1> QED
  BY <1>1, QuietStep, OthersKept, EndKept DEF GivenInv

\* Every step keeps the invariant,
LEMMA NextInv == Inv /\ [Next]_vars => Inv'
<1> SUFFICES ASSUME Inv, [Next]_vars PROVE Inv'
  OBVIOUS
<1>1. TypeOK'
  BY NextType DEF Inv
<1>2. CASE UNCHANGED vars
  BY <1>1, <1>2, QuietStep, OthersKept, EndKept DEF Inv, GivenInv, vars, queue, client
<1>3. ASSUME NEW m \in Msgs, Send(m) \/ Delete(m) \/ Beside(m) \/ FanOutDies(m) \/ Checks(m) \/ CheckDies(m)
      PROVE  PushInv' /\ GivenInv'
  <2>1. ASSUME NEW r \in Runs, FanOut(r, m) PROVE PushInv' /\ GivenInv'
    BY <2>1, FanQuietInv, LoadInv, ScheduleInv, MarkInv DEF FanOut
  <2> QED
    BY <1>3, <2>1, MessageInv DEF Beside, Checks, Runs
<1>4. ASSUME NEW a \in Alerts, Pushes(a) \/ PushDies(a) \/ AnswerLost(a) PROVE PushInv' /\ GivenInv'
  BY <1>4, WorkerInv
<1>5. ASSUME NEW a \in DOMAIN desk, Popup(a) \/ MarkNotificationAcked(a) PROVE PushInv' /\ GivenInv'
  BY <1>5, DesktopInv
<1> QED
  BY <1>1, <1>2, <1>3, <1>4, <1>5 DEF Next, Inv

\* so it always holds.
LEMMA InvAlways == Spec => []Inv
  BY InitInv, NextInv, PTL DEF Spec

\* However often the fan-out of a message is repeated, the provider takes one
\* push of each alert, and one more for every answer of its that was lost
\* (push_scheduler.go: mobilePushTaskID, pushTaskRetention).
THEOREM OnePush == Spec => []PushedOnce
<1>1. Inv => PushedOnce
  BY DEF Inv, PushInv, GoodPush, PushedOnce
<1> QED
  BY <1>1, InvAlways, PTL

\* When nothing is left to run for a message that stands, every mobile recipient
\* was reached or is in the archive, unless a push could not be queued
\* (notification_push.go: sendMobilePush; notification_durable.go).
THEOREM NobodyLeftOut == Spec => []NobodyMissed
<1>1. Inv => NobodyMissed
  <2> SUFFICES ASSUME Inv, NEW m \in Msgs, msg[m] = "sent", Quiet(m), NEW u \in MobileUsers
               PROVE  Reached(<<m, u>>) \/ <<m, u>> \in unscheduled
    BY DEF NobodyMissed
  <2>1. AllGiven(m)
    BY DEF Inv, GivenInv, GoodEnd, Quiet
  <2>2. <<m, u>> \in Alerts /\ ~Pending(<<m, u>>) /\ Given(<<m, u>>)
    BY <2>1 DEF Alerts, Quiet, AllGiven
  <2> QED
    BY <2>2 DEF Inv, PushInv, GoodPush, Given, Pending, Reached
<1> QED
  BY <1>1, InvAlways, PTL

-----------------------------------------------------------------------------
(* EventStream: sequences *)

\* The elements of a sequence, by position.
LEMMA Elements ==
  ASSUME NEW S, NEW s \in Seq(S)
  PROVE  /\ Len(s) \in Nat /\ DOMAIN s = 1..Len(s) /\ ToSet(s) \subseteq S
         /\ \A x : x \in ToSet(s) <=> \E i \in 1..Len(s) : s[i] = x
<1>1. Len(s) \in Nat /\ DOMAIN s = 1..Len(s)
  BY LenProperties
<1>2. ToSet(s) \subseteq S
  BY <1>1, ElementOfSeq DEF ToSet
<1> QED
  BY <1>1, <1>2 DEF ToSet

\* What is appended is last, the rest stays where it is.
LEMMA AppendSet ==
  ASSUME NEW S, NEW s \in Seq(S), NEW e \in S
  PROVE  Append(s, e) \in Seq(S) /\ ToSet(Append(s, e)) = ToSet(s) \cup {e}
<1> DEFINE t == Append(s, e)
<1>1. /\ t \in Seq(S) /\ Len(t) = Len(s) + 1 /\ t[Len(s) + 1] = e
      /\ \A i \in 1..Len(s) : t[i] = s[i]
  BY AppendProperties
<1>2. Len(s) \in Nat
  BY Elements
<1> HIDE DEF t
<1>3. \A x : x \in ToSet(t) <=> (\E i \in 1..(Len(s) + 1) : t[i] = x)
  BY <1>1, Elements
<1>4. \A x : x \in ToSet(s) <=> (\E i \in 1..Len(s) : s[i] = x)
  BY Elements
<1>5. \A x : x \in ToSet(t) <=> x \in ToSet(s) \/ x = e
  <2> TAKE x
  <2>1. CASE x = e
    BY <1>1, <1>2, <1>3, <2>1
  <2>2. CASE x # e
    <3>1. x \in ToSet(t) => x \in ToSet(s)
      <4> SUFFICES ASSUME NEW i \in 1..(Len(s) + 1), t[i] = x PROVE x \in ToSet(s)
        BY <1>3
      <4>1. i \in 1..Len(s)
        BY <1>1, <1>2, <2>2
      <4> QED
        BY <1>1, <1>4, <4>1
    <3>2. x \in ToSet(s) => x \in ToSet(t)
      BY <1>1, <1>2, <1>3, <1>4
    <3> QED
      BY <2>2, <3>1, <3>2
  <2> QED
    BY <2>1, <2>2
<1> QED
  BY <1>1, <1>5 DEF t

\* The head of a sequence and what remains.
LEMMA HeadTailSet ==
  ASSUME NEW S, NEW s \in Seq(S), s # <<>>
  PROVE  /\ Head(s) \in S /\ Tail(s) \in Seq(S) /\ Len(Tail(s)) <= Len(s)
         /\ Head(s) \in ToSet(s) /\ ToSet(Tail(s)) \subseteq ToSet(s)
         /\ ToSet(s) = {Head(s)} \cup ToSet(Tail(s))
<1>1. /\ Head(s) \in S /\ Tail(s) \in Seq(S) /\ Len(Tail(s)) = Len(s) - 1
      /\ \A i \in 1..Len(Tail(s)) : Tail(s)[i] = s[i + 1]
  BY HeadTailProperties
<1>2. Len(s) \in Nat \ {0} /\ Head(s) = s[1]
  BY EmptySeq
<1>3. \A x : x \in ToSet(s) <=> (\E i \in 1..Len(s) : s[i] = x)
  BY Elements
<1>4. \A x : x \in ToSet(Tail(s)) <=> (\E i \in 1..Len(Tail(s)) : Tail(s)[i] = x)
  BY <1>1, Elements
<1>5. Head(s) \in ToSet(s)
  BY <1>2, <1>3
<1>6. \A x \in ToSet(Tail(s)) : x \in ToSet(s)
  <2> SUFFICES ASSUME NEW i \in 1..Len(Tail(s)) PROVE Tail(s)[i] \in ToSet(s)
    BY <1>4
  <2>1. i + 1 \in 1..Len(s) /\ Tail(s)[i] = s[i + 1]
    BY <1>1, <1>2
  <2> QED
    BY <1>3, <2>1
<1>7. \A x \in ToSet(s) : x = Head(s) \/ x \in ToSet(Tail(s))
  <2> SUFFICES ASSUME NEW i \in 1..Len(s), i # 1 PROVE s[i] \in ToSet(Tail(s))
    BY <1>2, <1>3
  <2>1. i - 1 \in 1..Len(Tail(s)) /\ Tail(s)[i - 1] = s[i]
    BY <1>1, <1>2
  <2> QED
    BY <1>4, <2>1
<1> QED
  BY <1>1, <1>2, <1>5, <1>6, <1>7

\* A trimmed stream is an end of it, and keeps the last entry.
LEMMA TrimmedIsEnd ==
  ASSUME StreamAssumption, NEW s \in Seq(Durable), s # <<>>, NEW t \in Trimmed(s)
  PROVE  /\ t \in Seq(Durable)
         /\ \E d \in Nat : /\ Len(s) = Len(t) + d /\ Len(t) >= 1
                           /\ \A i \in 1..Len(t) : t[i] = s[i + d]
<1>1. Len(s) \in Nat \ {0} /\ MaxLen \in Nat \ {0}
  BY EmptySeq DEF StreamAssumption
<1>2. PICK from \in 1..Len(s) : t = SubSeq(s, from, Len(s))
  <2> DEFINE n == IF Len(s) > MaxLen THEN Len(s) - MaxLen + 1 ELSE 1
  <2>1. n \in 1..Len(s)
    BY <1>1
  <2>2. t \in {SubSeq(s, from, Len(s)) : from \in 1..n}
    BY DEF Trimmed
  <2> HIDE DEF n
  <2>3. PICK from \in 1..n : t = SubSeq(s, from, Len(s))
    BY <2>2
  <2>4. from \in 1..Len(s)
    BY <1>1, <2>1
  <2> QED
    BY <2>3, <2>4
<1>3. \A i \in from..Len(s) : s[i] \in Durable
  BY <1>1, <1>2, ElementOfSeq
<1>4. /\ t \in Seq(Durable) /\ Len(t) = Len(s) - from + 1
      /\ \A i \in 1..(Len(s) - from + 1) : t[i] = s[from + i - 1]
  BY <1>1, <1>2, <1>3, SubSeqProperties
<1>5. from - 1 \in Nat /\ Len(s) = Len(t) + (from - 1) /\ Len(t) >= 1
  BY <1>1, <1>4
<1>6. ASSUME NEW i \in 1..Len(t) PROVE t[i] = s[i + (from - 1)]
  <2>1. i \in 1..(Len(s) - from + 1) /\ from + i - 1 = i + (from - 1)
    BY <1>1, <1>4
  <2> QED
    BY <1>4, <2>1
<1> QED
  BY <1>4, <1>5, <1>6

-----------------------------------------------------------------------------
(* EventStream: how far an event has come *)

\* How far a publication can have come, and a step that takes the event further.
Stages == {"new", "stamped", "appending", "poisoned"} \cup Ended

MovesTo(e, s) ==
  /\ stage[e] \in {"stamped", "appending", "poisoned"} /\ s \in Stages \ {"new", "stamped"}
  /\ stage' = [stage EXCEPT ![e] = s]

\* Every step of a publication but the first moves the event on, and takes back no excuse.
LEMMA MovesOn ==
  ASSUME StreamTypeOK, NEW e \in Events, Publish(e), ~Stamp(e)
  PROVE  /\ \E s : MovesTo(e, s)
         /\ overlap' = overlap /\ excuse \subseteq excuse' /\ UNCHANGED tab
<1>1. overlap' = overlap /\ excuse \subseteq excuse' /\ UNCHANGED tab
  BY DEF Publish, GoLive, LiveFails, AppendMany, AppendFails, Drop, DropFails, PublisherDies, ResolveFails
<1>2. \E s : MovesTo(e, s)
  <2>1. CASE GoLive(e)
    <3>1. AfterLive(e) \in {"live", "appending"}
      BY DEF AfterLive
    <3> QED
      BY <2>1, <3>1 DEF GoLive, MovesTo, Stages, Ended
  <2>2. CASE LiveFails(e)
    <3>1. AfterLive(e) \in {"live", "appending"}
      BY DEF AfterLive
    <3>2. PICK then \in {"gone", AfterLive(e)} : stage' = [stage EXCEPT ![e] = then]
      BY <2>2 DEF LiveFails
    <3> QED
      BY <2>2, <3>1, <3>2 DEF LiveFails, MovesTo, Stages, Ended
  <2>3. CASE AppendFails(e)
    BY <2>3 DEF AppendFails, MovesTo, Stages, Ended
  <2>4. CASE AppendMany(e) \/ Drop(e) \/ DropFails(e) \/ PublisherDies(e) \/ ResolveFails(e)
    BY <2>4 DEF AppendMany, Drop, DropFails, PublisherDies, ResolveFails, MovesTo, Stages, Ended
  <2> QED
    BY <2>1, <2>2, <2>3, <2>4 DEF Publish
<1> QED
  BY <1>1, <1>2

\* Stages only go on.
LEMMA StageKept ==
  ASSUME StreamTypeOK, NEW e \in Events, \E s : MovesTo(e, s)
  PROVE  /\ stage' \in [Events -> Stages] /\ Stored' = Stored
         /\ Out \subseteq Out' /\ Out' \subseteq Out \cup {e} /\ e \in Out'
         /\ UnderWay' \subseteq UnderWay
         /\ stage[e] = "stamped" \/ Out' = Out
  BY DEF StreamTypeOK, MovesTo, Stages, Ended, Stored, Out, UnderWay, Durable

\* What an append leaves.
LEMMA ExtendedType ==
  ASSUME StreamAssumption, StreamTypeOK, NEW e \in Durable, NEW t \in Trimmed(Append(stream, e))
  PROVE  t \in Seq(Durable) /\ ToSet(t) \subseteq ToSet(stream) \cup {e} /\ e \in ToSet(t)
<1> DEFINE s == Append(stream, e)
<1>1. stream \in Seq(Durable)
  BY DEF StreamTypeOK
<1>2. s \in Seq(Durable) /\ ToSet(s) = ToSet(stream) \cup {e}
  BY <1>1, AppendSet
<1>3. s # <<>> /\ s[Len(s)] = e
  BY <1>1, AppendProperties
<1> HIDE DEF s
<1>4. PICK d \in Nat : t \in Seq(Durable) /\ Len(s) = Len(t) + d /\ Len(t) >= 1 /\ \A i \in 1..Len(t) : t[i] = s[i + d]
  <2>1. t \in Trimmed(s)
    BY DEF s
  <2> QED
    BY <1>2, <1>3, <2>1, TrimmedIsEnd
<1>5. Len(t) \in Nat /\ Len(s) \in Nat
  BY <1>2, <1>4, Elements
<1>6. \A x : x \in ToSet(t) <=> \E i \in 1..Len(t) : t[i] = x
  BY <1>4, Elements
<1>7. \A x : x \in ToSet(s) <=> \E i \in 1..Len(s) : s[i] = x
  BY <1>2, Elements
<1>8. ASSUME NEW i \in 1..Len(t) PROVE t[i] \in ToSet(s)
  <2>1. i + d \in 1..Len(s)
    BY <1>4, <1>5
  <2> QED
    BY <1>4, <1>7, <2>1
<1>9. t[Len(t)] = e /\ Len(t) \in 1..Len(t)
  BY <1>3, <1>4, <1>5
<1> QED
  BY <1>2, <1>4, <1>6, <1>8, <1>9

\* A frame that is sent waits for the socket, or the socket is closed.
LEMMA Sent ==
  ASSUME StreamAssumption, StreamTypeOK, NEW e \in Events, SendFrame(e)
  PROVE  \/ SocketGone
         \/ /\ UNCHANGED <<sock, since, wire, verdict>> /\ frames' \in Seq(Events) /\ Len(frames') <= Buffer
            /\ ToSet(frames) \subseteq ToSet(frames') /\ ToSet(frames') \subseteq ToSet(frames) \cup {e}
            /\ IF sock \in {"listening", "live"} THEN e \in ToSet(frames') ELSE frames' = frames
<1>1. frames \in Seq(Events) /\ Len(frames) \in Nat /\ Buffer \in Nat /\ Len(frames) <= Buffer
  BY Elements DEF StreamTypeOK, StreamAssumption
<1>2. CASE sock \notin {"listening", "live"}
  <2>1. UNCHANGED session
    BY <1>2 DEF SendFrame
  <2>2. frames' = frames /\ UNCHANGED <<sock, since, wire, verdict>>
    BY <2>1 DEF session
  <2>3. ToSet(frames') = ToSet(frames)
    BY <2>2
  <2> QED
    BY <1>1, <1>2, <2>2, <2>3
<1>3. CASE sock \in {"listening", "live"} /\ Len(frames) < Buffer
  <2>1. frames' = Append(frames, e) /\ UNCHANGED <<sock, since, wire, verdict>>
    BY <1>3 DEF SendFrame
  <2>2. Len(frames') = Len(frames) + 1
    BY <1>1, <2>1, AppendProperties
  <2>3. frames' \in Seq(Events) /\ ToSet(frames') = ToSet(frames) \cup {e}
    BY <1>1, <2>1, AppendSet
  <2> QED
    BY <1>1, <1>3, <2>1, <2>2, <2>3
<1>4. CASE sock \in {"listening", "live"} /\ ~(Len(frames) < Buffer)
  BY <1>4 DEF SendFrame
<1> QED
  BY <1>2, <1>3, <1>4

\* A replay sends entries of the stream, all those from its first one on that have a payload.
LEMMA ResolvedType ==
  ASSUME StreamAssumption, StreamTypeOK, NEW from \in Oldest..(Len(stream) + 1), NEW w \in Resolved(from)
  PROVE  /\ Oldest \in 1..(Len(stream) + 1) /\ w \in Seq(Durable) /\ ToSet(w) \subseteq ToSet(stream)
         /\ \A i \in from..Len(stream) : stream[i] \in payload => stream[i] \in ToSet(w)
<1>1. stream \in Seq(Durable) /\ Len(stream) \in Nat /\ MaxLen \in Nat \ {0}
  BY Elements DEF StreamTypeOK, StreamAssumption
<1>2. Oldest \in 1..(Len(stream) + 1)
  BY <1>1 DEF Oldest
<1> DEFINE kept == {i \in from..Len(stream) : stream[i] \in payload}
<1>3. \E n \in 0..Len(stream) : \E at \in [1..n -> kept] :
        /\ \A i \in kept : \E k \in 1..n : at[k] = i
        /\ w = [k \in 1..n |-> stream[at[k]]]
  <2>1. PICK f \in UNION {[1..n -> kept] : n \in 0..Len(stream)} :
          /\ \A i \in kept : \E k \in DOMAIN f : f[k] = i
          /\ w = [k \in DOMAIN f |-> stream[f[k]]]
    BY DEF Resolved
  <2> HIDE DEF kept
  <2>2. PICK n \in 0..Len(stream) : f \in [1..n -> kept]
    BY <2>1
  <2>3. DOMAIN f = 1..n
    BY <2>2
  <2>4. w = [k \in 1..n |-> stream[f[k]]] /\ \A i \in kept : \E k \in 1..n : f[k] = i
    BY <2>1, <2>3
  <2> QED
    BY <2>2, <2>4
<1>4. PICK n \in 0..Len(stream) : \E at \in [1..n -> kept] :
        /\ \A i \in kept : \E k \in 1..n : at[k] = i
        /\ w = [k \in 1..n |-> stream[at[k]]]
  BY <1>3
<1>5. PICK at \in [1..n -> kept] : /\ \A i \in kept : \E k \in 1..n : at[k] = i
                                   /\ w = [k \in 1..n |-> stream[at[k]]]
  BY <1>4
<1>6. n \in Nat /\ from \in 1..(Len(stream) + 1)
  BY <1>1, <1>2
<1>7. \A i \in kept : i \in 1..Len(stream) /\ stream[i] \in Durable /\ stream[i] \in ToSet(stream)
  <2> SUFFICES ASSUME NEW i \in kept PROVE i \in 1..Len(stream) /\ stream[i] \in Durable /\ stream[i] \in ToSet(stream)
    OBVIOUS
  <2>1. i \in 1..Len(stream)
    BY <1>1, <1>6
  <2> QED
    BY <1>1, <2>1, ElementOfSeq, Elements
<1> HIDE DEF kept
<1>8. \A k \in 1..n : at[k] \in kept /\ w[k] = stream[at[k]]
  BY <1>5
<1>9. w \in [1..n -> Durable]
  BY <1>5, <1>7, <1>8
<1>10. w \in Seq(Durable) /\ DOMAIN w = 1..n
  BY <1>6, <1>9, SeqDef
<1>11. ToSet(w) = {w[k] : k \in 1..n}
  BY <1>10 DEF ToSet
<1>12. ToSet(w) \subseteq ToSet(stream)
  BY <1>7, <1>8, <1>11
<1>13. ASSUME NEW i \in from..Len(stream), stream[i] \in payload PROVE stream[i] \in ToSet(w)
  <2>1. i \in kept
    BY <1>13 DEF kept
  <2>2. PICK k \in 1..n : at[k] = i
    BY <1>5, <2>1
  <2> QED
    BY <1>8, <1>11, <2>2
<1> QED
  BY <1>2, <1>10, <1>12, <1>13

-----------------------------------------------------------------------------
(* EventStream: types *)

\* The bounds are kept.
LEMMA LimitsKept ==
  ASSUME StreamTypeOK, StreamAssumption, Failure \/ UNCHANGED limits \/ (conns < MaxConns /\ conns' = conns + 1 /\ UNCHANGED failures)
  PROVE  conns' \in 0..MaxConns /\ failures' \in 0..MaxFailures /\ (conns' = 0 => conns = 0)
  BY DEF StreamTypeOK, StreamAssumption, Failure, limits

\* A stamp.
LEMMA StampKept ==
  ASSUME StreamTypeOK, NEW e \in Events, Stamp(e)
  PROVE  /\ stage' = [stage EXCEPT ![e] = "stamped"] /\ stage' \in [Events -> Stages]
         /\ Out' = Out /\ Stored' = Stored \cup {e}
         /\ stage[e] = "new" /\ (\A f \in Events : f < e => stage[f] # "new")
         /\ UNCHANGED <<tries, store, session, tab, excuse, limits>>
  BY DEF StreamTypeOK, Stamp, Stages, Ended, Out, Stored

\* The steps of a publication keep the types, and carry only what is out.
LEMMA PublishTypes ==
  ASSUME StreamAssumption, StreamTypeOK, Carried, NEW e \in Events, Publish(e)
  PROVE  StreamTypeOK' /\ Carried'
<1>1. /\ stage' \in [Events -> Stages] /\ Stored \subseteq Stored' /\ Out \subseteq Out' /\ UNCHANGED tab
      /\ ~Stamp(e) => e \in Out'
  <2>1. CASE Stamp(e)
    BY <2>1, StampKept DEF tab
  <2>2. CASE ~Stamp(e)
    BY <2>2, MovesOn, StageKept
  <2> QED
    BY <2>1, <2>2
<1>2. conns' \in 0..MaxConns /\ failures' \in 0..MaxFailures
  <2>1. Failure \/ UNCHANGED limits
    BY DEF Publish, Stamp, GoLive, LiveFails, AppendMany, AppendFails, Drop, DropFails, PublisherDies, ResolveFails
  <2> QED
    BY <2>1, LimitsKept
<1>3. stage[e] \in {"appending", "poisoned"} => e \in Durable
  BY DEF StreamTypeOK, Durable
<1>4. \A x \in Ephemeral : stage'[x] \in {"new", "stamped", "live", "gone"}
  <2>1. AfterLive(e) = IF e \in Ephemeral THEN "live" ELSE "appending"
    BY DEF AfterLive
  <2>2. \E s : stage' = [stage EXCEPT ![e] = s] /\ (e \in Ephemeral => s \in {"stamped", "live", "gone"})
    <3>1. CASE Stamp(e)
      BY <3>1 DEF Stamp
    <3>2. CASE GoLive(e)
      BY <2>1, <3>2 DEF GoLive
    <3>3. CASE LiveFails(e)
      <4>1. PICK then \in {"gone", AfterLive(e)} : stage' = [stage EXCEPT ![e] = then]
        BY <3>3 DEF LiveFails
      <4> QED
        BY <2>1, <4>1
    <3>4. CASE PublisherDies(e) \/ ResolveFails(e)
      BY <3>4 DEF PublisherDies, ResolveFails
    <3>5. CASE AppendMany(e) \/ AppendFails(e) \/ Drop(e) \/ DropFails(e)
      <4>1. e \notin Ephemeral
        BY <1>3, <3>5 DEF AppendMany, AppendFails, Drop, DropFails, Durable
      <4>2. \E s : stage' = [stage EXCEPT ![e] = s]
        BY <3>5 DEF AppendMany, AppendFails, Drop, DropFails
      <4> QED
        BY <4>1, <4>2
    <3> QED
      BY <3>1, <3>2, <3>3, <3>4, <3>5 DEF Publish
  <2> QED
    BY <2>2 DEF StreamTypeOK, StreamAssumption
<1>5. /\ tries' \in [Events -> 0..(Retries + 1)]
      /\ \A x \in Events : stage'[x] \in {"new", "stamped", "appending"} => tries'[x] <= Retries
  <2>1. CASE AppendFails(e)
    <3>1. /\ tries[e] \in Nat /\ tries[e] <= Retries /\ Retries \in Nat
          /\ stage[e] = "appending"
          /\ tries' = [tries EXCEPT ![e] = tries[e] + 1]
          /\ stage' = [stage EXCEPT ![e] = IF tries[e] = Retries THEN "poisoned" ELSE stage[e]]
      BY <2>1 DEF AppendFails, StreamTypeOK, StreamAssumption
    <3>2. tries[e] + 1 \in 0..(Retries + 1)
      BY <3>1
    <3>3. tries' \in [Events -> 0..(Retries + 1)]
      BY <3>1, <3>2 DEF StreamTypeOK
    <3>4. stage'[e] = "appending" => tries'[e] <= Retries
      BY <3>1 DEF StreamTypeOK
    <3>5. stage'[e] \in {"appending", "poisoned"}
      BY <3>1 DEF StreamTypeOK
    <3>6. \A x \in Events \ {e} : stage'[x] = stage[x] /\ tries'[x] = tries[x]
      BY <3>1 DEF StreamTypeOK
    <3> QED
      BY <3>3, <3>4, <3>5, <3>6 DEF StreamTypeOK
  <2>2. CASE ~AppendFails(e)
    <3>1. tries' = tries
      BY <2>2 DEF Publish, Stamp, GoLive, LiveFails, AppendMany, Drop, DropFails, PublisherDies, ResolveFails
    <3>2. \A x \in Events : stage'[x] \in {"new", "stamped", "appending"} => stage[x] \in {"new", "stamped", "appending"}
      <4>1. stage[e] \in {"new", "stamped", "appending"} \/ stage'[e] \in Ended
        BY <2>2 DEF Publish, Stamp, GoLive, LiveFails, AppendMany, Drop, DropFails, PublisherDies, ResolveFails, StreamTypeOK, Ended
      <4>2. \A x \in Events \ {e} : stage'[x] = stage[x]
        BY <2>2 DEF Publish, Stamp, GoLive, LiveFails, AppendMany, Drop, DropFails, PublisherDies, ResolveFails, StreamTypeOK
      <4> QED
        BY <4>1, <4>2 DEF Ended
    <3> QED
      BY <3>1, <3>2 DEF StreamTypeOK
  <2> QED
    BY <2>1, <2>2
<1>6. stream' \in Seq(Durable) /\ payload' \subseteq Durable /\ ToSet(stream') \subseteq Out'
  <2>1. /\ \/ stream' = stream
           \/ stream' \in Trimmed(Append(stream, e)) /\ stage[e] = "appending"
           \/ stream' = <<>>
        /\ payload' = payload \/ (payload' = payload \cup {e} /\ stage[e] = "appending")
    <3>1. CASE AppendMany(e)
      BY <3>1 DEF AppendMany
    <3>2. CASE AppendFails(e)
      BY <3>2 DEF AppendFails
    <3>3. CASE Drop(e)
      BY <3>3 DEF Drop, Emptied
    <3>4. CASE Stamp(e) \/ GoLive(e) \/ LiveFails(e) \/ DropFails(e) \/ PublisherDies(e) \/ ResolveFails(e)
      BY <3>4 DEF Stamp, GoLive, LiveFails, DropFails, PublisherDies, ResolveFails, store
    <3> QED
      BY <3>1, <3>2, <3>3, <3>4 DEF Publish
  <2>2. stage[e] = "appending" => e \in Durable /\ e \in Out'
    BY <1>1, <1>3 DEF Stamp
  <2>3. stream \in Seq(Durable) /\ payload \subseteq Durable /\ ToSet(stream) \subseteq Out
    BY DEF StreamTypeOK, Carried
  <2>4. stream' \in Seq(Durable) /\ ToSet(stream') \subseteq ToSet(stream) \cup {e} /\ (stream' = stream \/ stream' = <<>> \/ e \in Out')
    <3>1. CASE stream' = stream
      BY <2>3, <3>1
    <3>2. CASE stream' \in Trimmed(Append(stream, e)) /\ stage[e] = "appending"
      BY <2>2, <3>2, ExtendedType
    <3>3. CASE stream' = <<>>
      <4>1. <<>> \in Seq(Durable) /\ ToSet(<<>>) = {}
        BY EmptySeq DEF ToSet
      <4> QED
        BY <3>3, <4>1
    <3> QED
      BY <2>1, <3>1, <3>2, <3>3
  <2>5. ToSet(stream') \subseteq Out'
    <3>1. stream' = <<>> => ToSet(stream') = {}
      BY DEF ToSet
    <3>2. stream' = stream => ToSet(stream') = ToSet(stream)
      OBVIOUS
    <3> QED
      BY <1>1, <2>3, <2>4, <3>1, <3>2
  <2> QED
    BY <2>1, <2>2, <2>3, <2>4, <2>5
<1>7. /\ sock' \in {"down", "open", "listening", "live"} /\ since' \in Durable \cup {0}
      /\ wire' \in Seq(Durable) /\ verdict' \in {"none", "done", "exhausted"}
      /\ frames' \in Seq(Events) /\ Len(frames') <= Buffer
      /\ ToSet(wire') \cup ToSet(frames') \subseteq Out'
  <2>1. CASE GoLive(e)
    <3>1. SendFrame(e) /\ e \in Out'
      BY <1>1, <2>1 DEF GoLive, Stamp
    <3>2. CASE SocketGone
      <4>1. <<>> \in Seq(Durable) /\ <<>> \in Seq(Events) /\ ToSet(<<>>) = {} /\ Len(<<>>) = 0 /\ Buffer \in Nat
        BY EmptySeq DEF ToSet, StreamAssumption
      <4>2. sock' = "down" /\ since' = 0 /\ wire' = <<>> /\ verdict' = "none" /\ frames' = <<>>
        BY <3>2 DEF SocketGone
      <4>3. ToSet(wire') = {} /\ ToSet(frames') = {} /\ Len(frames') <= Buffer
        BY <4>1, <4>2
      <4> QED
        BY <4>1, <4>2, <4>3
    <3>3. CASE ~SocketGone
      <4>1. /\ UNCHANGED <<sock, since, wire, verdict>> /\ frames' \in Seq(Events) /\ Len(frames') <= Buffer
            /\ ToSet(frames') \subseteq ToSet(frames) \cup {e}
        BY <3>1, <3>3, Sent
      <4>2. ToSet(wire') = ToSet(wire)
        BY <4>1
      <4> QED
        BY <1>1, <3>1, <4>1, <4>2 DEF StreamTypeOK, Carried
    <3> QED
      BY <3>2, <3>3
  <2>2. CASE ~GoLive(e)
    <3>1. UNCHANGED session
      BY <2>2 DEF Publish, Stamp, LiveFails, AppendMany, AppendFails, Drop, DropFails, PublisherDies, ResolveFails
    <3>2. UNCHANGED <<sock, since, wire, verdict, frames>>
      BY <3>1 DEF session
    <3>3. ToSet(wire') = ToSet(wire) /\ ToSet(frames') = ToSet(frames) /\ Len(frames') = Len(frames)
      BY <3>2
    <3> QED
      BY <1>1, <3>2, <3>3 DEF StreamTypeOK, Carried
  <2> QED
    BY <2>1, <2>2
<1>8. cursor' \in Durable \cup {0} /\ seen' \subseteq Events /\ view' \subseteq Stored' /\ fetching' \in BOOLEAN
  BY <1>1 DEF StreamTypeOK, tab
<1> QED
  BY <1>1, <1>2, <1>4, <1>5, <1>6, <1>7, <1>8 DEF StreamTypeOK, Carried, Stages

\* So do the steps of the socket, and the day that passes.
LEMMA SocketTypes ==
  ASSUME StreamAssumption, StreamTypeOK, Carried, Socket \/ Lapse
  PROVE  StreamTypeOK' /\ Carried'
<1>1. UNCHANGED <<stage, tries, cursor, seen, view>> /\ fetching' \in BOOLEAN
  BY DEF Socket, Accept, Subscribe, Replay, ReplayFails, NoReplay, Disconnect, Lapse, tab, StreamTypeOK
<1>2. conns' \in 0..MaxConns /\ failures' \in 0..MaxFailures
  <2>1. Failure \/ UNCHANGED limits \/ (conns < MaxConns /\ conns' = conns + 1 /\ UNCHANGED failures)
    BY DEF Socket, Accept, Subscribe, Replay, ReplayFails, NoReplay, Disconnect, Lapse
  <2> QED
    BY <2>1, LimitsKept
<1>3. Out' = Out /\ Stored' = Stored
  BY <1>1 DEF Out, Stored
<1>4. <<>> \in Seq(Durable) /\ <<>> \in Seq(Events) /\ ToSet(<<>>) = {} /\ Len(<<>>) = 0 /\ Buffer \in Nat
  BY EmptySeq DEF ToSet, StreamAssumption
<1>5. stream' \in Seq(Durable) /\ ToSet(stream') \subseteq Out' /\ payload' \subseteq Durable
  <2>1. CASE Lapse
    <3>1. stream' = stream \/ stream' = <<>>
      BY <2>1 DEF Lapse
    <3>2. payload' \subseteq payload
      BY <2>1 DEF Lapse
    <3>3. ToSet(stream') = ToSet(stream) \/ ToSet(stream') = {}
      BY <1>4, <3>1
    <3> QED
      BY <1>3, <1>4, <3>1, <3>2, <3>3 DEF StreamTypeOK, Carried
  <2>2. CASE Socket
    <3>1. stream' = stream /\ payload' = payload
      BY <2>2 DEF Socket, Accept, Subscribe, Replay, ReplayFails, NoReplay, Disconnect, store
    <3>2. ToSet(stream') = ToSet(stream)
      BY <3>1
    <3> QED
      BY <1>3, <3>1, <3>2 DEF StreamTypeOK, Carried
  <2> QED
    BY <2>1, <2>2
<1>6. frames' \in Seq(Events) /\ Len(frames') <= Buffer /\ ToSet(frames') \subseteq Out'
  <2>1. frames' = frames \/ frames' = <<>>
    BY DEF Socket, Accept, Subscribe, Replay, ReplayFails, NoReplay, Disconnect, SocketGone, Lapse, session
  <2>2. CASE frames' = frames
    <3>1. ToSet(frames') = ToSet(frames) /\ Len(frames') = Len(frames)
      BY <2>2
    <3> QED
      BY <1>3, <2>2, <3>1 DEF StreamTypeOK, Carried
  <2>3. CASE frames' = <<>>
    <3>1. ToSet(frames') = {} /\ Len(frames') = 0
      BY <1>4, <2>3
    <3> QED
      BY <1>4, <2>3, <3>1
  <2> QED
    BY <2>1, <2>2, <2>3
<1>7. wire' \in Seq(Durable) /\ ToSet(wire') \subseteq Out'
  <2>1. wire' = wire \/ wire' = <<>> \/ \E from \in Oldest..(Len(stream) + 1) : wire' \in Resolved(from)
    BY DEF Socket, Accept, Subscribe, Replay, ReplayFails, NoReplay, Disconnect, SocketGone, Lapse, session
  <2>2. CASE wire' = wire
    <3>1. ToSet(wire') = ToSet(wire)
      BY <2>2
    <3> QED
      BY <1>3, <2>2, <3>1 DEF StreamTypeOK, Carried
  <2>3. CASE wire' = <<>>
    <3>1. ToSet(wire') = {}
      BY <1>4, <2>3
    <3> QED
      BY <1>4, <2>3, <3>1
  <2>4. CASE \E from \in Oldest..(Len(stream) + 1) : wire' \in Resolved(from)
    <3>1. PICK from \in Oldest..(Len(stream) + 1) : wire' \in Resolved(from)
      BY <2>4
    <3>2. wire' \in Seq(Durable) /\ ToSet(wire') \subseteq ToSet(stream)
      BY <3>1, ResolvedType
    <3> QED
      BY <1>3, <3>2 DEF Carried
  <2> QED
    BY <2>1, <2>2, <2>3, <2>4
<1>8. /\ sock' \in {"down", "open", "listening", "live"} /\ since' \in Durable \cup {0}
      /\ verdict' \in {"none", "done", "exhausted"}
  <2>1. CASE Replay
    <3>1. verdict' \in {"done", "exhausted"} /\ sock' = "live" /\ since' = since
      BY <2>1 DEF Replay
    <3> QED
      BY <3>1 DEF StreamTypeOK
  <2>2. CASE ~Replay
    BY <2>2 DEF Socket, Accept, Subscribe, ReplayFails, NoReplay, Disconnect, SocketGone, Lapse, session, StreamTypeOK
  <2> QED
    BY <2>1, <2>2
<1> QED
  BY <1>1, <1>2, <1>3, <1>5, <1>6, <1>7, <1>8 DEF StreamTypeOK, Carried

\* And those of the tab.
LEMMA TabTypes ==
  ASSUME StreamAssumption, StreamTypeOK, Carried, Tab
  PROVE  StreamTypeOK' /\ Carried'
<1>1. UNCHANGED <<stage, tries, stream, payload, sock, since>>
  BY DEF Tab, HandleReplayed, HandleVerdict, HandleLive, Refetch, session, store
<1>2. Out' = Out /\ Stored' = Stored /\ ToSet(stream') = ToSet(stream) /\ Out \subseteq Stored
  BY <1>1 DEF Out, Stored
<1>3. ASSUME NEW x \in Events, x \in Out, Handle(x)
      PROVE  /\ cursor' \in Durable \cup {0} /\ seen' \subseteq Events /\ view' \subseteq Stored' /\ fetching' \in BOOLEAN
             /\ conns' \in 0..MaxConns /\ failures' \in 0..MaxFailures
  <2>1. Failure \/ UNCHANGED limits
    BY <1>3 DEF Handle, Handled, Throws
  <2>2. CASE UNCHANGED tab
    BY <1>2, <2>1, <2>2, LimitsKept DEF tab, StreamTypeOK
  <2>3. CASE Handled(x)
    <3>1. cursor' = cursor \/ (x \in Durable /\ cursor' = x)
      BY <2>3 DEF Handled, MovesCursor
    <3>2. seen' = seen \cup {x} /\ view' = view \cup {x} /\ fetching' = fetching
      BY <2>3 DEF Handled
    <3> QED
      BY <1>2, <1>3, <2>1, <3>1, <3>2, LimitsKept DEF StreamTypeOK
  <2> QED
    BY <1>3, <2>2, <2>3 DEF Handle, Throws
<1>4. CASE HandleReplayed
  <2>1. wire \in Seq(Durable) /\ wire # <<>> /\ Handle(Head(wire)) /\ wire' = Tail(wire) /\ UNCHANGED <<frames, verdict>>
    BY <1>4 DEF HandleReplayed, StreamTypeOK
  <2>2. Head(wire) \in Events /\ wire' \in Seq(Durable) /\ Head(wire) \in ToSet(wire) /\ ToSet(wire') \subseteq ToSet(wire)
    BY <2>1, HeadTailSet DEF Durable
  <2>3. ToSet(frames') = ToSet(frames) /\ Len(frames') = Len(frames)
    BY <2>1
  <2>4. Head(wire) \in Out
    BY <2>2 DEF Carried
  <2> QED
    BY <1>1, <1>2, <1>3, <2>1, <2>2, <2>3, <2>4 DEF StreamTypeOK, Carried
<1>5. CASE HandleLive
  <2>1. frames \in Seq(Events) /\ frames # <<>> /\ Handle(Head(frames)) /\ frames' = Tail(frames) /\ UNCHANGED <<wire, verdict>>
    BY <1>5 DEF HandleLive, StreamTypeOK
  <2>2. /\ Head(frames) \in Events /\ frames' \in Seq(Events) /\ Head(frames) \in ToSet(frames)
        /\ ToSet(frames') \subseteq ToSet(frames) /\ Len(frames') <= Len(frames)
    BY <2>1, HeadTailSet
  <2>3. ToSet(wire') = ToSet(wire) /\ Len(frames') \in Nat /\ Len(frames) \in Nat /\ Buffer \in Nat
    BY <2>1, <2>2, Elements DEF StreamAssumption
  <2>4. Head(frames) \in Out
    BY <2>2 DEF Carried
  <2>5. Len(frames') <= Buffer
    BY <2>2, <2>3 DEF StreamTypeOK
  <2> QED
    BY <1>1, <1>2, <1>3, <2>1, <2>2, <2>3, <2>4, <2>5 DEF StreamTypeOK, Carried
<1>6. CASE HandleVerdict \/ Refetch
  <2>1. UNCHANGED <<wire, frames, conns, failures>>
    BY <1>6 DEF HandleVerdict, Refetch, session, limits
  <2>2. ToSet(wire') = ToSet(wire) /\ ToSet(frames') = ToSet(frames) /\ Len(frames') = Len(frames)
    BY <2>1
  <2>3. /\ cursor' \in {cursor, 0} /\ seen' = seen /\ view' \subseteq view \cup Stored /\ fetching' \in BOOLEAN
        /\ verdict' \in {verdict, "none"}
    BY <1>6 DEF HandleVerdict, Refetch, session, StreamTypeOK
  <2> QED
    BY <1>1, <1>2, <2>1, <2>2, <2>3 DEF StreamTypeOK, Carried
<1> QED
  BY <1>4, <1>5, <1>6 DEF Tab

-----------------------------------------------------------------------------
(* EventStream: the order of the events *)

\* The other steps leave the publications alone.
LEMMA OthersLeave ==
  ASSUME Lapse \/ Socket \/ Tab
  PROVE  UNCHANGED <<stage, overlap>> /\ excuse \subseteq excuse'
<1>1. UNCHANGED <<stage, overlap>>
  BY DEF Lapse, Socket, Accept, Subscribe, Replay, ReplayFails, NoReplay, Disconnect, Tab, HandleReplayed,
         HandleVerdict, HandleLive, Refetch
<1>2. excuse \subseteq excuse'
  <2>1. CASE Replay
    BY <2>1 DEF Replay
  <2>2. CASE ~Replay
    BY <2>2 DEF Lapse, Socket, Accept, Subscribe, ReplayFails, NoReplay, Disconnect, Tab, HandleReplayed,
                HandleVerdict, HandleLive, Refetch, Handle, Handled, Throws
  <2> QED
    BY <2>1, <2>2
<1> QED
  BY <1>1, <1>2

\* What is excused stays excused.
LEMMA ExcusedStays ==
  ASSUME overlap \subseteq overlap', excuse \subseteq excuse'
  PROVE  \A e : Accepted(e) => Accepted(e)'
  BY DEF Accepted

\* A stamp overlaps what is under way, and is the last of all so far.
LEMMA StampInTurn ==
  ASSUME StreamAssumption, StreamTypeOK, InTurn, NEW e \in Events, Stamp(e)
  PROVE  InTurn'
<1>1. /\ stage' = [stage EXCEPT ![e] = "stamped"] /\ stage \in [Events -> Stages]
      /\ stage[e] = "new" /\ \A f \in Events : f < e => stage[f] # "new"
  BY StampKept DEF StreamTypeOK, Stages
<1>2. overlap' = IF e \in Durable /\ UnderWay # {} THEN overlap \cup UnderWay \cup {e} ELSE overlap
  BY DEF Stamp
<1>3. Events \subseteq Nat /\ Durable \subseteq Events
  BY DEF StreamAssumption, Durable
<1>4. \A f \in Events : stage[f] # "new" => f < e
  <2> SUFFICES ASSUME NEW f \in Events, stage[f] # "new", ~(f < e) PROVE FALSE
    OBVIOUS
  <2>1. e = f \/ e < f
    BY <1>3
  <2> QED
    BY <1>1, <2>1 DEF InTurn
<1>5. /\ stage'[e] = "stamped" /\ \A f \in Events \ {e} : stage'[f] = stage[f]
      /\ UnderWay' = IF e \in Durable THEN UnderWay \cup {e} ELSE UnderWay
  <2>1. stage'[e] = "stamped" /\ \A f \in Events \ {e} : stage'[f] = stage[f]
    BY <1>1
  <2> QED
    BY <1>3, <2>1, <1>1 DEF UnderWay
<1>6. \A x, f \in Events : f < x /\ stage'[x] # "new" => stage'[f] # "new"
  <2> SUFFICES ASSUME NEW x \in Events, NEW f \in Events, f < x, stage'[x] # "new", f # e PROVE stage[f] # "new"
    BY <1>5
  <2>1. CASE x = e
    BY <1>1, <2>1
  <2>2. CASE x # e
    BY <1>5, <2>2 DEF InTurn
  <2> QED
    BY <2>1, <2>2
<1>7. ASSUME NEW x \in Durable, x \notin overlap', stage'[x] # "new"
      PROVE  /\ \A f \in UnderWay' : x <= f
             /\ x \in UnderWay' => \A f \in Durable : x < f => stage'[f] = "new"
  <2>1. x \notin overlap
    BY <1>2, <1>7
  <2>2. CASE x = e
    <3>1. UnderWay = {}
      BY <1>2, <1>7, <2>2
    <3>2. \A f \in Durable : x < f => stage'[f] = "new"
      <4> SUFFICES ASSUME NEW f \in Durable, x < f, stage[f] # "new" PROVE FALSE
        BY <1>3, <1>5, <2>2
      <4>1. f < e
        BY <1>3, <1>4
      <4> QED
        BY <1>3, <2>2, <4>1
    <3> QED
      BY <1>3, <1>5, <2>2, <3>1, <3>2
  <2>3. CASE x # e
    <3>1. stage[x] # "new" /\ x < e
      BY <1>3, <1>4, <1>5, <1>7, <2>3
    <3>2. (\A f \in UnderWay : x <= f) /\ (x \in UnderWay => \A f \in Durable : x < f => stage[f] = "new")
      BY <2>1, <3>1 DEF InTurn
    <3>3. \A f \in UnderWay' : x <= f
      BY <1>3, <1>5, <3>1, <3>2
    <3>4. x \in UnderWay' => x \in UnderWay /\ e \notin Durable
      BY <1>2, <1>5, <1>7, <2>3
    <3>5. ASSUME x \in UnderWay', NEW f \in Durable, x < f PROVE stage'[f] = "new"
      BY <1>3, <1>5, <3>2, <3>4, <3>5
    <3> QED
      BY <3>3, <3>5
  <2> QED
    BY <2>2, <2>3
<1> QED
  BY <1>6, <1>7 DEF InTurn

\* Order and excuses are kept by every step.
LEMMA OrderKept ==
  ASSUME StreamAssumption, StreamTypeOK, InTurn, GivenUp, StreamNext
  PROVE  /\ InTurn' /\ GivenUp' /\ Out \subseteq Out' /\ overlap \subseteq overlap'
         /\ \A e : Accepted(e) => Accepted(e)'
<1>1. CASE Lapse \/ Socket \/ Tab
  <2>1. UNCHANGED <<stage, overlap>> /\ excuse \subseteq excuse'
    BY <1>1, OthersLeave
  <2>2. UnderWay' = UnderWay /\ Out' = Out
    BY <2>1 DEF UnderWay, Out
  <2>3. \A e : Accepted(e) => Accepted(e)'
    BY <2>1, ExcusedStays
  <2> QED
    BY <2>1, <2>2, <2>3 DEF InTurn, GivenUp
<1>2. ASSUME NEW e \in Events, Stamp(e)
      PROVE  InTurn' /\ GivenUp' /\ Out \subseteq Out' /\ overlap \subseteq overlap' /\ \A x : Accepted(x) => Accepted(x)'
  <2>1. Out' = Out /\ overlap \subseteq overlap' /\ excuse' = excuse
    BY <1>2, StampKept DEF Stamp
  <2>2. \A x : Accepted(x) => Accepted(x)'
    BY <2>1, ExcusedStays
  <2>3. \A x \in Events : stage'[x] = stage[x] \/ stage'[x] = "stamped"
    BY <1>2, StampKept DEF StreamTypeOK
  <2> QED
    BY <1>2, <2>1, <2>2, <2>3, StampInTurn DEF GivenUp, Durable
<1>3. ASSUME NEW e \in Events, Publish(e), ~Stamp(e)
      PROVE  InTurn' /\ GivenUp' /\ Out \subseteq Out' /\ overlap \subseteq overlap' /\ \A x : Accepted(x) => Accepted(x)'
  <2>1. /\ \E s : MovesTo(e, s)
        /\ overlap' = overlap /\ excuse \subseteq excuse'
    BY <1>3, MovesOn
  <2>2. Out \subseteq Out' /\ UnderWay' \subseteq UnderWay
    BY <2>1, StageKept
  <2>3. \A x : Accepted(x) => Accepted(x)'
    BY <2>1, ExcusedStays
  <2>4. (\A x \in Events : stage'[x] = "new" <=> stage[x] = "new") /\ \A x \in Events \ {e} : stage'[x] = stage[x]
    BY <2>1 DEF MovesTo, StreamTypeOK
  <2>5. InTurn'
    BY <2>1, <2>2, <2>4 DEF InTurn, Durable
  <2>6. e \in Durable => stage'[e] # "live" /\ (stage'[e] \in {"holed", "gone"} => Accepted(e)')
    <3> SUFFICES ASSUME e \in Durable PROVE stage'[e] # "live" /\ (stage'[e] \in {"holed", "gone"} => Accepted(e)')
      OBVIOUS
    <3>1. AfterLive(e) = "appending"
      BY DEF AfterLive, Durable
    <3>2. \E s : stage' = [stage EXCEPT ![e] = s] /\ s # "live" /\ (s \in {"holed", "gone"} => \E why : <<e, why>> \in excuse')
      <4>1. CASE GoLive(e)
        BY <3>1, <4>1 DEF GoLive
      <4>2. CASE LiveFails(e)
        <5>1. PICK then \in {"gone", AfterLive(e)} : stage' = [stage EXCEPT ![e] = then]
          BY <4>2 DEF LiveFails
        <5>2. stage'[e] = then
          BY <5>1 DEF StreamTypeOK
        <5>3. then = "gone" => <<e, "unpublished">> \in excuse'
          BY <4>2, <5>2 DEF LiveFails
        <5> QED
          BY <3>1, <5>1, <5>3
      <4>3. CASE AppendFails(e)
        <5>1. \E s \in {"poisoned", "appending"} : stage' = [stage EXCEPT ![e] = s]
          BY <4>3 DEF AppendFails
        <5> QED
          BY <5>1
      <4>4. CASE AppendMany(e) \/ Drop(e)
        BY <4>4 DEF AppendMany, Drop
      <4>5. CASE DropFails(e)
        BY <4>5 DEF DropFails
      <4>6. CASE PublisherDies(e) \/ ResolveFails(e)
        BY <4>6 DEF PublisherDies, ResolveFails
      <4> QED
        BY <1>3, <4>1, <4>2, <4>3, <4>4, <4>5, <4>6 DEF Publish
    <3>3. \A why : <<e, why>> \in excuse' => Accepted(e)'
      BY DEF Accepted
    <3> QED
      BY <3>2, <3>3 DEF StreamTypeOK
  <2> QED
    BY <2>1, <2>2, <2>3, <2>4, <2>5, <2>6 DEF GivenUp, Durable
<1> QED
  BY <1>1, <1>2, <1>3 DEF StreamNext, Publish

-----------------------------------------------------------------------------
(* EventStream: the socket before it is live, and what the tab shows *)

\* A publication leaves the tab alone, and does to the socket what Client.Send does.
LEMMA PublishSession ==
  ASSUME StreamAssumption, StreamTypeOK, NEW e \in Events, Publish(e)
  PROVE  /\ UNCHANGED <<tab, conns>>
         /\ \/ SocketGone
            \/ /\ UNCHANGED <<sock, since, wire, verdict>>
               /\ ToSet(frames) \subseteq ToSet(frames')
               /\ sock \notin {"listening", "live"} => frames' = frames
               /\ GoLive(e) /\ sock \in {"listening", "live"} => e \in ToSet(frames')
<1>1. UNCHANGED <<tab, conns>>
  BY DEF Publish, Stamp, GoLive, LiveFails, AppendMany, AppendFails, Drop, DropFails, PublisherDies, ResolveFails, Failure, limits
<1>2. CASE GoLive(e)
  <2>1. SendFrame(e)
    BY <1>2 DEF GoLive
  <2> QED
    BY <1>1, <2>1, Sent
<1>3. CASE ~GoLive(e)
  <2>1. UNCHANGED session
    BY <1>3 DEF Publish, Stamp, LiveFails, AppendMany, AppendFails, Drop, DropFails, PublisherDies, ResolveFails
  <2>2. UNCHANGED <<sock, since, wire, verdict, frames>>
    BY <2>1 DEF session
  <2>3. ToSet(frames') = ToSet(frames)
    BY <2>2
  <2> QED
    BY <1>1, <1>3, <2>2, <2>3
<1> QED
  BY <1>2, <1>3

\* A socket that is not live has sent nothing and moved no cursor.
LEMMA OpeningKept ==
  ASSUME StreamAssumption, StreamTypeOK, Opening, StreamNext
  PROVE  Opening'
<1>1. ASSUME NEW e \in Events, Publish(e) PROVE Opening'
  <2>1. cursor' = cursor /\ conns' = conns
    BY <1>1, PublishSession DEF tab
  <2>2. CASE SocketGone
    BY <2>1, <2>2 DEF Opening, SocketGone
  <2>3. CASE ~SocketGone
    <3>1. UNCHANGED <<sock, since, wire, verdict>> /\ (sock \notin {"listening", "live"} => frames' = frames)
      BY <1>1, <2>3, PublishSession
    <3> QED
      BY <2>1, <3>1 DEF Opening
  <2> QED
    BY <2>2, <2>3
<1>2. CASE Lapse
  BY <1>2 DEF Lapse, Failure, session, tab, Opening
<1>3. CASE Accept
  BY <1>3 DEF Accept, Opening, StreamTypeOK
<1>4. CASE Subscribe \/ NoReplay \/ ReplayFails
  BY <1>4 DEF Subscribe, NoReplay, ReplayFails, Failure, tab, limits, Opening
<1>5. CASE Replay
  <2>1. sock' = "live" /\ verdict' \in {"done", "exhausted"} /\ UNCHANGED <<conns, cursor, frames, since>> /\ sock = "listening"
    BY <1>5 DEF Replay, tab, limits
  <2> QED
    BY <2>1 DEF Opening
<1>6. CASE Disconnect
  BY <1>6 DEF Disconnect, SocketGone, tab, limits, Opening
<1>7. CASE HandleReplayed
  <2>1. sock = "live" /\ sock' = "live" /\ wire # <<>> /\ verdict' = verdict /\ (conns' = conns)
    BY <1>7 DEF HandleReplayed, Handle, Handled, Throws, Failure, limits
  <2> QED
    BY <2>1 DEF Opening
<1>8. CASE HandleLive \/ HandleVerdict
  <2>1. sock = "live" /\ sock' = "live" /\ wire = <<>> /\ wire' = wire /\ conns' = conns
    BY <1>8 DEF HandleLive, HandleVerdict, Handle, Handled, Throws, Failure, limits
  <2> QED
    BY <2>1 DEF Opening
<1>9. CASE Refetch
  BY <1>9 DEF Refetch, session, limits, Opening
<1> QED
  BY <1>1, <1>2, <1>3, <1>4, <1>5, <1>6, <1>7, <1>8, <1>9 DEF StreamNext, Socket, Tab

\* What a handler does in the tab.
LEMMA HandleKeeps ==
  ASSUME NEW e \in Events, Handle(e), seen \subseteq view
  PROVE  /\ fetching' = fetching /\ view \subseteq view' /\ seen' \subseteq view' /\ seen \subseteq seen'
         /\ \/ e \in seen'
            \/ Accepted(e)'
         /\ \/ cursor' = cursor
            \/ cursor' = e /\ e \in Durable /\ e > cursor /\ e \in seen'
<1>1. CASE Handled(e)
  BY <1>1 DEF Handled, MovesCursor
<1>2. CASE Throws(e)
  <2>1. UNCHANGED <<cursor, seen, view, fetching>> /\ <<e, "threw">> \in excuse'
    BY <1>2 DEF Throws, tab
  <2>2. Accepted(e)'
    BY <2>1 DEF Accepted
  <2> QED
    BY <2>1, <2>2
<1>3. CASE e \in seen /\ UNCHANGED tab
  BY <1>3 DEF tab
<1> QED
  BY <1>1, <1>2, <1>3 DEF Handle

\* The tab shows what it has handled.
LEMMA ShownKept ==
  ASSUME StreamAssumption, StreamTypeOK, Carried, InTurn, GivenUp, Shown, StreamNext
  PROVE  Shown'
<1>1. \A e \in Events : stage[e] # "new" => stage'[e] # "new"
  <2>1. CASE Lapse \/ Socket \/ Tab
    BY <2>1, OthersLeave
  <2>2. ASSUME NEW x \in Events, Stamp(x) PROVE \A e \in Events : stage[e] # "new" => stage'[e] # "new"
    BY <2>2, StampKept DEF StreamTypeOK
  <2>3. ASSUME NEW x \in Events, Publish(x), ~Stamp(x) PROVE \A e \in Events : stage[e] # "new" => stage'[e] # "new"
    <3>1. \E s : MovesTo(x, s)
      BY <2>3, MovesOn
    <3> QED
      BY <3>1 DEF MovesTo, StreamTypeOK
  <2> QED
    BY <2>1, <2>2, <2>3 DEF StreamNext
<1>2. cursor \in Durable \cup {0} /\ Durable \subseteq Events
  BY DEF StreamTypeOK, Durable
<1>3. ASSUME NEW e \in Events, e \in Out, Handle(e) PROVE Shown'
  <2>1. stage[e] # "new"
    BY <1>3 DEF Out
  <2> QED
    BY <1>1, <1>2, <1>3, <2>1, HandleKeeps DEF Shown
<1>4. CASE HandleReplayed
  <2>1. wire \in Seq(Durable) /\ wire # <<>> /\ Handle(Head(wire))
    BY <1>4 DEF HandleReplayed, StreamTypeOK
  <2>2. Head(wire) \in Events /\ Head(wire) \in Out
    BY <1>2, <2>1, HeadTailSet DEF Carried
  <2> QED
    BY <1>3, <2>1, <2>2
<1>5. CASE HandleLive
  <2>1. frames \in Seq(Events) /\ frames # <<>> /\ Handle(Head(frames))
    BY <1>5 DEF HandleLive, StreamTypeOK
  <2>2. Head(frames) \in Events /\ Head(frames) \in Out
    BY <1>2, <2>1, HeadTailSet DEF Carried
  <2> QED
    BY <1>3, <2>1, <2>2
<1>6. CASE ~HandleReplayed /\ ~HandleLive
  <2>1. seen' = seen /\ view \subseteq view' /\ cursor' \in {cursor, 0}
    <3>1. CASE \E e \in Events : Publish(e)
      BY <3>1, PublishSession DEF tab
    <3>2. CASE Lapse \/ Socket
      BY <3>2 DEF Lapse, Socket, Accept, Subscribe, Replay, ReplayFails, NoReplay, Disconnect, tab
    <3>3. CASE HandleVerdict \/ Refetch
      BY <3>3 DEF HandleVerdict, Refetch
    <3> QED
      BY <1>6, <3>1, <3>2, <3>3 DEF StreamNext, Tab
  <2> QED
    BY <1>1, <1>2, <2>1 DEF Shown
<1> QED
  BY <1>4, <1>5, <1>6

-----------------------------------------------------------------------------
(* EventStream: places in the stream *)

\* The older before it, the newer behind it.
Split(s, p) == \A i, j \in 1..Len(s) : i < j => /\ s[j] <= p => s[i] <= p
                                                /\ s[i] >= p => s[j] >= p
\* Nothing is older, nor is it there itself.
Beyond(s, p) == \A i \in 1..Len(s) : s[i] > p

\* An append behind what is older, and the end of a stream, are split in the same way.
LEMMA SplitKept ==
  ASSUME StreamAssumption, NEW s \in Seq(Durable), NEW p \in Durable, NEW e \in Durable, Split(s, p), p <= e,
         p = e => \A x \in ToSet(s) : x <= p,
         NEW t \in Trimmed(Append(s, e))
  PROVE  /\ Split(t, p) /\ Len(t) \in Nat
         /\ p # e /\ Beyond(s, p) => Beyond(t, p)
         /\ p \in ToSet(s) => p \in ToSet(t) \/ Beyond(t, p)
<1> DEFINE a == Append(s, e)
<1>1. Durable \subseteq Nat
  BY DEF StreamAssumption, Durable
<1>2. /\ a \in Seq(Durable) /\ a # <<>> /\ Len(a) = Len(s) + 1 /\ a[Len(s) + 1] = e
      /\ \A i \in 1..Len(s) : a[i] = s[i]
  BY AppendProperties
<1>3. Len(s) \in Nat /\ (\A i \in 1..Len(s) : s[i] \in Durable /\ s[i] \in ToSet(s))
  BY Elements, ElementOfSeq
<1>4. PICK d \in Nat : /\ t \in Seq(Durable) /\ Len(a) = Len(t) + d /\ Len(t) >= 1
                       /\ \A i \in 1..Len(t) : t[i] = a[i + d]
  <2> HIDE DEF a
  <2>1. t \in Trimmed(a)
    BY DEF a
  <2>2. a \in Seq(Durable) /\ a # <<>>
    BY <1>2
  <2>3. /\ t \in Seq(Durable)
        /\ \E d \in Nat : /\ Len(a) = Len(t) + d /\ Len(t) >= 1
                          /\ \A i \in 1..Len(t) : t[i] = a[i + d]
    BY <2>1, <2>2, TrimmedIsEnd
  <2> QED
    BY <2>3
<1> HIDE DEF a
<1>5. Len(t) \in Nat /\ \A x : x \in ToSet(t) <=> \E i \in 1..Len(t) : t[i] = x
  BY <1>4, Elements
<1>6. ASSUME NEW i \in 1..Len(a), NEW j \in 1..Len(a), i < j
      PROVE  (a[j] <= p => a[i] <= p) /\ (a[i] >= p => a[j] >= p)
  <2>1. i \in 1..Len(s) /\ a[i] = s[i] /\ s[i] \in Nat /\ s[i] \in ToSet(s)
    <3>1. i \in 1..Len(s)
      BY <1>2, <1>3, <1>6
    <3>2. a[i] = s[i] /\ s[i] \in Durable /\ s[i] \in ToSet(s)
      BY <1>2, <1>3, <3>1
    <3> QED
      BY <1>1, <3>1, <3>2
  <2>2. CASE j \in 1..Len(s)
    BY <1>2, <1>6, <2>1, <2>2 DEF Split
  <2>3. CASE j \notin 1..Len(s)
    <3>1. a[j] = e
      BY <1>2, <1>3, <2>3
    <3>2. e <= p => p = e
      BY <1>1
    <3> QED
      BY <1>1, <2>1, <3>1, <3>2
  <2> QED
    BY <2>2, <2>3
<1>7. \A i \in 1..Len(t) : i + d \in 1..Len(a) /\ t[i] = a[i + d]
  BY <1>4, <1>5
<1>8. Split(t, p)
  <2> SUFFICES ASSUME NEW i \in 1..Len(t), NEW j \in 1..Len(t), i < j
               PROVE  (t[j] <= p => t[i] <= p) /\ (t[i] >= p => t[j] >= p)
    BY DEF Split
  <2>1. i + d < j + d
    BY <1>5
  <2> QED
    BY <1>6, <1>7, <2>1
<1>9. ASSUME p # e, Beyond(s, p) PROVE Beyond(t, p)
  <2>1. \A i \in 1..Len(a) : a[i] > p
    <3> SUFFICES ASSUME NEW i \in 1..Len(a) PROVE a[i] > p
      OBVIOUS
    <3>1. CASE i \in 1..Len(s)
      BY <1>2, <1>9, <3>1 DEF Beyond
    <3>2. CASE i \notin 1..Len(s)
      BY <1>1, <1>2, <1>3, <1>9, <3>2
    <3> QED
      BY <3>1, <3>2
  <2> QED
    BY <1>7, <2>1 DEF Beyond
<1>10. ASSUME p \in ToSet(s), p \notin ToSet(t) PROVE Beyond(t, p)
  <2>1. PICK k \in 1..Len(s) : s[k] = p
    BY <1>10, Elements
  <2>2. k \in 1..Len(a) /\ a[k] = p
    BY <1>2, <1>3, <2>1
  <2>3. k <= d
    <3> SUFFICES ASSUME k > d PROVE FALSE
      BY <1>4
    <3>1. k - d \in 1..Len(t) /\ (k - d) + d = k
      BY <1>4, <1>5, <2>2
    <3>2. t[k - d] = p
      BY <1>4, <2>2, <3>1
    <3> QED
      BY <1>5, <1>10, <3>1, <3>2
  <2>4. ASSUME NEW i \in 1..Len(t) PROVE t[i] > p
    <3>1. i + d \in 1..Len(a) /\ t[i] = a[i + d] /\ k < i + d
      BY <1>4, <1>7, <2>2, <2>3
    <3>2. a[i + d] >= p
      BY <1>1, <1>6, <2>2, <3>1
    <3>3. t[i] # p /\ t[i] \in Durable
      BY <1>4, <1>5, <1>10, ElementOfSeq
    <3>4. t[i] \in Nat /\ p \in Nat
      BY <1>1, <3>3
    <3> QED
      BY <3>1, <3>2, <3>3, <3>4
  <2> QED
    BY <2>4 DEF Beyond
<1> QED
  BY <1>5, <1>8, <1>9, <1>10

\* What has its place in the stream keeps it through every step of a publication.
LEMMA PublishPlaced ==
  ASSUME StreamAssumption, StreamTypeOK, InTurn, InTurn', GivenUp, Carried, Placed, NEW e \in Events, Publish(e)
  PROVE  Placed'
<1>1. Durable \subseteq Nat /\ Durable \subseteq Events /\ Events \subseteq Nat
  BY DEF StreamAssumption, Durable
<1>2. /\ stream \in Seq(Durable) /\ DOMAIN stream = 1..Len(stream) /\ Len(stream) \in Nat
      /\ \A i \in 1..Len(stream) : stream[i] \in Durable /\ stream[i] \in ToSet(stream)
  BY Elements, ElementOfSeq DEF StreamTypeOK
<1>3. \A x \in ToSet(stream) : x \in Out /\ x \in Durable
  BY <1>2, Elements DEF Carried
<1>4. SUFFICES ASSUME NEW p \in Durable, p \notin overlap'
               PROVE  /\ stage'[p] # "new" => Split(stream', p)
                      /\ stage'[p] \in {"appended", "dropped"} =>
                           (stage'[p] = "appended" /\ p \in ToSet(stream')) \/ Beyond(stream', p)
  <2>1. StreamTypeOK'
    BY PublishTypes
  <2>2. DOMAIN stream' = 1..Len(stream')
    BY <2>1, Elements DEF StreamTypeOK
  <2> QED
    BY <1>4, <2>2 DEF Placed, Split, Beyond
<1>5. overlap \subseteq overlap' /\ p \notin overlap
  <2>1. CASE Stamp(e)
    BY <1>4, <2>1 DEF Stamp
  <2>2. CASE ~Stamp(e)
    BY <1>4, <2>2, MovesOn
  <2> QED
    BY <2>1, <2>2
<1>6. /\ stage[p] # "new" => Split(stream, p)
      /\ stage[p] \in {"appended", "dropped"} =>
           (stage[p] = "appended" /\ p \in ToSet(stream)) \/ Beyond(stream, p)
  BY <1>2, <1>5 DEF Placed, Split, Beyond
<1>7. CASE Stamp(e)
  <2>1. stage' = [stage EXCEPT ![e] = "stamped"] /\ stream' = stream
    BY <1>7, StampKept DEF store
  <2>2. CASE p # e
    <3>1. stage'[p] = stage[p]
      BY <2>1, <2>2 DEF StreamTypeOK
    <3> QED
      BY <1>6, <2>1, <3>1
  <2>3. CASE p = e
    <3>1. stage'[p] = "stamped" /\ stage[p] = "new"
      BY <1>1, <1>7, <2>1, <2>3, StampKept DEF StreamTypeOK
    <3>2. ASSUME NEW i \in 1..Len(stream) PROVE stream[i] < p
      <4>1. stream[i] \in Events /\ stage[stream[i]] # "new"
        BY <1>1, <1>2, <1>3 DEF Out
      <4>2. ~(p < stream[i]) /\ stream[i] # p
        BY <1>1, <3>1, <4>1 DEF InTurn
      <4>3. stream[i] \in Nat /\ p \in Nat
        BY <1>1, <4>1
      <4> QED
        BY <4>2, <4>3
    <3>3. Split(stream, p)
      <4>1. \A i \in 1..Len(stream) : stream[i] \in Nat /\ p \in Nat
        BY <1>1, <1>2
      <4> QED
        BY <3>2, <4>1 DEF Split
    <3> QED
      BY <2>1, <3>1, <3>3
  <2> QED
    BY <2>2, <2>3
<1>8. CASE ~Stamp(e)
  <2>1. PICK s : MovesTo(e, s)
    BY <1>8, MovesOn
  <2>2. stage'[e] = s /\ stage[e] # "new" /\ s # "new" /\ \A x \in Events \ {e} : stage'[x] = stage[x]
    BY <2>1 DEF MovesTo, StreamTypeOK
  <2>3. stage'[p] # "new" => stage[p] # "new"
    BY <1>1, <2>2
  <2>4. CASE stream' = <<>>
    <3>1. Len(stream') = 0
      BY <2>4, EmptySeq
    <3> QED
      BY <3>1 DEF Split, Beyond
  <2>5. CASE stream' \in Trimmed(Append(stream, e)) /\ stage[e] = "appending" /\ (AppendMany(e) \/ AppendFails(e))
    <3>1. e \in Durable /\ e \in UnderWay
      BY <2>5 DEF StreamTypeOK, Durable, UnderWay
    <3> SUFFICES ASSUME stage'[p] # "new"
                 PROVE  /\ Split(stream', p)
                        /\ stage'[p] \in {"appended", "dropped"} =>
                             (stage'[p] = "appended" /\ p \in ToSet(stream')) \/ Beyond(stream', p)
      BY <2>5
    <3>2. stage[p] # "new" /\ p <= e /\ Split(stream, p)
      BY <1>5, <1>6, <2>3, <3>1 DEF InTurn
    <3>3. p = e => \A x \in ToSet(stream) : x <= p
      <4> SUFFICES ASSUME p = e, NEW x \in ToSet(stream), ~(x <= p) PROVE FALSE
        OBVIOUS
      <4>1. x \in Durable /\ stage[x] # "new"
        BY <1>3 DEF Out
      <4>2. p < x
        <5>1. x \in Nat /\ p \in Nat
          BY <1>1, <4>1
        <5> QED
          BY <5>1
      <4> QED
        BY <1>5, <3>1, <3>2, <4>1, <4>2 DEF InTurn
    <3>4. /\ Split(stream', p)
          /\ p # e /\ Beyond(stream, p) => Beyond(stream', p)
          /\ p \in ToSet(stream) => p \in ToSet(stream') \/ Beyond(stream', p)
      BY <1>2, <2>5, <3>1, <3>2, <3>3, SplitKept
    <3>5. CASE p = e
      <4>1. e \in ToSet(stream')
        BY <2>5, <3>1, ExtendedType
      <4>2. stage'[e] \in {"appended", "appending", "poisoned"}
        BY <2>5 DEF AppendMany, AppendFails, StreamTypeOK
      <4> QED
        BY <3>4, <3>5, <4>1, <4>2
    <3>6. CASE p # e
      <4>1. stage'[p] = stage[p]
        BY <1>1, <2>2, <3>6
      <4> QED
        BY <1>6, <3>4, <3>6, <4>1
    <3> QED
      BY <3>5, <3>6
  <2>6. CASE stream' = stream /\ ~AppendMany(e) /\ ~Drop(e)
    <3>1. stage'[e] \notin {"appended", "dropped"}
      <4>1. CASE GoLive(e) \/ LiveFails(e)
        <5>1. AfterLive(e) \in {"live", "appending"}
          BY DEF AfterLive
        <5> QED
          BY <4>1, <5>1 DEF GoLive, LiveFails, StreamTypeOK
      <4>2. CASE AppendFails(e)
        BY <4>2 DEF AppendFails, StreamTypeOK
      <4>3. CASE DropFails(e) \/ PublisherDies(e) \/ ResolveFails(e)
        BY <4>3 DEF DropFails, PublisherDies, ResolveFails, StreamTypeOK
      <4> QED
        BY <1>8, <2>6, <4>1, <4>2, <4>3 DEF Publish
    <3>2. p # e => stage'[p] = stage[p]
      BY <1>1, <2>2
    <3> QED
      BY <1>6, <2>3, <2>6, <3>1, <3>2
  <2>7. \/ stream' = <<>>
        \/ stream' \in Trimmed(Append(stream, e)) /\ stage[e] = "appending" /\ (AppendMany(e) \/ AppendFails(e))
        \/ stream' = stream /\ ~AppendMany(e) /\ ~Drop(e)
    <3>1. CASE AppendMany(e)
      BY <3>1 DEF AppendMany
    <3>2. CASE AppendFails(e)
      <4>1. ~AppendMany(e) \/ stream' \in Trimmed(Append(stream, e))
        BY DEF AppendMany
      <4>2. ~Drop(e)
        BY <3>2 DEF AppendFails, Drop
      <4> QED
        BY <3>2, <4>1, <4>2 DEF AppendFails
    <3>3. CASE Drop(e)
      BY <3>3 DEF Drop, Emptied
    <3>4. CASE ~AppendMany(e) /\ ~AppendFails(e) /\ ~Drop(e)
      BY <1>8, <3>4 DEF Publish, GoLive, LiveFails, DropFails, PublisherDies, ResolveFails, store
    <3> QED
      BY <3>1, <3>2, <3>3, <3>4
  <2> QED
    BY <2>4, <2>5, <2>6, <2>7
<1> QED
  BY <1>7, <1>8

\* And through every other step.
LEMMA PlacedKept ==
  ASSUME StreamAssumption, StreamTypeOK, InTurn, InTurn', GivenUp, Carried, Placed, StreamNext
  PROVE  Placed'
<1>1. CASE Lapse \/ Socket \/ Tab
  <2>1. UNCHANGED <<stage, overlap>>
    BY <1>1, OthersLeave
  <2>2. stream' = stream \/ stream' = <<>>
    BY <1>1 DEF Lapse, Socket, Accept, Subscribe, Replay, ReplayFails, NoReplay, Disconnect, Tab, HandleReplayed,
                HandleVerdict, HandleLive, Refetch, store
  <2>3. CASE stream' = stream
    <3>1. ToSet(stream') = ToSet(stream)
      BY <2>3
    <3> QED
      BY <2>1, <2>3, <3>1 DEF Placed
  <2>4. CASE stream' = <<>>
    <3>1. DOMAIN stream' = {}
      BY <2>4
    <3> QED
      BY <3>1 DEF Placed
  <2> QED
    BY <2>2, <2>3, <2>4
<1> QED
  BY <1>1, PublishPlaced DEF StreamNext

-----------------------------------------------------------------------------
(* EventStream: what the tab is promised, by the publisher and by a replay *)

\* The three promises that keep each other up.
Promises == DoneIsComplete /\ CursorIsHonest /\ Covered

\* What is stamped before an event that is out is out, or overlapped it.
LEMMA EarlierIsOut ==
  ASSUME StreamAssumption, StreamTypeOK, InTurn, NEW h \in Durable, h \in Out, NEW e \in Durable, e <= h
  PROVE  e \in Out \/ e \in overlap
<1>1. e \in Events /\ h \in Events /\ e \in Nat /\ h \in Nat /\ stage[h] # "new"
  BY DEF StreamAssumption, Durable, Out
<1>2. CASE e = h
  BY <1>2
<1>3. CASE e < h /\ stage[e] = "stamped"
  <2>1. e \in UnderWay
    BY <1>3 DEF UnderWay
  <2> QED
    BY <1>1, <1>3, <2>1 DEF InTurn
<1>4. CASE e < h /\ stage[e] # "stamped"
  BY <1>1, <1>4 DEF InTurn, Out
<1> QED
  BY <1>1, <1>2, <1>3, <1>4

\* A publication puts an event out by sending it to a socket that listens, or with an excuse.
LEMMA PublishPromises ==
  ASSUME StreamAssumption, StreamTypeOK, Opening, Promises, NEW e \in Events, Publish(e),
         \A x : Accepted(x) => Accepted(x)'
  PROVE  Promises'
<1>1. UNCHANGED <<cursor, seen, view, fetching>>
  BY PublishSession DEF tab
<1>2. CASE SocketGone
  BY <1>2 DEF SocketGone, Promises, DoneIsComplete, CursorIsHonest, Covered
<1>3. CASE ~SocketGone
  <2>1. /\ UNCHANGED <<sock, since, wire, verdict>> /\ ToSet(frames) \subseteq ToSet(frames')
        /\ GoLive(e) /\ sock \in {"listening", "live"} => e \in ToSet(frames')
    BY <1>3, PublishSession
  <2>2. ToSet(wire') = ToSet(wire)
    BY <2>1
  <2>3. ASSUME NEW x \in Durable, x \in Out', x \notin Out, sock = "live"
        PROVE  Accepted(x)' \/ x \in ToSet(frames')
    <3>1. ~Stamp(e)
      BY <2>3, StampKept
    <3>2. x = e /\ stage[e] = "stamped"
      BY <2>3, <3>1, MovesOn, StageKept
    <3>3. GoLive(e) \/ LiveFails(e) \/ PublisherDies(e)
      BY <3>1, <3>2 DEF Publish, ResolveFails, AppendMany, AppendFails, Drop, DropFails
    <3>4. LiveFails(e) => <<e, "unpublished">> \in excuse'
      BY <2>3 DEF LiveFails
    <3>5. PublisherDies(e) => <<e, "died">> \in excuse'
      BY DEF PublisherDies
    <3>6. \A why : <<e, why>> \in excuse' => Accepted(e)'
      BY DEF Accepted
    <3> QED
      BY <2>1, <2>3, <3>2, <3>3, <3>4, <3>5, <3>6
  <2>4. DoneIsComplete'
    <3> SUFFICES ASSUME verdict = "done", NEW x \in Durable, x > since, x \in Out'
                 PROVE  Accepted(x)' \/ x \in seen \cup ToSet(wire) \cup ToSet(frames')
      BY <1>1, <2>1, <2>2 DEF DoneIsComplete, Out, Durable
    <3>1. sock = "live"
      BY DEF Opening
    <3>2. x \in Out => Accepted(x) \/ x \in seen \cup ToSet(wire) \cup ToSet(frames)
      BY DEF Promises, DoneIsComplete, Out
    <3> QED
      BY <2>1, <2>3, <3>1, <3>2
  <2>5. CursorIsHonest'
    BY <1>1, <2>1, <2>2 DEF Promises, CursorIsHonest
  <2>6. Covered'
    <3> SUFFICES ASSUME sock = "live", verdict # "exhausted", ~fetching, NEW x \in Durable, x \in Out'
                 PROVE  Accepted(x)' \/ x \in view \cup ToSet(wire) \cup ToSet(frames')
      BY <1>1, <2>1, <2>2 DEF Covered
    <3>1. x \in Out => Accepted(x) \/ x \in view \cup ToSet(wire) \cup ToSet(frames)
      BY DEF Promises, Covered
    <3> QED
      BY <2>1, <2>3, <3>1
  <2> QED
    BY <2>4, <2>5, <2>6 DEF Promises
<1> QED
  BY <1>2, <1>3

\* A replay that says it is done sends what lies between the cursor and the subscription.
LEMMA ReplayIsComplete ==
  ASSUME StreamAssumption, StreamTypeOK, Placed, GivenUp, Opening,
         Replay, NEW from \in Oldest..(Len(stream) + 1), Newer(from), wire' \in Resolved(from), ~Exhausted(from),
         \A y : Accepted(y) => Accepted(y)',
         excuse' = excuse \cup Because(Before({"appending", "poisoned"}), "late"),
         NEW x \in Durable, x > since, x \in Out
  PROVE  Accepted(x)' \/ x \in ToSet(wire') \cup ToSet(frames)
<1> SUFFICES ASSUME ~Accepted(x)', x \notin ToSet(wire') \cup ToSet(frames) PROVE FALSE
  OBVIOUS
<1>1. stream \in Seq(Durable) /\ Len(stream) \in Nat /\ DOMAIN stream = 1..Len(stream)
  BY Elements DEF StreamTypeOK
<1>2. Durable \subseteq Nat
  BY DEF StreamAssumption, Durable
<1>3. since \in Nat /\ x \in Nat /\ \A i \in 1..Len(stream) : stream[i] \in Nat
  <2>1. since \in Durable \cup {0}
    BY DEF StreamTypeOK
  <2>2. \A i \in 1..Len(stream) : stream[i] \in Durable
    BY <1>1, ElementOfSeq
  <2>3. since \in Nat
    BY <1>2, <2>1
  <2>4. x \in Nat
    BY <1>2
  <2>5. \A i \in 1..Len(stream) : stream[i] \in Nat
    BY <1>2, <2>2
  <2> QED
    BY <2>3, <2>4, <2>5
<1>4. Oldest \in 1..(Len(stream) + 1) /\ from \in 1..(Len(stream) + 1) /\ from \in Nat /\ from - 1 \in Nat
  <2>1. Oldest \in 1..(Len(stream) + 1)
    BY ResolvedType
  <2> QED
    BY <1>1, <2>1
<1>5. from - 1 \in 1..Len(stream) /\ stream[from - 1] <= since
  <2>1. from # Oldest
    BY DEF Exhausted
  <2>2. from - 1 \in 1..Len(stream)
    BY <1>1, <1>4, <2>1
  <2> QED
    BY <2>1, <2>2 DEF Newer
<1>6. x \notin overlap /\ x \in Events /\ stage[x] \in {"appended", "dropped"}
  <2>1. ~Accepted(x)
    OBVIOUS
  <2>2. stage[x] \notin {"appending", "poisoned"}
    <3> SUFFICES ASSUME stage[x] \in {"appending", "poisoned"} PROVE FALSE
      OBVIOUS
    <3>1. <<x, "late">> \in excuse'
      BY DEF Before, Because
    <3> QED
      BY <3>1 DEF Accepted
  <2> QED
    BY <2>1, <2>2 DEF StreamTypeOK, Ended, Out, GivenUp, Accepted
<1>7. x \in ToSet(stream)
  <2>1. ~(stream[from - 1] > x)
    BY <1>3, <1>5
  <2> QED
    BY <1>1, <1>5, <1>6, <2>1 DEF Placed
<1>8. PICK k \in 1..Len(stream) : stream[k] = x
  BY <1>1, <1>7, Elements
<1>9. k # from - 1
  BY <1>3, <1>5, <1>8
<1>10. ~(k < from - 1)
  <2> SUFFICES ASSUME k < from - 1 PROVE FALSE
    OBVIOUS
  <2>1. stream[k] >= x
    BY <1>3, <1>8
  <2>2. stage[x] # "new"
    BY <1>6
  <2>3. stream[from - 1] >= x
    BY <1>1, <1>5, <1>6, <2>1, <2>2 DEF Placed
  <2>4. stream[from - 1] \in Nat
    BY <1>3, <1>5
  <2> QED
    BY <1>3, <1>5, <2>3, <2>4
<1>11. k \in from..Len(stream)
  BY <1>1, <1>4, <1>8, <1>9, <1>10
<1>12. stream[k] \in payload
  BY <1>11 DEF Exhausted, Gap
<1> QED
  BY <1>8, <1>11, <1>12, ResolvedType

-----------------------------------------------------------------------------
(* EventStream: what the tab is promised, by the socket and by the tab *)

\* The steps of the socket keep what the tab is promised.
LEMMA SocketPromises ==
  ASSUME StreamAssumption, StreamTypeOK, Placed, GivenUp, Opening, Promises, Lapse \/ Socket,
         \A y : Accepted(y) => Accepted(y)'
  PROVE  Promises'
<1>1. UNCHANGED <<stage, cursor, seen, view>> /\ Out' = Out
  BY DEF Lapse, Socket, Accept, Subscribe, Replay, ReplayFails, NoReplay, Disconnect, tab, Out
<1>2. ToSet(<<>>) = {}
  BY DEF ToSet
<1>3. CASE Lapse
  <2>1. UNCHANGED <<sock, since, wire, verdict, frames, fetching, overlap, excuse>>
    BY <1>3 DEF Lapse, session, tab
  <2>2. ToSet(wire') = ToSet(wire) /\ ToSet(frames') = ToSet(frames)
    BY <2>1
  <2>3. DoneIsComplete'
    BY <1>1, <2>1, <2>2 DEF Promises, DoneIsComplete
  <2>4. CursorIsHonest'
    BY <1>1, <2>1, <2>2 DEF Promises, CursorIsHonest
  <2>5. Covered'
    BY <1>1, <2>1, <2>2 DEF Promises, Covered
  <2> QED
    BY <2>3, <2>4, <2>5 DEF Promises
<1>4. CASE Accept
  <2>1. sock' = "open" /\ verdict' = "none" /\ (fetching' \/ cursor' = 0)
    <3>1. sock' = "open" /\ verdict' = verdict /\ sock = "down" /\ (conns > 0 => fetching')
      BY <1>4 DEF Accept
    <3>2. verdict = "none" /\ (conns = 0 => cursor = 0)
      BY <3>1 DEF Opening
    <3>3. conns = 0 \/ conns > 0
      BY DEF StreamTypeOK, StreamAssumption
    <3> QED
      BY <1>1, <3>1, <3>2, <3>3
  <2>2. \A e \in Durable : ~(e <= 0)
    BY DEF StreamAssumption, Durable
  <2>3. DoneIsComplete' /\ Covered'
    BY <2>1 DEF DoneIsComplete, Covered
  <2>4. CursorIsHonest'
    <3>1. CASE fetching'
      BY <3>1 DEF CursorIsHonest
    <3>2. CASE cursor' = 0
      BY <2>2, <3>2 DEF CursorIsHonest
    <3> QED
      BY <2>1, <3>1, <3>2
  <2> QED
    BY <2>3, <2>4 DEF Promises
<1>5. CASE Subscribe
  <2>1. sock = "open" /\ sock' = "listening" /\ verdict = "none" /\ UNCHANGED <<verdict, wire, frames, fetching>>
    BY <1>5 DEF Subscribe, Opening, tab
  <2>2. ToSet(wire') = ToSet(wire) /\ ToSet(frames') = ToSet(frames)
    BY <2>1
  <2>3. CursorIsHonest'
    BY <1>1, <2>1, <2>2 DEF Promises, CursorIsHonest
  <2> QED
    BY <2>1, <2>3 DEF Promises, DoneIsComplete, Covered
<1>6. CASE NoReplay
  <2>1. sock = "listening" /\ sock' = "live" /\ verdict = "none" /\ UNCHANGED <<verdict, wire, frames, fetching>>
    BY <1>6 DEF NoReplay, Opening, tab
  <2>2. ToSet(wire') = ToSet(wire) /\ ToSet(frames') = ToSet(frames)
    BY <2>1
  <2>3. CursorIsHonest'
    BY <1>1, <2>1, <2>2 DEF Promises, CursorIsHonest
  <2>4. ASSUME NEW e \in Durable, e \in Out, e \notin ToSet(frames) PROVE Accepted(e)'
    <3>1. stage[e] \in {"appending", "poisoned"} \cup Ended
      BY <2>4 DEF StreamTypeOK, Out
    <3>2. <<e, "cursorless">> \in excuse'
      BY <1>6, <2>4, <3>1 DEF NoReplay, Before, Because
    <3> QED
      BY <3>2 DEF Accepted
  <2> QED
    BY <1>1, <2>1, <2>2, <2>3, <2>4 DEF Promises, DoneIsComplete, Covered
<1>7. CASE ReplayFails
  BY <1>7 DEF ReplayFails, Promises, DoneIsComplete, CursorIsHonest, Covered
<1>8. CASE Disconnect
  BY <1>8 DEF Disconnect, SocketGone, Promises, DoneIsComplete, CursorIsHonest, Covered
<1>9. CASE Replay
  <2>1. /\ sock = "listening" /\ sock' = "live" /\ verdict = "none" /\ wire = <<>> /\ cursor = since
        /\ UNCHANGED <<since, frames, fetching>>
    BY <1>9 DEF Replay, Opening, tab
  <2>2. PICK from \in Oldest..(Len(stream) + 1) :
          /\ Newer(from) /\ wire' \in Resolved(from) /\ verdict' = IF Exhausted(from) THEN "exhausted" ELSE "done"
          /\ excuse' = IF Exhausted(from) THEN excuse
                       ELSE excuse \cup Because(Before({"appending", "poisoned"}), "late")
    BY <1>9 DEF Replay
  <2>3. CASE Exhausted(from)
    <3>1. verdict' = "exhausted"
      BY <2>2, <2>3
    <3> QED
      BY <3>1 DEF Promises, DoneIsComplete, CursorIsHonest, Covered
  <2>4. CASE ~Exhausted(from)
    <3>1. excuse' = excuse \cup Because(Before({"appending", "poisoned"}), "late")
      BY <2>2, <2>4
    <3>2. ToSet(frames') = ToSet(frames) /\ ToSet(wire) = {}
      BY <1>2, <2>1
    <3>3. ASSUME NEW e \in Durable, e > since, e \in Out PROVE Accepted(e)' \/ e \in ToSet(wire') \cup ToSet(frames)
      BY <1>9, <2>2, <2>4, <3>1, <3>3, ReplayIsComplete
    <3>4. DoneIsComplete'
      <4> SUFFICES ASSUME NEW e \in Durable, e > since, e \in Out
                   PROVE  Accepted(e)' \/ e \in seen \cup ToSet(wire') \cup ToSet(frames)
        BY <1>1, <2>1, <3>2 DEF DoneIsComplete, Out, Durable
      <4> QED
        BY <3>3
    <3>5. ASSUME NEW e \in Durable, e <= since PROVE fetching \/ Accepted(e)' \/ e \in view \cup ToSet(frames)
      BY <2>1, <3>2, <3>5 DEF Promises, CursorIsHonest
    <3>6. CursorIsHonest'
      BY <1>1, <2>1, <3>2, <3>5 DEF CursorIsHonest
    <3>7. ASSUME NEW e \in Durable PROVE e > since \/ e <= since
      BY DEF StreamAssumption, StreamTypeOK, Durable
    <3>8. Covered'
      <4> SUFFICES ASSUME ~fetching, NEW e \in Durable, e \in Out
                   PROVE  Accepted(e)' \/ e \in view \cup ToSet(wire') \cup ToSet(frames)
        BY <1>1, <2>1, <3>2 DEF Covered
      <4> QED
        BY <3>3, <3>5, <3>7
    <3> QED
      BY <3>4, <3>6, <3>8 DEF Promises
  <2> QED
    BY <2>3, <2>4
<1> QED
  BY <1>3, <1>4, <1>5, <1>6, <1>7, <1>8, <1>9 DEF Socket

\* So does a handler, whether the frame is of the replay or live.
LEMMA HandlePromises ==
  ASSUME StreamAssumption, StreamTypeOK, InTurn, Shown, Promises, NEW h \in Events, h \in Out, Handle(h),
         sock = "live", UNCHANGED <<stage, overlap, sock, since, verdict>>,
         ToSet(wire) \cup ToSet(frames) \subseteq {h} \cup ToSet(wire') \cup ToSet(frames'),
         \A y : Accepted(y) => Accepted(y)'
  PROVE  Promises'
<1>1. /\ fetching' = fetching /\ view \subseteq view' /\ seen' \subseteq view' /\ seen \subseteq seen'
      /\ h \in seen' \/ Accepted(h)'
      /\ \/ cursor' = cursor
         \/ cursor' = h /\ h \in Durable /\ h > cursor /\ h \in seen'
  BY HandleKeeps DEF Shown
<1>2. Out' = Out
  BY DEF Out
<1>3. DoneIsComplete'
  <2> SUFFICES ASSUME verdict = "done", NEW e \in Durable, e > since, e \in Out
               PROVE  Accepted(e)' \/ e \in seen' \cup ToSet(wire') \cup ToSet(frames')
    BY <1>2 DEF DoneIsComplete, Out, Durable
  <2>1. Accepted(e) \/ e \in seen \cup ToSet(wire) \cup ToSet(frames)
    BY DEF Promises, DoneIsComplete, Out
  <2> QED
    BY <1>1, <2>1
<1>4. ASSUME verdict # "exhausted", ~fetching, NEW e \in Durable, e \in Out
      PROVE  Accepted(e)' \/ e \in view' \cup ToSet(wire') \cup ToSet(frames')
  <2>1. Accepted(e) \/ e \in view \cup ToSet(wire) \cup ToSet(frames)
    BY <1>4 DEF Promises, Covered
  <2> QED
    BY <1>1, <2>1
<1>5. Covered'
  BY <1>1, <1>2, <1>4 DEF Covered, Durable
<1>6. CursorIsHonest'
  <2> SUFFICES ASSUME verdict # "exhausted", NEW e \in Durable, e <= cursor', ~fetching
               PROVE  Accepted(e)' \/ e \in view' \cup ToSet(wire') \cup ToSet(frames')
    BY <1>1 DEF CursorIsHonest, Durable
  <2>1. CASE cursor' = cursor
    <3>1. Accepted(e) \/ e \in view \cup ToSet(wire) \cup ToSet(frames)
      BY <2>1 DEF Promises, CursorIsHonest
    <3> QED
      BY <1>1, <3>1
  <2>2. CASE cursor' = h /\ h \in Durable
    <3>1. e \in Out \/ e \in overlap
      BY <2>2, EarlierIsOut
    <3>2. e \in overlap => Accepted(e)'
      BY DEF Accepted
    <3> QED
      BY <1>4, <3>1, <3>2
  <2> QED
    BY <1>1, <2>1, <2>2
<1> QED
  BY <1>3, <1>5, <1>6 DEF Promises

\* And the verdict, and the reading of the views.
LEMMA TabPromises ==
  ASSUME StreamAssumption, StreamTypeOK, InTurn, Carried, Opening, Shown, Promises, Tab,
         \A y : Accepted(y) => Accepted(y)'
  PROVE  Promises'
<1>1. UNCHANGED <<stage, overlap, sock, since>> /\ Out' = Out
  BY OthersLeave DEF Tab, HandleReplayed, HandleVerdict, HandleLive, Refetch, session, Out
<1>2. Durable \subseteq Events /\ Events \subseteq Nat \ {0}
  BY DEF Durable, StreamAssumption
<1>3. CASE HandleReplayed
  <2>1. sock = "live" /\ wire \in Seq(Durable) /\ wire # <<>> /\ Handle(Head(wire)) /\ wire' = Tail(wire) /\ UNCHANGED <<frames, verdict>>
    BY <1>3 DEF HandleReplayed, StreamTypeOK
  <2>2. Head(wire) \in ToSet(wire) /\ Head(wire) \in Durable /\ ToSet(wire) = {Head(wire)} \cup ToSet(wire')
    BY <2>1, HeadTailSet
  <2>3. ToSet(frames') = ToSet(frames) /\ Head(wire) \in Out /\ Head(wire) \in Events
    BY <1>2, <2>1, <2>2 DEF Carried
  <2> QED
    BY <1>1, <2>1, <2>2, <2>3, HandlePromises
<1>4. CASE HandleLive
  <2>1. sock = "live" /\ frames \in Seq(Events) /\ frames # <<>> /\ Handle(Head(frames)) /\ frames' = Tail(frames) /\ UNCHANGED <<wire, verdict>>
    BY <1>4 DEF HandleLive, StreamTypeOK
  <2>2. Head(frames) \in ToSet(frames) /\ Head(frames) \in Events /\ ToSet(frames) = {Head(frames)} \cup ToSet(frames')
    BY <2>1, HeadTailSet
  <2>3. ToSet(wire') = ToSet(wire) /\ Head(frames) \in Out
    BY <2>1, <2>2 DEF Carried
  <2> QED
    BY <1>1, <2>1, <2>2, <2>3, HandlePromises
<1>5. CASE HandleVerdict
  <2>1. sock = "live" /\ verdict # "none" /\ verdict' = "none" /\ UNCHANGED <<wire, frames, view>>
    BY <1>5 DEF HandleVerdict
  <2>2. ToSet(wire') = ToSet(wire) /\ ToSet(frames') = ToSet(frames)
    BY <2>1
  <2>3. CASE verdict = "exhausted"
    <3>1. fetching'
      BY <1>5, <2>3 DEF HandleVerdict
    <3> QED
      BY <2>1, <3>1 DEF Promises, DoneIsComplete, CursorIsHonest, Covered
  <2>4. CASE verdict # "exhausted"
    <3>1. UNCHANGED <<cursor, fetching>>
      BY <1>5, <2>4 DEF HandleVerdict
    <3>2. CursorIsHonest'
      BY <1>1, <2>1, <2>2, <2>4, <3>1 DEF Promises, CursorIsHonest, Durable
    <3>3. Covered'
      BY <1>1, <2>1, <2>2, <2>4, <3>1 DEF Promises, Covered, Durable
    <3> QED
      BY <2>1, <3>2, <3>3 DEF Promises, DoneIsComplete
  <2> QED
    BY <2>3, <2>4
<1>6. CASE Refetch
  <2>1. view' = view \cup Stored /\ UNCHANGED <<wire, frames, verdict, cursor, seen>> /\ Out \subseteq Stored
    BY <1>6 DEF Refetch, session, Out, Stored
  <2>2. ToSet(wire') = ToSet(wire) /\ ToSet(frames') = ToSet(frames)
    BY <2>1
  <2>3. DoneIsComplete'
    BY <1>1, <2>1, <2>2 DEF Promises, DoneIsComplete, Durable
  <2>4. ASSUME NEW e \in Durable, e <= cursor PROVE e \in Stored
    <3>1. cursor # 0 /\ cursor \in Events /\ stage[cursor] # "new"
      BY <1>2, <2>4 DEF StreamTypeOK, Shown
    <3>2. e = cursor \/ e < cursor
      BY <1>2, <2>4, <3>1
    <3> QED
      BY <1>2, <3>1, <3>2 DEF InTurn, Stored
  <2>5. CursorIsHonest'
    BY <2>1, <2>4 DEF CursorIsHonest, Durable
  <2>6. Covered'
    BY <1>1, <2>1 DEF Covered, Durable
  <2> QED
    BY <2>3, <2>5, <2>6 DEF Promises
<1> QED
  BY <1>3, <1>4, <1>5, <1>6 DEF Tab

-----------------------------------------------------------------------------
(* EventStream: the invariant and what follows from it *)

\* The invariant holds throughout.
LEMMA StreamInvAlways ==
  ASSUME StreamAssumption
  PROVE  StreamSpec => []StreamInv
<1>1. StreamInit => StreamInv
  <2> SUFFICES ASSUME StreamInit PROVE StreamInv
    OBVIOUS
  <2>1. ToSet(<<>>) = {}
    BY DEF ToSet
  <2>2. \A e \in Events : stage[e] = "new"
    BY DEF StreamInit
  <2>3. \A e \in Events : tries[e] = 0
    BY DEF StreamInit
  <2>4. stage \in [Events -> {"new", "stamped", "appending", "poisoned"} \cup Ended] /\ tries \in [Events -> 0..(Retries + 1)]
    BY DEF StreamInit, StreamAssumption
  <2>5. StreamTypeOK
    <3>1. stream \in Seq(Durable) /\ wire \in Seq(Durable) /\ frames \in Seq(Events) /\ Len(frames) = 0
      BY EmptySeq DEF StreamInit
    <3>2. \A e \in Ephemeral : stage[e] = "new"
      BY <2>2 DEF StreamAssumption
    <3>3. payload = {} /\ seen = {} /\ view = {} /\ since = 0 /\ cursor = 0 /\ conns = 0 /\ failures = 0
          /\ sock = "down" /\ verdict = "none" /\ fetching = TRUE
      BY DEF StreamInit
    <3> QED
      BY <2>3, <2>4, <3>1, <3>2, <3>3 DEF StreamTypeOK, StreamAssumption
  <2>6. InTurn
    BY <2>2 DEF InTurn, Durable, UnderWay
  <2>7. GivenUp /\ Carried /\ Placed
    BY <2>1, <2>2 DEF StreamInit, StreamAssumption, GivenUp, Carried, Placed, Durable, Out
  <2>8. Opening /\ Shown
    BY DEF StreamInit, Opening, Shown
  <2>9. DoneIsComplete /\ CursorIsHonest /\ Covered
    BY DEF StreamInit, DoneIsComplete, CursorIsHonest, Covered
  <2> QED
    BY <2>5, <2>6, <2>7, <2>8, <2>9 DEF StreamInv
<1>2. StreamInv /\ [StreamNext]_streamVars => StreamInv'
  <2> SUFFICES ASSUME StreamInv, [StreamNext]_streamVars PROVE StreamInv'
    OBVIOUS
  <2> USE DEF StreamInv, Promises
  <2>1. CASE UNCHANGED streamVars
    <3>1. UNCHANGED <<stage, tries, stream, payload, sock, since, wire, verdict, frames>>
      BY <2>1 DEF streamVars, store, session
    <3>2. UNCHANGED <<cursor, seen, view, fetching, overlap, excuse, conns, failures>>
      BY <2>1 DEF streamVars, tab, limits
    <3>3. Out' = Out /\ UnderWay' = UnderWay /\ Stored' = Stored /\ (\A e : Accepted(e)' <=> Accepted(e))
          /\ ToSet(stream)' = ToSet(stream) /\ ToSet(wire)' = ToSet(wire) /\ ToSet(frames)' = ToSet(frames)
      BY <3>1, <3>2 DEF Out, UnderWay, Stored, Accepted
    <3>4. StreamTypeOK'
      BY <3>1, <3>2, <3>3 DEF StreamTypeOK
    <3>5. InTurn' /\ GivenUp' /\ Carried'
      BY <3>1, <3>2, <3>3 DEF InTurn, GivenUp, Carried
    <3>6. Placed'
      BY <3>1, <3>2, <3>3 DEF Placed
    <3>7. Opening' /\ Shown'
      BY <3>1, <3>2 DEF Opening, Shown
    <3>8. DoneIsComplete' /\ CursorIsHonest' /\ Covered'
      BY <3>1, <3>2, <3>3 DEF DoneIsComplete, CursorIsHonest, Covered
    <3> QED
      BY <3>4, <3>5, <3>6, <3>7, <3>8
  <2>2. CASE StreamNext
    <3>1. InTurn' /\ GivenUp' /\ (\A e : Accepted(e) => Accepted(e)')
      BY <2>2, OrderKept
    <3>2. Opening' /\ Shown' /\ Placed'
      BY <2>2, <3>1, OpeningKept, ShownKept, PlacedKept
    <3>3. CASE \E e \in Events : Publish(e)
      <4>1. PICK e \in Events : Publish(e)
        BY <3>3
      <4>2. StreamTypeOK' /\ Carried'
        BY <4>1, PublishTypes
      <4>3. Promises'
        BY <3>1, <4>1, PublishPromises
      <4> QED
        BY <3>1, <3>2, <4>2, <4>3
    <3>4. CASE Lapse \/ Socket
      <4>1. StreamTypeOK' /\ Carried'
        BY <3>4, SocketTypes
      <4>2. Promises'
        BY <3>1, <3>4, SocketPromises
      <4> QED
        BY <3>1, <3>2, <4>1, <4>2
    <3>5. CASE Tab
      <4>1. StreamTypeOK' /\ Carried'
        BY <3>5, TabTypes
      <4>2. Promises'
        BY <3>1, <3>5, TabPromises
      <4> QED
        BY <3>1, <3>2, <4>1, <4>2
    <3> QED
      BY <2>2, <3>3, <3>4, <3>5 DEF StreamNext
  <2> QED
    BY <2>1, <2>2
<1> QED
  BY <1>1, <1>2, PTL DEF StreamSpec

\* Publisher, stream, socket and tab keep their types: an append is tried no more often than the code
\* allows, and no socket is sent more than its buffer takes.
THEOREM StreamTypeCorrect ==
  ASSUME StreamAssumption
  PROVE  StreamSpec => []StreamTypeOK
<1>1. StreamInv => StreamTypeOK
  BY DEF StreamInv
<1> QED
  BY <1>1, StreamInvAlways, PTL

\* A replay that ends with replay.done has sent everything beyond the cursor that was out, but for
\* events with an excuse: late or overlapping another, their publisher died, nobody to append them
\* to could be read, or the stream could not be dropped (runReplay, Replay, appendToInboxes).
THEOREM NoSilentGap ==
  ASSUME StreamAssumption
  PROVE  StreamSpec => []DoneIsComplete
<1>1. StreamInv => DoneIsComplete
  BY DEF StreamInv
<1> QED
  BY <1>1, StreamInvAlways, PTL

\* The cursor of a connected tab covers no event that the tab neither has nor is about to get,
\* but for events with such an excuse (onmessage, the reading of the views on a reconnect).
THEOREM CursorCoversNoLoss ==
  ASSUME StreamAssumption
  PROVE  StreamSpec => []CursorIsHonest
<1>1. StreamInv => CursorIsHonest
  BY DEF StreamInv
<1> QED
  BY <1>1, StreamInvAlways, PTL

\* When everything has come to rest, a connected tab shows every durable event that has no such
\* excuse (Publish, append, ServeWS and the tab together), however many events and connections.
THEOREM TabShowsAll ==
  ASSUME StreamAssumption
  PROVE  StreamSpec => []NothingMissing
<1>1. StreamInv => NothingMissing
  <2> SUFFICES ASSUME StreamInv, AtRest, NEW e \in Durable, e \in Stored PROVE Accepted(e) \/ e \in view
    BY DEF NothingMissing
  <2>1. ToSet(wire) = {} /\ ToSet(frames) = {}
    BY DEF AtRest, ToSet
  <2>2. e \in Out
    BY DEF AtRest, UnderWay, Stored, Out
  <2>3. Accepted(e) \/ e \in view \cup ToSet(wire) \cup ToSet(frames)
    BY <2>2 DEF StreamInv, Covered, AtRest
  <2> QED
    BY <2>1, <2>3
<1> QED
  BY <1>1, StreamInvAlways, PTL
=============================================================================
