----------------------- MODULE ScheduledMessagesProofs -----------------------
(***************************************************************************)
(* Machine-checked facts about ScheduledMessages, for any number of calls, *)
(* instances, edits and faults and any lease, as long as a delivery and a  *)
(* poller's round end within the lease.                                    *)
(***************************************************************************)
EXTENDS ScheduledMessages, TLAPS

-----------------------------------------------------------------------------
(* Types *)

\* The idle call and the missing message are of their types.
LEMMA IdleType == Idle \in CallStates /\ NoMessage \in Messages /\ NotQueued \in Keys
  BY ConstantsAssumption DEF ConstantsAssumption, Idle, NoMessage, NotQueued, CallStates, Messages, Keys, NoText

\* Places in the queue are keys.
LEMMA KeyType ==
  ASSUME NEW t \in Nat
  PROVE  DueKey(t) \in Keys /\ LeaseKey(t) \in Keys
  BY DEF DueKey, LeaseKey, Keys

\* Writing the row keeps its type.
LEMMA PutType ==
  ASSUME NEW m \in Messages, PutScheduledMessage(m)
  PROVE  msg' \in Messages /\ due' \in Keys
<1>1. m.at \in Nat
  BY DEF Messages
<1> QED
  BY <1>1, KeyType, IdleType DEF PutScheduledMessage

\* So does removing it.
LEMMA DeleteType ==
  ASSUME DeleteScheduledMessage
  PROVE  msg' \in Messages /\ due' \in Keys
  BY IdleType DEF DeleteScheduledMessage

\* A fault is counted by a natural number.
LEMMA FaultType ==
  ASSUME TypeOK, NEW ok \in BOOLEAN, FaultUnless(ok)
  PROVE  faults' \in Nat /\ faults' = IF ok THEN faults ELSE faults + 1
  BY DEF TypeOK, FaultUnless

\* A call that returns is idle.
LEMMA ReturnType ==
  ASSUME TypeOK, NEW c \in Calls, Return(c)
  PROVE  /\ call' \in [Calls -> CallStates] /\ call'[c] = Idle
         /\ \A d \in Calls \ {c}: call'[d] = call[d]
  BY IdleType DEF TypeOK, Return

\* A call that goes on keeps all but its place.
LEMMA GotoType ==
  ASSUME TypeOK, NEW c \in Calls, NEW pc \in {"clear", "fail"}, Goto(c, pc)
  PROVE  /\ call' \in [Calls -> CallStates]
         /\ call'[c].pc = pc /\ call'[c].op = call[c].op /\ call'[c].until = call[c].until
         /\ \A d \in Calls \ {c}: call'[d] = call[d]
<1>1. call[c] \in CallStates
  BY DEF TypeOK
<1>2. [call[c] EXCEPT !.pc = pc] \in CallStates
  BY <1>1 DEF CallStates
<1>3. call' = [call EXCEPT ![c] = [call[c] EXCEPT !.pc = pc]]
  BY DEF Goto
<1> QED
  BY <1>1, <1>2, <1>3 DEF TypeOK, CallStates

\* What an author's call works on has the type of a message, and so has its key.
LEMMA BeginType ==
  ASSUME TypeOK, NEW c \in Calls, NEW op \in {"update", "delete", "sendNow"},
         NEW copy \in Messages, Begin(c, op, copy)
  PROVE  /\ call' \in [Calls -> CallStates]
         /\ call'[c].pc = "claim" /\ call'[c].op = op /\ ~call'[c].key.lease
         /\ \A d \in Calls \ {c}: call'[d] = call[d]
<1>1. HoldKey(msg) \in Keys /\ ~HoldKey(msg).lease
  BY IdleType, KeyType DEF HoldKey, TypeOK, Messages, DueKey, NotQueued
<1> DEFINE b == [Idle EXCEPT !.op = op, !.pc = "claim", !.copy = copy, !.key = HoldKey(msg)]
<1>2. b \in CallStates /\ b.pc = "claim" /\ b.op = op /\ b.key = HoldKey(msg)
  BY <1>1, IdleType DEF CallStates, Idle
<1> QED
  BY <1>1, <1>2 DEF Begin, TypeOK

\* An author's call starts.
LEMMA AskType ==
  ASSUME TypeOK, NEW c \in Calls, Ask(c)
  PROVE  /\ TypeOK' /\ UNCHANGED <<now, msg, due, post, told, faults>>
         /\ call'[c].pc = "claim" /\ call'[c].op \notin {"poll", "idle"} /\ ~call'[c].key.lease
         /\ \A d \in Calls \ {c}: call'[d] = call[d]
<1>1. ASSUME NEW text \in {msg.text, edits + 1}, NEW at \in {NoTime} \cup (now + 1)..MaxNow, UpdateRead(c, text, at)
      PROVE  /\ TypeOK' /\ UNCHANGED <<now, msg, due, post, told, faults>>
             /\ call'[c].pc = "claim" /\ call'[c].op \notin {"poll", "idle"} /\ ~call'[c].key.lease
             /\ \A d \in Calls \ {c}: call'[d] = call[d]
  <2> DEFINE copy == [state |-> IF at = NoTime THEN msg.state ELSE "pending",
                      at    |-> IF at = NoTime THEN msg.at ELSE at,
                      text  |-> text]
  <2>1. edits' \in 0..MaxEdits /\ edits + 1 \in 0..MaxEdits
    BY <1>1, ConstantsAssumption DEF UpdateRead, TypeOK, ConstantsAssumption
  <2>2. copy \in Messages
    BY <2>1, ConstantsAssumption DEF TypeOK, Messages, ConstantsAssumption
  <2>3. Begin(c, "update", copy)
    BY <1>1 DEF UpdateRead
  <2> QED BY <1>1, <2>1, <2>2, <2>3, BeginType DEF UpdateRead, TypeOK, post, told
<1>2. ASSUME NEW op \in {"delete", "sendNow"}, ChangeRead(c, op)
      PROVE  /\ TypeOK' /\ UNCHANGED <<now, msg, due, post, told, faults>>
             /\ call'[c].pc = "claim" /\ call'[c].op \notin {"poll", "idle"} /\ ~call'[c].key.lease
             /\ \A d \in Calls \ {c}: call'[d] = call[d]
  BY <1>2, BeginType DEF ChangeRead, TypeOK, post, told
<1> QED
  BY <1>1, <1>2 DEF Ask

\* A call claims, changes the row or delivers.
LEMMA ContinueType ==
  ASSUME TypeOK, NEW c \in Calls, Continue(c)
  PROVE  TypeOK'
<1>0. call[c] \in CallStates /\ call[c].copy \in Messages /\ call[c].copy.text \in 0..NoText
  BY ConstantsAssumption DEF TypeOK, CallStates, Messages, NoText, ConstantsAssumption
<1>1. ASSUME NEW ok \in BOOLEAN, Claim(c, ok) PROVE TypeOK'
  <2> DEFINE until == IF call[c].op = "poll" THEN call[c].until ELSE now + Lease
  <2>1. until \in Nat
    BY <1>0, ConstantsAssumption DEF TypeOK, CallStates, ConstantsAssumption
  <2>2. CASE ok /\ Claimable(call[c].key)
    <3>1. [call[c] EXCEPT !.pc = Work(call[c].op), !.until = until] \in CallStates
      BY <1>0, <2>1 DEF CallStates, Work
    <3>2. call' = [call EXCEPT ![c] = [call[c] EXCEPT !.pc = Work(call[c].op), !.until = until]]
      BY <1>1, <2>2 DEF Claim
    <3>3. call' \in [Calls -> CallStates]
      BY <3>1, <3>2 DEF TypeOK
    <3> QED BY <1>1, <2>1, <2>2, <3>3, KeyType, FaultType DEF Claim, Leased, TypeOK, post
  <2>3. CASE ~(ok /\ Claimable(call[c].key))
    BY <1>1, <2>3, ReturnType, FaultType DEF Claim, TypeOK, post
  <2> QED BY <2>2, <2>3
<1>2. ASSUME NEW ok \in BOOLEAN, UpdateWrite(c, ok) PROVE TypeOK'
  <2>1. msg' \in Messages /\ due' \in Keys /\ saved' \in 0..NoText /\ rushed' \in BOOLEAN
    BY <1>0, <1>2, PutType DEF UpdateWrite, TypeOK
  <2> QED BY <1>2, <2>1, ReturnType, FaultType DEF UpdateWrite, TypeOK, post
<1>3. ASSUME NEW ok \in BOOLEAN, DeleteRemove(c, ok) PROVE TypeOK'
  <2>1. msg' \in Messages /\ due' \in Keys /\ deleted' \in BOOLEAN /\ rushed' \in BOOLEAN
    BY <1>3, DeleteType DEF DeleteRemove, TypeOK
  <2> QED BY <1>3, <2>1, ReturnType, FaultType DEF DeleteRemove, TypeOK, post
<1>4. ASSUME NEW outcome \in {"sent", "lost", "refused", "failed"}, Deliver(c, outcome) PROVE TypeOK'
  <2>1. call' \in [Calls -> CallStates]
    BY <1>4, ReturnType, GotoType DEF Deliver
  <2>2. posts' \in Nat /\ sent' \in 0..NoText
    BY <1>0, <1>4 DEF Deliver, TypeOK, post
  <2>3. faults' \in Nat
    BY <1>4 DEF Deliver, FaultUnless, TypeOK
  <2> QED BY <1>4, <2>1, <2>2, <2>3 DEF Deliver, TypeOK, told
<1>5. ASSUME NEW ok \in BOOLEAN, DeliverClear(c, ok) PROVE TypeOK'
  BY <1>5, DeleteType, ReturnType, FaultType DEF DeliverClear, TypeOK, post, told
<1>6. ASSUME NEW ok \in BOOLEAN, DeliverFail(c, ok) PROVE TypeOK'
  <2>1. [call[c].copy EXCEPT !.state = "failed"] \in Messages
    BY <1>0 DEF Messages
  <2>2. msg' \in Messages /\ due' \in Keys /\ rushed' \in BOOLEAN
    BY <1>6, <2>1, PutType DEF DeliverFail, TypeOK
  <2> QED BY <1>6, <2>2, ReturnType, FaultType DEF DeliverFail, TypeOK, post
<1> QED
  BY <1>1, <1>2, <1>3, <1>4, <1>5, <1>6 DEF Continue

\* Every step keeps the types.
LEMMA StepType ==
  ASSUME TypeOK, [Next]_vars
  PROVE  TypeOK'
<1>1. CASE Tick
  BY <1>1 DEF Tick, TypeOK, post, told
<1>2. ASSUME NEW at \in (now + 1)..MaxNow, Schedule(at) PROVE TypeOK'
  <2>1. [state |-> "pending", at |-> at, text |-> 0] \in Messages /\ 0 \in 0..NoText
    BY ConstantsAssumption DEF ConstantsAssumption, Messages, NoText, TypeOK
  <2> QED BY <1>2, <2>1, PutType DEF Schedule, TypeOK, post
<1>3. ASSUME NEW c \in Authors, Ask(c) PROVE TypeOK'
  BY <1>3, AskType DEF Calls
<1>4. ASSUME NEW c \in Pollers, PollRead(c) PROVE TypeOK'
  <2>1. [op |-> "poll", pc |-> "claim", copy |-> msg, key |-> due, until |-> now + Lease] \in CallStates
    BY ConstantsAssumption DEF ConstantsAssumption, CallStates, TypeOK
  <2> QED BY <1>4, <2>1 DEF PollRead, TypeOK, Calls, post, told
<1>5. ASSUME NEW c \in Calls, Crash(c) PROVE TypeOK'
  BY <1>5, ReturnType, FaultType DEF Crash, TypeOK, post
<1>6. CASE UNCHANGED vars
  BY <1>6 DEF vars, TypeOK, post, told
<1> QED
  BY <1>1, <1>2, <1>3, <1>4, <1>5, <1>6, ContinueType DEF Next

\* The initial state has its types.
LEMMA InitType == Init => TypeOK
<1> SUFFICES ASSUME Init PROVE TypeOK
  OBVIOUS
<1>1. rushed \in BOOLEAN /\ deleted \in BOOLEAN
  BY Zenon DEF Init
<1>2. 0 \in 0..MaxEdits /\ NoText \in 0..NoText
  BY ConstantsAssumption DEF NoText, ConstantsAssumption
<1>3. call \in [Calls -> CallStates]
  BY IdleType DEF Init
<1> QED
  BY <1>1, <1>2, <1>3, IdleType DEF Init, TypeOK

\* The row, its place in the queue and every call's copy keep their types, with long
\* rounds too: no edit or retry writes a row that is neither pending nor failed.
THEOREM TypeCorrect == Spec => []TypeOK
<1>1. TypeOK /\ [Next]_vars => TypeOK'
  BY StepType
<1> QED
  BY <1>1, InitType, PTL DEF Spec

-----------------------------------------------------------------------------
(* Who holds the message *)

\* A message was scheduled before it is anything else, and deleted only once.
GoneInv ==
  /\ saved = NoText => ~Exists /\ ~deleted /\ posts = 0
  /\ deleted => ~Exists

\* A post is paid for by a fault, or by the removal it leads to.
Paid == ~Exists \/ \E c \in Calls: call[c].pc = "clear"
PostInv == posts <= faults + 1 /\ (~Paid => posts <= faults)

Inv == TypeOK /\ HandInv /\ OneHand /\ GoneInv /\ PostInv

\* A step that moves only a call that holds nothing keeps who holds what.
LEMMA QuietStep ==
  ASSUME Inv, NEW c \in Calls, UNCHANGED <<now, msg, due, posts, saved, deleted, faults>>,
         \A d \in Calls \ {c}: call'[d] = call[d], ~Holds(call[c]), ~Holds(call'[c]),
         call'[c].pc = "claim" => ~call'[c].key.lease \/ call'[c].key.at <= now,
         call'[c].op = "poll" => now < call'[c].until
  PROVE  HandInv' /\ OneHand' /\ GoneInv' /\ PostInv'
<1>1. HandInv'
  BY DEF Inv, HandInv, Holds, Exists
<1>2. OneHand'
  BY DEF Inv, OneHand, Holds
<1>3. GoneInv'
  BY DEF Inv, GoneInv, Exists
<1>4. Paid' <=> Paid
  BY DEF Paid, Exists, Holds
<1> QED
  BY <1>1, <1>2, <1>3, <1>4 DEF Inv, PostInv

\* After a step by which a call lets go of the message nobody holds it.
LEMMA LetGo ==
  ASSUME Inv, NEW c \in Calls, Holds(call[c]), Return(c), UNCHANGED now
  PROVE  HandInv' /\ OneHand' /\ (\A d \in Calls: call'[d].pc # "clear")
<1>1. call'[c] = Idle /\ \A d \in Calls \ {c}: call'[d] = call[d] /\ ~Holds(call[d])
  BY ReturnType DEF Inv, OneHand
<1>2. \A d \in Calls: ~Holds(call'[d])
  BY <1>1 DEF Holds, Idle
<1>3. ASSUME NEW d \in Calls
      PROVE  /\ call'[d].pc = "claim" => ~call'[d].key.lease \/ call'[d].key.at <= now'
             /\ call'[d].op = "poll" => now' < call'[d].until
  BY <1>1 DEF Inv, HandInv, Idle
<1> QED
  BY <1>2, <1>3 DEF HandInv, OneHand, Holds

\* A message that is still where a call read it is held by nobody: a lease that is held
\* lies ahead, one that was read as due does not.
LEMMA ClaimFree ==
  ASSUME Inv, NEW c \in Calls, call[c].pc = "claim", Claimable(call[c].key)
  PROVE  \A d \in Calls: ~Holds(call[d])
<1>1. SUFFICES ASSUME NEW d \in Calls, Holds(call[d]) PROVE FALSE
  OBVIOUS
<1>2. due.lease /\ due.at = call[d].until /\ now < call[d].until /\ due = call[c].key
  <2>1. due = LeaseKey(call[d].until) /\ now < call[d].until
    BY <1>1 DEF Inv, HandInv
  <2>2. due.lease /\ due.at = call[d].until
    BY <2>1 DEF LeaseKey
  <2>3. due = call[c].key
    BY DEF Claimable
  <2> QED BY <2>1, <2>2, <2>3
<1>3. ~call[c].key.lease \/ call[c].key.at <= now
  BY DEF Inv, HandInv
<1>4. call[c].key.at \in Nat /\ call[d].until \in Nat /\ now \in Nat
  BY DEF Inv, TypeOK, CallStates, Keys
<1> QED
  BY <1>2, <1>3, <1>4

\* Of the calls that read the message where it is, one claims it, and the lease it takes
\* is one that nobody has read.
LEMMA ClaimStep ==
  ASSUME Inv, NEW c \in Calls, NEW ok \in BOOLEAN, Claim(c, ok)
  PROVE  HandInv' /\ OneHand' /\ GoneInv' /\ PostInv'
<1> DEFINE until == IF call[c].op = "poll" THEN call[c].until ELSE now + Lease
<1>0. TypeOK /\ call[c] \in CallStates /\ call[c].pc = "claim" /\ ~Holds(call[c])
  BY DEF Inv, TypeOK, Claim, Holds
<1>1. CASE ok /\ Claimable(call[c].key)
  <2>1. Exists /\ due = call[c].key /\ due' = LeaseKey(until) /\ UNCHANGED <<now, msg, posts, saved, deleted, faults>>
    BY <1>1 DEF Claim, Claimable, Leased, FaultUnless, post
  <2>2. until \in Nat /\ now < until
    BY <1>0, ConstantsAssumption DEF Inv, TypeOK, HandInv, CallStates, ConstantsAssumption
  <2>3. ASSUME NEW d \in Calls \ {c} PROVE ~Holds(call[d])
    BY <1>1, ClaimFree DEF Claim
  <2>4. call' = [call EXCEPT ![c] = [call[c] EXCEPT !.pc = Work(call[c].op), !.until = until]]
    BY <1>1 DEF Claim
  <2>5. /\ call'[c].until = until /\ call'[c].op = call[c].op
        /\ call'[c].pc \in {"write", "remove", "send"}
        /\ \A d \in Calls \ {c}: call'[d] = call[d]
    BY <1>0, <2>4 DEF TypeOK, CallStates, Work
  <2>6. HandInv'
    BY <2>1, <2>2, <2>3, <2>5 DEF Inv, HandInv, Holds, Exists
  <2>7. OneHand'
    BY <2>3, <2>5 DEF OneHand, Holds
  <2>8. GoneInv' /\ (Paid' <=> Paid)
    BY <1>0, <2>1, <2>5 DEF Inv, GoneInv, Paid, Exists
  <2> QED BY <2>1, <2>6, <2>7, <2>8 DEF Inv, PostInv
<1>2. CASE ~(ok /\ Claimable(call[c].key))
  <2>1. Return(c) /\ UNCHANGED <<now, msg, due, posts, saved, deleted>>
    BY <1>2 DEF Claim, post
  <2>2. call'[c] = Idle /\ \A d \in Calls \ {c}: call'[d] = call[d]
    BY <1>0, <2>1, ReturnType
  <2>3. faults' = faults \/ faults' = faults + 1
    BY <1>0, FaultType DEF Claim
  <2>4. HandInv' /\ OneHand' /\ GoneInv'
    BY <1>0, <2>1, <2>2 DEF Inv, HandInv, OneHand, GoneInv, Holds, Exists, Idle
  <2>5. Paid' <=> Paid
    BY <1>0, <2>1, <2>2 DEF Paid, Exists, Idle
  <2>6. PostInv'
    <3>1. posts \in Nat /\ faults \in Nat /\ posts <= faults + 1 /\ (~Paid' => posts <= faults) /\ posts' = posts
      BY <1>0, <2>1, <2>5 DEF Inv, PostInv, TypeOK
    <3> QED BY <2>3, <3>1 DEF PostInv
  <2> QED BY <2>4, <2>6
<1> QED
  BY <1>1, <1>2

\* The holder changes the row, posts, or clears up, and every failure on the way is paid for.
LEMMA HeldStep ==
  ASSUME Inv, NEW c \in Calls, Holds(call[c]), Continue(c)
  PROVE  HandInv' /\ OneHand' /\ GoneInv' /\ PostInv'
<1>0. /\ TypeOK /\ Exists /\ saved # NoText /\ ~deleted
      /\ posts \in Nat /\ faults \in Nat /\ posts <= faults + 1
      /\ ~Claim(c, TRUE) /\ ~Claim(c, FALSE)
  BY DEF Inv, HandInv, GoneInv, PostInv, TypeOK, Claim, Holds
<1>1. ASSUME NEW ok \in BOOLEAN, UpdateWrite(c, ok) PROVE GoneInv' /\ PostInv' /\ HandInv' /\ OneHand'
  <2>1. HandInv' /\ OneHand'
    BY <1>1, LetGo DEF UpdateWrite
  <2>2. call[c].copy.text # NoText
    BY <1>0, ConstantsAssumption DEF TypeOK, CallStates, Messages, NoText, ConstantsAssumption
  <2>3. GoneInv'
    BY <1>0, <1>1, <2>2 DEF UpdateWrite, GoneInv
  <2>4. ~Paid
    BY <1>0, <1>1 DEF Inv, OneHand, Holds, Paid, UpdateWrite
  <2>5. posts' = posts /\ posts <= faults /\ (faults' = faults \/ faults' = faults + 1)
    BY <1>0, <1>1, <2>4, FaultType DEF Inv, PostInv, UpdateWrite, post
  <2> QED BY <1>0, <2>1, <2>3, <2>5 DEF PostInv
<1>2. ASSUME NEW ok \in BOOLEAN, DeleteRemove(c, ok) PROVE GoneInv' /\ PostInv' /\ HandInv' /\ OneHand'
  <2>1. HandInv' /\ OneHand'
    BY <1>2, LetGo DEF DeleteRemove
  <2>2. GoneInv'
    BY <1>0, <1>2 DEF DeleteRemove, DeleteScheduledMessage, NoMessage, GoneInv, Exists
  <2>3. ~Paid
    BY <1>0, <1>2 DEF Inv, OneHand, Holds, Paid, DeleteRemove
  <2>4. posts' = posts /\ posts <= faults /\ (faults' = faults \/ faults' = faults + 1)
    BY <1>0, <1>2, <2>3, FaultType DEF Inv, PostInv, DeleteRemove, post
  <2> QED BY <1>0, <2>1, <2>2, <2>4 DEF PostInv
<1>3. ASSUME NEW outcome \in {"sent", "lost", "refused", "failed"}, Deliver(c, outcome)
      PROVE  GoneInv' /\ PostInv' /\ HandInv' /\ OneHand'
  <2>1. ~Paid /\ posts <= faults
    BY <1>0, <1>3 DEF Inv, OneHand, Holds, Paid, Deliver, PostInv
  <2>2. GoneInv'
    BY <1>0, <1>3 DEF Deliver, GoneInv, Exists, told
  <2>3. CASE Return(c)
    <3>1. outcome # "sent"
      BY <1>0, <1>3, <2>3, ReturnType DEF Deliver, Goto, Idle, TypeOK
    <3>2. \/ posts' = posts + 1 /\ faults' = faults + 1
          \/ posts' = posts /\ (faults' = faults \/ faults' = faults + 1)
      BY <1>3, <3>1 DEF Deliver, FaultUnless, post
    <3>3. HandInv' /\ OneHand'
      BY <1>3, <2>3, LetGo DEF Deliver
    <3> QED BY <1>0, <2>1, <2>2, <3>2, <3>3 DEF PostInv
  <2>4. ASSUME NEW pc \in {"clear", "fail"}, Goto(c, pc), pc = "clear" <=> outcome = "sent"
        PROVE  GoneInv' /\ PostInv' /\ HandInv' /\ OneHand'
    <3>1. /\ call'[c].pc = pc /\ call'[c].op = call[c].op /\ call'[c].until = call[c].until
          /\ \A d \in Calls \ {c}: call'[d] = call[d]
      BY <1>0, <2>4, GotoType
    <3>2. HandInv'
      BY <1>3, <2>4, <3>1 DEF Inv, HandInv, Holds, Exists, Deliver
    <3>3. OneHand'
      BY <2>4, <3>1 DEF Inv, OneHand, Holds
    <3>4. \/ outcome = "sent" /\ posts' = posts + 1 /\ faults' = faults
          \/ outcome = "lost" /\ posts' = posts + 1 /\ faults' = faults + 1
          \/ posts' = posts /\ (faults' = faults \/ faults' = faults + 1)
      BY <1>3 DEF Deliver, FaultUnless, post
    <3>5. outcome = "sent" => Paid'
      BY <2>4, <3>1 DEF Paid
    <3> QED BY <1>0, <2>1, <2>2, <3>2, <3>3, <3>4, <3>5 DEF PostInv
  <2> QED BY <1>3, <2>3, <2>4 DEF Deliver
<1>4. ASSUME NEW ok \in BOOLEAN, DeliverClear(c, ok) PROVE GoneInv' /\ PostInv' /\ HandInv' /\ OneHand'
  <2>1. HandInv' /\ OneHand'
    BY <1>4, LetGo DEF DeliverClear
  <2>2. GoneInv'
    BY <1>0, <1>4 DEF DeliverClear, DeleteScheduledMessage, NoMessage, GoneInv, Exists, told, post
  <2>3. posts' = posts /\ (ok => Paid') /\ (~ok => faults' = faults + 1) /\ (ok => faults' = faults)
    BY <1>0, <1>4, FaultType DEF DeliverClear, DeleteScheduledMessage, NoMessage, Paid, Exists, post
  <2> QED BY <1>0, <2>1, <2>2, <2>3 DEF PostInv
<1>5. ASSUME NEW ok \in BOOLEAN, DeliverFail(c, ok) PROVE GoneInv' /\ PostInv' /\ HandInv' /\ OneHand'
  <2>1. HandInv' /\ OneHand'
    BY <1>5, LetGo DEF DeliverFail
  <2>2. GoneInv'
    BY <1>0, <1>5 DEF DeliverFail, GoneInv
  <2>3. ~Paid
    BY <1>0, <1>5 DEF Inv, OneHand, Holds, Paid, DeliverFail
  <2>4. posts' = posts /\ posts <= faults /\ (faults' = faults \/ faults' = faults + 1)
    BY <1>0, <1>5, <2>3, FaultType DEF Inv, PostInv, DeliverFail, post
  <2> QED BY <1>0, <2>1, <2>2, <2>4 DEF PostInv
<1>6. ~\E ok \in BOOLEAN: Claim(c, ok)
  BY DEF Claim, Holds
<1> QED
  BY <1>1, <1>2, <1>3, <1>4, <1>5, <1>6 DEF Continue

\* Every step keeps the invariant.
LEMMA StepInv ==
  ASSUME Inv, ~LongRounds, [Next]_vars
  PROVE  Inv'
<1>0. TypeOK /\ TypeOK'
  BY StepType DEF Inv
<1> SUFFICES HandInv' /\ OneHand' /\ GoneInv' /\ PostInv'
  BY <1>0 DEF Inv
<1>1. CASE Tick
  <2>1. HandInv'
    <3>1. SUFFICES ASSUME NEW c \in Calls
                   PROVE  /\ Holds(call[c]) => Exists' /\ due' = LeaseKey(call[c].until) /\ now' < call[c].until
                          /\ call[c].pc = "claim" => ~call[c].key.lease \/ call[c].key.at <= now'
                          /\ call[c].op = "poll" => now' < call[c].until
      BY <1>1 DEF Tick, HandInv, Holds
    <3>2. now \in Nat /\ now' = now + 1 /\ call[c].key.at \in Nat /\ call[c].until \in Nat
      BY <1>0, <1>1 DEF Tick, TypeOK, CallStates, Keys
    <3>3. Holds(call[c]) \/ call[c].op = "poll" => now + 1 < call[c].until
      BY <1>1 DEF Tick, InTime
    <3> QED BY <1>1, <3>2, <3>3 DEF Tick, Inv, HandInv, Exists
  <2>2. OneHand' /\ GoneInv' /\ PostInv'
    BY <1>1 DEF Tick, Inv, OneHand, Holds, GoneInv, PostInv, Paid, Exists, post, told
  <2> QED BY <2>1, <2>2
<1>2. ASSUME NEW at \in (now + 1)..MaxNow, Schedule(at) PROVE HandInv' /\ OneHand' /\ GoneInv' /\ PostInv'
  <2>1. ~Exists /\ ~deleted /\ posts = 0 /\ \A c \in Calls: ~Holds(call[c])
    BY <1>2 DEF Schedule, Inv, GoneInv, HandInv
  <2>2. HandInv' /\ OneHand'
    BY <1>2, <2>1 DEF Schedule, Inv, HandInv, OneHand, Holds
  <2>3. saved' # NoText
    BY <1>2, ConstantsAssumption DEF Schedule, NoText, ConstantsAssumption
  <2>4. GoneInv'
    BY <1>2, <2>1, <2>3 DEF Schedule, GoneInv
  <2>5. PostInv'
    BY <1>0, <1>2, <2>1 DEF Schedule, PostInv, TypeOK, post
  <2> QED BY <2>2, <2>4, <2>5
<1>3. ASSUME NEW c \in Authors, Ask(c) PROVE HandInv' /\ OneHand' /\ GoneInv' /\ PostInv'
  <2>1. c \in Calls /\ call[c] = Idle
    BY <1>3 DEF Calls, Ask, UpdateRead, ChangeRead, Begin, Free
  <2>2. ~Holds(call[c]) /\ ~Holds(call'[c])
    BY <1>0, <1>3, <2>1, AskType DEF Holds, Idle
  <2> QED BY <1>0, <1>3, <2>1, <2>2, AskType, QuietStep DEF post, told
<1>4. ASSUME NEW c \in Pollers, PollRead(c) PROVE HandInv' /\ OneHand' /\ GoneInv' /\ PostInv'
  <2>1. c \in Calls /\ call[c] = Idle /\ ~Holds(call[c]) /\ due.at <= now
    BY <1>4 DEF Calls, PollRead, Free, Holds, Idle, Due
  <2>2. /\ call'[c] = [op |-> "poll", pc |-> "claim", copy |-> msg, key |-> due, until |-> now + Lease]
        /\ \A d \in Calls \ {c}: call'[d] = call[d]
    BY <1>0, <1>4, <2>1 DEF PollRead, TypeOK
  <2>3. now < now + Lease
    BY <1>0, ConstantsAssumption DEF TypeOK, ConstantsAssumption
  <2>4. /\ call'[c].pc = "claim" /\ call'[c].key = due /\ call'[c].until = now + Lease
        /\ ~Holds(call'[c])
    BY <2>2 DEF Holds
  <2> QED BY <1>4, <2>1, <2>2, <2>3, <2>4, QuietStep DEF PollRead, post, told
<1>5. ASSUME NEW c \in Calls, Continue(c) PROVE HandInv' /\ OneHand' /\ GoneInv' /\ PostInv'
  <2>1. CASE Holds(call[c])
    BY <1>5, <2>1, HeldStep
  <2>2. CASE ~Holds(call[c])
    <3>1. \E ok \in BOOLEAN: Claim(c, ok)
      BY <1>5, <2>2 DEF Continue, UpdateWrite, DeleteRemove, Deliver, DeliverClear, DeliverFail, Holds
    <3> QED BY <3>1, ClaimStep
  <2> QED BY <2>1, <2>2
<1>6. ASSUME NEW c \in Calls, Crash(c) PROVE HandInv' /\ OneHand' /\ GoneInv' /\ PostInv'
  <2>1. /\ Return(c) /\ UNCHANGED <<now, msg, due, posts, saved, deleted>> /\ faults' = faults + 1
    BY <1>0, <1>6, FaultType DEF Crash, post
  <2>2. HandInv' /\ OneHand'
    <3>1. call'[c] = Idle /\ \A d \in Calls \ {c}: call'[d] = call[d]
      BY <1>0, <2>1, ReturnType
    <3> QED BY <2>1, <3>1 DEF Inv, HandInv, OneHand, Holds, Exists, Idle
  <2>3. GoneInv'
    BY <2>1 DEF Inv, GoneInv, Exists
  <2>4. posts \in Nat /\ faults \in Nat /\ posts <= faults + 1
    BY <1>0 DEF Inv, PostInv, TypeOK
  <2>5. PostInv'
    BY <2>1, <2>4 DEF PostInv
  <2> QED BY <2>2, <2>3, <2>5
<1>7. CASE UNCHANGED vars
  BY <1>7 DEF vars, Inv, HandInv, OneHand, Holds, GoneInv, PostInv, Paid, Exists, post, told
<1> QED
  BY <1>1, <1>2, <1>3, <1>4, <1>5, <1>6, <1>7 DEF Next

-----------------------------------------------------------------------------
(* What follows *)

\* The invariant holds of every state, when rounds end within the lease.
LEMMA InvHolds ==
  ASSUME ~LongRounds
  PROVE  Spec => []Inv
<1>1. Init => Inv
  <2> SUFFICES ASSUME Init PROVE Inv
    OBVIOUS
  <2>1. TypeOK
    BY InitType
  <2>2. \A c \in Calls: call[c] = Idle /\ ~Holds(call[c])
    BY DEF Init, Holds, Idle
  <2>3. HandInv /\ OneHand
    BY <2>2 DEF HandInv, OneHand, Idle
  <2>4. GoneInv /\ PostInv
    BY DEF Init, GoneInv, PostInv, Exists, NoMessage
  <2> QED BY <2>1, <2>3, <2>4 DEF Inv
<1>2. Inv /\ [Next]_vars => Inv'
  BY StepInv
<1> QED
  BY <1>1, <1>2, PTL DEF Spec

\* Of all pollers, clicks and edits, one at a time works on the message, for any number
\* of instances (ClaimScheduledMessage).
THEOREM Hands == ASSUME ~LongRounds PROVE Spec => []OneHand
<1>1. Inv => OneHand
  BY DEF Inv
<1> QED
  BY <1>1, InvHolds, PTL

\* Every post too many is paid for by a fault (deliver), whatever the number of instances.
THEOREM Twice == ASSUME ~LongRounds PROVE Spec => []NotTwice
<1>1. Inv => NotTwice
  <2> SUFFICES ASSUME Inv PROVE NotTwice
    OBVIOUS
  <2>1. posts <= faults + 1 /\ posts \in Nat /\ faults \in Nat
    BY DEF Inv, PostInv, TypeOK
  <2> QED BY <2>1 DEF NotTwice
<1> QED
  BY <1>1, InvHolds, PTL

\* A deleted message is neither posted nor listed again, whatever delivery or edit of it
\* was under way (Delete, hold).
THEOREM Deleted == ASSUME ~LongRounds PROVE Spec => DeletedIsGone
<1> DEFINE Stays == deleted => posts' = posts /\ ~Exists'
<1>1. ASSUME Inv, [Next]_vars PROVE [Stays]_vars
  <2>1. SUFFICES ASSUME deleted, Next PROVE posts' = posts /\ ~Exists'
    BY <1>1
  <2>2. ~Exists /\ saved # NoText /\ \A c \in Calls: ~Holds(call[c])
    BY <1>1, <2>1 DEF Inv, GoneInv, HandInv
  <2>3. ASSUME NEW c \in Calls, Continue(c) PROVE posts' = posts /\ msg' = msg
    BY <2>2, <2>3 DEF Continue, Claim, UpdateWrite, DeleteRemove, Deliver, DeliverClear, DeliverFail, Holds, post
  <2>4. posts' = posts /\ msg' = msg
    BY <2>1, <2>2, <2>3 DEF Next, Tick, Schedule, Ask, UpdateRead, ChangeRead, PollRead, Crash, post
  <2> QED BY <2>2, <2>4 DEF Exists
<1> QED
  BY <1>1, InvHolds, PTL DEF Spec, DeletedIsGone

-----------------------------------------------------------------------------
(* Not before its time *)

\* The author's change is under way.
Changing == \E c \in Calls: call[c].pc \in {"write", "remove"}

\* A message in the queue under a lease is due, or rushed, or its author is changing it;
\* one that is not under a lease is at its send time; and a poller has seen it due.
DueInv ==
  /\ due.lease => rushed \/ msg.at <= now \/ Changing
  /\ ~due.lease /\ due # NotQueued => due.at = msg.at
  /\ \A c \in Calls: call[c].op = "poll" => call[c].key.at <= now /\ call[c].key # NotQueued
  /\ \A c \in Calls: call[c].pc = "claim" => call[c].op # "idle"

\* A row that was just put is at its send time or not in the queue.
LEMMA PutDue ==
  ASSUME NEW m \in Messages, PutScheduledMessage(m)
  PROVE  ~due'.lease /\ (due' # NotQueued => due'.at = msg'.at)
  BY DEF PutScheduledMessage, DueKey, NotQueued, Messages

\* Every step keeps the places: a put row goes to its send time, a claim is of what was
\* due or is its author's, and who lets go half-way leaves the message rushed.
LEMMA StepDue ==
  ASSUME Inv, DueInv, ~LongRounds, [Next]_vars
  PROVE  DueInv'
<1>0. TypeOK /\ now \in Nat /\ msg.at \in Nat
  BY DEF Inv, TypeOK, Messages
<1> DEFINE Polls == \A c \in Calls: /\ call[c].op = "poll" => call[c].key.at <= now /\ call[c].key # NotQueued
                                    /\ call[c].pc = "claim" => call[c].op # "idle"
           Places == /\ due.lease => rushed \/ msg.at <= now \/ Changing
                     /\ ~due.lease /\ due # NotQueued => due.at = msg.at
<1>1. ASSUME Polls', Places' PROVE DueInv'
  BY <1>1 DEF DueInv
<1>2. ASSUME NEW c \in Calls, call'[c] = Idle, \A d \in Calls \ {c}: call'[d] = call[d], UNCHANGED now
      PROVE  Polls'
  BY <1>2 DEF DueInv, Idle
<1>3. ASSUME UNCHANGED <<now, msg, due, rushed>>, Changing => Changing'
      PROVE  Places'
  BY <1>3 DEF DueInv
<1>4. ASSUME NEW c \in Calls, Return(c), UNCHANGED now,
             \/ ~due'.lease /\ (due' # NotQueued => due'.at = msg'.at)
             \/ UNCHANGED <<msg, due, rushed>> /\ call[c].pc \notin {"write", "remove"}
             \/ UNCHANGED <<msg, due>> /\ rushed'
      PROVE  DueInv'
  <2>1. call'[c] = Idle /\ \A d \in Calls \ {c}: call'[d] = call[d]
    BY <1>0, <1>4, ReturnType
  <2>2. Polls'
    BY <1>2, <1>4, <2>1
  <2>3. CASE ~due'.lease /\ (due' # NotQueued => due'.at = msg'.at)
    BY <1>1, <2>2, <2>3
  <2>4. CASE UNCHANGED <<msg, due, rushed>> /\ call[c].pc \notin {"write", "remove"}
    <3>1. Changing => Changing'
      BY <2>1, <2>4 DEF Changing
    <3> QED BY <1>1, <1>3, <1>4, <2>2, <2>4, <3>1
  <2>5. CASE UNCHANGED <<msg, due>> /\ rushed'
    BY <1>1, <2>2, <2>5 DEF DueInv
  <2> QED BY <1>4, <2>3, <2>4, <2>5
<1>5. CASE Tick
  <2>1. now' = now + 1 /\ UNCHANGED <<msg, due, rushed, call>>
    BY <1>5 DEF Tick, told
  <2>2. \A c \in Calls: call[c].key.at \in Nat
    BY <1>0 DEF TypeOK, CallStates, Keys
  <2>3. Changing' <=> Changing
    BY <2>1 DEF Changing
  <2> QED BY <1>0, <2>1, <2>2, <2>3 DEF DueInv
<1>6. ASSUME NEW at \in (now + 1)..MaxNow, Schedule(at) PROVE DueInv'
  <2>1. [state |-> "pending", at |-> at, text |-> 0] \in Messages
    BY <1>0, ConstantsAssumption DEF ConstantsAssumption, Messages
  <2>2. ~due'.lease /\ (due' # NotQueued => due'.at = msg'.at) /\ UNCHANGED <<now, call>>
    BY <1>6, <2>1, PutDue DEF Schedule
  <2> QED BY <2>2 DEF DueInv
<1>7. ASSUME NEW c \in Authors, Ask(c) PROVE DueInv'
  <2>1. /\ c \in Calls /\ UNCHANGED <<now, msg, due, rushed>>
        /\ call'[c].pc = "claim" /\ call'[c].op \notin {"poll", "idle"} /\ call[c] = Idle
        /\ \A d \in Calls \ {c}: call'[d] = call[d]
    <3>1. UNCHANGED <<now, msg, due, rushed>> /\ call[c] = Idle
      BY <1>7 DEF told, Ask, UpdateRead, ChangeRead, Begin, Free
    <3>2. c \in Calls
      BY DEF Calls
    <3> QED BY <1>0, <1>7, <3>1, <3>2, AskType
  <2>2. Changing => Changing'
    BY <2>1 DEF Changing, Idle
  <2>3. Polls'
    BY <2>1 DEF DueInv
  <2> QED BY <1>1, <1>3, <2>1, <2>2, <2>3
<1>8. ASSUME NEW c \in Pollers, PollRead(c) PROVE DueInv'
  <2>1. c \in Calls /\ UNCHANGED <<now, msg, due, rushed>> /\ due # NotQueued /\ due.at <= now /\ call[c] = Idle
    BY <1>8 DEF Calls, PollRead, Free, Due, told
  <2>2. /\ call'[c] = [op |-> "poll", pc |-> "claim", copy |-> msg, key |-> due, until |-> now + Lease]
        /\ \A d \in Calls \ {c}: call'[d] = call[d]
    BY <1>0, <1>8, <2>1 DEF PollRead, TypeOK
  <2>3. call'[c].pc = "claim" /\ call'[c].key = due
    BY <2>2
  <2>4. Changing => Changing'
    BY <2>1, <2>2 DEF Changing, Idle
  <2>5. Polls'
    BY <2>1, <2>2, <2>3 DEF DueInv
  <2> QED BY <1>1, <1>3, <2>1, <2>4, <2>5
<1>9. ASSUME NEW c \in Calls, NEW ok \in BOOLEAN, Claim(c, ok) PROVE DueInv'
  <2> DEFINE until == IF call[c].op = "poll" THEN call[c].until ELSE now + Lease
  <2>0. call[c] \in CallStates /\ call[c].pc = "claim"
    BY <1>0, <1>9 DEF TypeOK, Claim
  <2>1. CASE ok /\ Claimable(call[c].key)
    <3>1. /\ due = call[c].key /\ UNCHANGED <<now, msg>> /\ rushed' = (rushed \/ call[c].op = "sendNow")
          /\ call' = [call EXCEPT ![c] = [call[c] EXCEPT !.pc = Work(call[c].op), !.until = until]]
      BY <1>9, <2>1 DEF Claim, Claimable
    <3>2. /\ call'[c].pc = Work(call[c].op) /\ call'[c].op = call[c].op /\ call'[c].key = call[c].key
          /\ \A d \in Calls \ {c}: call'[d] = call[d]
      BY <1>0, <2>0, <3>1 DEF TypeOK, CallStates
    <3>3. call[c].op \in {"update", "delete", "sendNow", "poll", "idle"}
      BY <2>0 DEF CallStates
    <3>4. Polls'
      BY <3>1, <3>2, <3>3 DEF DueInv, Work
    <3>5. due'.lease
      BY <1>9, <2>1 DEF Claim, Leased, LeaseKey
    <3>6. rushed \/ msg.at <= now \/ call[c].op # "poll"
      <4>1. ~Changing
        BY <2>0, <2>1, ClaimFree DEF Changing, Holds
      <4>2. call[c].op = "poll" => due.at <= now /\ due # NotQueued
        BY <3>1 DEF DueInv
      <4> QED BY <4>1, <4>2 DEF DueInv
    <3>7. call[c].op \in {"update", "delete"} => Changing'
      BY <3>2 DEF Changing, Work
    <3>8. call[c].op # "idle"
      BY <2>0 DEF DueInv
    <3>9. rushed' \/ msg'.at <= now' \/ Changing'
      BY <3>1, <3>3, <3>6, <3>7, <3>8
    <3> QED BY <1>1, <3>4, <3>5, <3>9
  <2>2. CASE ~(ok /\ Claimable(call[c].key))
    <3>1. Return(c) /\ UNCHANGED <<now, msg, due, rushed>>
      BY <1>9, <2>2 DEF Claim
    <3> QED BY <1>4, <2>0, <3>1
  <2> QED BY <2>1, <2>2
<1>10. ASSUME NEW c \in Calls, NEW ok \in BOOLEAN, UpdateWrite(c, ok) PROVE DueInv'
  <2>1. call[c].copy \in Messages
    BY <1>0 DEF TypeOK, CallStates
  <2>2. ok => ~due'.lease /\ (due' # NotQueued => due'.at = msg'.at)
    BY <1>10, <2>1, PutDue DEF UpdateWrite
  <2>3. Return(c) /\ UNCHANGED now /\ (~ok => UNCHANGED <<msg, due>> /\ rushed')
    BY <1>10 DEF UpdateWrite
  <2> QED BY <1>4, <2>2, <2>3
<1>11. ASSUME NEW c \in Calls, NEW ok \in BOOLEAN, DeleteRemove(c, ok) PROVE DueInv'
  <2>1. Return(c) /\ UNCHANGED now /\ (ok => ~due'.lease /\ due' = NotQueued) /\ (~ok => UNCHANGED <<msg, due>> /\ rushed')
    BY <1>11 DEF DeleteRemove, DeleteScheduledMessage, NotQueued
  <2> QED BY <1>4, <2>1
<1>12. ASSUME NEW c \in Calls, NEW outcome \in {"sent", "lost", "refused", "failed"}, Deliver(c, outcome) PROVE DueInv'
  <2>0. call[c].pc = "send" /\ UNCHANGED <<now, msg, due, rushed>>
    BY <1>12 DEF Deliver, told
  <2>1. CASE Return(c)
    BY <1>4, <2>0, <2>1
  <2>2. ASSUME NEW pc \in {"clear", "fail"}, Goto(c, pc) PROVE DueInv'
    <3>1. /\ call' = [call EXCEPT ![c] = [call[c] EXCEPT !.pc = pc]] /\ call[c] \in CallStates
      BY <1>0, <2>2 DEF Goto, TypeOK
    <3>2. /\ call'[c].pc = pc /\ call'[c].op = call[c].op /\ call'[c].key = call[c].key
          /\ \A d \in Calls \ {c}: call'[d] = call[d]
      BY <1>0, <3>1 DEF TypeOK, CallStates
    <3>3. Polls'
      BY <2>0, <3>2 DEF DueInv
    <3>4. Changing => Changing'
      BY <2>0, <3>2 DEF Changing
    <3> QED BY <1>1, <1>3, <2>0, <3>3, <3>4
  <2> QED BY <1>12, <2>1, <2>2 DEF Deliver
<1>13. ASSUME NEW c \in Calls, NEW ok \in BOOLEAN, DeliverClear(c, ok) PROVE DueInv'
  <2>1. /\ Return(c) /\ UNCHANGED <<now, rushed>> /\ call[c].pc = "clear"
        /\ ok => ~due'.lease /\ due' = NotQueued
        /\ ~ok => UNCHANGED <<msg, due>>
    BY <1>13 DEF DeliverClear, DeleteScheduledMessage, NotQueued, told
  <2> QED BY <1>4, <2>1
<1>14. ASSUME NEW c \in Calls, NEW ok \in BOOLEAN, DeliverFail(c, ok) PROVE DueInv'
  <2>1. [call[c].copy EXCEPT !.state = "failed"] \in Messages
    BY <1>0 DEF TypeOK, CallStates, Messages
  <2>2. /\ Return(c) /\ UNCHANGED now /\ call[c].pc = "fail"
        /\ ok => ~due'.lease /\ (due' # NotQueued => due'.at = msg'.at)
        /\ ~ok => UNCHANGED <<msg, due, rushed>>
    BY <1>14, <2>1, PutDue DEF DeliverFail
  <2> QED BY <1>4, <2>2
<1>15. ASSUME NEW c \in Calls, Crash(c) PROVE DueInv'
  <2>1. /\ Return(c) /\ UNCHANGED <<now, msg, due>>
        /\ rushed' = (rushed \/ call[c].pc \in {"write", "remove"})
    BY <1>15 DEF Crash
  <2>2. rushed' \/ (UNCHANGED rushed /\ call[c].pc \notin {"write", "remove"})
    BY <1>0, <2>1 DEF TypeOK
  <2> QED BY <1>4, <2>1, <2>2
<1>16. CASE UNCHANGED vars
  BY <1>16 DEF vars, told, DueInv, Changing
<1> QED
  BY <1>5, <1>6, <1>7, <1>8, <1>9, <1>10, <1>11, <1>12, <1>13, <1>14, <1>15, <1>16 DEF Next, Continue

\* The message goes out at its time, at its author's word, or after a change of theirs
\* broke off (ProcessDue, SendNow, hold), and in no other way.
THEOREM Early == ASSUME ~LongRounds PROVE Spec => NotEarly
<1> DEFINE Timely == posts' # posts => now >= msg.at \/ rushed
<1>1. Init => DueInv
  BY DEF Init, DueInv, NotQueued, Idle
<1>2. Inv /\ DueInv /\ [Next]_vars => DueInv'
  BY StepDue
<1>3. ASSUME Inv, DueInv, [Next]_vars PROVE [Timely]_vars
  <2>1. SUFFICES ASSUME Next, posts' # posts PROVE now >= msg.at \/ rushed
    BY <1>3
  <2>2. ASSUME NEW c \in Calls, Continue(c) PROVE \E outcome \in {"sent", "lost", "refused", "failed"}: Deliver(c, outcome)
    BY <2>1, <2>2 DEF Continue, Claim, UpdateWrite, DeleteRemove, DeliverClear, DeliverFail, post
  <2>3. PICK c \in Calls: call[c].pc = "send"
    BY <2>1, <2>2 DEF Next, Tick, Schedule, Ask, UpdateRead, ChangeRead, PollRead, Crash, Deliver, post
  <2>4. due.lease /\ ~Changing
    BY <1>3, <2>3 DEF Inv, HandInv, OneHand, Holds, Changing, LeaseKey
  <2>5. msg.at \in Nat /\ now \in Nat
    BY <1>3 DEF Inv, TypeOK, Messages
  <2> QED BY <1>3, <2>4, <2>5 DEF DueInv
<1> QED
  BY <1>1, <1>2, <1>3, InvHolds, PTL DEF Spec, NotEarly
=============================================================================
