-------------------------- MODULE ScheduledMessages --------------------------
(***************************************************************************)
(* One scheduled message (internal/service/scheduled_message.go over       *)
(* internal/store/scheduled_message.go): its row, its place in the due     *)
(* queue, the author's calls on it (edit, delete, send now) and the        *)
(* pollers of the instances (ProcessDue).  Each store operation and each   *)
(* send is a step; reading the row is one too, so what a call works on may *)
(* be stale, as an eventually consistent read is.                          *)
(*                                                                         *)
(* The queue's key is the only lock: a pending message sits at its send    *)
(* time, and whoever moves it from the place where they read it to a lease *)
(* holds it until they put it back, remove it, or the lease lapses.        *)
(* A lease and a send time never fall on the same millisecond.             *)
(***************************************************************************)
EXTENDS Naturals, FiniteSets

CONSTANTS
  Authors,     \* calls of the author that can be in flight at once
  Pollers,     \* instances, each with its poller
  Lease,       \* scheduledLease
  GiveUpAfter, \* scheduledGiveUpAfter
  LongRounds,  \* may a poller still be working through a batch when the batch's leases lapse?
  MaxNow,      \* bound: time goes on after it only to the next due message
  MaxEdits,    \* bound: edits
  MaxFaults    \* bound: store errors, failed sends and calls that die half-way

Calls == Authors \cup Pollers

ASSUME ConstantsAssumption ==
  /\ Lease \in Nat \ {0} /\ GiveUpAfter \in Nat /\ LongRounds \in BOOLEAN
  /\ MaxNow \in Nat /\ MaxEdits \in Nat /\ MaxFaults \in Nat
  /\ Authors \cap Pollers = {}

VARIABLES
  now,
  msg,      \* the row
  due,      \* its GSI1SK: where it is in the due queue
  call,     \* the calls in flight
  posts,    \* how often it was posted
  sent,     \* the text that was posted last
  saved,    \* the text its author was last told is saved
  rushed,   \* may it go out before its time?  The author asked, or a change of theirs broke off
  deleted,  \* was the author told that it is deleted?
  edits, faults

post == <<posts, sent>>
told == <<saved, rushed, deleted>>
vars == <<now, msg, due, call, post, told, edits, faults>>

NoText    == MaxEdits + 1
NoTime    == 0  \* an edit that leaves the time alone: no future time is 0
NoMessage == [state |-> "none", at |-> 0, text |-> 0]
NotQueued == [at |-> 0, lease |-> FALSE]
DueKey(at)      == [at |-> at, lease |-> FALSE]   \* ScheduledDueKey of a send time
LeaseKey(until) == [at |-> until, lease |-> TRUE] \* ScheduledDueKey of a lease

Exists == msg.state # "none"

\* A call works on the copy it read, still has to find the message at key, and holds it until then.
Idle == [op |-> "idle", pc |-> "idle", copy |-> NoMessage, key |-> NotQueued, until |-> 0]
Free(c) == call[c] = Idle
Return(c) == call' = [call EXCEPT ![c] = Idle]
Goto(c, pc) == call' = [call EXCEPT ![c].pc = pc]

FaultUnless(ok) == /\ ~ok => faults < MaxFaults
                   /\ faults' = IF ok THEN faults ELSE faults + 1

\* A call past its claim.
Holds(b) == b.pc \in {"write", "remove", "send", "clear", "fail"}

\* PutScheduledMessage: the row whole; only a pending message is in the queue.
PutScheduledMessage(m) ==
  /\ msg' = m
  /\ due' = IF m.state = "pending" THEN DueKey(m.at) ELSE NotQueued

\* Mutant: a message that went out stays listed as sent.
KeepAsSent == msg' = [msg EXCEPT !.state = "sent"] /\ due' = NotQueued

\* DeleteScheduledMessage.
DeleteScheduledMessage == msg' = NoMessage /\ due' = NotQueued

-----------------------------------------------------------------------------
(* The author *)

Schedule(at) ==
  /\ saved = NoText
  /\ at \in (now + 1)..MaxNow
  /\ PutScheduledMessage([state |-> "pending", at |-> at, text |-> 0])
  /\ saved' = 0
  /\ UNCHANGED <<now, call, post, rushed, deleted, edits, faults>>

\* Where hold expects a message it read: a failed one is not queued.
HoldKey(m) == IF m.state = "pending" THEN DueKey(m.at) ELSE NotQueued

Begin(c, op, copy) ==
  /\ Free(c) /\ Exists
  /\ call' = [call EXCEPT ![c] = [Idle EXCEPT !.op = op, !.pc = "claim", !.copy = copy, !.key = HoldKey(msg)]]

\* Update reads the message; a new time, which may be the old one, makes it pending again.
UpdateRead(c, text, at) ==
  /\ edits < MaxEdits
  /\ at # NoTime => at \in (now + 1)..MaxNow
  /\ Begin(c, "update", [state |-> IF at = NoTime THEN msg.state ELSE "pending",
                         at    |-> IF at = NoTime THEN msg.at ELSE at,
                         text  |-> text])
  /\ edits' = edits + 1
  /\ UNCHANGED <<now, msg, due, post, told, faults>>

\* Delete and SendNow read it.
ChangeRead(c, op) ==
  /\ op \in {"delete", "sendNow"}
  /\ Begin(c, op, msg)
  /\ UNCHANGED <<now, msg, due, post, told, edits, faults>>

-----------------------------------------------------------------------------
(* The pollers *)

\* Mutant: a lapsed lease is not due.
DueFirstTime == due # NotQueued /\ ~due.lease /\ due.at <= now

Due == due # NotQueued /\ due.at <= now

\* ProcessDue lists what is due, a lapsed lease included; the lease it will take counts
\* from here.
PollRead(c) ==
  /\ Free(c) /\ Due
  /\ call' = [call EXCEPT ![c] = [op |-> "poll", pc |-> "claim", copy |-> msg, key |-> due, until |-> now + Lease]]
  /\ UNCHANGED <<now, msg, due, post, told, edits, faults>>

-----------------------------------------------------------------------------
(* Claiming *)

Work(op) == CASE op = "update" -> "write" [] op = "delete" -> "remove" [] OTHER -> "send"

\* Mutants: a claim that does not look where the message is; one that forgets that a
\* message may be gone altogether.
ClaimableAnyway(key)  == Exists
ClaimableThoughGone(key) == due = key

\* The condition of ClaimScheduledMessage.
Claimable(key) == Exists /\ due = key

Leased(until) == due' = LeaseKey(until)

\* ClaimScheduledMessage, of hold and of ProcessDue.
Claim(c, ok) ==
  /\ call[c].pc = "claim"
  /\ LET until == IF call[c].op = "poll" THEN call[c].until ELSE now + Lease
     IN IF ok /\ Claimable(call[c].key)
        THEN /\ Leased(until)
             /\ call' = [call EXCEPT ![c].pc = Work(call[c].op), ![c].until = until]
             /\ rushed' = (rushed \/ call[c].op = "sendNow")
        ELSE Return(c) /\ UNCHANGED <<due, rushed>>
  /\ FaultUnless(ok)
  /\ UNCHANGED <<now, msg, post, saved, deleted, edits>>

-----------------------------------------------------------------------------
(* Holding *)

UpdateWrite(c, ok) ==
  /\ call[c].pc = "write"
  /\ IF ok THEN PutScheduledMessage(call[c].copy) /\ saved' = call[c].copy.text /\ rushed' = FALSE
     ELSE rushed' = TRUE /\ UNCHANGED <<msg, due, saved>>
  /\ Return(c)
  /\ FaultUnless(ok)
  /\ UNCHANGED <<now, post, deleted, edits>>

DeleteRemove(c, ok) ==
  /\ call[c].pc = "remove"
  /\ IF ok THEN DeleteScheduledMessage /\ deleted' = TRUE /\ UNCHANGED rushed
     ELSE rushed' = TRUE /\ UNCHANGED <<msg, due, deleted>>
  /\ Return(c)
  /\ FaultUnless(ok)
  /\ UNCHANGED <<now, post, saved, edits>>

GivesUp(m) == now >= m.at + GiveUpAfter

\* deliver: the message is posted, refused for good, or fails for reasons that may pass;
\* an answer that is lost on the way is such a failure of a message that was posted.
Deliver(c, outcome) ==
  /\ call[c].pc = "send"
  /\ IF outcome \in {"sent", "lost"} THEN posts' = posts + 1 /\ sent' = call[c].copy.text
     ELSE UNCHANGED post
  /\ CASE outcome = "sent" -> Goto(c, "clear")
       [] outcome = "refused" \/ (outcome # "sent" /\ GivesUp(call[c].copy)) -> Goto(c, "fail")
       [] OTHER -> Return(c)
  /\ FaultUnless(outcome \in {"sent", "refused"})
  /\ UNCHANGED <<now, msg, due, told, edits>>

\* Sent: the scheduled copy goes.
DeliverClear(c, ok) ==
  /\ call[c].pc = "clear"
  /\ IF ok THEN DeleteScheduledMessage ELSE UNCHANGED <<msg, due>>
  /\ Return(c)
  /\ FaultUnless(ok)
  /\ UNCHANGED <<now, post, told, edits>>

\* Not sent: it waits for its author.
DeliverFail(c, ok) ==
  /\ call[c].pc = "fail"
  /\ IF ok THEN PutScheduledMessage([call[c].copy EXCEPT !.state = "failed"]) /\ rushed' = FALSE
     ELSE UNCHANGED <<msg, due, rushed>>
  /\ Return(c)
  /\ FaultUnless(ok)
  /\ UNCHANGED <<now, post, saved, deleted, edits>>

Crash(c) ==
  /\ ~Free(c) /\ FaultUnless(FALSE)
  /\ rushed' = (rushed \/ call[c].pc \in {"write", "remove"})
  /\ Return(c)
  /\ UNCHANGED <<now, msg, due, post, saved, deleted, edits>>

\* Time passes.  Whoever holds the message is done with it before the lease lapses, and
\* so is a poller with its batch, unless rounds may be long.
InTime(b) == Holds(b) \/ (~LongRounds /\ b.op = "poll") => now + 1 < b.until

Tick ==
  /\ now < MaxNow \/ (now < due.at /\ \A c \in Calls: ~Holds(call[c]))
  /\ \A c \in Calls: InTime(call[c])
  /\ now' = now + 1
  /\ UNCHANGED <<msg, due, call, post, told, edits, faults>>

Continue(c) ==
  \/ \E ok \in BOOLEAN: \/ Claim(c, ok) \/ UpdateWrite(c, ok) \/ DeleteRemove(c, ok)
                        \/ DeliverClear(c, ok) \/ DeliverFail(c, ok)
  \/ \E outcome \in {"sent", "lost", "refused", "failed"}: Deliver(c, outcome)

Ask(c) ==
  \/ \E text \in {msg.text, edits + 1}, at \in {NoTime} \cup (now + 1)..MaxNow: UpdateRead(c, text, at)
  \/ \E op \in {"delete", "sendNow"}: ChangeRead(c, op)

Next ==
  \/ Tick
  \/ \E at \in (now + 1)..MaxNow: Schedule(at)
  \/ \E c \in Authors: Ask(c)
  \/ \E c \in Pollers: PollRead(c)
  \/ \E c \in Calls: Continue(c) \/ Crash(c)

Init ==
  /\ now = 0 /\ msg = NoMessage /\ due = NotQueued
  /\ call = [c \in Calls |-> Idle]
  /\ posts = 0 /\ sent = NoText
  /\ saved = NoText /\ rushed = FALSE /\ deleted = FALSE
  /\ edits = 0 /\ faults = 0

Spec == Init /\ [][Next]_vars

\* Every poller looks at its interval, and a call that was started goes on.
FairSpec ==
  /\ Spec /\ WF_vars(Tick)
  /\ \A c \in Calls: WF_vars(Continue(c))
  /\ \A c \in Pollers: WF_vars(PollRead(c))

-----------------------------------------------------------------------------
(* Types *)

Messages == [state: {"none", "pending", "failed"}, at: Nat, text: 0..MaxEdits]
Keys     == [at: Nat, lease: BOOLEAN]
CallStates ==
  [op: {"idle", "update", "delete", "sendNow", "poll"},
   pc: {"idle", "claim", "write", "remove", "send", "clear", "fail"},
   copy: Messages, key: Keys, until: Nat]

TypeOK ==
  /\ now \in Nat /\ msg \in Messages /\ due \in Keys
  /\ call \in [Calls -> CallStates]
  /\ posts \in Nat /\ sent \in 0..NoText
  /\ saved \in 0..NoText /\ rushed \in BOOLEAN /\ deleted \in BOOLEAN
  /\ edits \in 0..MaxEdits /\ faults \in Nat

-----------------------------------------------------------------------------
(* Properties *)

\* However many pollers and clicks race for the message, one of them works on it at a
\* time (ClaimScheduledMessage: "exactly one wins").
OneHand == \A c, d \in Calls: Holds(call[c]) /\ Holds(call[d]) => c = d

\* Whoever holds the message holds it under a lease that has not lapsed and that nobody
\* else can have read, which is what keeps every other claim out.
HandInv ==
  \A c \in Calls:
    /\ Holds(call[c]) => Exists /\ due = LeaseKey(call[c].until) /\ now < call[c].until
    /\ call[c].pc = "claim" => ~call[c].key.lease \/ call[c].key.at <= now
    /\ call[c].op = "poll" => now < call[c].until

\* The message is posted once; every post too many has a failed removal, a lost answer or
\* a crash behind it (deliver).
NotTwice == posts <= 1 + faults

\* It does not go out before its time, unless its author asked or a change broke off while
\* it held the message (ProcessDue, hold).
NotEarly == [][posts' # posts => now >= msg.at \/ rushed]_vars

\* A message its author was told is deleted is neither posted nor listed again (Delete).
DeletedIsGone == [][deleted => posts' = posts /\ ~Exists']_vars

\* A message whose time has come is posted, given up or moved by its author: no crash and
\* no failed send leaves it behind (the lease, scheduledGiveUpAfter).
Overdue == msg.state = "pending" /\ now >= msg.at
EveryMessageSettles == Overdue ~> ~Overdue

\* What is posted is what the author last saved.
SentAsSaved == [][posts' # posts => sent' = saved]_vars
=============================================================================
