----------------------------- MODULE Approvals ------------------------------
(***************************************************************************)
(* The approval cards of one agent run (internal/store/runextras.go) and   *)
(* the gates that raise, settle and spend them                             *)
(* (internal/agents/orchestrator_gates.go).  A card is a question to the   *)
(* invoker: the run's tools, the invoker's devices and the polls that      *)
(* notice a passed deadline work on it from any instance, and every store  *)
(* operation is a step.                                                    *)
(*                                                                         *)
(* What a card may authorize is its CLASS: the purpose the server stamped  *)
(* on it, or, for the cards without one, how they were raised: "plain"     *)
(* (request_approval), "question" (ask_user), "tool" (a permission click)  *)
(* or "reply" (a drafted reply the server posts).                          *)
(***************************************************************************)
EXTENDS Naturals

CONSTANTS
  Calls,      \* handler invocations that can be in flight at once
  Actions,    \* purposes of AuthorizeAction: one write action with its arguments
  Subjects,   \* purposes of ApprovalGranted: a connector, a merge request
  Raised,     \* the classes the agent itself may raise
  MaxCards,   \* bound: approval ids
  MaxFaults   \* bound: store errors, failed sends and calls that die half-way

Purposes == Actions \cup Subjects
Loose == {"plain", "question", "tool", "reply"}
Cards == 1..MaxCards
NoCard == 0

ASSUME ConstantsAssumption ==
  /\ Raised \subseteq Loose /\ Purposes \cap (Loose \cup {"none", "post"}) = {}
  /\ MaxCards \in Nat /\ MaxFaults \in Nat

VARIABLES
  card,    \* APPROVAL#<id>: state, class, and whether its yes is spent
  late,    \* cards whose deadline has passed
  run,     \* is the run "live" or "ended"?
  badge,   \* the machine reaction on the invoking message
  call,    \* the handler invocations in flight
  done,    \* how often a card's yes was acted on
  did,     \* what was done on a card's yes
  faults

acts == <<done, did>>
vars == <<card, late, run, badge, call, acts, faults>>

NoRow == [state |-> "none", class |-> "none", spent |-> FALSE]

\* A call knows what it wants to do, the rows it listed, the cards it will still try
\* to spend and the card it works on.
Idle == [op |-> "idle", pc |-> "idle", what |-> "none", seen |-> [k \in Cards |-> NoRow],
         todo |-> {}, card |-> NoCard, yes |-> FALSE]

Free(c)     == call[c] = Idle
Return(c)   == call' = [call EXCEPT ![c] = Idle]
Goto(c, pc) == call' = [call EXCEPT ![c] = [@ EXCEPT !.pc = pc]]
Tool(c)     == Free(c) /\ run = "live"

\* Something outside the handler fails, or does not: a fault is spent when it does.
FaultUnless(ok) == /\ ~ok => faults < MaxFaults
                   /\ faults' = IF ok THEN faults ELSE faults + 1

Exists(k)  == card[k].state # "none"
Pending(k) == card[k].state = "pending"
Unspent(row) == row.state = "approved" /\ ~row.spent

\* Card ids are ULIDs: a new card is listed after the ones there are.
NextCard == {k \in Cards: ~Exists(k) /\ \A j \in 1..(k - 1): Exists(j)}

\* PutApproval: a pending card nobody has decided.
PutApproval(class) ==
  \E k \in NextCard: card' = [card EXCEPT ![k] = [state |-> "pending", class |-> class, spent |-> FALSE]]

-----------------------------------------------------------------------------
(* Raising *)

\* RequestApproval and ProposeReply on behalf of the agent, and the display goes to blocked.
Request(c, class) ==
  /\ Tool(c)
  /\ PutApproval(class)
  /\ badge' = "blocked"
  /\ UNCHANGED <<late, run, call, acts, faults>>

\* A gate raises the card itself, worded and stamped by the server, or, too near the
\* run's deadline or refused by the store, refuses the action.
Ask(c, ok) ==
  /\ call[c].pc = "ask"
  /\ IF ok THEN PutApproval(call[c].what) /\ badge' = "blocked" ELSE UNCHANGED <<card, badge>>
  /\ Return(c)
  /\ FaultUnless(ok)
  /\ UNCHANGED <<late, run, acts>>

\* A card's deadline passes.
Lapse(k) ==
  /\ Exists(k) /\ k \notin late
  /\ late' = late \cup {k}
  /\ UNCHANGED <<card, run, badge, call, acts, faults>>

-----------------------------------------------------------------------------
(* Settling *)

\* Mutant: a settle overwrites whatever is there.
SettledOver(k, state) == card' = [card EXCEPT ![k].state = state]

\* Mutant: an expiry is stored as the reason the agent is told.
SettledReason(k, state) ==
  Pending(k) /\ card' = [card EXCEPT ![k].state = IF state = "expired" THEN "approval_timeout" ELSE state]

\* SettleApproval: conditional on pending.
Settled(k, state) == Pending(k) /\ card' = [card EXCEPT ![k].state = state]

\* ApprovalStatus: a pending card past its deadline is about to be expired.
StatusRead(c, k) ==
  /\ Free(c) /\ Pending(k) /\ k \in late
  /\ call' = [call EXCEPT ![c] = [Idle EXCEPT !.op = "status", !.pc = "expire", !.card = k]]
  /\ UNCHANGED <<card, late, run, badge, acts, faults>>

StatusExpire(c, ok) ==
  /\ call[c].pc = "expire"
  /\ \/ ok /\ Settled(call[c].card, "expired") /\ Goto(c, "look")
     \/ (ok => ~Pending(call[c].card)) /\ UNCHANGED card /\ Return(c)
  /\ FaultUnless(ok)
  /\ UNCHANGED <<late, run, badge, acts>>

\* DecideApproval: a card that is settled or overdue is refused.
DecideRead(c, k, yes) ==
  /\ Free(c) /\ Pending(k) /\ k \notin late
  /\ call' = [call EXCEPT ![c] = [Idle EXCEPT !.op = "decide", !.pc = "settle", !.card = k, !.yes = yes]]
  /\ UNCHANGED <<card, late, run, badge, acts, faults>>

DecideSettle(c, ok) ==
  /\ call[c].pc = "settle"
  /\ \/ ok /\ Settled(call[c].card, IF call[c].yes THEN "approved" ELSE "denied") /\ Goto(c, "look")
     \/ (ok => ~Pending(call[c].card)) /\ UNCHANGED card /\ Return(c)
  /\ FaultUnless(ok)
  /\ UNCHANGED <<late, run, badge, acts>>

\* Mutant: the draft is posted only while the run that wrote it is live.
OwesReplyLive(b) == b.op = "decide" /\ b.yes /\ card[b.card].class = "reply" /\ run = "live"

\* An approved draft is the server's to post.
OwesReply(b) == b.op = "decide" /\ b.yes /\ card[b.card].class = "reply"

\* Both read the run again: unreadable, they stop here; live, the display goes back to working.
SettledLook(c, ok) ==
  /\ call[c].pc = "look"
  /\ IF ~ok THEN Return(c)
     ELSE IF run = "live" THEN Goto(c, "unblock")
     ELSE IF OwesReply(call[c]) THEN Goto(c, "reply") ELSE Return(c)
  /\ FaultUnless(ok)
  /\ UNCHANGED <<card, late, run, badge, acts>>

SettledUnblock(c) ==
  /\ call[c].pc = "unblock"
  /\ badge' = "working"
  /\ IF OwesReply(call[c]) THEN Goto(c, "reply") ELSE Return(c)
  /\ UNCHANGED <<card, late, run, acts, faults>>

\* The yes is acted on; a send that fails is logged and that is all.
Acted(c, k, what, ok) ==
  /\ IF ok THEN done' = [done EXCEPT ![k] = @ + 1] /\ did' = [did EXCEPT ![k] = @ \cup {what}]
     ELSE UNCHANGED acts
  /\ Return(c)
  /\ FaultUnless(ok)
  /\ UNCHANGED <<card, late, run, badge>>

DecideReply(c, ok) == call[c].pc = "reply" /\ Acted(c, call[c].card, "reply", ok)

-----------------------------------------------------------------------------
(* Spending *)

\* Mutant: every unspent yes of the run will do.
AuthorizesAny(row, what) == Unspent(row)

\* Which yes a gate takes: the one for exactly its purpose, and for a post of a reply-mode
\* run a deliberate one, which is what no purpose, tool class or draft marks.
Fits(what) == IF what = "post" THEN {"plain", "question"} ELSE {what}

Authorizes(row, what) == Unspent(row) /\ row.class \in Fits(what)

Candidates(what) == {k \in Cards: Authorizes(card[k], what)}

\* AuthorizeAction and ConsumeDeliberateApproval list the cards.
GateList(c, what) ==
  /\ Tool(c) /\ what \in Actions \cup {"post"}
  /\ call' = [call EXCEPT ![c] = [Idle EXCEPT !.op = IF what = "post" THEN "post" ELSE "gate", !.pc = "try",
                                              !.what = what, !.todo = Candidates(what),
                                              !.seen = IF what = "post" THEN @ ELSE card]]
  /\ UNCHANGED <<card, late, run, badge, acts, faults>>

\* ApprovalGranted reads the one card the agent names; a card without a purpose
\* (LegacyApproval) and none at all make the gate ask.
GrantRead(c, k, what) ==
  /\ Tool(c) /\ what \in Subjects /\ k \in Cards \cup {NoCard}
  /\ LET mine == {j \in {k} \cap Cards: Authorizes(card[j], what)}
         asks == k \in Cards => card[k].state = "approved" /\ card[k].class \in Loose
         entered(pc) == [Idle EXCEPT !.op = IF pc = "ask" THEN "gate" ELSE "grant", !.pc = pc, !.what = what, !.todo = mine]
     IN /\ mine # {} \/ asks
        /\ call' = [call EXCEPT ![c] = entered(IF mine # {} THEN "try" ELSE "ask")]
  /\ UNCHANGED <<card, late, run, badge, acts, faults>>

\* Mutant: the yes is marked spent whether it was or not.
ConsumableAlways(k) == card[k].state = "approved"

\* ConsumeApproval's condition.
Consumable(k) == Unspent(card[k])

\* The listed cards are tried in order; a yes that somebody else spent, or that cannot be
\* written, is passed over: never authorize on doubt.
Consume(c, k, ok) ==
  /\ call[c].pc = "try" /\ k \in call[c].todo /\ \A j \in call[c].todo: k <= j
  /\ IF ok /\ Consumable(k)
     THEN /\ card' = [card EXCEPT ![k].spent = TRUE]
          /\ call' = [call EXCEPT ![c] = [Idle EXCEPT !.op = "act", !.pc = "act", !.what = call[c].what, !.card = k]]
     ELSE /\ UNCHANGED card
          /\ call' = [call EXCEPT ![c].todo = @ \ {k}]
  /\ FaultUnless(ok)
  /\ UNCHANGED <<late, run, badge, acts>>

Act(c, ok) == call[c].pc = "act" /\ Acted(c, call[c].card, call[c].what, ok)

\* No yes left: a no stands, a card still waiting is waited for, else the gate asks.
\* A reply-mode post and a spent grant are simply refused.
Verdict(c) ==
  /\ call[c].pc = "try" /\ call[c].todo = {}
  /\ LET about == {k \in Cards: call[c].seen[k].class = call[c].what}
         refused == \/ call[c].op # "gate"
                    \/ \E k \in about: call[c].seen[k].state = "denied"
                    \/ \E k \in about: call[c].seen[k].state = "pending" /\ k \notin late
     IN IF refused THEN Return(c)
        ELSE call' = [call EXCEPT ![c] = [Idle EXCEPT !.op = "gate", !.pc = "ask", !.what = call[c].what]]
  /\ UNCHANGED <<card, late, run, badge, acts, faults>>

-----------------------------------------------------------------------------
\* The run ends.  A reply-mode watcher's answer becomes a draft to decide on, and
\* finishTerminal puts the badge of the ended run last.
RunEnds(c) ==
  /\ Tool(c)
  /\ run' = "ended"
  /\ \E pc \in {"deliver", "finish"}:
       /\ pc = "deliver" => "reply" \in Raised
       /\ call' = [call EXCEPT ![c] = [Idle EXCEPT !.op = "finish", !.pc = pc]]
  /\ UNCHANGED <<card, late, badge, acts, faults>>

RunDelivers(c, ok) ==
  /\ call[c].pc = "deliver"
  /\ IF ok THEN PutApproval("reply") /\ badge' = "blocked" ELSE UNCHANGED <<card, badge>>
  /\ Goto(c, "finish")
  /\ FaultUnless(ok)
  /\ UNCHANGED <<late, run, acts>>

RunFinishes(c) ==
  /\ call[c].pc = "finish"
  /\ badge' = "done"
  /\ Return(c)
  /\ UNCHANGED <<card, late, run, acts, faults>>

Crash(c) ==
  /\ ~Free(c) /\ FaultUnless(FALSE)
  /\ Return(c)
  /\ UNCHANGED <<card, late, run, badge, acts>>

Arrive(c) ==
  \/ \E class \in Raised: Request(c, class)
  \/ \E k \in Cards: StatusRead(c, k) \/ \E yes \in BOOLEAN: DecideRead(c, k, yes)
  \/ \E what \in Actions \cup {"post"}: GateList(c, what)
  \/ \E what \in Subjects, k \in Cards \cup {NoCard}: GrantRead(c, k, what)
  \/ RunEnds(c)

Continue(c) ==
  \/ \E ok \in BOOLEAN: \/ Ask(c, ok) \/ StatusExpire(c, ok) \/ DecideSettle(c, ok) \/ SettledLook(c, ok)
                        \/ DecideReply(c, ok) \/ Act(c, ok) \/ RunDelivers(c, ok)
                        \/ \E k \in Cards: Consume(c, k, ok)
  \/ SettledUnblock(c) \/ Verdict(c) \/ RunFinishes(c)

Next == \/ \E c \in Calls: Arrive(c) \/ Continue(c) \/ Crash(c)
        \/ \E k \in Cards: Lapse(k)

Init ==
  /\ card = [k \in Cards |-> NoRow] /\ late = {}
  /\ run = "live" /\ badge = "working"
  /\ call = [c \in Calls |-> Idle]
  /\ done = [k \in Cards |-> 0] /\ did = [k \in Cards |-> {}]
  /\ faults = 0

Spec == Init /\ [][Next]_vars

\* A handler that has started goes on to its next store operation.
FairSpec == Spec /\ \A c \in Calls: WF_vars(Continue(c))

-----------------------------------------------------------------------------
(* Types *)

Classes  == Purposes \cup Loose \cup {"none"}
Settlement == {"approved", "denied", "expired"}
Rows == [state: {"none", "pending"} \cup Settlement, class: Classes, spent: BOOLEAN]

CallStates ==
  [op: {"idle", "status", "decide", "gate", "grant", "post", "act", "finish"},
   pc: {"idle", "ask", "expire", "settle", "look", "unblock", "reply", "try", "act", "deliver", "finish"},
   what: Purposes \cup {"none", "post"}, seen: [Cards -> Rows], todo: SUBSET Cards,
   card: Cards \cup {NoCard}, yes: BOOLEAN]

TypeOK ==
  /\ card \in [Cards -> Rows] /\ late \subseteq Cards
  /\ run \in {"live", "ended"} /\ badge \in {"working", "blocked", "done"}
  /\ call \in [Calls -> CallStates]
  /\ done \in [Cards -> Nat] /\ did \in [Cards -> SUBSET (Purposes \cup {"post", "reply"})]
  /\ faults \in Nat

-----------------------------------------------------------------------------
(* Properties *)

\* One yes, one action: however many calls hold the same card, on however many instances,
\* what it allows is done at most once (ConsumeApproval, and SettleApproval for drafts).
OneYesOneAction == \A k \in Cards: done[k] <= 1

\* What was done on a card is what the invoker said yes to, cards of every origin in play: a gated
\* action or a merge request only on the card stamped for exactly that, a reply only on its
\* draft, and a post of a reply-mode run never on a yes that was given for something else,
\* which is what a purpose, a tool's class or a draft tells (AuthorizeAction,
\* ApprovalGranted, ConsumeDeliberateApproval).
OnlyWhatWasAllowed ==
  \A k \in Cards: \A what \in did[k]:
    /\ card[k].state = "approved"
    /\ what # "post" => card[k].class = what
    /\ what = "post" => card[k].class \notin Purposes \cup {"tool", "reply"}

\* ConsumeDeliberateApproval: '"Deliberate" is a plain request_approval answer', so an answered
\* question is not one.
PostsNeedARequest == \A k \in Cards: "post" \in did[k] => card[k].class = "plain"

\* A decision is final: of the decisions and polls racing on a card one settles it, and
\* neither a late answer nor an expiry nor a spending changes it again (SettleApproval).
DecisionIsFinal ==
  [][\A k \in Cards: card[k].state \in Settlement
       => card'[k].state = card[k].state /\ (card[k].spent => card'[k].spent)]_vars

\* A draft the invoker approved is posted, whether the run is live, ends meanwhile or has
\* long ended: without a fault the call that approved it never returns short of the send
\* (DecideApproval).
ApprovedReplyIsPosted ==
  faults = 0 => \A k \in Cards: card[k].state = "approved" /\ card[k].class = "reply"
    => done[k] = 1 \/ \E c \in Calls: call[c].op = "decide" /\ call[c].card = k /\ call[c].yes

\* Fault or no fault, "on approval, the SERVER posts the drafted reply" (DecideApproval).
EveryReplyIsPosted ==
  \A k \in Cards: (card[k].state = "approved" /\ card[k].class = "reply") ~> (done[k] = 1)

\* AuthorizeAction: a denied action stays denied, so a gate that is shown the no for
\* exactly its action does not go ahead.
DeniedStaysDenied ==
  [][\A c \in Calls: call[c].what \in Actions /\ call[c].pc = "try" /\ call'[c].pc = "act"
       => ~\E k \in Cards: call[c].seen[k].class = call[c].what /\ call[c].seen[k].state = "denied"]_vars

\* ApprovalStatus and DecideApproval: only a live run goes back to working.
FinishedIsNotWorking == [][badge = "done" => badge' # "working"]_vars

-----------------------------------------------------------------------------
(* The inductive invariant: which call has a yes in its hand.               *)

\* A yes is in the hand of the call that spent it, until it acts; a draft's, of the call
\* whose decision settled it.
Holds(b) ==
  \/ b.pc = "act"
  \/ b.op = "decide" /\ b.pc \in {"look", "unblock", "reply"} /\ b.yes /\ card[b.card].class = "reply"

\* What a call knows of the cards it works on.
Informed(b) ==
  /\ b.pc \in {"try", "act"} => b.what \in Purposes \cup {"post"}
  /\ b.op = "gate" => b.what \in Purposes
  /\ b.pc = "ask" => b.op = "gate"
  /\ b.pc = "expire" => b.op = "status"
  /\ b.pc = "try" => \A k \in b.todo: Exists(k) /\ card[k].class \in Fits(b.what)
  /\ b.pc \in {"expire", "settle", "look", "unblock", "reply", "act"} => b.card \in Cards /\ Exists(b.card)
  /\ b.pc \in {"look", "unblock", "reply"} /\ b.op = "decide" /\ b.yes => card[b.card].state = "approved"
  /\ b.pc \in {"settle", "reply"} => b.op = "decide"
  /\ b.pc = "reply" => Holds(b)
  /\ b.pc = "act" => card[b.card].state = "approved" /\ card[b.card].spent /\ card[b.card].class \in Fits(b.what)

\* A yes in somebody's hand was not acted on yet, and one that was acted on is used up.
Spending ==
  /\ \A c \in Calls: Informed(call[c]) /\ (Holds(call[c]) => done[call[c].card] = 0)
  /\ \A c, d \in Calls: Holds(call[c]) /\ Holds(call[d]) /\ call[c].card = call[d].card => c = d
  /\ \A k \in Cards: done[k] \in {0, 1}
  /\ \A k \in Cards: done[k] = 1 => card[k].state = "approved" /\ (card[k].spent \/ card[k].class = "reply")

\* An action never outlives the yes it was done on, and no yes is in two hands: what the
\* conditions of SettleApproval and ConsumeApproval together have to guarantee.
YesInv == TypeOK /\ Spending
=============================================================================
