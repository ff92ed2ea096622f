--------------------------- MODULE ApprovalsProofs ---------------------------
(***************************************************************************)
(* Machine-checked facts about Approvals, for every value of its           *)
(* constants: any number of calls in flight, cards, actions and faults.    *)
(*                                                                         *)
(* The typing of what was done needs Spending (an action is done with the  *)
(* purpose its card was spent for), and Spending needs the types, so the   *)
(* two are one inductive invariant, YesInv.                                *)
(***************************************************************************)
EXTENDS Approvals, TLAPS

-----------------------------------------------------------------------------
(* Types *)

\* The empty row and the idle call are of their types.
LEMMA IdleType == NoRow \in Rows /\ Idle \in CallStates
  BY DEF NoRow, Idle, Rows, CallStates, Classes, Settlement, NoCard

\* A step that moves a call keeps the calls' type.
LEMMA GotoType ==
  ASSUME TypeOK, NEW c \in Calls,
         NEW pc \in {"look", "unblock", "reply", "finish"}, Goto(c, pc)
  PROVE  call' \in [Calls -> CallStates]
<1>1. call[c] \in CallStates
  BY DEF TypeOK
<1>2. [call[c] EXCEPT !.pc = pc] \in CallStates
  BY <1>1 DEF CallStates
<1> QED
  BY <1>2 DEF TypeOK, Goto

\* A call that returns is idle again.
LEMMA ReturnType ==
  ASSUME TypeOK, NEW c \in Calls, Return(c)
  PROVE  call' \in [Calls -> CallStates]
  BY IdleType DEF TypeOK, Return

\* Raising a card keeps the cards' type.
LEMMA PutType ==
  ASSUME TypeOK, NEW class \in Classes, PutApproval(class)
  PROVE  card' \in [Cards -> Rows]
  BY DEF TypeOK, PutApproval, NextCard, Rows

\* Settling keeps the cards' type.
LEMMA SettledType ==
  ASSUME TypeOK, NEW k \in Cards, NEW state \in Settlement, Settled(k, state)
  PROVE  card' \in [Cards -> Rows]
  BY DEF TypeOK, Settled, Rows

\* A fault is counted by a natural number.
LEMMA FaultType ==
  ASSUME TypeOK, NEW ok \in BOOLEAN, FaultUnless(ok)
  PROVE  faults' \in Nat
  BY DEF TypeOK, FaultUnless

\* Acting on a yes keeps the record of what was done.
LEMMA ActedType ==
  ASSUME TypeOK, NEW c \in Calls, NEW k \in Cards, NEW ok \in BOOLEAN,
         NEW what \in Purposes \cup {"post", "reply"}, Acted(c, k, what, ok)
  PROVE  TypeOK'
<1>1. done' \in [Cards -> Nat] /\ did' \in [Cards -> SUBSET (Purposes \cup {"post", "reply"})]
  BY DEF TypeOK, Acted, acts
<1>2. call' \in [Calls -> CallStates]
  BY ReturnType DEF Acted
<1>3. faults' \in Nat
  BY FaultType DEF Acted
<1> QED
  BY <1>1, <1>2, <1>3 DEF TypeOK, Acted

\* A request, a poll, a decision, a gate or an ending starts.
LEMMA ArriveType ==
  ASSUME TypeOK, NEW c \in Calls, Arrive(c)
  PROVE  TypeOK'
<1>1. ASSUME NEW class \in Raised, Request(c, class) PROVE TypeOK'
  <2>1. class \in Classes
    BY ConstantsAssumption DEF ConstantsAssumption, Classes
  <2>2. card' \in [Cards -> Rows]
    BY <1>1, <2>1, PutType DEF Request
  <2> QED BY <1>1, <2>2 DEF TypeOK, Request, acts
<1>2. ASSUME NEW k \in Cards, StatusRead(c, k) PROVE TypeOK'
  <2>1. [Idle EXCEPT !.op = "status", !.pc = "expire", !.card = k] \in CallStates
    BY IdleType DEF CallStates
  <2> QED BY <1>2, <2>1 DEF TypeOK, StatusRead, acts
<1>3. ASSUME NEW k \in Cards, NEW yes \in BOOLEAN, DecideRead(c, k, yes) PROVE TypeOK'
  <2>1. [Idle EXCEPT !.op = "decide", !.pc = "settle", !.card = k, !.yes = yes] \in CallStates
    BY IdleType DEF CallStates
  <2> QED BY <1>3, <2>1 DEF TypeOK, DecideRead, acts
<1>4. ASSUME NEW what \in Actions \cup {"post"}, GateList(c, what) PROVE TypeOK'
  <2>1. what \in Purposes \cup {"none", "post"} /\ Candidates(what) \in SUBSET Cards
    BY DEF Purposes, Candidates
  <2>2. /\ Idle.seen \in [Cards -> Rows]
        /\ (IF what = "post" THEN Idle.seen ELSE card) \in [Cards -> Rows]
        /\ (IF what = "post" THEN "post" ELSE "gate") \in {"gate", "post"}
    BY IdleType DEF TypeOK, CallStates
  <2>3. [Idle EXCEPT !.op = IF what = "post" THEN "post" ELSE "gate", !.pc = "try", !.what = what,
                     !.todo = Candidates(what), !.seen = IF what = "post" THEN @ ELSE card] \in CallStates
    BY <2>1, <2>2, IdleType DEF CallStates
  <2> QED BY <1>4, <2>3 DEF TypeOK, GateList, acts
<1>5. ASSUME NEW what \in Subjects, NEW k \in Cards \cup {NoCard}, GrantRead(c, k, what) PROVE TypeOK'
  <2> DEFINE mine == {j \in {k} \cap Cards: Authorizes(card[j], what)}
             pc == IF mine # {} THEN "try" ELSE "ask"
  <2>1. [Idle EXCEPT !.op = IF pc = "ask" THEN "gate" ELSE "grant", !.pc = pc, !.what = what, !.todo = mine]
          \in CallStates
    BY IdleType DEF CallStates, Purposes
  <2> QED BY <1>5, <2>1 DEF TypeOK, GrantRead, acts
<1>6. CASE RunEnds(c)
  <2>1. ASSUME NEW pc \in {"deliver", "finish"}
        PROVE  [Idle EXCEPT !.op = "finish", !.pc = pc] \in CallStates
    BY IdleType DEF CallStates
  <2> QED BY <1>6, <2>1 DEF TypeOK, RunEnds, acts
<1> QED
  BY <1>1, <1>2, <1>3, <1>4, <1>5, <1>6 DEF Arrive

\* A call in flight makes its next step.
LEMMA ContinueType ==
  ASSUME YesInv, NEW c \in Calls, Continue(c)
  PROVE  TypeOK'
<1>0. TypeOK /\ Informed(call[c]) /\ call[c] \in CallStates
  BY DEF YesInv, Spending, TypeOK
<1>1. ASSUME NEW ok \in BOOLEAN, Ask(c, ok) PROVE TypeOK'
  <2>1. call[c].what \in Classes
    BY <1>0, <1>1 DEF Ask, Informed, Classes
  <2>2. card' \in [Cards -> Rows]
    BY <1>0, <1>1, <2>1, PutType DEF Ask, TypeOK
  <2> QED BY <1>0, <1>1, <2>2, ReturnType, FaultType DEF Ask, TypeOK, acts
<1>2. ASSUME NEW ok \in BOOLEAN, StatusExpire(c, ok) PROVE TypeOK'
  <2>1. call[c].card \in Cards
    BY <1>0, <1>2 DEF StatusExpire, Informed
  <2>2. card' \in [Cards -> Rows]
    BY <1>0, <1>2, <2>1, SettledType DEF StatusExpire, TypeOK, Settlement
  <2>3. call' \in [Calls -> CallStates]
    BY <1>0, <1>2, GotoType, ReturnType DEF StatusExpire
  <2> QED BY <1>0, <1>2, <2>2, <2>3, FaultType DEF StatusExpire, TypeOK, acts
<1>3. ASSUME NEW ok \in BOOLEAN, DecideSettle(c, ok) PROVE TypeOK'
  <2>1. call[c].card \in Cards
    BY <1>0, <1>3 DEF DecideSettle, Informed
  <2>2. card' \in [Cards -> Rows]
    BY <1>0, <1>3, <2>1, SettledType DEF DecideSettle, TypeOK, Settlement
  <2>3. call' \in [Calls -> CallStates]
    BY <1>0, <1>3, GotoType, ReturnType DEF DecideSettle
  <2> QED BY <1>0, <1>3, <2>2, <2>3, FaultType DEF DecideSettle, TypeOK, acts
<1>4. ASSUME NEW ok \in BOOLEAN, SettledLook(c, ok) PROVE TypeOK'
  <2>1. call' \in [Calls -> CallStates]
    BY <1>0, <1>4, GotoType, ReturnType DEF SettledLook
  <2> QED BY <1>0, <1>4, <2>1, FaultType DEF SettledLook, TypeOK, acts
<1>5. CASE SettledUnblock(c)
  <2>1. call' \in [Calls -> CallStates]
    BY <1>0, <1>5, GotoType, ReturnType DEF SettledUnblock
  <2> QED BY <1>0, <1>5, <2>1 DEF SettledUnblock, TypeOK, acts
<1>6. ASSUME NEW ok \in BOOLEAN, DecideReply(c, ok) PROVE TypeOK'
  BY <1>0, <1>6, ActedType DEF DecideReply, Informed
<1>7. ASSUME NEW ok \in BOOLEAN, Act(c, ok) PROVE TypeOK'
  BY <1>0, <1>7, ActedType DEF Act, Informed
<1>8. ASSUME NEW ok \in BOOLEAN, RunDelivers(c, ok) PROVE TypeOK'
  <2>1. card' \in [Cards -> Rows]
    BY <1>0, <1>8, PutType DEF RunDelivers, TypeOK, Classes, Loose
  <2>2. call' \in [Calls -> CallStates]
    BY <1>0, <1>8, GotoType DEF RunDelivers
  <2> QED BY <1>0, <1>8, <2>1, <2>2, FaultType DEF RunDelivers, TypeOK, acts
<1>9. CASE RunFinishes(c)
  BY <1>0, <1>9, ReturnType DEF RunFinishes, TypeOK, acts
<1>10. ASSUME NEW ok \in BOOLEAN, NEW k \in Cards, Consume(c, k, ok) PROVE TypeOK'
  <2>1. card' \in [Cards -> Rows]
    <3>1. card[k] \in Rows
      BY <1>0 DEF TypeOK
    <3>2. [card[k] EXCEPT !.spent = TRUE] \in Rows
      BY <3>1 DEF Rows
    <3> QED BY <1>0, <1>10, <3>2 DEF Consume, TypeOK
  <2>2. [Idle EXCEPT !.op = "act", !.pc = "act", !.what = call[c].what, !.card = k] \in CallStates
    BY <1>0, IdleType DEF CallStates
  <2>3. [call[c] EXCEPT !.todo = @ \ {k}] \in CallStates
    BY <1>0 DEF CallStates
  <2>4. call' \in [Calls -> CallStates]
    BY <1>0, <1>10, <2>2, <2>3 DEF Consume, TypeOK
  <2> QED BY <1>0, <1>10, <2>1, <2>4, FaultType DEF Consume, TypeOK, acts
<1>11. CASE Verdict(c)
  <2>1. [Idle EXCEPT !.op = "gate", !.pc = "ask", !.what = call[c].what] \in CallStates
    BY <1>0, IdleType DEF CallStates
  <2>2. call' \in [Calls -> CallStates]
    BY <1>0, <1>11, <2>1, ReturnType DEF Verdict, TypeOK
  <2> QED BY <1>0, <1>11, <2>2 DEF Verdict, TypeOK, acts
<1> QED
  BY <1>1, <1>2, <1>3, <1>4, <1>5, <1>6, <1>7, <1>8, <1>9, <1>10, <1>11 DEF Continue

\* Every step keeps the types.
LEMMA StepType ==
  ASSUME YesInv, [Next]_vars
  PROVE  TypeOK'
<1>0. TypeOK
  BY DEF YesInv
<1>1. ASSUME NEW c \in Calls, Crash(c) PROVE TypeOK'
  BY <1>0, <1>1, ReturnType, FaultType DEF Crash, TypeOK, acts
<1>2. ASSUME NEW k \in Cards, Lapse(k) PROVE TypeOK'
  BY <1>0, <1>2 DEF Lapse, TypeOK, acts
<1>3. CASE UNCHANGED vars
  BY <1>0, <1>3 DEF vars, acts, TypeOK
<1> QED
  BY <1>0, <1>1, <1>2, <1>3, ArriveType, ContinueType DEF Next

-----------------------------------------------------------------------------
(* Whose hand a yes is in *)

\* What every step leaves of a card: it stays, keeps its class, and neither its yes nor
\* its spending is taken back.
CardsKept ==
  \A k \in Cards: Exists(k) =>
    /\ Exists(k)' /\ card'[k].class = card[k].class
    /\ card[k].state = "approved" => card'[k].state = "approved"
    /\ card[k].spent => card'[k].spent

\* A new card disturbs none there is: its id is fresh.
LEMMA PutKeeps ==
  ASSUME TypeOK, NEW class, PutApproval(class)
  PROVE  CardsKept
  BY DEF TypeOK, PutApproval, NextCard, CardsKept, Exists

\* Settling takes only a pending card, so no yes is lost by it.
LEMMA SettledKeeps ==
  ASSUME TypeOK, NEW k \in Cards, NEW state \in Settlement, Settled(k, state)
  PROVE  CardsKept
  BY DEF TypeOK, Settled, CardsKept, Exists, Pending, Settlement, Rows

\* Spending a yes leaves the card and the yes.
LEMMA SpentKeeps ==
  ASSUME TypeOK, NEW k \in Cards, card' = [card EXCEPT ![k].spent = TRUE]
  PROVE  CardsKept
<1>1. \A j \in Cards: /\ card'[j].state = card[j].state /\ card'[j].class = card[j].class
                      /\ j = k => card'[j].spent
                      /\ j # k => card'[j] = card[j]
  BY DEF TypeOK, Rows
<1> QED
  BY <1>1 DEF CardsKept, Exists

\* A step that touches no card keeps them.
LEMMA SameKeeps ==
  ASSUME UNCHANGED card
  PROVE  CardsKept
  BY DEF CardsKept, Exists

\* A call that does not step knows and holds what it did.
LEMMA OthersKept ==
  ASSUME YesInv, CardsKept, NEW d \in Calls, call'[d] = call[d]
  PROVE  Informed(call[d])' /\ (Holds(call[d])' <=> Holds(call[d]))
<1>1. Informed(call[d]) /\ call[d] \in CallStates
  BY DEF YesInv, Spending, TypeOK
<1>2. Holds(call[d])' <=> Holds(call[d])
  BY <1>1 DEF Holds, Informed, CardsKept
<1>3. call[d].todo \subseteq Cards
  BY <1>1 DEF CallStates
<1>4. Informed(call[d])'
  BY <1>1, <1>2, <1>3 DEF Informed, CardsKept, Fits
<1> QED
  BY <1>2, <1>4

\* A step of c that acts on nothing is sound when what c holds after it, it held before
\* or took from nobody.
LEMMA StepSound ==
  ASSUME YesInv, CardsKept, UNCHANGED done, NEW c \in Calls,
         \A d \in Calls \ {c}: call'[d] = call[d],
         Informed(call[c])',
         Holds(call[c])' =>
           \/ Holds(call[c]) /\ call'[c].card = call[c].card
           \/ /\ done[call'[c].card] = 0
              /\ \A d \in Calls \ {c}: Holds(call[d]) => call[d].card # call'[c].card
  PROVE  Spending'
<1>1. ASSUME NEW d \in Calls \ {c}
      PROVE  Informed(call[d])' /\ (Holds(call[d])' <=> Holds(call[d])) /\ call'[d] = call[d]
  BY OthersKept
<1>2. ASSUME NEW d \in Calls PROVE Informed(call[d])' /\ (Holds(call[d])' => done'[call'[d].card] = 0)
  BY <1>1 DEF YesInv, Spending
<1>3. ASSUME NEW d \in Calls, NEW e \in Calls, Holds(call[d])', Holds(call[e])', call'[d].card = call'[e].card
      PROVE  d = e
  BY <1>1, <1>3 DEF YesInv, Spending
<1>4. ASSUME NEW k \in Cards, done'[k] = 1
      PROVE  card'[k].state = "approved" /\ (card'[k].spent \/ card'[k].class = "reply")
  BY <1>4 DEF YesInv, Spending, CardsKept, Exists
<1>5. \A k \in Cards: done'[k] \in {0, 1}
  BY DEF YesInv, Spending
<1> QED
  BY <1>2, <1>3, <1>4, <1>5 DEF Spending

\* The hand that acts on its yes is empty afterwards, and no other held that card.
LEMMA ActedSound ==
  ASSUME YesInv, NEW c \in Calls, NEW ok \in BOOLEAN, NEW what,
         Holds(call[c]), Acted(c, call[c].card, what, ok)
  PROVE  Spending'
<1> DEFINE k == call[c].card
<1>1. /\ TypeOK /\ Informed(call[c]) /\ k \in Cards /\ done[k] = 0
      /\ card[k].state = "approved" /\ (card[k].spent \/ card[k].class = "reply")
  BY DEF YesInv, Spending, Informed, Holds
<1>2. call'[c] = Idle /\ ~Holds(call[c])' /\ Informed(call[c])'
  BY <1>1 DEF Acted, Return, TypeOK, Holds, Informed, Idle
<1>3. CardsKept
  BY SameKeeps DEF Acted
<1>4. ASSUME NEW d \in Calls \ {c}
      PROVE  Informed(call[d])' /\ (Holds(call[d])' <=> Holds(call[d])) /\ call'[d] = call[d]
  BY <1>1, <1>3, OthersKept DEF Acted, Return, TypeOK
<1>5. \A j \in Cards: done'[j] = IF ok /\ j = k THEN 1 ELSE done[j]
  BY <1>1 DEF Acted, acts, TypeOK
<1>6. ASSUME NEW d \in Calls, Holds(call[d])' PROVE done'[call'[d].card] = 0
  <2>1. d # c /\ Holds(call[d]) /\ call[d].card # k /\ done[call[d].card] = 0
    BY <1>2, <1>4, <1>6 DEF YesInv, Spending
  <2>2. call[d].card \in Cards
    BY <2>1 DEF YesInv, Spending, Informed, Holds
  <2> QED BY <1>4, <1>5, <2>1, <2>2
<1>7. \A d, e \in Calls: Holds(call[d])' /\ Holds(call[e])' /\ call'[d].card = call'[e].card => d = e
  BY <1>2, <1>4 DEF YesInv, Spending
<1>8. \A j \in Cards: /\ done'[j] \in {0, 1}
                      /\ done'[j] = 1 => card'[j].state = "approved" /\ (card'[j].spent \/ card'[j].class = "reply")
  BY <1>1, <1>5 DEF YesInv, Spending, Acted
<1>9. \A d \in Calls: Informed(call[d])'
  BY <1>2, <1>4
<1> QED
  BY <1>6, <1>7, <1>8, <1>9 DEF Spending

\* A call that starts has nothing in its hand yet; the cards it means to try it has seen.
LEMMA ArriveSound ==
  ASSUME YesInv, NEW c \in Calls, Arrive(c)
  PROVE  Spending'
<1>0. TypeOK
  BY DEF YesInv
<1>1. ASSUME NEW class \in Raised, Request(c, class) PROVE Spending'
  <2>1. CardsKept /\ call' = call
    BY <1>0, <1>1, PutKeeps DEF Request
  <2>2. Informed(call[c])' /\ (Holds(call[c])' <=> Holds(call[c]))
    BY <2>1, OthersKept
  <2> QED BY <1>1, <2>1, <2>2, StepSound DEF Request, acts
<1>2. ASSUME NEW k \in Cards, StatusRead(c, k) PROVE Spending'
  <2>1. call'[c].op = "status" /\ call'[c].pc = "expire" /\ call'[c].card = k
    BY <1>0, <1>2 DEF StatusRead, TypeOK, Idle
  <2>2. Informed(call[c])' /\ ~Holds(call[c])'
    BY <1>2, <2>1 DEF StatusRead, Informed, Holds, Exists, Pending
  <2> QED BY <1>0, <1>2, <2>2, SameKeeps, StepSound DEF StatusRead, acts, TypeOK
<1>3. ASSUME NEW k \in Cards, NEW yes \in BOOLEAN, DecideRead(c, k, yes) PROVE Spending'
  <2>1. call'[c].op = "decide" /\ call'[c].pc = "settle" /\ call'[c].card = k
    BY <1>0, <1>3 DEF DecideRead, TypeOK, Idle
  <2>2. Informed(call[c])' /\ ~Holds(call[c])'
    BY <1>3, <2>1 DEF DecideRead, Informed, Holds, Exists, Pending
  <2> QED BY <1>0, <1>3, <2>2, SameKeeps, StepSound DEF DecideRead, acts, TypeOK
<1>4. ASSUME NEW what \in Actions \cup {"post"}, GateList(c, what) PROVE Spending'
  <2>1. /\ call'[c].pc = "try" /\ call'[c].todo = Candidates(what) /\ call'[c].what = what
        /\ call'[c].op = IF what = "post" THEN "post" ELSE "gate"
    BY <1>0, <1>4 DEF GateList, TypeOK, Idle
  <2>2. what \in Purposes \cup {"post"} /\ (what # "post" => what \in Purposes)
    BY DEF Purposes
  <2>3. Informed(call[c])' /\ ~Holds(call[c])'
    BY <1>4, <2>1, <2>2 DEF GateList, Informed, Holds, Exists, Candidates, Authorizes, Unspent
  <2> QED BY <1>0, <1>4, <2>3, SameKeeps, StepSound DEF GateList, acts, TypeOK
<1>5. ASSUME NEW what \in Subjects, NEW k \in Cards \cup {NoCard}, GrantRead(c, k, what) PROVE Spending'
  <2> DEFINE mine == {j \in {k} \cap Cards: Authorizes(card[j], what)}
             pc == IF mine # {} THEN "try" ELSE "ask"
  <2>1. /\ call'[c].op = (IF pc = "ask" THEN "gate" ELSE "grant")
        /\ call'[c].pc = pc /\ call'[c].what = what /\ call'[c].todo = mine
    BY <1>0, <1>5 DEF GrantRead, TypeOK, Idle
  <2>2. \A j \in mine: j \in Cards /\ Exists(j) /\ card[j].class \in Fits(what)
    BY DEF Authorizes, Unspent, Exists
  <2>3. Informed(call[c])' /\ ~Holds(call[c])'
    BY <1>5, <2>1, <2>2 DEF GrantRead, Informed, Holds, Exists, Purposes
  <2> QED BY <1>0, <1>5, <2>3, SameKeeps, StepSound DEF GrantRead, acts, TypeOK
<1>6. CASE RunEnds(c)
  <2>1. call'[c].pc \in {"deliver", "finish"} /\ call'[c].op = "finish"
    BY <1>0, <1>6 DEF RunEnds, TypeOK, Idle
  <2>2. Informed(call[c])' /\ ~Holds(call[c])'
    BY <2>1 DEF Informed, Holds
  <2> QED BY <1>0, <1>6, <2>2, SameKeeps, StepSound DEF RunEnds, acts, TypeOK
<1> QED
  BY <1>1, <1>2, <1>3, <1>4, <1>5, <1>6 DEF Arrive

\* A step of c that only returns or raises a card leaves its hand empty.
LEMMA IdleSound ==
  ASSUME YesInv, NEW c \in Calls, Return(c)
  PROVE  /\ Informed(call[c])' /\ ~Holds(call[c])'
         /\ \A d \in Calls \ {c}: call'[d] = call[d]
<1>1. call'[c] = Idle /\ \A d \in Calls \ {c}: call'[d] = call[d]
  BY DEF Return, YesInv, TypeOK
<1> QED
  BY <1>1 DEF Informed, Holds, Idle

\* What a Goto leaves alone.
LEMMA GotoFrame ==
  ASSUME YesInv, NEW c \in Calls, NEW pc, Goto(c, pc)
  PROVE  /\ call'[c] = [call[c] EXCEPT !.pc = pc]
         /\ call'[c].pc = pc /\ call'[c].op = call[c].op /\ call'[c].card = call[c].card
         /\ call'[c].yes = call[c].yes /\ call'[c].what = call[c].what
         /\ \A d \in Calls \ {c}: call'[d] = call[d]
<1>1. call[c] \in CallStates
  BY DEF YesInv, TypeOK
<1>2. call'[c] = [call[c] EXCEPT !.pc = pc] /\ \A d \in Calls \ {c}: call'[d] = call[d]
  BY DEF Goto, YesInv, TypeOK
<1> QED
  BY <1>1, <1>2 DEF CallStates

\* A call in flight keeps what it knows and takes a yes only from the card itself:
\* pending before it was settled, unspent before it was spent.
LEMMA ContinueSound ==
  ASSUME YesInv, NEW c \in Calls, Continue(c)
  PROVE  Spending'
<1> DEFINE k == call[c].card
<1>0. TypeOK /\ Informed(call[c]) /\ call[c] \in CallStates
  BY DEF YesInv, Spending, TypeOK
<1>1. ASSUME NEW ok \in BOOLEAN, Ask(c, ok) PROVE Spending'
  <2>1. CardsKept
    BY <1>0, <1>1, PutKeeps, SameKeeps DEF Ask
  <2> QED BY <1>1, <2>1, IdleSound, StepSound DEF Ask, acts
<1>2. ASSUME NEW ok \in BOOLEAN, StatusExpire(c, ok) PROVE Spending'
  <2>1. CASE Settled(k, "expired") /\ Goto(c, "look")
    <3>1. k \in Cards /\ CardsKept
      BY <1>0, <1>2, <2>1, SettledKeeps DEF StatusExpire, Informed, Settlement
    <3>2. call'[c].pc = "look" /\ call'[c].op = "status" /\ call'[c].card = k
      <4>1. call[c].op = "status"
        BY <1>0, <1>2 DEF StatusExpire, Informed
      <4> QED BY <2>1, <4>1, GotoFrame
    <3>3. card'[k].state # "none"
      BY <2>1, <1>0, <3>1 DEF Settled, TypeOK, Rows
    <3>4. Informed(call[c])' /\ ~Holds(call[c])'
      BY <3>1, <3>2, <3>3 DEF Informed, Holds, Exists
    <3> QED BY <1>2, <2>1, <3>1, <3>4, GotoFrame, StepSound DEF StatusExpire, acts
  <2>2. CASE UNCHANGED card /\ Return(c)
    BY <1>2, <2>2, SameKeeps, IdleSound, StepSound DEF StatusExpire, acts
  <2> QED BY <1>2, <2>1, <2>2 DEF StatusExpire
<1>3. ASSUME NEW ok \in BOOLEAN, DecideSettle(c, ok) PROVE Spending'
  <2> DEFINE verdict == IF call[c].yes THEN "approved" ELSE "denied"
  <2>1. CASE Settled(k, verdict) /\ Goto(c, "look")
    <3>1. k \in Cards /\ CardsKept
      BY <1>0, <1>3, <2>1, SettledKeeps DEF DecideSettle, Informed, Settlement
    <3>2. /\ call'[c].pc = "look" /\ call'[c].op = "decide" /\ call'[c].card = k
          /\ call'[c].yes = call[c].yes
      BY <1>0, <1>3, <2>1, GotoFrame DEF DecideSettle, Informed
    <3>3. Exists(k)' /\ (call'[c].yes => card'[k].state = "approved")
      BY <1>0, <2>1, <3>1, <3>2 DEF Settled, TypeOK, Rows, Exists
    <3>4. Informed(call[c])'
      BY <3>1, <3>2, <3>3 DEF Informed, Exists
    <3>5. card[k].state = "pending" /\ done[k] = 0
      BY <2>1, <3>1 DEF Settled, Pending, YesInv, Spending
    <3>6. ASSUME NEW d \in Calls \ {c}, Holds(call[d]) PROVE call[d].card # k
      <4>1. Informed(call[d])
        BY DEF YesInv, Spending
      <4>2. card[call[d].card].state = "approved"
        BY <3>6, <4>1 DEF Informed, Holds
      <4> QED BY <3>5, <4>2
    <3> QED BY <1>3, <2>1, <3>1, <3>2, <3>4, <3>5, <3>6, GotoFrame, StepSound DEF DecideSettle, acts
  <2>2. CASE UNCHANGED card /\ Return(c)
    BY <1>3, <2>2, SameKeeps, IdleSound, StepSound DEF DecideSettle, acts
  <2> QED BY <1>3, <2>1, <2>2 DEF DecideSettle
<1>4. ASSUME NEW pc \in {"unblock", "reply"}, Goto(c, pc), call[c].pc \in {"look", "unblock"},
             pc = "reply" => OwesReply(call[c]), UNCHANGED <<card, acts>>
      PROVE  Spending'
  <2>1. Informed(call[c])' /\ (Holds(call[c])' => Holds(call[c]))
    BY <1>0, <1>4, GotoFrame DEF Informed, Holds, OwesReply, Exists
  <2> QED BY <1>4, <2>1, GotoFrame, SameKeeps, StepSound DEF acts
<1>5. ASSUME Return(c), UNCHANGED <<card, acts>> PROVE Spending'
  BY <1>5, SameKeeps, IdleSound, StepSound DEF acts
<1>6. ASSUME NEW ok \in BOOLEAN, SettledLook(c, ok) PROVE Spending'
  BY <1>4, <1>5, <1>6 DEF SettledLook
<1>7. CASE SettledUnblock(c)
  BY <1>4, <1>5, <1>7 DEF SettledUnblock
<1>8. ASSUME NEW ok \in BOOLEAN, DecideReply(c, ok) PROVE Spending'
  BY <1>0, <1>8, ActedSound DEF DecideReply, Informed
<1>9. ASSUME NEW ok \in BOOLEAN, Act(c, ok) PROVE Spending'
  BY <1>0, <1>9, ActedSound DEF Act, Holds
<1>10. ASSUME NEW ok \in BOOLEAN, RunDelivers(c, ok) PROVE Spending'
  <2>1. CardsKept
    BY <1>0, <1>10, PutKeeps, SameKeeps DEF RunDelivers
  <2>2. call[c].op # "decide" => ~Holds(call[c])'
    BY <1>10, GotoFrame DEF RunDelivers, Holds
  <2>3. call'[c].pc = "finish"
    BY <1>10, GotoFrame DEF RunDelivers
  <2>4. Informed(call[c])' /\ ~Holds(call[c])'
    BY <1>0, <1>10, <2>3, GotoFrame DEF RunDelivers, Informed, Holds
  <2> QED BY <1>10, <2>1, <2>4, GotoFrame, StepSound DEF RunDelivers, acts
<1>11. CASE RunFinishes(c)
  BY <1>5, <1>11 DEF RunFinishes
<1>12. ASSUME NEW ok \in BOOLEAN, NEW j \in Cards, Consume(c, j, ok) PROVE Spending'
  <2>0. j \in call[c].todo /\ Exists(j) /\ card[j].class \in Fits(call[c].what) /\ call[c].what \in Purposes \cup {"post"}
    BY <1>0, <1>12 DEF Consume, Informed
  <2>1. CASE ok /\ Consumable(j)
    <3>1. /\ card[j].state = "approved" /\ ~card[j].spent
          /\ card' = [card EXCEPT ![j].spent = TRUE]
          /\ call'[c].pc = "act" /\ call'[c].op = "act" /\ call'[c].card = j /\ call'[c].what = call[c].what
      BY <1>0, <1>12, <2>1, ZenonT(30) DEF Consume, Consumable, Unspent, TypeOK, Idle
    <3>2. CardsKept
      BY <1>0, <3>1, SpentKeeps
    <3>3. card'[j].spent /\ card'[j].state = "approved" /\ card'[j].class = card[j].class
      BY <1>0, <3>1 DEF TypeOK, Rows
    <3>4. Informed(call[c])'
      BY <2>0, <3>1, <3>3 DEF Informed, Exists, Fits, Holds
    <3>5. card[j].class # "reply"
      BY <2>0, ConstantsAssumption DEF Fits, ConstantsAssumption, Loose
    <3>6. done[j] = 0
      BY <3>1, <3>5 DEF YesInv, Spending
    <3>7. ASSUME NEW d \in Calls \ {c}, Holds(call[d]) PROVE call[d].card # j
      BY <3>1, <3>5, <3>7 DEF YesInv, Spending, Informed, Holds
    <3>8. \A d \in Calls \ {c}: call'[d] = call[d]
      BY <1>0, <1>12, <2>1 DEF Consume, TypeOK
    <3> QED BY <1>12, <3>1, <3>2, <3>4, <3>6, <3>7, <3>8, StepSound DEF Consume, acts
  <2>2. CASE ~(ok /\ Consumable(j))
    <3>1. /\ call'[c] = [call[c] EXCEPT !.todo = @ \ {j}] /\ UNCHANGED card
          /\ \A d \in Calls \ {c}: call'[d] = call[d]
      BY <1>0, <1>12, <2>2 DEF Consume, TypeOK
    <3>2. /\ call'[c].pc = "try" /\ call'[c].op = call[c].op /\ call'[c].what = call[c].what
          /\ call'[c].todo \subseteq call[c].todo
      BY <1>0, <1>12, <3>1 DEF Consume, CallStates
    <3>3. Informed(call[c])' /\ ~Holds(call[c])'
      BY <1>0, <1>12, <3>1, <3>2 DEF Consume, Informed, Holds, Exists, Fits
    <3> QED BY <1>12, <3>1, <3>3, SameKeeps, StepSound DEF Consume, acts
  <2> QED BY <2>1, <2>2
<1>13. CASE Verdict(c)
  <2>1. CASE call' = [call EXCEPT ![c] = [Idle EXCEPT !.op = "gate", !.pc = "ask", !.what = call[c].what]]
             /\ call[c].op = "gate"
    <3>1. /\ call'[c].op = "gate" /\ call'[c].pc = "ask" /\ call'[c].what = call[c].what
          /\ \A d \in Calls \ {c}: call'[d] = call[d]
      BY <1>0, <2>1 DEF TypeOK, Idle
    <3>2. Informed(call[c])' /\ ~Holds(call[c])'
      BY <1>0, <2>1, <3>1 DEF Informed, Holds
    <3> QED BY <1>13, <3>1, <3>2, SameKeeps, StepSound DEF Verdict, acts
  <2> QED BY <1>5, <1>13, <2>1 DEF Verdict
<1> QED
  BY <1>1, <1>2, <1>3, <1>6, <1>7, <1>8, <1>9, <1>10, <1>11, <1>12, <1>13 DEF Continue

\* The crash of an instance and a deadline that passes touch no yes; a yes in a hand that
\* crashes is lost, never used twice.
LEMMA StepSpending ==
  ASSUME YesInv, [Next]_vars
  PROVE  Spending'
<1>1. ASSUME NEW c \in Calls, Crash(c) PROVE Spending'
  BY <1>1, SameKeeps, IdleSound, StepSound DEF Crash, acts
<1>2. ASSUME UNCHANGED <<card, call, acts>> PROVE Spending'
  <2>1. \A d \in Calls: Informed(call[d])' /\ (Holds(call[d])' <=> Holds(call[d]))
    BY <1>2, SameKeeps, OthersKept
  <2> QED BY <1>2, <2>1 DEF YesInv, Spending, acts
<1>3. ASSUME NEW k \in Cards, Lapse(k) PROVE Spending'
  BY <1>2, <1>3 DEF Lapse
<1>4. CASE UNCHANGED vars
  BY <1>2, <1>4 DEF vars
<1> QED
  BY <1>1, <1>3, <1>4, ArriveSound, ContinueSound DEF Next

-----------------------------------------------------------------------------
(* What follows *)

\* Whatever calls race on however many cards, whichever of them fail or die: a yes is in
\* one hand at most, and what was done on a yes used it up.
THEOREM YesCorrect == Spec => []YesInv
<1>1. Init => YesInv
  <2> SUFFICES ASSUME Init PROVE YesInv
    OBVIOUS
  <2>1. TypeOK
    BY IdleType DEF Init, TypeOK
  <2>2. \A c \in Calls: Informed(call[c]) /\ ~Holds(call[c])
    BY DEF Init, Informed, Holds, Idle
  <2>3. \A k \in Cards: done[k] = 0
    BY DEF Init
  <2> QED BY <2>1, <2>2, <2>3 DEF YesInv, Spending
<1>2. YesInv /\ [Next]_vars => YesInv'
  BY StepType, StepSpending DEF YesInv
<1> QED
  BY <1>1, <1>2, PTL DEF Spec

\* One yes authorizes one action at most (ConsumeApproval, SettleApproval): however many
\* gates, devices and instances hold the same card, for any number of them.
THEOREM OneYes == Spec => []OneYesOneAction
<1>1. YesInv => OneYesOneAction
  BY DEF YesInv, Spending, OneYesOneAction
<1> QED
  BY <1>1, YesCorrect, PTL

\* Who holds a yes, and that it is used up with the action, is invariant on its own.
THEOREM SpendingSound == Spec => []Spending
<1>1. YesInv => Spending
  BY DEF YesInv
<1> QED
  BY <1>1, YesCorrect, PTL

\* A settled card stays as it was settled and a spent yes stays spent (SettleApproval,
\* ConsumeApproval), whatever answers, polls and gates still race on it.
THEOREM Final == Spec => DecisionIsFinal
<1> DEFINE Stays == \A k \in Cards: card[k].state \in Settlement
                      => card'[k].state = card[k].state /\ (card[k].spent => card'[k].spent)
<1>1. ASSUME YesInv, [Next]_vars PROVE [Stays]_vars
  <2> SUFFICES ASSUME Next PROVE Stays
    BY <1>1
  <2>0. TypeOK
    BY <1>1 DEF YesInv
  <2>1. ASSUME UNCHANGED card PROVE Stays
    BY <2>1
  <2>2. ASSUME NEW class, PutApproval(class) PROVE Stays
    BY <2>0, <2>2 DEF PutApproval, NextCard, Exists, TypeOK, Settlement
  <2>3. ASSUME NEW k \in Cards, NEW state, Settled(k, state) PROVE Stays
    BY <2>0, <2>3 DEF Settled, Pending, TypeOK, Settlement, Rows
  <2>4. ASSUME NEW k \in Cards, card' = [card EXCEPT ![k].spent = TRUE] PROVE Stays
    BY <2>0, <2>4 DEF TypeOK, Rows
  <2>5. ASSUME NEW c \in Calls, Arrive(c) PROVE Stays
    BY <2>1, <2>2, <2>5 DEF Arrive, Request, StatusRead, DecideRead, GateList, GrantRead, RunEnds
  <2>6. ASSUME NEW c \in Calls, Continue(c) PROVE Stays
    <3>0. call[c].pc \in {"expire", "settle"} => call[c].card \in Cards
      BY <1>1, <2>6 DEF YesInv, Spending, Informed
    <3>1. ASSUME NEW ok \in BOOLEAN, Ask(c, ok) \/ RunDelivers(c, ok) PROVE Stays
      BY <2>1, <2>2, <3>1 DEF Ask, RunDelivers
    <3>2. ASSUME NEW ok \in BOOLEAN, StatusExpire(c, ok) \/ DecideSettle(c, ok) PROVE Stays
      BY <2>1, <2>3, <3>0, <3>2 DEF StatusExpire, DecideSettle
    <3>3. ASSUME NEW ok \in BOOLEAN, NEW k \in Cards, Consume(c, k, ok) PROVE Stays
      BY <2>1, <2>4, <3>3 DEF Consume
    <3>4. ASSUME NEW ok \in BOOLEAN, SettledLook(c, ok) \/ DecideReply(c, ok) \/ Act(c, ok) PROVE Stays
      BY <2>1, <3>4 DEF SettledLook, DecideReply, Act, Acted
    <3>5. CASE SettledUnblock(c) \/ Verdict(c) \/ RunFinishes(c)
      BY <2>1, <3>5 DEF SettledUnblock, Verdict, RunFinishes
    <3> QED BY <2>6, <3>1, <3>2, <3>3, <3>4, <3>5 DEF Continue
  <2>7. ASSUME NEW c \in Calls, Crash(c) PROVE Stays
    BY <2>1, <2>7 DEF Crash
  <2>8. ASSUME NEW k \in Cards, Lapse(k) PROVE Stays
    BY <2>1, <2>8 DEF Lapse
  <2> QED BY <2>5, <2>6, <2>7, <2>8 DEF Next
<1> QED
  BY <1>1, YesCorrect, PTL DEF Spec, DecisionIsFinal

\* What was done on a card is what its class lets a gate spend it for.
FitsDone ==
  \A k \in Cards: \A what \in did[k]:
    /\ card[k].state = "approved"
    /\ card[k].class \in (IF what = "reply" THEN {"reply"} ELSE Fits(what))

\* Acting on a yes is the only step that does something, and it does what the yes is for.
LEMMA StepFits ==
  ASSUME YesInv, FitsDone, [Next]_vars
  PROVE  FitsDone'
<1>0. TypeOK
  BY DEF YesInv
<1>1. ASSUME CardsKept, UNCHANGED did PROVE FitsDone'
  BY <1>1 DEF FitsDone, CardsKept, Exists, Fits
<1>2. ASSUME NEW c \in Calls, NEW ok \in BOOLEAN, NEW what,
             Acted(c, call[c].card, what, ok), call[c].card \in Cards,
             card[call[c].card].state = "approved",
             card[call[c].card].class \in (IF what = "reply" THEN {"reply"} ELSE Fits(what))
      PROVE  FitsDone'
  <2>1. /\ card' = card
        /\ \A k \in Cards: \A w \in did'[k]: w \in did[k] \/ (w = what /\ k = call[c].card)
    BY <1>0, <1>2 DEF Acted, acts, TypeOK
  <2> QED BY <1>2, <2>1 DEF FitsDone, Fits
<1>3. ASSUME NEW c \in Calls, Arrive(c) PROVE FitsDone'
  BY <1>0, <1>1, <1>3, PutKeeps, SameKeeps
     DEF Arrive, Request, StatusRead, DecideRead, GateList, GrantRead, RunEnds, acts
<1>4. ASSUME NEW c \in Calls, Continue(c) PROVE FitsDone'
  <2>0. Informed(call[c]) /\ call[c] \in CallStates
    BY <1>0 DEF YesInv, Spending, TypeOK
  <2>1. ASSUME NEW ok \in BOOLEAN, Ask(c, ok) \/ RunDelivers(c, ok) PROVE FitsDone'
    BY <1>0, <1>1, <2>1, PutKeeps, SameKeeps DEF Ask, RunDelivers, acts
  <2>2. ASSUME NEW ok \in BOOLEAN, StatusExpire(c, ok) \/ DecideSettle(c, ok) PROVE FitsDone'
    <3>1. call[c].card \in Cards
      BY <2>0, <2>2 DEF StatusExpire, DecideSettle, Informed
    <3>2. CardsKept
      BY <1>0, <2>2, <3>1, SettledKeeps, SameKeeps DEF StatusExpire, DecideSettle, Settlement
    <3> QED BY <1>1, <2>2, <3>2 DEF StatusExpire, DecideSettle, acts
  <2>3. ASSUME NEW ok \in BOOLEAN, NEW k \in Cards, Consume(c, k, ok) PROVE FitsDone'
    <3>1. CASE UNCHANGED card
      BY <1>1, <2>3, <3>1, SameKeeps DEF Consume, acts
    <3>2. CASE card' = [card EXCEPT ![k].spent = TRUE]
      <4>1. CardsKept
        BY <1>0, <3>2, SpentKeeps
      <4> QED BY <1>1, <2>3, <4>1 DEF Consume, acts
    <3> QED BY <2>3, <3>1, <3>2 DEF Consume
  <2>4. ASSUME NEW ok \in BOOLEAN, DecideReply(c, ok) PROVE FitsDone'
    BY <1>2, <2>0, <2>4 DEF DecideReply, Informed, Holds
  <2>5. ASSUME NEW ok \in BOOLEAN, Act(c, ok) PROVE FitsDone'
    <3>1. call[c].what # "reply"
      BY <2>0, <2>5, ConstantsAssumption DEF Act, Informed, ConstantsAssumption, Loose
    <3> QED BY <1>2, <2>0, <2>5, <3>1 DEF Act, Informed
  <2>6. ASSUME NEW ok \in BOOLEAN, SettledLook(c, ok) PROVE FitsDone'
    BY <1>1, <2>6, SameKeeps DEF SettledLook, acts
  <2>7. CASE SettledUnblock(c) \/ Verdict(c) \/ RunFinishes(c)
    BY <1>1, <2>7, SameKeeps DEF SettledUnblock, Verdict, RunFinishes, acts
  <2> QED BY <1>4, <2>1, <2>2, <2>3, <2>4, <2>5, <2>6, <2>7 DEF Continue
<1>5. ASSUME NEW c \in Calls, Crash(c) PROVE FitsDone'
  BY <1>1, <1>5, SameKeeps DEF Crash, acts
<1>6. ASSUME NEW k \in Cards, Lapse(k) PROVE FitsDone'
  BY <1>1, <1>6, SameKeeps DEF Lapse, acts
<1>7. CASE UNCHANGED vars
  BY <1>1, <1>7, SameKeeps DEF vars, acts
<1> QED
  BY <1>3, <1>4, <1>5, <1>6, <1>7 DEF Next

\* Nothing is done on a yes but what it was given for (AuthorizeAction, ApprovalGranted,
\* ConsumeDeliberateApproval, DecideApproval): for any cards of any origin, whatever the
\* calls that list, settle and spend them at the same time, and whichever of them fail.
THEOREM OnlyAllowed == Spec => []OnlyWhatWasAllowed
<1>1. Init => FitsDone
  BY DEF Init, FitsDone
<1>2. YesInv /\ FitsDone /\ [Next]_vars => FitsDone'
  BY StepFits
<1>3. YesInv /\ FitsDone => OnlyWhatWasAllowed
  BY ConstantsAssumption DEF ConstantsAssumption, FitsDone, OnlyWhatWasAllowed, Fits, Loose
<1> QED
  BY <1>1, <1>2, <1>3, YesCorrect, PTL DEF Spec

-----------------------------------------------------------------------------
(* Approved drafts *)

\* A call that has settled a card with a yes, and is on its way to post the draft.
Posting(b, k) == b.op = "decide" /\ b.yes /\ b.card = k /\ b.pc \in {"look", "unblock", "reply"}

\* A draft with a yes has been posted, or is in the hand that settled it. Another decision that
\* read the card before is not such a hand: it will find the card settled and return.
DraftsInHand ==
  faults = 0 => \A k \in Cards: card[k].state = "approved" /\ card[k].class = "reply"
    => done[k] = 1 \/ \E c \in Calls: Posting(call[c], k)

\* The hand that settled a draft keeps it, step by step, until it is posted; only a fault takes it away.
LEMMA StepDrafts ==
  ASSUME YesInv, DraftsInHand, [Next]_vars
  PROVE  DraftsInHand'
<1> SUFFICES ASSUME faults' = 0, NEW k \in Cards, card'[k].state = "approved", card'[k].class = "reply"
             PROVE  done'[k] = 1 \/ \E c \in Calls: Posting(call'[c], k)
  BY DEF DraftsInHand, Posting
<1> DEFINE Draft == card[k].state = "approved" /\ card[k].class = "reply"
           Goal  == done'[k] = 1 \/ \E c \in Calls: Posting(call'[c], k)
<1>0. TypeOK /\ faults \in Nat
  BY DEF YesInv, TypeOK
<1>1. ASSUME Draft, faults = 0, UNCHANGED done, NEW c \in Calls, \A d \in Calls \ {c}: call'[d] = call[d],
             Posting(call[c], k) => Posting(call'[c], k)
      PROVE  Goal
  BY <1>1 DEF DraftsInHand
<1>2. ASSUME NEW class, PutApproval(class) PROVE Draft
  BY <1>0, <1>2 DEF PutApproval, NextCard, TypeOK
<1>3. ASSUME NEW j \in Cards, NEW state, Settled(j, state), state # "approved" \/ j # k PROVE Draft
  BY <1>0, <1>3 DEF Settled, TypeOK, Rows
<1>4. ASSUME NEW j \in Cards, card' = [card EXCEPT ![j].spent = TRUE] PROVE Draft
  BY <1>0, <1>4 DEF TypeOK, Rows
<1>5. UNCHANGED card => Draft
  OBVIOUS
<1>6. ASSUME NEW ok \in BOOLEAN, FaultUnless(ok) PROVE ok /\ faults = 0
  BY <1>0, <1>6 DEF FaultUnless
<1>7. ASSUME NEW c \in Calls, NEW b, call' = [call EXCEPT ![c] = b] PROVE \A d \in Calls \ {c}: call'[d] = call[d]
  BY <1>0, <1>7 DEF TypeOK
<1>8. ASSUME NEW c \in Calls, Arrive(c) PROVE Goal
  <2>1. CASE call[c].pc = "idle"
    <3>1. /\ faults = 0 /\ UNCHANGED done /\ ~Posting(call[c], k)
          /\ (UNCHANGED card \/ \E class \in Raised: PutApproval(class))
      BY <1>8, <2>1 DEF Arrive, Request, StatusRead, DecideRead, GateList, GrantRead, RunEnds, acts, Posting
    <3>2. call' = call \/ \E b: call' = [call EXCEPT ![c] = b]
      BY <1>8 DEF Arrive, Request, StatusRead, DecideRead, GateList, GrantRead, RunEnds
    <3>3. \A d \in Calls \ {c}: call'[d] = call[d]
      BY <1>7, <3>2
    <3> QED
      BY <1>1, <1>2, <3>1, <3>3
  <2>2. call[c] = Idle
    BY <1>8 DEF Arrive, Request, StatusRead, DecideRead, GateList, GrantRead, RunEnds, Tool, Free
  <2> QED
    BY <2>1, <2>2 DEF Idle
<1>9. ASSUME NEW c \in Calls, Continue(c) PROVE Goal
  <2>0. Informed(call[c]) /\ (Holds(call[c]) => done[call[c].card] = 0)
    BY DEF YesInv, Spending
  <2>1. ASSUME NEW ok \in BOOLEAN, Ask(c, ok) \/ RunDelivers(c, ok) PROVE Goal
    <3>1. faults = 0 /\ UNCHANGED done /\ ~Posting(call[c], k) /\ (UNCHANGED card \/ \E class: PutApproval(class))
      BY <1>6, <2>1 DEF Ask, RunDelivers, acts, Posting
    <3>2. \A d \in Calls \ {c}: call'[d] = call[d]
      BY <1>7, <2>1 DEF Ask, RunDelivers, Return, Goto
    <3> QED
      BY <1>1, <1>2, <3>1, <3>2
  <2>2. ASSUME NEW ok \in BOOLEAN, StatusExpire(c, ok) PROVE Goal
    <3>1. faults = 0 /\ UNCHANGED done /\ ~Posting(call[c], k) /\ call[c].card \in Cards
          /\ (UNCHANGED card \/ Settled(call[c].card, "expired"))
      BY <1>6, <2>0, <2>2 DEF StatusExpire, acts, Posting, Informed
    <3>2. \A d \in Calls \ {c}: call'[d] = call[d]
      BY <1>7, <2>2 DEF StatusExpire, Return, Goto
    <3> QED
      BY <1>1, <1>3, <3>1, <3>2
  <2>3. ASSUME NEW ok \in BOOLEAN, DecideSettle(c, ok) PROVE Goal
    <3> DEFINE settled == IF call[c].yes THEN "approved" ELSE "denied"
    <3>1. faults = 0 /\ UNCHANGED done /\ ~Posting(call[c], k) /\ call[c].card \in Cards /\ call[c].op = "decide"
      BY <1>6, <2>0, <2>3 DEF DecideSettle, acts, Posting, Informed
    <3>2. \A d \in Calls \ {c}: call'[d] = call[d]
      BY <1>7, <2>3 DEF DecideSettle, Return, Goto
    <3>3. CASE UNCHANGED card
      BY <1>1, <3>1, <3>2, <3>3
    <3>4. CASE Settled(call[c].card, settled) /\ Goto(c, "look")
      <4>1. CASE call[c].card = k /\ call[c].yes
        BY <3>1, <3>4, <4>1, GotoFrame DEF Posting
      <4>2. CASE ~(call[c].card = k /\ call[c].yes)
        BY <1>1, <1>3, <3>1, <3>2, <3>4, <4>2
      <4> QED
        BY <4>1, <4>2
    <3> QED
      BY <2>3, <3>3, <3>4 DEF DecideSettle
  <2>4. ASSUME faults = 0, UNCHANGED <<card, done>>,
               \/ ~OwesReply(call[c]) /\ \A d \in Calls \ {c}: call'[d] = call[d]
               \/ Goto(c, "unblock") \/ Goto(c, "reply")
        PROVE  Goal
    <3>1. CASE ~OwesReply(call[c]) /\ \A d \in Calls \ {c}: call'[d] = call[d]
      BY <1>1, <2>4, <3>1 DEF Posting, OwesReply
    <3>2. ASSUME NEW pc \in {"unblock", "reply"}, Goto(c, pc) PROVE Goal
      <4>1. call'[c].pc = pc /\ call'[c].op = call[c].op /\ call'[c].card = call[c].card
            /\ call'[c].yes = call[c].yes /\ \A d \in Calls \ {c}: call'[d] = call[d]
        BY <3>2, GotoFrame
      <4> QED
        BY <1>1, <2>4, <3>2, <4>1 DEF Posting
    <3> QED
      BY <2>4, <3>1, <3>2
  <2>5. ASSUME NEW ok \in BOOLEAN, SettledLook(c, ok) PROVE Goal
    <3>1. ok /\ faults = 0 /\ UNCHANGED <<card, done>>
      BY <1>6, <2>5 DEF SettledLook, acts
    <3>2. \/ ~OwesReply(call[c]) /\ Return(c)
          \/ Goto(c, "unblock") \/ Goto(c, "reply")
      BY <2>5, <3>1 DEF SettledLook
    <3> QED
      BY <1>7, <2>4, <3>1, <3>2 DEF Return
  <2>6. CASE SettledUnblock(c)
    <3>1. faults = 0 /\ UNCHANGED <<card, done>> /\ ((~OwesReply(call[c]) /\ Return(c)) \/ Goto(c, "reply"))
      BY <2>6 DEF SettledUnblock, acts
    <3> QED
      BY <1>7, <2>4, <3>1 DEF Return
  <2>7. ASSUME NEW ok \in BOOLEAN, DecideReply(c, ok) PROVE Goal
    <3>1. /\ ok /\ faults = 0 /\ UNCHANGED card /\ call[c].card \in Cards /\ done[call[c].card] = 0
          /\ done' = [done EXCEPT ![call[c].card] = @ + 1]
      BY <1>6, <2>0, <2>7 DEF DecideReply, Acted, Informed
    <3>2. CASE call[c].card = k
      BY <1>0, <3>1, <3>2 DEF TypeOK
    <3>3. CASE call[c].card # k
      <4>1. \A d \in Calls \ {c}: call'[d] = call[d]
        BY <1>7, <2>7 DEF DecideReply, Acted, Return
      <4>2. done'[k] = done[k] /\ ~Posting(call[c], k)
        BY <1>0, <3>1, <3>3 DEF TypeOK, Posting
      <4> QED
        BY <3>1, <4>1, <4>2 DEF DraftsInHand
    <3> QED
      BY <3>2, <3>3
  <2>8. ASSUME NEW ok \in BOOLEAN, Act(c, ok) PROVE Goal
    <3>1. /\ ok /\ faults = 0 /\ UNCHANGED card /\ call[c].card \in Cards /\ done[call[c].card] = 0
          /\ done' = [done EXCEPT ![call[c].card] = @ + 1]
      BY <1>6, <2>0, <2>8 DEF Act, Acted, Informed, Holds
    <3>2. CASE call[c].card = k
      BY <1>0, <3>1, <3>2 DEF TypeOK
    <3>3. CASE call[c].card # k
      <4>1. \A d \in Calls \ {c}: call'[d] = call[d]
        BY <1>7, <2>8 DEF Act, Acted, Return
      <4>2. done'[k] = done[k] /\ ~Posting(call[c], k)
        BY <1>0, <3>1, <3>3 DEF TypeOK, Posting
      <4> QED
        BY <3>1, <4>1, <4>2 DEF DraftsInHand
    <3> QED
      BY <3>2, <3>3
  <2>9. ASSUME NEW ok \in BOOLEAN, NEW j \in Cards, Consume(c, j, ok) PROVE Goal
    <3>1. faults = 0 /\ UNCHANGED done /\ ~Posting(call[c], k)
          /\ (UNCHANGED card \/ card' = [card EXCEPT ![j].spent = TRUE])
      BY <1>6, <2>9 DEF Consume, acts, Posting
    <3>2. \A d \in Calls \ {c}: call'[d] = call[d]
      BY <1>0, <2>9 DEF Consume, TypeOK
    <3> QED
      BY <1>1, <1>4, <3>1, <3>2
  <2>10. CASE Verdict(c) \/ RunFinishes(c)
    <3>1. faults = 0 /\ UNCHANGED <<card, done>> /\ ~Posting(call[c], k)
      BY <2>10 DEF Verdict, RunFinishes, acts, Posting
    <3>2. \A d \in Calls \ {c}: call'[d] = call[d]
      BY <1>0, <2>10 DEF Verdict, RunFinishes, Return, TypeOK
    <3> QED
      BY <1>1, <3>1, <3>2
  <2> QED
    BY <1>9, <2>1, <2>2, <2>3, <2>5, <2>6, <2>7, <2>8, <2>9, <2>10 DEF Continue
<1>10. ASSUME NEW c \in Calls, Crash(c) PROVE Goal
  BY <1>6, <1>10 DEF Crash
<1>11. CASE UNCHANGED <<card, call, done, faults>>
  BY <1>11 DEF DraftsInHand
<1>12. ASSUME NEW j \in Cards, Lapse(j) PROVE Goal
  BY <1>11, <1>12 DEF Lapse, acts
<1>13. CASE UNCHANGED vars
  BY <1>11, <1>13 DEF vars, acts
<1> QED
  BY <1>8, <1>9, <1>10, <1>12, <1>13 DEF Next

\* A draft the invoker approved is posted (DecideApproval): for any number of calls, and however polls, gates and
\* the end of the run fall between, no call that settled it returns short of the send without a fault.
THEOREM RepliesArePosted == Spec => []ApprovedReplyIsPosted
<1>1. Init => DraftsInHand
  BY DEF Init, DraftsInHand, NoRow
<1>2. YesInv /\ DraftsInHand /\ [Next]_vars => DraftsInHand'
  BY StepDrafts
<1>3. DraftsInHand => ApprovedReplyIsPosted
  BY DEF DraftsInHand, ApprovedReplyIsPosted, Posting
<1> QED
  BY <1>1, <1>2, <1>3, YesCorrect, PTL DEF Spec
=============================================================================
