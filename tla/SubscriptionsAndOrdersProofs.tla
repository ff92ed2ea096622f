----------------------- MODULE SubscriptionsAndOrdersProofs -----------------------
(***************************************************************************)
(* Machine-checked facts about Subscriptions, for any number of users,     *)
(* instances, sockets and changes of membership; and about StandingOrders, *)
(* for any number of instances, requests and firings and any interval.     *)
(***************************************************************************)
EXTENDS Subscriptions, StandingOrders, FiniteSetTheorems, TLAPS

-----------------------------------------------------------------------------
(* The registered sockets of a user *)

\* Taking a socket out of the list adds none to it,
LEMMA WithoutFact ==
  ASSUME NEW q \in Seq(Socks), NEW s
  PROVE  /\ Without(q, s) \in Seq(Socks)
         /\ ToSet(Without(q, s)) \subseteq ToSet(q)
<1>1. CASE \E k \in DOMAIN q : q[k] = s
  <2> DEFINE k == CHOOSE k \in DOMAIN q : q[k] = s
             r == Without(q, s)
  <2>1. k \in 1..Len(q)
    BY <1>1
  <2>2. r = SubSeq(q, 1, k-1) \o SubSeq(q, k+1, Len(q))
    BY <1>1 DEF Without, RemoveAt
  <2> HIDE DEF k, r
  <2>3. SubSeq(q, 1, k-1) \in Seq(Socks) /\ SubSeq(q, k+1, Len(q)) \in Seq(Socks)
    BY <2>1
  <2>4. r \in Seq(Socks)
    BY <2>2, <2>3
  <2>5. ASSUME NEW j \in 1..Len(r) PROVE \E m \in 1..Len(q) : r[j] = q[m]
    <3> DEFINE a == SubSeq(q, 1, k-1)
               b == SubSeq(q, k+1, Len(q))
    <3>1. Len(a) = k-1 /\ Len(b) = Len(q) - k
      BY <2>1
    <3>2. /\ \A m \in 1..(k-1) : a[m] = q[m]
          /\ \A m \in 1..(Len(q)-k) : b[m] = q[k+m]
      <4>1. \A m \in 1..(k-1) : a[m] = q[m]
        BY <2>1, SMTT(30)
      <4>2. \A m \in 1..(Len(q)-k) : b[m] = q[k+m]
        BY <2>1, SMTT(30)
      <4> QED
        BY <4>1, <4>2
    <3>3. a \in Seq(Socks) /\ b \in Seq(Socks) /\ r = a \o b
      BY <2>2, <2>3
    <3> HIDE DEF a, b
    <3>4. CASE j <= k-1
      BY <2>1, <3>1, <3>2, <3>3, <3>4
    <3>5. CASE j > k-1
      <4>1. j - (k-1) \in 1..(Len(q)-k) /\ k + (j-(k-1)) \in 1..Len(q)
        BY <2>1, <3>1, <3>3, <3>5
      <4>2. r[j] = b[j - (k-1)]
        BY <2>1, <3>1, <3>3, <3>5
      <4> QED
        BY <3>2, <4>1, <4>2
    <3> QED
      BY <2>1, <3>4, <3>5
  <2> QED
    BY <2>4, <2>5 DEF ToSet, r
<1>2. CASE ~ \E k \in DOMAIN q : q[k] = s
  BY <1>2 DEF Without
<1> QED
  BY <1>1, <1>2

\* and registering one adds that one only, whatever the cap evicts.
LEMMA KeptFact ==
  ASSUME NEW q \in Seq(Socks), NEW s \in Socks
  PROVE  /\ Kept(Append(q, s)) \in Seq(Socks)
         /\ ToSet(Kept(Append(q, s))) \subseteq ToSet(q) \cup {s}
<1> DEFINE a == Append(q, s)
<1>1. a \in Seq(Socks) /\ a # <<>> /\ \A j \in 1..Len(a) : a[j] = s \/ (j \in 1..Len(q) /\ a[j] = q[j])
  OBVIOUS
<1>2. Tail(a) \in Seq(Socks) /\ \A j \in 1..Len(Tail(a)) : Tail(a)[j] = a[j+1] /\ j+1 \in 1..Len(a)
  BY <1>1
<1> HIDE DEF a
<1>3. Kept(a) \in Seq(Socks) /\ \A j \in 1..Len(Kept(a)) : \E m \in 1..Len(a) : Kept(a)[j] = a[m]
  <2>1. CASE Kept(a) = a
    BY <1>1, <2>1
  <2>2. CASE Kept(a) = Tail(a)
    <3> DEFINE t == Tail(a)
    <3>1. t \in Seq(Socks) /\ \A j \in 1..Len(t) : t[j] = a[j+1] /\ j+1 \in 1..Len(a)
      BY <1>2
    <3>2. Kept(a) = t
      BY <2>2
    <3> HIDE DEF t
    <3> QED
      BY <3>1, <3>2
  <2> QED
    BY <2>1, <2>2 DEF Kept
<1>4. ASSUME NEW j \in 1..Len(Kept(a)) PROVE Kept(a)[j] \in ToSet(q) \cup {s}
  <2>1. PICK m \in 1..Len(a) : Kept(a)[j] = a[m]
    BY <1>3
  <2> QED
    BY <2>1, <1>1 DEF ToSet
<1> QED
  BY <1>3, <1>4 DEF a, ToSet

-----------------------------------------------------------------------------
(* The invariant *)

\* The types the argument needs, and who a call or a socket belongs to.
Conn == [pc : {"none", "registered", "listed", "up", "leaving"}, user : Topics,
         inst : Instances \cup {Channel}, listed : BOOLEAN, read : BOOLEAN]
Call == [pc : {"idle", "asked", "written", "applied"}, user : Topics, add : BOOLEAN,
         inst : Instances \cup {Channel}]

Frame == [user : Users, add : BOOLEAN]

Shape ==
  /\ op \in [Ops -> Call]
  /\ \A o \in Ops : op[o].pc # "idle" => op[o].user \in Users /\ op[o].inst \in Instances
  /\ sock \in [Socks -> Conn]
  /\ \A s \in Socks : sock[s].pc # "none" => sock[s].user \in Users /\ sock[s].inst \in Instances
  /\ \A s \in Socks : (sock[s].listed => sock[s].read) /\ (sock[s].pc \in {"none", "registered"} => ~sock[s].read)
  /\ clients \in [Instances -> [Users -> Seq(Socks)]]
  /\ subs \in [Instances -> SUBSET (Users \X Topics)]
  /\ upstream \in [Instances -> SUBSET Topics]
  /\ DOMAIN pending = Instances
  /\ frames \in [Instances -> Seq(Frame)]

\* What Redis is about to send an instance once the command has arrived.
After(i, c) == IF c.on THEN upstream[i] \cup c.topics ELSE upstream[i] \ c.topics

\* An instance has one command on its way at most, and upstream is what the
\* maps ask for, once that command has arrived.
InOrder(i) ==
  \/ pending[i] = {} /\ upstream[i] = Heard(subs[i])
  \/ \E c : pending[i] = {c} /\ After(i, c) = Heard(subs[i]) /\ c.topics \subseteq Topics

UpstreamInv == \A i \in Instances : InOrder(i)

\* A change of the maps that only adds, or only takes away, makes one command,
\* and none is made while one is on its way.
LEMMA GrowOrShrink ==
  ASSUME Shape, UpstreamInv, NEW i \in Instances, NEW rel \in SUBSET (Users \X Topics), NEW by,
         rel \subseteq subs[i] \/ subs[i] \subseteq rel, Becomes(i, rel, by)
  PROVE  /\ UpstreamInv'
         /\ subs' \in [Instances -> SUBSET (Users \X Topics)]
         /\ upstream' \in [Instances -> SUBSET Topics]
         /\ DOMAIN pending' = Instances
<1> DEFINE on  == Heard(rel) \ Heard(subs[i])
           off == Heard(subs[i]) \ Heard(rel)
<1>1. pending[i] = {} /\ upstream[i] = Heard(subs[i])
  BY DEF Becomes, SubMuFree, UpstreamInv, InOrder
<1>2. /\ subs' = [subs EXCEPT ![i] = rel] /\ upstream' = upstream
      /\ pending' = [pending EXCEPT ![i] = @ \cup (IF on  = {} THEN {} ELSE {[by |-> by, on |-> TRUE,  topics |-> on]})
                                             \cup (IF off = {} THEN {} ELSE {[by |-> by, on |-> FALSE, topics |-> off]})]
  BY DEF Becomes
<1>3. Heard(rel) \subseteq Topics /\ Heard(subs[i]) \subseteq Topics
  BY DEF Heard, Shape
<1>4. on = {} \/ off = {}
  BY DEF Heard
<1>5. ASSUME NEW j \in Instances, j # i PROVE InOrder(j)'
  <2>1. InOrder(j) /\ pending'[j] = pending[j] /\ subs'[j] = subs[j] /\ upstream'[j] = upstream[j]
    BY <1>2, <1>5 DEF Shape, UpstreamInv
  <2> QED
    BY <2>1 DEF InOrder, After
<1>6. subs'[i] = rel /\ upstream'[i] = Heard(subs[i])
  BY <1>1, <1>2 DEF Shape
<1>7. InOrder(i)'
  <2>1. CASE on = {} /\ off = {}
    <3>1. pending'[i] = {} /\ Heard(rel) = Heard(subs[i])
      BY <1>1, <1>2, <2>1 DEF Shape
    <3> QED
      BY <3>1, <1>6 DEF InOrder
  <2>2. CASE on # {} /\ off = {}
    <3> DEFINE c == [by |-> by, on |-> TRUE, topics |-> on]
    <3>1. pending'[i] = {c}
      BY <1>1, <1>2, <2>2 DEF Shape
    <3>2. Heard(subs[i]) \cup on = Heard(rel)
      BY <2>2
    <3> HIDE DEF on, off
    <3>3. c.on /\ c.topics = on
      OBVIOUS
    <3>4. upstream'[i] \cup c.topics = Heard(subs'[i]) /\ c.topics \subseteq Topics
      BY <3>2, <3>3, <1>3, <1>6 DEF on
    <3> HIDE DEF c
    <3> QED
      BY <3>1, <3>3, <3>4 DEF InOrder, After
  <2>3. CASE on = {} /\ off # {}
    <3> DEFINE c == [by |-> by, on |-> FALSE, topics |-> off]
    <3>1. pending'[i] = {c}
      BY <1>1, <1>2, <2>3 DEF Shape
    <3>2. Heard(subs[i]) \ off = Heard(rel)
      BY <2>3
    <3> HIDE DEF on, off
    <3>3. ~c.on /\ c.topics = off
      OBVIOUS
    <3>4. upstream'[i] \ c.topics = Heard(subs'[i]) /\ c.topics \subseteq Topics
      BY <3>2, <3>3, <1>3, <1>6 DEF off
    <3> HIDE DEF c
    <3> QED
      BY <3>1, <3>3, <3>4 DEF InOrder, After
  <2> QED
    BY <1>4, <2>1, <2>2, <2>3
<1> HIDE DEF on, off
<1> QED
  BY <1>2, <1>5, <1>7 DEF UpstreamInv, Shape

\* Steps that leave the broker alone.
LEMMA Unmoved ==
  ASSUME UpstreamInv, UNCHANGED broker
  PROVE  UpstreamInv'
  BY DEF UpstreamInv, InOrder, After, broker

\* Subscribing only adds,
LEMMA SubscribeFact ==
  ASSUME Shape, UpstreamInv, NEW i \in Instances, NEW u \in Users, NEW ts \in SUBSET Topics, NEW by,
         SubscribeTo(i, u, ts, by)
  PROVE  /\ UpstreamInv'
         /\ subs' \in [Instances -> SUBSET (Users \X Topics)]
         /\ upstream' \in [Instances -> SUBSET Topics]
         /\ DOMAIN pending' = Instances
         /\ subs' = [subs EXCEPT ![i] = @ \cup ({u} \X ts)]
<1> DEFINE rel == subs[i] \cup ({u} \X ts)
<1>1. rel \in SUBSET (Users \X Topics) /\ subs[i] \subseteq rel
  BY DEF Shape
<1>2. Becomes(i, rel, by)
  BY DEF SubscribeTo
<1> HIDE DEF rel
<1>3. subs' = [subs EXCEPT ![i] = rel]
  BY <1>2 DEF Becomes
<1> QED
  BY <1>1, <1>2, <1>3, GrowOrShrink DEF rel

\* unsubscribing only takes away.
LEMMA UnsubscribeFact ==
  ASSUME Shape, UpstreamInv, NEW i \in Instances, NEW u \in Users, NEW ts \in SUBSET Topics, NEW by,
         UnsubscribeFrom(i, u, ts, by)
  PROVE  /\ UpstreamInv'
         /\ subs' \in [Instances -> SUBSET (Users \X Topics)]
         /\ upstream' \in [Instances -> SUBSET Topics]
         /\ DOMAIN pending' = Instances
         /\ subs' = [subs EXCEPT ![i] = @ \ ({u} \X ts)]
<1> DEFINE rel == subs[i] \ ({u} \X ts)
<1>1. rel \in SUBSET (Users \X Topics) /\ rel \subseteq subs[i]
  BY DEF Shape
<1>2. Becomes(i, rel, by)
  BY DEF UnsubscribeFrom
<1> HIDE DEF rel
<1>3. subs' = [subs EXCEPT ![i] = rel]
  BY <1>2 DEF Becomes
<1> QED
  BY <1>1, <1>2, <1>3, GrowOrShrink DEF rel

-----------------------------------------------------------------------------
\* What is inductive: upstream follows the maps up to the command on its way,
\* and a subscribed socket has its user's topic.
Inv == Shape /\ UpstreamInv /\ UpIsHeard

\* It holds at first.
LEMMA InitInv == Init => Inv
<1> SUFFICES ASSUME Init PROVE Inv
  OBVIOUS
<1>1. Shape
  BY DEF Init, Shape, Conn, Call, NoOp, NoSock, Topics
<1>2. \A i \in Instances : pending[i] = {} /\ upstream[i] = {} /\ subs[i] = {}
  BY DEF Init
<1>3. UpstreamInv
  BY <1>2 DEF UpstreamInv, InOrder, Heard
<1>4. UpIsHeard
  BY DEF Init, UpIsHeard, NoSock
<1> QED
  BY <1>1, <1>3, <1>4 DEF Inv

\* Subscriptions that only grow, or lose no user's own topic, around sockets
\* that stay as they are.
LEMMA StaysHeard ==
  ASSUME Shape, UpIsHeard, UNCHANGED <<sock, clients>>,
         \A i \in Instances : \A u \in Users : <<u, u>> \in subs[i] => <<u, u>> \in subs'[i]
  PROVE  UpIsHeard'
  BY DEF Shape, UpIsHeard, Registered

\* Redis carries out the command.
LEMMA CommandInv ==
  ASSUME Inv, NEW i \in Instances, Command(i) PROVE Inv'
<1> USE DEF Inv
<1>1. PICK c \in pending[i] :
        /\ pending' = [pending EXCEPT ![i] = @ \ {c}]
        /\ upstream' = [upstream EXCEPT ![i] = IF c.on THEN @ \cup c.topics ELSE @ \ c.topics]
  BY DEF Command
<1>2. pending[i] = {c} /\ After(i, c) = Heard(subs[i]) /\ c.topics \subseteq Topics
  BY <1>1 DEF UpstreamInv, InOrder
<1>3. UNCHANGED <<members, op, sock, clients, subs, frames>>
  BY DEF Command
<1>4. InOrder(i)'
  BY <1>1, <1>2, <1>3 DEF InOrder, After, Shape
<1>5. ASSUME NEW j \in Instances, j # i PROVE InOrder(j)'
  <2>1. InOrder(j) /\ pending'[j] = pending[j] /\ upstream'[j] = upstream[j]
    BY <1>1, <1>5 DEF UpstreamInv, Shape
  <2> QED
    BY <2>1, <1>3 DEF InOrder, After
<1>6. Shape'
  <2>1. upstream' \in [Instances -> SUBSET Topics]
    BY <1>1, <1>2 DEF Shape
  <2>2. DOMAIN pending' = Instances
    BY <1>1 DEF Shape
  <2> QED
    BY <2>1, <2>2, <1>3 DEF Shape
<1>7. UpIsHeard'
  BY <1>3, StaysHeard
<1> QED
  BY <1>4, <1>5, <1>6, <1>7 DEF UpstreamInv

\* The first frame, and the others.
LEMMA HeadTail ==
  ASSUME NEW S, NEW q \in Seq(S), q # <<>>
  PROVE  Head(q) \in S /\ Tail(q) \in Seq(S)
  OBVIOUS

\* A user's own topic is not the channel.
LEMMA OwnTopicKept ==
  ASSUME Shape, NEW i \in Instances, NEW u \in Users,
         \/ subs' = [subs EXCEPT ![i] = @ \cup ({u} \X {Channel})]
         \/ subs' = [subs EXCEPT ![i] = @ \ ({u} \X {Channel})]
  PROVE  \A j \in Instances : \A v \in Users : <<v, v>> \in subs[j] => <<v, v>> \in subs'[j]
<1> TAKE j \in Instances
<1> TAKE v \in Users
<1>1. <<v, v>> \notin {u} \X {Channel}
  BY ConstantsAssumption DEF ConstantsAssumption
<1> QED
  BY <1>1, ZenonT(30) DEF Shape

\* The channel is a topic.
LEMMA ChannelTopic == {Channel} \in SUBSET Topics
  BY DEF Topics

\* A control frame is applied.
LEMMA ControlInv ==
  ASSUME Inv, NEW i \in Instances, ApplyControl(i) PROVE Inv'
<1> USE DEF Inv
<1> DEFINE f == Head(frames[i])
<1>1. frames[i] # <<>> /\ frames[i] \in Seq(Frame)
  BY DEF ApplyControl, Shape
<1>2. f \in Frame /\ Tail(frames[i]) \in Seq(Frame)
  BY <1>1, HeadTail
<1>3. /\ IF f.add THEN SubscribeTo(i, f.user, {Channel}, i) ELSE UnsubscribeFrom(i, f.user, {Channel}, i)
      /\ frames' = [frames EXCEPT ![i] = Tail(@)]
      /\ UNCHANGED <<op, sock, clients>>
  BY DEF ApplyControl
<1> HIDE DEF f
<1>4. f.user \in Users
  BY <1>2 DEF Frame
<1>5. /\ UpstreamInv' /\ subs' \in [Instances -> SUBSET (Users \X Topics)]
      /\ upstream' \in [Instances -> SUBSET Topics] /\ DOMAIN pending' = Instances
      /\ \/ subs' = [subs EXCEPT ![i] = @ \cup ({f.user} \X {Channel})]
         \/ subs' = [subs EXCEPT ![i] = @ \ ({f.user} \X {Channel})]
  <2>1. CASE f.add
    <3>1. SubscribeTo(i, f.user, {Channel}, i)
      BY <1>3, <1>4, <2>1
    <3>2. /\ UpstreamInv' /\ subs' \in [Instances -> SUBSET (Users \X Topics)]
          /\ upstream' \in [Instances -> SUBSET Topics] /\ DOMAIN pending' = Instances
          /\ subs' = [subs EXCEPT ![i] = @ \cup ({f.user} \X {Channel})]
      BY <1>4, <3>1, ChannelTopic, SubscribeFact, Zenon
    <3> QED
      BY <3>2
  <2>2. CASE ~f.add
    <3>1. UnsubscribeFrom(i, f.user, {Channel}, i)
      BY <1>3, <1>4, <2>2
    <3>2. /\ UpstreamInv' /\ subs' \in [Instances -> SUBSET (Users \X Topics)]
          /\ upstream' \in [Instances -> SUBSET Topics] /\ DOMAIN pending' = Instances
          /\ subs' = [subs EXCEPT ![i] = @ \ ({f.user} \X {Channel})]
      BY <1>4, <3>1, ChannelTopic, UnsubscribeFact, Zenon
    <3> QED
      BY <3>2
  <2> QED
    BY <2>1, <2>2
<1>6. frames' \in [Instances -> Seq(Frame)]
  BY <1>2, <1>3 DEF Shape
<1>7. Shape'
  BY <1>3, <1>5, <1>6 DEF Shape
<1>8. UpIsHeard'
  BY <1>3, <1>4, <1>5, OwnTopicKept, StaysHeard
<1> QED
  BY <1>5, <1>7, <1>8

\* Steps of a call that leave the broker alone.
LEMMA ChangeInv ==
  ASSUME Inv, NEW o \in Ops, Ask(o) \/ WriteRow(o) \/ PublishFrame(o) \/ FrameLost(o)
  PROVE  Inv'
<1> USE DEF Inv
<1>1. UNCHANGED <<sock, clients, broker>>
  BY DEF Ask, WriteRow, PublishFrame, FrameLost, broker
<1>2. UpstreamInv' /\ UpIsHeard'
  BY <1>1, Unmoved, StaysHeard DEF broker
<1>3. /\ op' \in [Ops -> Call]
      /\ \A p \in Ops : op'[p].pc # "idle" => op'[p].user \in Users /\ op'[p].inst \in Instances
  <2>1. NoOp \in Call /\ NoOp.pc = "idle"
    BY DEF NoOp, Call, Topics
  <2>2. CASE Ask(o)
    <3>1. PICK u \in Users, i \in Instances, add \in BOOLEAN :
            op' = [op EXCEPT ![o] = [pc |-> "asked", user |-> u, add |-> add, inst |-> i]]
      BY <2>2 DEF Ask
    <3> QED
      BY <3>1 DEF Shape, Call, Topics
  <2>3. CASE op' = [op EXCEPT ![o] = NoOp]
    BY <2>1, <2>3 DEF Shape
  <2>4. CASE op' = [op EXCEPT ![o].pc = "written"] /\ op[o].pc = "asked"
    BY <2>4 DEF Shape, Call
  <2> QED
    BY <2>2, <2>3, <2>4 DEF WriteRow, PublishFrame, FrameLost
<1>4. frames' \in [Instances -> Seq(Frame)]
  <2>1. CASE PublishFrame(o)
    <3> DEFINE f == [user |-> op[o].user, add |-> op[o].add]
    <3>1. f \in Frame
      BY <2>1 DEF PublishFrame, Shape, Call, Frame
    <3>2. frames' = [i \in Instances |-> IF i \in Told(op[o].user) THEN Append(frames[i], f) ELSE frames[i]]
      BY <2>1 DEF PublishFrame
    <3> HIDE DEF f
    <3>3. \A i \in Instances : frames[i] \in Seq(Frame) /\ Append(frames[i], f) \in Seq(Frame)
      BY <3>1 DEF Shape
    <3> QED
      BY <3>2, <3>3
  <2> QED
    BY <2>1 DEF Ask, WriteRow, FrameLost, Shape
<1> QED
  BY <1>1, <1>2, <1>3, <1>4 DEF Shape, broker

\* A call applies its change on its own instance.
LEMMA ApplyInv ==
  ASSUME Inv, NEW o \in Ops, ApplyHere(o) PROVE Inv'
<1> USE DEF Inv
<1> DEFINE c == op[o]
<1>1. c.user \in Users /\ c.inst \in Instances /\ c \in Call
  BY DEF ApplyHere, Shape
<1>2. /\ IF c.add THEN SubscribeTo(c.inst, c.user, {Channel}, o) ELSE UnsubscribeFrom(c.inst, c.user, {Channel}, o)
      /\ op' = [op EXCEPT ![o].pc = "applied"]
      /\ UNCHANGED <<sock, clients, frames>>
  BY DEF ApplyHere
<1> HIDE DEF c
<1>3. /\ UpstreamInv' /\ subs' \in [Instances -> SUBSET (Users \X Topics)]
      /\ upstream' \in [Instances -> SUBSET Topics] /\ DOMAIN pending' = Instances
      /\ \/ subs' = [subs EXCEPT ![c.inst] = @ \cup ({c.user} \X {Channel})]
         \/ subs' = [subs EXCEPT ![c.inst] = @ \ ({c.user} \X {Channel})]
  <2>1. CASE c.add
    <3>1. SubscribeTo(c.inst, c.user, {Channel}, o)
      BY <1>1, <1>2, <2>1
    <3>2. /\ UpstreamInv' /\ subs' \in [Instances -> SUBSET (Users \X Topics)]
          /\ upstream' \in [Instances -> SUBSET Topics] /\ DOMAIN pending' = Instances
          /\ subs' = [subs EXCEPT ![c.inst] = @ \cup ({c.user} \X {Channel})]
      BY <1>1, <3>1, ChannelTopic, SubscribeFact, Zenon
    <3> QED
      BY <3>2
  <2>2. CASE ~c.add
    <3>1. UnsubscribeFrom(c.inst, c.user, {Channel}, o)
      BY <1>1, <1>2, <2>2
    <3>2. /\ UpstreamInv' /\ subs' \in [Instances -> SUBSET (Users \X Topics)]
          /\ upstream' \in [Instances -> SUBSET Topics] /\ DOMAIN pending' = Instances
          /\ subs' = [subs EXCEPT ![c.inst] = @ \ ({c.user} \X {Channel})]
      BY <1>1, <3>1, ChannelTopic, UnsubscribeFact, Zenon
    <3> QED
      BY <3>2
  <2> QED
    BY <2>1, <2>2
<1>4. /\ op' \in [Ops -> Call]
      /\ \A p \in Ops : op'[p].pc # "idle" => op'[p].user \in Users /\ op'[p].inst \in Instances
  BY <1>1, <1>2 DEF Shape, Call, c
<1>5. Shape'
  BY <1>2, <1>3, <1>4 DEF Shape
<1>6. UpIsHeard'
  BY <1>1, <1>2, <1>3, OwnTopicKept, StaysHeard
<1> QED
  BY <1>3, <1>5, <1>6

\* A socket that comes or goes moves no other one into the list of its user.
LEMMA ClientsFact ==
  ASSUME Inv, NEW s \in Socks, RegisterClient(s) \/ ListChannels(s) \/ ListFails(s) \/ UnregisterClient(s)
  PROVE  /\ clients' \in [Instances -> [Users -> Seq(Socks)]]
         /\ \A i \in Instances : \A u \in Users : ToSet(clients'[i][u]) \subseteq ToSet(clients[i][u]) \cup {s}
<1> USE DEF Inv
<1>1. CASE RegisterClient(s)
  <2>1. PICK u \in Users, i \in Instances :
          clients' = [clients EXCEPT ![i] = [clients[i] EXCEPT ![u] = Kept(Append(clients[i][u], s))]]
    BY <1>1 DEF RegisterClient, Shape
  <2>2. clients[i][u] \in Seq(Socks)
    BY DEF Shape
  <2> QED
    BY <2>1, <2>2, KeptFact DEF Shape
<1>2. CASE ListChannels(s) \/ ListFails(s)
  BY <1>2 DEF ListChannels, ListFails, Shape
<1>3. CASE UnregisterClient(s)
  <2> DEFINE i == sock[s].inst
             u == sock[s].user
  <2>1. i \in Instances /\ u \in Users
    BY <1>3 DEF UnregisterClient, Shape
  <2>2. clients' = [clients EXCEPT ![i] = [clients[i] EXCEPT ![u] = Without(clients[i][u], s)]]
    BY <1>3, <2>1 DEF UnregisterClient, Shape
  <2>3. clients[i][u] \in Seq(Socks)
    BY <2>1 DEF Shape
  <2> HIDE DEF i, u
  <2> QED
    BY <2>1, <2>2, <2>3, WithoutFact DEF Shape
<1> QED
  BY <1>1, <1>2, <1>3 DEF RegisterClient, UnregisterClient

\* Sockets that come, list and go: no other socket becomes registered.
LEMMA SocketInv ==
  ASSUME Inv, NEW s \in Socks, RegisterClient(s) \/ ListChannels(s) \/ ListFails(s) \/ UnregisterClient(s)
  PROVE  Inv'
<1> USE DEF Inv
<1>1. UNCHANGED <<op, broker, frames>>
  BY DEF RegisterClient, ListChannels, ListFails, UnregisterClient
<1>2. UpstreamInv'
  BY <1>1, Unmoved
<1>3. NoSock \in Conn /\ NoSock.pc = "none" /\ ~NoSock.listed /\ ~NoSock.read
  BY DEF NoSock, Conn, Topics
<1>4. /\ sock' \in [Socks -> Conn] /\ sock'[s].pc # "up"
      /\ \A t \in Socks : sock'[t].listed => sock'[t].read
      /\ \A t \in Socks : sock'[t].pc \in {"none", "registered"} => ~sock'[t].read
      /\ \A t \in Socks : sock'[t].pc # "none" => sock'[t].user \in Users /\ sock'[t].inst \in Instances
      /\ \A t \in Socks \ {s} : sock'[t] = sock[t]
  <2>1. CASE RegisterClient(s)
    <3>1. PICK u \in Users, i \in Instances :
            sock' = [sock EXCEPT ![s] = [NoSock EXCEPT !.pc = "registered", !.user = u, !.inst = i]]
      BY <2>1 DEF RegisterClient
    <3> DEFINE c == [NoSock EXCEPT !.pc = "registered", !.user = u, !.inst = i]
    <3>2. c \in Conn /\ c.pc = "registered" /\ c.user = u /\ c.inst = i /\ ~c.listed /\ ~c.read
      BY DEF NoSock, Conn, Topics
    <3> HIDE DEF c
    <3> QED
      BY <3>1, <3>2 DEF Shape, c
  <2>2. CASE ListChannels(s)
    <3> DEFINE l == sock[s].user \in members
               c == [sock[s] EXCEPT !.pc = "listed", !.listed = l, !.read = TRUE]
    <3>1. sock' = [sock EXCEPT ![s] = c] /\ l \in BOOLEAN
      BY <2>2 DEF ListChannels
    <3> HIDE DEF l
    <3>2. c \in Conn /\ c.pc = "listed" /\ c.user = sock[s].user /\ c.inst = sock[s].inst /\ c.read
      <4>1. sock[s] \in Conn
        BY DEF Shape
      <4> QED
        BY <3>1, <4>1 DEF Conn
    <3>3. sock[s].pc # "none"
      BY <2>2 DEF ListChannels
    <3> HIDE DEF c
    <3> QED
      BY <3>1, <3>2, <3>3 DEF Shape
  <2>3. CASE UnregisterClient(s)
    <3>1. sock' = [sock EXCEPT ![s] = [sock[s] EXCEPT !.pc = "leaving"]] \/ sock' = [sock EXCEPT ![s] = NoSock]
      BY <2>3 DEF UnregisterClient
    <3> DEFINE c == [sock[s] EXCEPT !.pc = "leaving"]
    <3>2. /\ c \in Conn /\ c.pc = "leaving" /\ c.user = sock[s].user /\ c.inst = sock[s].inst
          /\ c.listed = sock[s].listed /\ c.read = sock[s].read
      <4>1. sock[s] \in Conn
        BY DEF Shape
      <4> QED
        BY <4>1 DEF Conn
    <3>3. sock[s].pc # "none"
      BY <2>3 DEF UnregisterClient
    <3> HIDE DEF c
    <3>4. CASE sock' = [sock EXCEPT ![s] = c]
      BY <3>2, <3>3, <3>4 DEF Shape
    <3>5. CASE sock' = [sock EXCEPT ![s] = NoSock]
      BY <1>3, <3>5 DEF Shape
    <3> QED
      BY <3>1, <3>4, <3>5 DEF c
  <2>4. CASE ListFails(s)
    <3>1. sock[s].pc = "registered" /\ sock' = [sock EXCEPT ![s] = [sock[s] EXCEPT !.pc = "listed"]]
      BY <2>4 DEF ListFails, Shape
    <3> DEFINE c == [sock[s] EXCEPT !.pc = "listed"]
    <3>2. /\ c \in Conn /\ c.pc = "listed" /\ c.user = sock[s].user /\ c.inst = sock[s].inst
          /\ c.listed = sock[s].listed /\ c.read = sock[s].read
      <4>1. sock[s] \in Conn
        BY DEF Shape
      <4> QED
        BY <4>1 DEF Conn
    <3> HIDE DEF c
    <3> QED
      BY <3>1, <3>2 DEF Shape, c
  <2> QED
    BY <2>1, <2>2, <2>3, <2>4
<1>5. /\ clients' \in [Instances -> [Users -> Seq(Socks)]]
      /\ \A i \in Instances : \A u \in Users : ToSet(clients'[i][u]) \subseteq ToSet(clients[i][u]) \cup {s}
  BY ClientsFact
<1>6. Shape'
  BY <1>1, <1>4, <1>5 DEF Shape, broker
<1>7. UpIsHeard'
  <2> SUFFICES ASSUME NEW t \in Socks, sock'[t].pc = "up", Registered(t)'
               PROVE  <<sock'[t].user, sock'[t].user>> \in subs'[sock'[t].inst]
    BY DEF UpIsHeard
  <2>1. t # s /\ sock'[t] = sock[t]
    BY <1>4
  <2>2. sock[t].inst \in Instances /\ sock[t].user \in Users
    BY <2>1 DEF Shape
  <2>3. Registered(t)
    BY <1>5, <2>1, <2>2, ZenonT(30) DEF Registered
  <2> QED
    BY <1>1, <2>1, <2>3 DEF UpIsHeard, broker
<1> QED
  BY <1>2, <1>6, <1>7

\* A socket subscribes: it has its user's topic from then on.
LEMMA SubscribeInv ==
  ASSUME Inv, NEW s \in Socks, Subscribe(s) PROVE Inv'
<1> USE DEF Inv
<1> DEFINE c  == sock[s]
           ts == {c.user} \cup (IF c.listed THEN {Channel} ELSE {})
<1>1. c.user \in Users /\ c.inst \in Instances /\ c \in Conn
  BY DEF Subscribe, Shape
<1>2. SubscribeTo(c.inst, c.user, ts, s) /\ sock' = [sock EXCEPT ![s].pc = "up"] /\ UNCHANGED <<op, clients, frames>>
  BY DEF Subscribe
<1>3. ts \in SUBSET Topics /\ c.user \in ts
  BY <1>1 DEF Topics
<1> HIDE DEF ts
<1>4. /\ UpstreamInv' /\ subs' \in [Instances -> SUBSET (Users \X Topics)]
      /\ upstream' \in [Instances -> SUBSET Topics] /\ DOMAIN pending' = Instances
      /\ subs' = [subs EXCEPT ![c.inst] = @ \cup ({c.user} \X ts)]
  BY <1>1, <1>2, <1>3, SubscribeFact
<1>5. /\ sock' \in [Socks -> Conn]
      /\ \A t \in Socks : /\ sock'[t].user = sock[t].user /\ sock'[t].inst = sock[t].inst
                         /\ sock'[t].listed = sock[t].listed /\ sock'[t].read = sock[t].read
      /\ \A t \in Socks \ {s} : sock'[t] = sock[t]
  BY <1>1, <1>2 DEF Shape, Conn
<1>6. Shape'
  BY <1>1, <1>2, <1>4, <1>5 DEF Shape
<1>7. <<c.user, c.user>> \in subs'[c.inst]
  BY <1>1, <1>3, <1>4 DEF Shape
<1>8. ASSUME NEW t \in Socks, sock'[t].pc = "up", Registered(t)'
      PROVE  <<sock'[t].user, sock'[t].user>> \in subs'[sock'[t].inst]
  <2>1. CASE t = s
    BY <1>5, <1>7, <2>1
  <2>2. CASE t # s
    <3>1. Registered(t) /\ sock[t].pc = "up"
      BY <1>2, <1>5, <1>8, <2>2 DEF Registered
    <3>2. <<sock[t].user, sock[t].user>> \in subs[sock[t].inst] /\ sock[t].inst \in Instances
      BY <3>1 DEF UpIsHeard, Shape
    <3>3. \A i \in Instances : subs[i] \subseteq subs'[i]
      BY <1>1, <1>4 DEF Shape
    <3> QED
      BY <1>5, <3>2, <3>3
  <2> QED
    BY <2>1, <2>2
<1> QED
  BY <1>4, <1>6, <1>8 DEF UpIsHeard

\* The teardown of a user's last socket: it finds no socket registered, or
\* takes nothing.
LEMMA DropInv ==
  ASSUME Inv, NEW s \in Socks, DropSubscriptions(s) PROVE Inv'
<1> USE DEF Inv
<1> DEFINE i == sock[s].inst
           u == sock[s].user
<1>1. i \in Instances /\ u \in Users
  BY DEF DropSubscriptions, Shape
<1>2. sock' = [sock EXCEPT ![s] = NoSock] /\ UNCHANGED <<op, clients, frames>>
  BY DEF DropSubscriptions
<1>3. IF Reconnected(i, u) THEN UNCHANGED broker ELSE UnsubscribeFrom(i, u, Topics, s)
  BY DEF DropSubscriptions
<1> HIDE DEF i, u
<1>4. /\ UpstreamInv' /\ subs' \in [Instances -> SUBSET (Users \X Topics)]
      /\ upstream' \in [Instances -> SUBSET Topics] /\ DOMAIN pending' = Instances
      /\ subs' = subs \/ (~Reconnected(i, u) /\ subs' = [subs EXCEPT ![i] = @ \ ({u} \X Topics)])
  <2>1. CASE Reconnected(i, u)
    BY <1>3, <2>1, Unmoved DEF broker, Shape
  <2>2. CASE ~Reconnected(i, u)
    BY <1>1, <1>3, <2>2, UnsubscribeFact
  <2> QED
    BY <2>1, <2>2
<1>5. /\ sock' \in [Socks -> Conn] /\ sock'[s].pc = "none"
      /\ \A t \in Socks \ {s} : sock'[t] = sock[t]
      /\ ~sock'[s].listed /\ ~sock'[s].read
  BY <1>2 DEF Shape, Conn, NoSock, Topics
<1>6. Shape'
  <2>1. ASSUME NEW t \in Socks
        PROVE  /\ sock'[t].pc # "none" => sock'[t].user \in Users /\ sock'[t].inst \in Instances
               /\ sock'[t].listed => sock'[t].read
               /\ sock'[t].pc \in {"none", "registered"} => ~sock'[t].read
    BY <1>5 DEF Shape
  <2> QED
    BY <1>2, <1>4, <1>5, <2>1 DEF Shape
<1>7. ASSUME NEW t \in Socks, sock'[t].pc = "up", Registered(t)'
      PROVE  <<sock'[t].user, sock'[t].user>> \in subs'[sock'[t].inst]
  <2>1. t # s /\ sock'[t] = sock[t]
    BY <1>5, <1>7
  <2> DEFINE j == sock[t].inst
             v == sock[t].user
  <2>2. Registered(t) /\ sock[t].pc = "up" /\ j \in Instances /\ v \in Users
    BY <1>2, <1>7, <2>1 DEF Registered, Shape
  <2>3. <<v, v>> \in subs[j] /\ t \in ToSet(clients[j][v])
    BY <2>2 DEF UpIsHeard, Registered
  <2>4. clients[j][v] # <<>>
    BY <2>3 DEF ToSet
  <2> HIDE DEF j, v
  <2>5. <<v, v>> \in subs'[j]
    BY <1>1, <1>4, <2>2, <2>3, <2>4, ZenonT(30) DEF Reconnected, Has, Shape
  <2> QED
    BY <2>1, <2>5 DEF j, v
<1> QED
  BY <1>4, <1>6, <1>7 DEF UpIsHeard

\* Every step keeps the invariant,
LEMMA NextInv == Inv /\ [Next]_vars => Inv'
<1> SUFFICES ASSUME Inv, [Next]_vars PROVE Inv'
  OBVIOUS
<1>1. CASE UNCHANGED vars
  <2>1. UpstreamInv'
    BY <1>1, Unmoved DEF vars, broker, Inv
  <2>2. UpIsHeard'
    BY <1>1, StaysHeard DEF vars, broker, Inv
  <2> QED
    BY <1>1, <2>1, <2>2 DEF Inv, Shape, vars, broker
<1>2. ASSUME NEW i \in Instances, Broker(i) PROVE Inv'
  BY <1>2, CommandInv, ControlInv DEF Broker
<1>3. ASSUME NEW o \in Ops, Change(o) PROVE Inv'
  BY <1>3, ChangeInv, ApplyInv DEF Change
<1>4. ASSUME NEW s \in Socks, Socket(s) PROVE Inv'
  BY <1>4, SocketInv, SubscribeInv, DropInv DEF Socket
<1> QED
  BY <1>1, <1>2, <1>3, <1>4 DEF Next

\* so it always holds.
LEMMA InvAlways == Spec => []Inv
  BY InitInv, NextInv, PTL DEF Spec

\* When no command is on its way, Redis sends an instance exactly the topics that
\* somebody there is subscribed to (broker.go: subMu, Subscribe, Unsubscribe).
THEOREM InOrderUpstream == Spec => []CommandsInOrder
<1>1. Inv => CommandsInOrder
  BY DEF Inv, UpstreamInv, InOrder, CommandsInOrder
<1> QED
  BY <1>1, InvAlways, PTL

\* A subscribed and registered socket keeps its user's own topic, whatever other
\* sockets of the user come and go (broker.go: dropUserSubscriptions).
THEOREM UpHeard == Spec => []UpIsHeard
<1>1. Inv => UpIsHeard
  BY DEF Inv
<1> QED
  BY <1>1, InvAlways, PTL

-----------------------------------------------------------------------------
(* What the frames that have arrived say *)

\* Applying the first frame leaves what they come to,
LEMMA SaysTail ==
  ASSUME NEW q \in Seq(Frame), q # <<>>, NEW u, NEW x, NEW y, NEW b, Says(q, u, x, b),
         IF Head(q).user = u THEN y <=> Head(q).add ELSE y <=> x
  PROVE  Says(Tail(q), u, y, b)
<1> DEFINE t == Tail(q)
<1>1. /\ Len(q) \in Nat \ {0} /\ Len(t) = Len(q) - 1 /\ Head(q) = q[1]
      /\ \A k \in 1..Len(t) : k+1 \in 1..Len(q) /\ t[k] = q[k+1]
  OBVIOUS
<1>2. \A l \in 1..Len(q) : l = 1 \/ (l-1 \in 1..Len(t) /\ t[l-1] = q[l])
  BY <1>1
<1> HIDE DEF t
<1>3. ASSUME NEW k \in 1..Len(t), About(t[k], u), \A l \in 1..Len(t) : l > k => ~About(t[l], u)
      PROVE  t[k].add <=> b
  <2>1. k+1 \in 1..Len(q) /\ About(q[k+1], u) /\ t[k] = q[k+1]
    BY <1>1, <1>3
  <2>2. ASSUME NEW l \in 1..Len(q), l > k+1 PROVE ~About(q[l], u)
    <3>1. l-1 \in 1..Len(t) /\ t[l-1] = q[l] /\ l-1 > k
      BY <1>1, <1>2, <2>2
    <3> QED
      BY <1>3, <3>1
  <2> QED
    BY <2>1, <2>2 DEF Says
<1>4. ASSUME \A k \in 1..Len(t) : ~About(t[k], u) PROVE y <=> b
  <2>1. \A l \in 1..Len(q) : l # 1 => ~About(q[l], u)
    BY <1>2, <1>4
  <2>2. 1 \in 1..Len(q) /\ \A l \in 1..Len(q) : l > 1 => ~About(q[l], u)
    BY <1>1, <2>1
  <2>3. CASE About(q[1], u)
    <3>1. q[1].add <=> b
      BY <2>2, <2>3 DEF Says
    <3> QED
      BY <1>1, <2>3, <3>1 DEF About
  <2>4. CASE ~About(q[1], u)
    <3>1. x <=> b
      BY <2>1, <2>4 DEF Says
    <3> QED
      BY <1>1, <2>4, <3>1 DEF About
  <2> QED
    BY <2>3, <2>4
<1>5. Says(t, u, y, b)
  BY <1>3, <1>4 DEF Says
<1> QED
  BY <1>5 DEF t

\* a frame about the user that arrives has the last word,
LEMMA SaysLast ==
  ASSUME NEW q \in Seq(Frame), NEW f \in Frame, NEW x
  PROVE  Says(Append(q, f), f.user, x, f.add)
<1> DEFINE a == Append(q, f)
<1>1. Len(q) \in Nat /\ Len(a) = Len(q) + 1 /\ a[Len(q) + 1] = f
  OBVIOUS
<1> HIDE DEF a
<1>2. Len(a) \in 1..Len(a) /\ About(a[Len(a)], f.user)
  BY <1>1 DEF About
<1>3. \A k \in 1..Len(a) : (\A l \in 1..Len(a) : l > k => ~About(a[l], f.user)) => k = Len(a)
  BY <1>1, <1>2
<1>4. Says(a, f.user, x, f.add)
  BY <1>1, <1>2, <1>3 DEF Says
<1> QED
  BY <1>4 DEF a

\* one about somebody else has none,
LEMMA SaysElse ==
  ASSUME NEW q \in Seq(Frame), NEW f \in Frame, NEW u, NEW x, NEW b, f.user # u, Says(q, u, x, b)
  PROVE  Says(Append(q, f), u, x, b)
<1> DEFINE a == Append(q, f)
<1>1. /\ Len(q) \in Nat /\ Len(a) = Len(q) + 1 /\ a[Len(q) + 1] = f
      /\ \A k \in 1..Len(q) : a[k] = q[k]
  OBVIOUS
<1> HIDE DEF a
<1>2. \A k \in 1..Len(a) : k \in 1..Len(q) \/ k = Len(q) + 1
  BY <1>1
<1>3. \A k \in 1..Len(q) : k \in 1..Len(a)
  BY <1>1
<1>4. ~About(a[Len(q) + 1], u)
  BY <1>1 DEF About
<1>5. ASSUME NEW k \in 1..Len(a), About(a[k], u), \A l \in 1..Len(a) : l > k => ~About(a[l], u)
      PROVE  a[k].add <=> b
  <2>1. k \in 1..Len(q) /\ a[k] = q[k]
    BY <1>1, <1>2, <1>4, <1>5
  <2>2. \A l \in 1..Len(q) : l > k => ~About(q[l], u)
    BY <1>1, <1>3, <1>5
  <2> QED
    BY <1>5, <2>1, <2>2 DEF Says
<1>6. ASSUME \A k \in 1..Len(a) : ~About(a[k], u) PROVE x <=> b
  BY <1>1, <1>3, <1>6 DEF Says
<1>7. Says(a, u, x, b)
  BY <1>5, <1>6 DEF Says
<1> QED
  BY <1>7 DEF a

\* and a subscription that changes as every frame about the user says, too.
LEMMA SaysAll ==
  ASSUME NEW q, NEW u, NEW x, NEW y, NEW b, \A k \in 1..Len(q) : About(q[k], u) => (q[k].add <=> b),
         (y <=> b) \/ (Says(q, u, x, b) /\ (y <=> x))
  PROVE  Says(q, u, y, b)
  BY DEF Says

-----------------------------------------------------------------------------
(* What an instance comes to *)

\* is kept where neither its frames nor the user's subscription move,
LEMMA ComesSame ==
  ASSUME NEW i, NEW u, NEW b, frames'[i] = frames[i],
         <<u, Channel>> \in subs'[i] <=> <<u, Channel>> \in subs[i], ComesTo(i, u, b)
  PROVE  Says(frames'[i], u, <<u, Channel>> \in subs'[i], b)
  BY DEF ComesTo, Says

\* and a command that waits for its socket still does when nothing it waits for
\* has moved.
LEMMA StillAwaits ==
  ASSUME NEW i, NEW s, NEW u, Awaits(s, i, u), sock'[s] = sock[s], frames'[i] = frames[i],
         upstream'[i] = upstream[i], <<u, Channel>> \in subs'[i] <=> <<u, Channel>> \in subs[i]
  PROVE  Awaits(s, i, u)'
<1>1. Says(frames'[i], u, <<u, Channel>> \in subs'[i], sock[s].listed)
  BY ComesSame DEF Awaits
<1> QED
  BY <1>1 DEF Awaits, ComesTo

\* What an instance must know, it had to know before a step that subscribes nobody to
\* u's topic and brings no socket of u up.
LEMMA KnewBefore ==
  ASSUME NEW i, NEW u, u \in members' <=> u \in members, <<u, u>> \in subs'[i] => <<u, u>> \in subs[i],
         \A s \in Socks : OfUser(s, u)' => OfUser(s, u) /\ sock'[s] = sock[s], MustKnow(i, u)'
  PROVE  MustKnow(i, u)
  BY DEF MustKnow

\* A step that adds no command of u's topic, and moves nothing that those on
\* their way wait for.
LEMMA WayKept ==
  ASSUME NEW u, OnItsWay(u),
         \A i \in Instances : \A c \in pending'[i] : c.on /\ u \in c.topics =>
           /\ c \in pending[i] /\ frames'[i] = frames[i] /\ upstream'[i] = upstream[i]
           /\ <<u, Channel>> \in subs'[i] <=> <<u, Channel>> \in subs[i]
           /\ \A s \in Socks : c.by = s /\ sock[s].inst = i /\ sock[s].pc = "up" => sock'[s] = sock[s]
  PROVE  OnItsWay(u)'
<1> SUFFICES ASSUME NEW i \in Instances, NEW c \in pending'[i], c.on, u \in c.topics
             PROVE  \E s \in Socks : c.by = s /\ Awaits(s, i, u)'
  BY DEF OnItsWay
<1>1. PICK s \in Socks : c.by = s /\ Awaits(s, i, u)
  BY DEF OnItsWay
<1>2. sock'[s] = sock[s]
  BY <1>1 DEF Awaits
<1> QED
  BY <1>1, <1>2, StillAwaits

\* A change of the maps finds no command on the way and makes its own.
LEMMA BecomesFact ==
  ASSUME Shape, UpstreamInv, NEW i \in Instances, NEW rel, NEW by, Becomes(i, rel, by)
  PROVE  /\ pending[i] = {} /\ upstream[i] = Heard(subs[i]) /\ upstream' = upstream
         /\ subs' = [subs EXCEPT ![i] = rel]
         /\ \A j \in Instances : j # i => pending'[j] = pending[j]
         /\ \A c \in pending'[i] : c.on => c.by = by /\ c.topics = Heard(rel) \ Heard(subs[i])
<1> DEFINE on  == Heard(rel) \ Heard(subs[i])
           off == Heard(subs[i]) \ Heard(rel)
           p   == [by |-> by, on |-> TRUE,  topics |-> on]
           m   == [by |-> by, on |-> FALSE, topics |-> off]
<1>1. pending[i] = {} /\ upstream[i] = Heard(subs[i])
  BY DEF Becomes, SubMuFree, UpstreamInv, InOrder
<1>2. /\ upstream' = upstream /\ subs' = [subs EXCEPT ![i] = rel]
      /\ pending' = [pending EXCEPT ![i] = @ \cup (IF on  = {} THEN {} ELSE {p}) \cup (IF off = {} THEN {} ELSE {m})]
  BY DEF Becomes
<1>3. p.by = by /\ p.topics = on /\ ~m.on
  OBVIOUS
<1> HIDE DEF p, m, on, off
<1>4. /\ \A j \in Instances : j # i => pending'[j] = pending[j]
      /\ \A c \in pending'[i] : c = p \/ c = m
  BY <1>1, <1>2 DEF Shape
<1> QED
  BY <1>1, <1>2, <1>3, <1>4 DEF on

\* A subscription asks for its own topics, those that nobody had;
LEMMA AsksFor ==
  ASSUME Shape, UpstreamInv, NEW i \in Instances, NEW v \in Users, NEW ts \in SUBSET Topics, NEW by,
         SubscribeTo(i, v, ts, by)
  PROVE  /\ pending[i] = {} /\ upstream' = upstream /\ subs' = [subs EXCEPT ![i] = @ \cup ({v} \X ts)]
         /\ \A j \in Instances : j # i => pending'[j] = pending[j]
         /\ \A c \in pending'[i] : c.on => c.by = by /\ c.topics \subseteq ts /\ c.topics \cap upstream[i] = {}
         /\ \A c \in pending'[i] : c.on => c.topics \cap Heard(subs[i]) = {}
<1> DEFINE rel == subs[i] \cup ({v} \X ts)
<1>1. Becomes(i, rel, by)
  BY DEF SubscribeTo
<1>2. Heard(rel) \ Heard(subs[i]) \subseteq ts
  BY DEF Heard
<1> HIDE DEF rel
<1>3. /\ pending[i] = {} /\ upstream[i] = Heard(subs[i]) /\ upstream' = upstream
      /\ subs' = [subs EXCEPT ![i] = rel]
      /\ \A j \in Instances : j # i => pending'[j] = pending[j]
      /\ \A c \in pending'[i] : c.on => c.by = by /\ c.topics = Heard(rel) \ Heard(subs[i])
  BY <1>1, BecomesFact
<1> QED
  BY <1>2, <1>3 DEF rel

\* its end asks for none.
LEMMA AsksForNone ==
  ASSUME Shape, UpstreamInv, NEW i \in Instances, NEW v \in Users, NEW ts \in SUBSET Topics, NEW by,
         UnsubscribeFrom(i, v, ts, by)
  PROVE  /\ pending[i] = {} /\ upstream' = upstream /\ subs' = [subs EXCEPT ![i] = @ \ ({v} \X ts)]
         /\ \A j \in Instances : j # i => pending'[j] = pending[j]
         /\ \A c \in pending'[i] : c.on => c.topics = {}
<1> DEFINE rel == subs[i] \ ({v} \X ts)
<1>1. Becomes(i, rel, by)
  BY DEF UnsubscribeFrom
<1>2. Heard(rel) \ Heard(subs[i]) = {}
  BY DEF Heard
<1> HIDE DEF rel
<1>3. /\ pending[i] = {} /\ upstream' = upstream
      /\ subs' = [subs EXCEPT ![i] = rel]
      /\ \A j \in Instances : j # i => pending'[j] = pending[j]
      /\ \A c \in pending'[i] : c.on => c.topics = Heard(rel) \ Heard(subs[i])
  BY <1>1, BecomesFact
<1> QED
  BY <1>2, <1>3 DEF rel

\* The channel joined or left, on one instance, for one user: nobody's own topic
\* is asked for or moves, and nobody else's channel.
LEMMA ChannelMoves ==
  ASSUME Shape, UpstreamInv, NEW i \in Instances, NEW v \in Users, NEW add \in BOOLEAN, NEW by, NEW u \in Users,
         IF add THEN SubscribeTo(i, v, {Channel}, by) ELSE UnsubscribeFrom(i, v, {Channel}, by)
  PROVE  /\ pending[i] = {} /\ upstream' = upstream
         /\ \A j \in Instances : j # i => pending'[j] = pending[j] /\ subs'[j] = subs[j]
         /\ \A c \in pending'[i] : ~(c.on /\ u \in c.topics)
         /\ \A j \in Instances : <<u, u>> \in subs'[j] <=> <<u, u>> \in subs[j]
         /\ IF u = v THEN <<u, Channel>> \in subs'[i] <=> add
                     ELSE <<u, Channel>> \in subs'[i] <=> <<u, Channel>> \in subs[i]
<1>1. u # Channel /\ <<u, u>> \notin {v} \X {Channel} /\ (<<u, Channel>> \in {v} \X {Channel} <=> u = v)
  BY ConstantsAssumption DEF ConstantsAssumption
<1>2. CASE add
  <2>1. /\ pending[i] = {} /\ upstream' = upstream /\ subs' = [subs EXCEPT ![i] = @ \cup ({v} \X {Channel})]
        /\ \A j \in Instances : j # i => pending'[j] = pending[j]
        /\ \A c \in pending'[i] : c.on => c.topics \subseteq {Channel}
    <3> DEFINE ts == {Channel}
    <3>1. SubscribeTo(i, v, ts, by) /\ ts \in SUBSET Topics
      BY <1>2, ChannelTopic
    <3> HIDE DEF ts
    <3>2. /\ pending[i] = {} /\ upstream' = upstream /\ subs' = [subs EXCEPT ![i] = @ \cup ({v} \X ts)]
          /\ \A j \in Instances : j # i => pending'[j] = pending[j]
          /\ \A c \in pending'[i] : c.on => c.by = by /\ c.topics \subseteq ts /\ c.topics \cap upstream[i] = {}
          /\ \A c \in pending'[i] : c.on => c.topics \cap Heard(subs[i]) = {}
      BY <3>1, AsksFor, Zenon
    <3> QED
      BY <3>2 DEF ts
  <2>2. /\ \A j \in Instances : j # i => subs'[j] = subs[j]
        /\ subs'[i] = subs[i] \cup ({v} \X {Channel})
    BY <2>1 DEF Shape
  <2>3. <<u, Channel>> \in subs'[i] <=> u = v \/ <<u, Channel>> \in subs[i]
    BY <1>1, <2>2
  <2>4. \A j \in Instances : <<u, u>> \in subs'[j] <=> <<u, u>> \in subs[j]
    BY <1>1, <2>2
  <2> QED
    BY <1>1, <1>2, <2>1, <2>2, <2>3, <2>4
<1>3. CASE ~add
  <2>1. /\ pending[i] = {} /\ upstream' = upstream /\ subs' = [subs EXCEPT ![i] = @ \ ({v} \X {Channel})]
        /\ \A j \in Instances : j # i => pending'[j] = pending[j]
        /\ \A c \in pending'[i] : c.on => c.topics = {}
    BY <1>3, ChannelTopic, AsksForNone
  <2>2. /\ \A j \in Instances : j # i => subs'[j] = subs[j]
        /\ subs'[i] = subs[i] \ ({v} \X {Channel})
    BY <2>1 DEF Shape
  <2>3. <<u, Channel>> \in subs'[i] <=> u # v /\ <<u, Channel>> \in subs[i]
    BY <1>1, <2>2
  <2>4. \A j \in Instances : <<u, u>> \in subs'[j] <=> <<u, u>> \in subs[j]
    BY <1>1, <2>2
  <2> QED
    BY <1>1, <1>3, <2>1, <2>2, <2>3, <2>4
<1> QED
  BY <1>2, <1>3

-----------------------------------------------------------------------------
(* Steps of the broker and of a change keep a user abreast. *)

\* Redis carries out a command: it was the only one, and is heard now.
LEMMA CommandKeeps ==
  ASSUME Inv, NEW i \in Instances, Command(i), NEW u, Abreast(u)
  PROVE  Abreast(u)'
<1>1. PICK c \in pending[i] :
        /\ pending' = [pending EXCEPT ![i] = @ \ {c}]
        /\ upstream' = [upstream EXCEPT ![i] = IF c.on THEN @ \cup c.topics ELSE @ \ c.topics]
  BY DEF Command
<1>2. UNCHANGED <<members, op, sock, clients, subs, frames>>
  BY DEF Command
<1>3. pending'[i] = {} /\ \A j \in Instances : j # i => pending'[j] = pending[j] /\ upstream'[j] = upstream[j]
  BY <1>1 DEF Inv, UpstreamInv, InOrder, Shape
<1>4. OnItsWay(u)
  BY DEF Abreast
<1>5. OnItsWay(u)'
  BY <1>2, <1>3, <1>4, WayKept
<1> QED
  BY <1>2, <1>5 DEF Abreast, OneChange, HeardOf, Changing, ComesTo, MustKnow, OfUser, Registered

\* A frame is applied: the instance comes to what it came to.
LEMMA ControlKeeps ==
  ASSUME Inv, NEW i \in Instances, ApplyControl(i), NEW u \in Users, Abreast(u)
  PROVE  Abreast(u)'
<1> DEFINE f == Head(frames[i])
<1>1. frames[i] # <<>> /\ frames[i] \in Seq(Frame)
  BY DEF ApplyControl, Inv, Shape
<1>2. f \in Frame
  BY <1>1, HeadTail
<1>3. /\ IF f.add THEN SubscribeTo(i, f.user, {Channel}, i) ELSE UnsubscribeFrom(i, f.user, {Channel}, i)
      /\ frames' = [frames EXCEPT ![i] = Tail(@)]
      /\ UNCHANGED <<members, op, sock, clients>>
  BY DEF ApplyControl
<1>4. /\ frames'[i] = Tail(frames[i])
      /\ \A j \in Instances : j # i => frames'[j] = frames[j]
  BY <1>3 DEF Inv, Shape
<1> HIDE DEF f
<1>5. f.user \in Users /\ f.add \in BOOLEAN
  BY <1>2 DEF Frame
<1>6. Shape /\ UpstreamInv
  BY DEF Inv
<1>7. /\ pending[i] = {} /\ upstream' = upstream
      /\ \A j \in Instances : j # i => pending'[j] = pending[j] /\ subs'[j] = subs[j]
      /\ \A c \in pending'[i] : ~(c.on /\ u \in c.topics)
      /\ \A j \in Instances : <<u, u>> \in subs'[j] <=> <<u, u>> \in subs[j]
      /\ IF u = f.user THEN <<u, Channel>> \in subs'[i] <=> f.add
                       ELSE <<u, Channel>> \in subs'[i] <=> <<u, Channel>> \in subs[i]
  <2> DEFINE v   == f.user
             add == f.add
  <2>1. v \in Users /\ add \in BOOLEAN /\ IF add THEN SubscribeTo(i, v, {Channel}, i) ELSE UnsubscribeFrom(i, v, {Channel}, i)
    BY <1>3, <1>5
  <2> HIDE DEF v, add
  <2>2. /\ pending[i] = {} /\ upstream' = upstream
        /\ \A j \in Instances : j # i => pending'[j] = pending[j] /\ subs'[j] = subs[j]
        /\ \A c \in pending'[i] : ~(c.on /\ u \in c.topics)
        /\ \A j \in Instances : <<u, u>> \in subs'[j] <=> <<u, u>> \in subs[j]
        /\ IF u = v THEN <<u, Channel>> \in subs'[i] <=> add
                    ELSE <<u, Channel>> \in subs'[i] <=> <<u, Channel>> \in subs[i]
    BY <1>6, <2>1, ChannelMoves, ZenonT(30)
  <2> QED
    BY <2>2 DEF v, add
<1>8. OnItsWay(u)'
  <2>1. OnItsWay(u)
    BY DEF Abreast
  <2> QED
    BY <1>3, <1>4, <1>7, <2>1, WayKept
<1>9. ASSUME NEW j \in Instances, NEW b, ComesTo(j, u, b)
      PROVE  Says(frames'[j], u, <<u, Channel>> \in subs'[j], b)
  <2>1. CASE j = i
    <3>1. IF f.user = u THEN <<u, Channel>> \in subs'[i] <=> f.add
                        ELSE <<u, Channel>> \in subs'[i] <=> <<u, Channel>> \in subs[i]
      BY <1>7
    <3>2. Says(frames[i], u, <<u, Channel>> \in subs[i], b)
      BY <1>9, <2>1 DEF ComesTo
    <3>3. Says(Tail(frames[i]), u, <<u, Channel>> \in subs'[i], b)
      BY <1>1, <3>1, <3>2, SaysTail DEF f
    <3> QED
      BY <1>4, <2>1, <3>3
  <2>2. CASE j # i
    BY <1>4, <1>7, <1>9, <2>2, ComesSame
  <2> QED
    BY <2>1, <2>2
<1>10. HeardOf(u)'
  <2>1. \A o \in Ops : Changing(o, u)' <=> Changing(o, u)
    BY <1>3 DEF Changing
  <2>2. HeardOf(u)
    BY DEF Abreast
  <2>3. ASSUME \A o \in Ops : ~Changing(o, u), NEW j \in Instances, MustKnow(j, u)'
        PROVE  ComesTo(j, u, u \in members)'
    <3>1. ComesTo(j, u, u \in members)
      <4>1. \A t \in Socks : OfUser(t, u)' => OfUser(t, u) /\ sock'[t] = sock[t]
        BY <1>3 DEF OfUser, Registered
      <4>2. MustKnow(j, u)
        BY <1>3, <1>7, <2>3, <4>1, KnewBefore
      <4> QED
        BY <2>2, <2>3, <4>2 DEF HeardOf
    <3>2. Says(frames'[j], u, <<u, Channel>> \in subs'[j], u \in members)
      BY <1>9, <3>1
    <3> QED
      BY <1>3, <3>2 DEF ComesTo
  <2> QED
    BY <1>3, <2>1, <2>2, <2>3 DEF HeardOf
<1> QED
  BY <1>3, <1>8, <1>10 DEF Abreast, OneChange, Changing

\* A change is asked for: with another of the same user, it is a race.
LEMMA AskKeeps ==
  ASSUME Inv, NEW o \in Ops, Ask(o), NEW u \in Users, u \notin raced', Abreast(u)
  PROVE  Abreast(u)'
<1>1. /\ op[o].pc = "idle"
      /\ UNCHANGED <<members, sock, clients, subs, upstream, pending, frames>>
  BY DEF Ask, broker
<1>2. PICK v \in Users, i \in Instances, add \in BOOLEAN :
        /\ op' = [op EXCEPT ![o] = [pc |-> "asked", user |-> v, add |-> add, inst |-> i]]
        /\ raced' = IF Overlapping(o, v) THEN raced \cup {v} ELSE raced
  BY DEF Ask
<1>3. op'[o].pc = "asked" /\ op'[o].user = v /\ \A p \in Ops : p # o => op'[p] = op[p]
  BY <1>2 DEF Inv, Shape
<1>4. v = u => \A p \in Ops : p # o /\ op[p].user = u => op[p].pc = "idle"
  BY <1>2 DEF Overlapping
<1>5. \A p \in Ops : Changing(p, u)' <=> Changing(p, u)
  BY <1>1, <1>3 DEF Changing
<1>6. OneChange(u)'
  <2>1. ASSUME NEW p \in Ops, NEW q \in Ops, op'[p].pc # "idle", op'[p].user = u, op'[q].pc # "idle", op'[q].user = u
        PROVE  p = q
    BY <1>3, <1>4, <2>1 DEF Abreast, OneChange
  <2>2. ASSUME NEW p \in Ops, Changing(p, u)' PROVE op'[p].add <=> u \in members
    BY <1>1, <1>3, <1>5, <2>2 DEF Abreast, OneChange, Changing
  <2> QED
    BY <1>1, <2>1, <2>2 DEF OneChange
<1> QED
  BY <1>1, <1>5, <1>6 DEF Abreast, HeardOf, ComesTo, OnItsWay, Awaits, MustKnow, OfUser, Registered

\* The row is written: what is published later is what it says.
LEMMA WriteKeeps ==
  ASSUME Inv, NEW o \in Ops, WriteRow(o), NEW u \in Users, Abreast(u)
  PROVE  Abreast(u)'
<1>1. op[o].pc = "asked" /\ UNCHANGED <<sock, clients, subs, upstream, pending, frames>>
  BY DEF WriteRow, broker
<1>2. op[o] \in Call /\ \A p \in Ops : op[p].add \in BOOLEAN
  BY DEF Inv, Shape, Call
<1>3. OnItsWay(u)'
  BY <1>1 DEF Abreast, OnItsWay, Awaits, ComesTo
<1>4. CASE op' = [op EXCEPT ![o] = NoOp] /\ UNCHANGED members
  <2>1. op'[o] = NoOp /\ \A p \in Ops : p # o => op'[p] = op[p]
    BY <1>4 DEF Inv, Shape
  <2>2. \A p \in Ops : Changing(p, u)' <=> Changing(p, u)
    BY <1>1, <2>1 DEF Changing, NoOp
  <2>3. OneChange(u)'
    BY <1>4, <2>1, <2>2 DEF Abreast, OneChange, NoOp, Changing
  <2> QED
    BY <1>1, <1>3, <1>4, <2>2, <2>3 DEF Abreast, HeardOf, ComesTo, MustKnow, OfUser, Registered
<1>5. CASE /\ members' = IF op[o].add THEN members \cup {op[o].user} ELSE members \ {op[o].user}
           /\ op' = [op EXCEPT ![o].pc = "written"]
  <2>1. /\ op'[o].pc = "written" /\ op'[o].user = op[o].user /\ op'[o].add = op[o].add
        /\ \A p \in Ops : p # o => op'[p] = op[p]
    BY <1>2, <1>5 DEF Inv, Shape, Call
  <2>2. CASE op[o].user = u
    <3>1. Changing(o, u)' /\ \A p \in Ops : p # o => ~Changing(p, u)'
      BY <1>1, <2>1, <2>2 DEF Abreast, OneChange, Changing
    <3>2. OneChange(u)'
      <4>1. op'[o].add <=> u \in members'
        BY <1>5, <2>1, <2>2
      <4> QED
        BY <1>1, <2>1, <3>1, <4>1 DEF Abreast, OneChange
    <3> QED
      BY <1>3, <3>1, <3>2 DEF Abreast, HeardOf
  <2>3. CASE op[o].user # u
    <3>1. (u \in members' <=> u \in members) /\ \A p \in Ops : Changing(p, u)' <=> Changing(p, u)
      BY <1>5, <2>1, <2>3 DEF Changing
    <3>2. OneChange(u)'
      BY <2>1, <2>3, <3>1 DEF Abreast, OneChange, Changing
    <3> QED
      <4>1. \A t \in Socks : OfUser(t, u)' => OfUser(t, u) /\ sock'[t] = sock[t]
        BY <1>1 DEF OfUser, Registered
      <4>2. \A i \in Instances : MustKnow(i, u)' => MustKnow(i, u)
        BY <1>1, <3>1, <4>1, KnewBefore
      <4> QED
        BY <1>1, <1>3, <3>1, <3>2, <4>2 DEF Abreast, HeardOf, ComesTo, Says
  <2> QED
    BY <2>2, <2>3
<1> QED
  BY <1>4, <1>5 DEF WriteRow

\* The instance that serves the request applies the change: nobody has heard.
LEMMA ApplyKeeps ==
  ASSUME Inv, NEW o \in Ops, ApplyHere(o), NEW u \in Users, Abreast(u)
  PROVE  Abreast(u)'
<1> DEFINE v   == op[o].user
           i   == op[o].inst
           add == op[o].add
<1>1. /\ op[o].pc = "written" /\ op' = [op EXCEPT ![o].pc = "applied"]
      /\ UNCHANGED <<members, sock, clients, frames>>
      /\ IF add THEN SubscribeTo(i, v, {Channel}, o) ELSE UnsubscribeFrom(i, v, {Channel}, o)
  BY DEF ApplyHere
<1>2. Shape /\ UpstreamInv /\ v \in Users /\ i \in Instances /\ add \in BOOLEAN
  BY <1>1 DEF Inv, Shape, Call
<1>3. /\ op'[o].pc = "applied" /\ op'[o].user = v /\ op'[o].add = add
      /\ \A p \in Ops : p # o => op'[p] = op[p]
  BY <1>1 DEF Inv, Shape, Call
<1> HIDE DEF v, i, add
<1>4. /\ pending[i] = {} /\ upstream' = upstream
      /\ \A j \in Instances : j # i => pending'[j] = pending[j] /\ subs'[j] = subs[j]
      /\ \A c \in pending'[i] : ~(c.on /\ u \in c.topics)
      /\ \A j \in Instances : <<u, u>> \in subs'[j] <=> <<u, u>> \in subs[j]
      /\ IF u = v THEN <<u, Channel>> \in subs'[i] <=> add
                  ELSE <<u, Channel>> \in subs'[i] <=> <<u, Channel>> \in subs[i]
  BY <1>1, <1>2, ChannelMoves, ZenonT(30)
<1>5. \A p \in Ops : Changing(p, u)' <=> Changing(p, u)
  BY <1>1, <1>3 DEF Changing, v
<1>6. OneChange(u)'
  <2>1. \A p \in Ops : op'[p].user = op[p].user /\ op'[p].add = op[p].add /\ (op'[p].pc # "idle" <=> op[p].pc # "idle")
    BY <1>1, <1>3 DEF v, add
  <2> QED
    BY <1>1, <1>5, <2>1 DEF Abreast, OneChange
<1>7. OnItsWay(u)'
  <2>1. OnItsWay(u)
    BY DEF Abreast
  <2> QED
    BY <1>1, <1>4, <2>1, WayKept
<1>8. HeardOf(u)'
  <2>1. CASE u = v
    BY <1>3, <2>1 DEF HeardOf, Changing
  <2>2. CASE u # v
    <3>1. \A j \in Instances : <<u, Channel>> \in subs'[j] <=> <<u, Channel>> \in subs[j]
      BY <1>4, <2>2
    <3>2. \A j \in Instances : ComesTo(j, u, u \in members) => ComesTo(j, u, u \in members)'
      BY <1>1, <3>1 DEF ComesTo, Says
    <3>3. \A j \in Instances : MustKnow(j, u)' => MustKnow(j, u)
      <4>1. \A t \in Socks : OfUser(t, u)' => OfUser(t, u) /\ sock'[t] = sock[t]
        BY <1>1 DEF OfUser, Registered
      <4> QED
        BY <1>1, <1>4, <4>1, KnewBefore
    <3> QED
      BY <1>1, <1>5, <3>2, <3>3 DEF Abreast, HeardOf
  <2> QED
    BY <2>1, <2>2
<1> QED
  BY <1>6, <1>7, <1>8 DEF Abreast

\* The change is published: the instances that Redis sends the user's topic have
\* the last word about the user, and at the others only a socket that knows waits.
LEMMA PublishKeeps ==
  ASSUME Inv, NEW o \in Ops, PublishFrame(o), NEW u \in Users, u \notin raced', Abreast(u)
  PROVE  Abreast(u)'
<1> DEFINE v == op[o].user
           f == [user |-> op[o].user, add |-> op[o].add]
<1>1. /\ op[o].pc = "applied" /\ op' = [op EXCEPT ![o] = NoOp]
      /\ frames' = [i \in Instances |-> IF i \in Told(v) THEN Append(frames[i], f) ELSE frames[i]]
      /\ raced' = IF Stale(v, op[o].add) THEN raced \cup {v} ELSE raced
      /\ UNCHANGED <<members, sock, clients, subs, upstream, pending>>
  BY DEF PublishFrame, broker
<1>2. v \in Users /\ f \in Frame /\ f.user = v /\ f.add = op[o].add /\ \A i \in Instances : frames[i] \in Seq(Frame)
  BY <1>1 DEF Inv, Shape, Call, Frame
<1>3. op'[o] = NoOp /\ \A p \in Ops : p # o => op'[p] = op[p]
  BY <1>1 DEF Inv, Shape
<1> HIDE DEF v, f
<1>4. \A i \in Instances : frames'[i] = IF i \in Told(v) THEN Append(frames[i], f) ELSE frames[i]
  BY <1>1
<1>5. ASSUME NEW i \in Instances, NEW b, ComesTo(i, u, b), u # v \/ u \notin upstream[i]
      PROVE  Says(frames'[i], u, <<u, Channel>> \in subs'[i], b)
  <2>1. Says(frames[i], u, <<u, Channel>> \in subs[i], b)
    BY <1>5 DEF ComesTo
  <2>2. CASE i \in Told(v)
    <3>1. f.user # u
      BY <1>2, <1>5, <2>2 DEF Told, Listening
    <3> QED
      BY <1>1, <1>2, <1>4, <2>1, <2>2, <3>1, SaysElse
  <2>3. CASE i \notin Told(v)
    BY <1>1, <1>4, <2>1, <2>3
  <2> QED
    BY <2>2, <2>3
<1>6. OnItsWay(u)'
  <2> SUFFICES ASSUME NEW i \in Instances, NEW c \in pending'[i], c.on, u \in c.topics
               PROVE  \E s \in Socks : c.by = s /\ Awaits(s, i, u)'
    BY DEF OnItsWay
  <2>1. PICK s \in Socks : c.by = s /\ Awaits(s, i, u)
    BY <1>1 DEF Abreast, OnItsWay
  <2>2. Says(frames'[i], u, <<u, Channel>> \in subs'[i], sock[s].listed)
    BY <1>5, <2>1 DEF Awaits
  <2> QED
    BY <1>1, <2>1, <2>2 DEF Awaits, ComesTo
<1>7. OneChange(u)'
  BY <1>1, <1>3 DEF Abreast, OneChange, Changing, NoOp
<1>8. HeardOf(u)'
  <2>1. CASE u # v
    <3>1. \A p \in Ops : Changing(p, u)' <=> Changing(p, u)
      BY <1>3, <2>1, ConstantsAssumption DEF Changing, NoOp, v, ConstantsAssumption
    <3>2. ASSUME NEW i \in Instances, ComesTo(i, u, u \in members) PROVE ComesTo(i, u, u \in members)'
      <4>1. Says(frames'[i], u, <<u, Channel>> \in subs'[i], u \in members)
        BY <1>5, <2>1, <3>2
      <4> QED
        BY <1>1, <4>1 DEF ComesTo
    <3>3. \A i \in Instances : MustKnow(i, u)' => MustKnow(i, u)
      BY <1>1 DEF MustKnow, OfUser, Registered
    <3> QED
      BY <1>1, <3>1, <3>2, <3>3 DEF Abreast, HeardOf
  <2>2. CASE u = v
    <3>1. op[o].add <=> u \in members
      BY <1>1, <2>2 DEF Abreast, OneChange, Changing, v
    <3>2. ~Stale(u, op[o].add)
      BY <1>1, <2>2
    <3>3. ASSUME NEW s \in Socks, sock[s].user = u, sock[s].pc = "listed"
          PROVE  sock[s].listed <=> u \in members /\ sock[s].read
      BY <3>1, <3>2, <3>3 DEF Stale, Inv, Shape, Conn
    <3>4. ASSUME NEW i \in Instances, <<u, u>> \in subs[i] PROVE ComesTo(i, u, u \in members)'
      <4>1. CASE i \in Told(u)
        <5>1. Says(frames'[i], u, <<u, Channel>> \in subs'[i], op[o].add)
          BY <1>2, <1>4, <2>2, <4>1, SaysLast
        <5> QED
          BY <1>1, <3>1, <5>1 DEF ComesTo, Says
      <4>2. CASE i \notin Told(u)
        <5>1. u \notin upstream[i] /\ u \in Heard(subs[i])
          BY <3>4, <4>2 DEF Told, Listening, Heard
        <5>2. PICK c : pending[i] = {c} /\ c.on /\ u \in c.topics
          BY <5>1 DEF Inv, UpstreamInv, InOrder, After
        <5>3. PICK s \in Socks : Awaits(s, i, u)
          BY <5>2 DEF Abreast, OnItsWay
        <5>4. sock[s].listed = op[o].add
          BY <3>2, <5>1, <5>3 DEF Stale, Awaits, Listening
        <5>5. Says(frames'[i], u, <<u, Channel>> \in subs'[i], sock[s].listed)
          BY <1>5, <5>1, <5>3 DEF Awaits
        <5> QED
          BY <1>1, <3>1, <5>4, <5>5 DEF ComesTo, Says
      <4> QED
        BY <4>1, <4>2
    <3>5. \A i \in Instances : MustKnow(i, u)' => <<u, u>> \in subs[i]
      BY <1>1 DEF MustKnow
    <3> QED
      BY <1>1, <3>3, <3>4, <3>5 DEF HeardOf
  <2> QED
    BY <2>1, <2>2
<1> QED
  BY <1>6, <1>7, <1>8 DEF Abreast

\* A frame that is lost is a race of its user, and nothing to the others.
LEMMA LostKeeps ==
  ASSUME Inv, NEW o \in Ops, FrameLost(o), NEW u \in Users, u \notin raced', Abreast(u)
  PROVE  Abreast(u)'
<1>1. /\ op' = [op EXCEPT ![o] = NoOp] /\ op[o].user # u
      /\ UNCHANGED <<members, sock, clients, subs, upstream, pending, frames>>
  BY DEF FrameLost, broker
<1>2. op'[o] = NoOp /\ \A p \in Ops : p # o => op'[p] = op[p]
  BY <1>1 DEF Inv, Shape
<1>3. \A p \in Ops : Changing(p, u)' <=> Changing(p, u)
  BY <1>1, <1>2 DEF Changing, NoOp
<1>4. OneChange(u)'
  BY <1>1, <1>2 DEF Abreast, OneChange, Changing, NoOp
<1> QED
  BY <1>1, <1>3, <1>4 DEF Abreast, HeardOf, ComesTo, OnItsWay, Awaits, MustKnow, OfUser, Registered

-----------------------------------------------------------------------------
(* So do the steps of a socket. *)

\* The sockets that are up and registered were it before another one came or went.
LEMMA StayListed ==
  ASSUME Inv, NEW s \in Socks, RegisterClient(s) \/ ListChannels(s) \/ ListFails(s) \/ UnregisterClient(s),
         NEW t \in Socks, t # s, sock'[t] = sock[t], sock[t].pc = "up", Registered(t)'
  PROVE  Registered(t)
<1>1. sock[t].inst \in Instances /\ sock[t].user \in Users
  BY DEF Inv, Shape
<1> QED
  BY <1>1, ClientsFact, ZenonT(30) DEF Registered

\* It registers, or its handler returns once its own commands have: no SUBSCRIBE
\* on its way is this socket's.
LEMMA ComeAndGoKeep ==
  ASSUME Inv, NEW s \in Socks, RegisterClient(s) \/ UnregisterClient(s), NEW u \in Users, Abreast(u)
  PROVE  Abreast(u)'
<1>1. UNCHANGED <<members, op, subs, upstream, pending, frames>>
  BY DEF RegisterClient, UnregisterClient, broker
<1>2. /\ sock'[s].pc \notin {"listed", "up"} /\ \A t \in Socks \ {s} : sock'[t] = sock[t]
      /\ sock[s].pc = "up" => Returned(sock[s].inst, s)
  <2>1. CASE RegisterClient(s)
    <3>1. PICK v \in Users, i \in Instances : sock' = [sock EXCEPT ![s] = [NoSock EXCEPT !.pc = "registered", !.user = v, !.inst = i]]
      BY <2>1 DEF RegisterClient
    <3>2. [NoSock EXCEPT !.pc = "registered", !.user = v, !.inst = i].pc = "registered" /\ sock[s].pc = "none"
      BY <2>1 DEF RegisterClient, NoSock
    <3> QED
      BY <3>1, <3>2 DEF Inv, Shape
  <2>2. CASE UnregisterClient(s)
    <3>1. /\ sock' = [sock EXCEPT ![s] = [sock[s] EXCEPT !.pc = "leaving"]] \/ sock' = [sock EXCEPT ![s] = NoSock]
          /\ Returned(sock[s].inst, s)
      BY <2>2 DEF UnregisterClient
    <3>2. [sock[s] EXCEPT !.pc = "leaving"].pc = "leaving" /\ NoSock.pc = "none"
      BY DEF Inv, Shape, Conn, NoSock
    <3> QED
      BY <3>1, <3>2 DEF Inv, Shape
  <2> QED
    BY <2>1, <2>2
<1>3. OnItsWay(u)'
  <2>1. OnItsWay(u)
    BY DEF Abreast
  <2>2. ASSUME NEW i \in Instances, NEW c \in pending[i], NEW t \in Socks, c.by = t, sock[t].inst = i, sock[t].pc = "up"
        PROVE  sock'[t] = sock[t]
    BY <1>2, <2>2 DEF Returned
  <2> QED
    BY <1>1, <2>1, <2>2, WayKept
<1>4. \A t \in Socks : OfUser(t, u)' => OfUser(t, u) /\ sock'[t] = sock[t]
  BY <1>2, StayListed DEF OfUser
<1>5. \A i \in Instances : MustKnow(i, u)' => MustKnow(i, u)
  BY <1>1, <1>4, KnewBefore
<1> QED
  BY <1>1, <1>2, <1>3, <1>5 DEF Abreast, OneChange, HeardOf, Changing, ComesTo

\* It lists what the rows say, or nothing.
LEMMA ListKeeps ==
  ASSUME Inv, NEW s \in Socks, ListChannels(s) \/ ListFails(s), NEW u \in Users, Abreast(u)
  PROVE  Abreast(u)'
<1> DEFINE l == sock[s].user \in members
<1>1. sock[s].pc = "registered" /\ UNCHANGED <<members, op, clients, subs, upstream, pending, frames>>
  BY DEF ListChannels, ListFails, broker
<1>2. /\ sock'[s].pc = "listed" /\ sock'[s].user = sock[s].user /\ \A t \in Socks \ {s} : sock'[t] = sock[t]
      /\ sock'[s].listed <=> l /\ sock'[s].read
  <2>1. CASE ListChannels(s)
    <3>1. sock' = [sock EXCEPT ![s] = [@ EXCEPT !.pc = "listed", !.listed = l, !.read = TRUE]] /\ l \in BOOLEAN
      BY <2>1 DEF ListChannels
    <3> HIDE DEF l
    <3> QED
      BY <3>1 DEF Inv, Shape, Conn
  <2>2. CASE ListFails(s)
    <3>1. sock' = [sock EXCEPT ![s].pc = "listed"]
      BY <2>2 DEF ListFails
    <3>2. ~sock[s].listed /\ ~sock[s].read
      BY <1>1 DEF Inv, Shape
    <3> HIDE DEF l
    <3> QED
      BY <3>1, <3>2 DEF Inv, Shape, Conn
  <2> QED
    BY <2>1, <2>2
<1> HIDE DEF l
<1>3. OnItsWay(u)'
  <2>1. OnItsWay(u)
    BY DEF Abreast
  <2> QED
    BY <1>1, <1>2, <2>1, WayKept
<1>4. \A t \in Socks : OfUser(t, u)' => OfUser(t, u) /\ sock'[t] = sock[t]
  BY <1>1, <1>2 DEF OfUser, Registered
<1>5. \A i \in Instances : MustKnow(i, u)' => MustKnow(i, u)
  BY <1>1, <1>4, KnewBefore
<1>6. HeardOf(u)'
  BY <1>1, <1>2, <1>5, ZenonT(30) DEF Abreast, HeardOf, Changing, ComesTo, l
<1> QED
  BY <1>1, <1>3, <1>6 DEF Abreast, OneChange, Changing

\* It subscribes to what it listed, and inherits nothing else.
LEMMA SubscribeKeeps ==
  ASSUME Inv, NEW s \in Socks, Subscribe(s), NEW u \in Users, u \notin raced', Abreast(u)
  PROVE  Abreast(u)'
<1> DEFINE v  == sock[s].user
           i  == sock[s].inst
           l  == sock[s].listed
           ts == {v} \cup (IF l THEN {Channel} ELSE {})
<1>1. /\ sock[s].pc = "listed" /\ sock' = [sock EXCEPT ![s].pc = "up"]
      /\ SubscribeTo(i, v, ts, s)
      /\ raced' = IF Inherits(i, v, l) THEN raced \cup {v} ELSE raced
      /\ UNCHANGED <<members, op, clients, frames>>
  BY DEF Subscribe
<1>2. Shape /\ UpstreamInv /\ v \in Users /\ i \in Instances /\ l \in BOOLEAN
  BY <1>1 DEF Inv, Shape, Conn
<1>3. ts \in SUBSET Topics
  BY <1>2 DEF Topics
<1>4. /\ sock'[s].pc = "up" /\ sock'[s].user = v /\ sock'[s].inst = i /\ sock'[s].listed = l
      /\ sock'[s].read = sock[s].read
      /\ \A t \in Socks \ {s} : sock'[t] = sock[t]
  BY <1>1 DEF Inv, Shape, Conn
<1> HIDE DEF ts
<1>5. /\ pending[i] = {} /\ upstream' = upstream /\ subs' = [subs EXCEPT ![i] = @ \cup ({v} \X ts)]
      /\ \A j \in Instances : j # i => pending'[j] = pending[j]
      /\ \A c \in pending'[i] : c.on => c.by = s /\ c.topics \subseteq ts /\ c.topics \cap upstream[i] = {}
      /\ \A c \in pending'[i] : c.on => c.topics \cap Heard(subs[i]) = {}
  <2> HIDE DEF v, i, l
  <2> QED
    BY <1>1, <1>2, <1>3, AsksFor, Zenon
<1>6. subs'[i] = subs[i] \cup ({v} \X ts) /\ \A j \in Instances : j # i => subs'[j] = subs[j]
  BY <1>2, <1>5 DEF Shape
<1>7. u # Channel /\ v # Channel /\ (Channel \in ts <=> l) /\ (u \in ts <=> u = v)
  BY <1>2, ConstantsAssumption DEF ConstantsAssumption, ts
<1> HIDE DEF v, i, l
<1>8. \A p \in Ops : Changing(p, u)' <=> Changing(p, u)
  BY <1>1 DEF Changing
<1>9. OneChange(u)'
  BY <1>1, <1>8 DEF Abreast, OneChange
<1>10. OnItsWay(u)
  BY DEF Abreast
<1>11. CASE u # v
  <2>1. \A j \in Instances : /\ <<u, Channel>> \in subs'[j] <=> <<u, Channel>> \in subs[j]
                             /\ <<u, u>> \in subs'[j] <=> <<u, u>> \in subs[j]
    BY <1>6, <1>7, <1>11
  <2>2. OnItsWay(u)'
    <3>1. \A c \in pending'[i] : ~(c.on /\ u \in c.topics)
      BY <1>5, <1>7, <1>11
    <3>2. \A t \in Socks : sock[t].pc = "up" => sock'[t] = sock[t]
      BY <1>1, <1>4
    <3> QED
      BY <1>1, <1>5, <1>10, <2>1, <3>1, <3>2, WayKept
  <2>3. \A j \in Instances : ComesTo(j, u, u \in members) => ComesTo(j, u, u \in members)'
    BY <1>1, <2>1 DEF ComesTo, Says
  <2>4. \A t \in Socks : sock'[t].user = u => sock'[t] = sock[t]
    BY <1>4, <1>11
  <2>5. \A t \in Socks : OfUser(t, u)' => OfUser(t, u) /\ sock'[t] = sock[t]
    BY <1>1, <2>4 DEF OfUser, Registered
  <2>6. \A j \in Instances : MustKnow(j, u)' => MustKnow(j, u)
    BY <1>1, <2>1, <2>5, KnewBefore
  <2>7. HeardOf(u)'
    BY <1>1, <1>8, <2>3, <2>4, <2>6 DEF Abreast, HeardOf
  <2> QED
    BY <1>9, <2>2, <2>7 DEF Abreast
<1>12. CASE u = v
  <2> DEFINE Others == \E t \in Socks \ {s} : OfUser(t, u) /\ sock[t].inst = i /\ sock[t].read
  <2>0. /\ \A t \in Socks : OfUser(t, u)' /\ t # s => OfUser(t, u) /\ sock'[t] = sock[t]
        /\ \A j \in Instances : j = i /\ MustKnow(j, u)' /\ u \in members => sock[s].read \/ Others
        /\ \A j \in Instances : j # i /\ MustKnow(j, u)' => MustKnow(j, u)
    <3>1. \A t \in Socks : OfUser(t, u)' /\ t # s => OfUser(t, u) /\ sock'[t] = sock[t]
      BY <1>1, <1>4 DEF OfUser, Registered
    <3>2. ASSUME NEW j \in Instances, j = i, MustKnow(j, u)', u \in members PROVE sock[s].read \/ Others
      <4>1. PICK t \in Socks : OfUser(t, u)' /\ sock'[t].inst = j /\ sock'[t].read
        BY <1>1, <3>2 DEF MustKnow
      <4> QED
        BY <1>4, <3>1, <3>2, <4>1
    <3>3. ASSUME NEW j \in Instances, j # i, MustKnow(j, u)' PROVE MustKnow(j, u)
      BY <1>1, <1>4, <1>6, <3>1, <3>3 DEF MustKnow
    <3> QED
      BY <3>1, <3>2, <3>3
  <2>1. /\ <<u, Channel>> \in subs[i] => <<u, u>> \in subs[i]
        /\ \A k \in 1..Len(frames[i]) : About(frames[i][k], u) => (frames[i][k].add <=> l)
    <3>1. ~Inherits(i, u, l)
      BY <1>1, <1>12
    <3>2. \A k \in 1..Len(frames[i]) : frames[i][k].add \in BOOLEAN
      <4>1. frames[i] \in Seq(Frame)
        BY <1>2 DEF Shape
      <4>2. \A f \in Frame : f.add \in BOOLEAN
        BY DEF Frame
      <4> QED
        BY <4>1, <4>2
    <3> QED
      BY <1>2, <3>1, <3>2 DEF Inherits, About
  <2>2. <<u, Channel>> \in subs'[i] <=> l \/ <<u, Channel>> \in subs[i]
    BY <1>6, <1>7, <1>12
  <2>3. CASE <<u, u>> \notin subs[i]
    <3>1. Says(frames'[i], u, <<u, Channel>> \in subs'[i], l)
      BY <1>1, <2>1, <2>2, <2>3 DEF Says
    <3>2. OnItsWay(u)'
      <4> SUFFICES ASSUME NEW j \in Instances, NEW c \in pending'[j], c.on, u \in c.topics
                   PROVE  \E t \in Socks : c.by = t /\ Awaits(t, j, u)'
        BY DEF OnItsWay
      <4>1. CASE j = i
        BY <1>1, <1>4, <1>5, <1>12, <3>1, <4>1 DEF Awaits, ComesTo
      <4>2. CASE j # i
        <5>1. PICK t \in Socks : c.by = t /\ Awaits(t, j, u)
          BY <1>5, <1>10, <4>2 DEF OnItsWay
        <5>2. sock'[t] = sock[t]
          BY <1>1, <1>4, <5>1 DEF Awaits
        <5>3. <<u, Channel>> \in subs'[j] <=> <<u, Channel>> \in subs[j]
          BY <1>6, <4>2
        <5> QED
          BY <1>1, <1>5, <5>1, <5>2, <5>3, StillAwaits
      <4> QED
        BY <4>1, <4>2
    <3>3. HeardOf(u)'
      <4> SUFFICES ASSUME \A o \in Ops : ~Changing(o, u)
                   PROVE  /\ \A j \in Instances : MustKnow(j, u)' => ComesTo(j, u, u \in members)'
                          /\ \A t \in Socks : sock'[t].user = u /\ sock'[t].pc = "listed" =>
                               (sock'[t].listed <=> u \in members /\ sock'[t].read)
        BY <1>1, <1>8 DEF HeardOf
      <4>1. l <=> u \in members /\ sock[s].read
        BY <1>1, <1>12 DEF Abreast, HeardOf, v, l
      <4>2. ASSUME NEW j \in Instances, MustKnow(j, u)' PROVE ComesTo(j, u, u \in members)'
        <5>1. CASE j = i
          <6>1. ~Others
            BY <1>12, <2>3 DEF Inv, UpIsHeard, OfUser
          <6>2. l <=> u \in members
            <7> HIDE DEF Others
            <7> QED
              BY <2>0, <4>1, <4>2, <5>1, <6>1, Zenon
          <6> QED
            BY <1>1, <3>1, <5>1, <6>2 DEF ComesTo, Says
        <5>2. CASE j # i
          BY <1>1, <1>6, <2>0, <4>2, <5>2 DEF Abreast, HeardOf, ComesTo
        <5> QED
          BY <5>1, <5>2
      <4>3. ASSUME NEW t \in Socks, sock'[t].user = u, sock'[t].pc = "listed" PROVE sock'[t].listed <=> u \in members /\ sock'[t].read
        <5>1. sock'[t] = sock[t]
          BY <1>4, <4>3
        <5> QED
          BY <4>3, <5>1 DEF Abreast, HeardOf
      <4> QED
        BY <4>2, <4>3
    <3> QED
      BY <1>9, <3>2, <3>3 DEF Abreast
  <2>4. CASE <<u, u>> \in subs[i]
    <3>1. OnItsWay(u)'
      <4>1. \A c \in pending'[i] : ~(c.on /\ u \in c.topics)
        <5>1. u \in Heard(subs[i])
          BY <2>4 DEF Heard
        <5> QED
          BY <1>5, <5>1
      <4>2. \A t \in Socks : sock[t].pc = "up" => sock'[t] = sock[t]
        BY <1>1, <1>4
      <4> QED
        BY <1>1, <1>5, <1>6, <1>10, <4>1, <4>2, WayKept
    <3>2. HeardOf(u)'
      <4> SUFFICES ASSUME \A o \in Ops : ~Changing(o, u)
                   PROVE  /\ \A j \in Instances : MustKnow(j, u)' => ComesTo(j, u, u \in members)'
                          /\ \A t \in Socks : sock'[t].user = u /\ sock'[t].pc = "listed" =>
                               (sock'[t].listed <=> u \in members /\ sock'[t].read)
        BY <1>1, <1>8 DEF HeardOf
      <4>1. l <=> u \in members /\ sock[s].read
        BY <1>1, <1>12 DEF Abreast, HeardOf, v, l
      <4>2. ASSUME NEW j \in Instances, MustKnow(j, u)' PROVE ComesTo(j, u, u \in members)'
        <5>1. CASE j = i /\ l
          BY <1>1, <2>1, <2>2, <4>1, <5>1 DEF ComesTo, Says
        <5>2. CASE j = i /\ ~l
          <6>1. MustKnow(i, u)
            <7>1. u \in members => Others
              <8> HIDE DEF Others
              <8> QED
                BY <2>0, <4>1, <4>2, <5>2, Zenon
            <7> QED
              BY <2>4, <7>1 DEF MustKnow
          <6>2. ComesTo(i, u, u \in members)
            BY <1>2, <6>1 DEF Abreast, HeardOf
          <6> QED
            BY <1>1, <2>2, <5>2, <6>2 DEF ComesTo, Says
        <5>3. CASE j # i
          BY <1>1, <1>6, <2>0, <4>2, <5>3 DEF Abreast, HeardOf, ComesTo
        <5> QED
          BY <5>1, <5>2, <5>3
      <4>3. ASSUME NEW t \in Socks, sock'[t].user = u, sock'[t].pc = "listed" PROVE sock'[t].listed <=> u \in members /\ sock'[t].read
        <5>1. sock'[t] = sock[t]
          BY <1>4, <4>3
        <5> QED
          BY <4>3, <5>1 DEF Abreast, HeardOf
      <4> QED
        BY <4>2, <4>3
    <3> QED
      BY <1>9, <3>1, <3>2 DEF Abreast
  <2> QED
    BY <2>3, <2>4
<1> QED
  BY <1>11, <1>12

\* The last socket takes the user's subscriptions along: nothing is left to hear.
LEMMA DropKeeps ==
  ASSUME Inv, NEW s \in Socks, DropSubscriptions(s), NEW u \in Users, Abreast(u)
  PROVE  Abreast(u)'
<1> DEFINE v == sock[s].user
           i == sock[s].inst
<1>1. /\ sock[s].pc = "leaving" /\ sock' = [sock EXCEPT ![s] = NoSock]
      /\ IF Reconnected(i, v) THEN UNCHANGED broker ELSE UnsubscribeFrom(i, v, Topics, s)
      /\ UNCHANGED <<members, op, clients, frames>>
  BY DEF DropSubscriptions
<1>2. Shape /\ UpstreamInv /\ v \in Users /\ i \in Instances
  BY <1>1 DEF Inv, Shape
<1>3. sock'[s] = NoSock /\ \A t \in Socks \ {s} : sock'[t] = sock[t]
  BY <1>1 DEF Inv, Shape
<1> HIDE DEF v, i
<1>4. /\ OneChange(u)' /\ \A p \in Ops : Changing(p, u)' <=> Changing(p, u)
      /\ OnItsWay(u)
      /\ \A t \in Socks : sock[t].pc = "up" => sock'[t] = sock[t]
      /\ \A t \in Socks : sock'[t].pc = "listed" => sock'[t] = sock[t]
      /\ \A t \in Socks : OfUser(t, u)' => OfUser(t, u) /\ sock'[t] = sock[t]
  BY <1>1, <1>3 DEF Abreast, OneChange, Changing, NoSock, OfUser, Registered
<1>5. CASE Reconnected(i, v)
  <2>1. UNCHANGED <<subs, upstream, pending>>
    BY <1>1, <1>5 DEF broker
  <2>2. OnItsWay(u)'
    BY <1>1, <1>4, <2>1, WayKept
  <2>3. \A j \in Instances : MustKnow(j, u)' => MustKnow(j, u)
    BY <1>1, <1>4, <2>1, KnewBefore
  <2> QED
    BY <1>1, <1>4, <2>1, <2>2, <2>3 DEF Abreast, HeardOf, ComesTo
<1>6. CASE ~Reconnected(i, v)
  <2>1. UnsubscribeFrom(i, v, Topics, s) /\ Topics \in SUBSET Topics
    BY <1>1, <1>6
  <2>2. /\ pending[i] = {} /\ upstream' = upstream /\ subs' = [subs EXCEPT ![i] = @ \ ({v} \X Topics)]
        /\ \A j \in Instances : j # i => pending'[j] = pending[j]
        /\ \A c \in pending'[i] : c.on => c.topics = {}
    BY <1>2, <2>1, AsksForNone, Zenon
  <2>3. subs'[i] = subs[i] \ ({v} \X Topics) /\ \A j \in Instances : j # i => subs'[j] = subs[j]
    BY <1>2, <2>2 DEF Shape
  <2>4. u \in Topics
    BY DEF Topics
  <2>5. OnItsWay(u)'
    <3>1. \A c \in pending'[i] : ~(c.on /\ u \in c.topics)
      BY <2>2
    <3> QED
      BY <1>1, <1>4, <2>2, <2>3, <3>1, WayKept
  <2>6. \A j \in Instances : <<u, u>> \in subs'[j] =>
          <<u, u>> \in subs[j] /\ (<<u, Channel>> \in subs'[j] <=> <<u, Channel>> \in subs[j])
    BY <2>3, <2>4
  <2>7. \A j \in Instances : MustKnow(j, u)' => MustKnow(j, u) /\ <<u, u>> \in subs'[j]
    BY <1>1, <1>4, <2>6, KnewBefore DEF MustKnow
  <2>8. HeardOf(u)'
    BY <1>1, <1>4, <2>6, <2>7 DEF Abreast, HeardOf, ComesTo, Says
  <2> QED
    BY <1>4, <2>5, <2>8 DEF Abreast
<1> QED
  BY <1>5, <1>6

-----------------------------------------------------------------------------
\* Every step keeps abreast the users who have no race on record.
LEMMA FollowAlways == Spec => []FollowInv
<1>1. Init => FollowInv
  <2> SUFFICES ASSUME Init, NEW u \in Users PROVE Abreast(u)
    BY DEF FollowInv
  <2> QED
    BY DEF Init, Abreast, OneChange, HeardOf, OnItsWay, Changing, NoOp, NoSock, MustKnow
<1>2. Inv /\ FollowInv /\ [Next]_vars => FollowInv'
  <2> SUFFICES ASSUME Inv, FollowInv, [Next]_vars, NEW u \in Users, u \notin raced'
               PROVE  Abreast(u)'
    BY DEF FollowInv
  <2>1. u \notin raced
    <3>1. raced \subseteq raced'
      <4>1. CASE \E i \in Instances : Broker(i)
        BY <4>1 DEF Broker, Command, ApplyControl
      <4>2. CASE \E o \in Ops : Change(o)
        <5>1. PICK o \in Ops : Change(o)
          BY <4>2
        <5>2. CASE Ask(o)
          BY <5>2 DEF Ask
        <5>3. CASE PublishFrame(o) \/ FrameLost(o)
          BY <5>3 DEF PublishFrame, FrameLost
        <5>4. CASE WriteRow(o) \/ ApplyHere(o)
          BY <5>4 DEF WriteRow, ApplyHere
        <5> QED
          BY <5>1, <5>2, <5>3, <5>4 DEF Change
      <4>3. CASE \E s \in Socks : Socket(s)
        <5>1. PICK s \in Socks : Socket(s)
          BY <4>3
        <5>2. CASE Subscribe(s)
          BY <5>2 DEF Subscribe
        <5>3. CASE ~Subscribe(s)
          BY <5>1, <5>3 DEF Socket, RegisterClient, ListChannels, ListFails, UnregisterClient, DropSubscriptions
        <5> QED
          BY <5>2, <5>3
      <4>4. CASE UNCHANGED vars
        BY <4>4 DEF vars
      <4> QED
        BY <4>1, <4>2, <4>3, <4>4 DEF Next
    <3> QED
      BY <3>1
  <2>2. Abreast(u)
    BY <2>1 DEF FollowInv
  <2>3. CASE UNCHANGED vars
    BY <2>2, <2>3 DEF vars, broker, Abreast, OneChange, HeardOf, OnItsWay, Changing, ComesTo, Awaits, MustKnow,
       OfUser, Registered
  <2>4. ASSUME NEW i \in Instances, Broker(i) PROVE Abreast(u)'
    BY <2>2, <2>4, CommandKeeps, ControlKeeps DEF Broker
  <2>5. ASSUME NEW o \in Ops, Change(o) PROVE Abreast(u)'
    BY <2>2, <2>5, AskKeeps, WriteKeeps, ApplyKeeps, PublishKeeps, LostKeeps DEF Change
  <2>6. ASSUME NEW s \in Socks, Socket(s) PROVE Abreast(u)'
    BY <2>2, <2>6, ComeAndGoKeep, ListKeeps, SubscribeKeeps, DropKeeps DEF Socket
  <2> QED
    BY <2>3, <2>4, <2>5, <2>6 DEF Next
<1> QED
  BY <1>1, <1>2, InvAlways, PTL DEF Spec

\* When the changes of a user's membership, the control frames and the connections
\* have come through, whichever instances were involved: no socket of a user who is
\* not a member hears the channel, and every socket of a member does whose list of
\* the channels could be read (broker.go: Subscribe, Unsubscribe; broker_adapter.go:
\* PublishSubscription; ws.go: serve).
THEOREM HearsAsMember == Spec => []SubscribedAsMember
<1>1. Inv /\ FollowInv => SubscribedAsMember
  <2> SUFFICES ASSUME Inv, FollowInv, NEW u \in Users \ raced, Settled(u), NEW s \in Socks, OfUser(s, u)
               PROVE  /\ Hears(s, u) => u \in members
                      /\ u \in members /\ sock[s].read => Hears(s, u)
    BY DEF SubscribedAsMember, Follows
  <2> DEFINE i == sock[s].inst
  <2>1. i \in Instances /\ <<u, u>> \in subs[i]
    BY DEF Inv, Shape, UpIsHeard, OfUser
  <2>2. \A o \in Ops : ~Changing(o, u)
    BY DEF Settled, Changing
  <2>3. MustKnow(i, u) => ComesTo(i, u, u \in members)
    BY <2>1, <2>2 DEF FollowInv, Abreast, HeardOf
  <2>4. \A k \in 1..Len(frames[i]) : ~About(frames[i][k], u)
    BY <2>1 DEF Settled, About
  <2>5. MustKnow(i, u) => (Hears(s, u) <=> u \in members)
    BY <2>3, <2>4 DEF ComesTo, Says, Hears
  <2>6. u \notin members => MustKnow(i, u)
    BY <2>1 DEF MustKnow
  <2>7. sock[s].read => MustKnow(i, u)
    BY <2>1 DEF MustKnow
  <2> QED
    BY <2>5, <2>6, <2>7
<1> QED
  BY <1>1, InvAlways, FollowAlways, PTL

-----------------------------------------------------------------------------
(* Standing orders *)

-----------------------------------------------------------------------------
(* Counting claims *)

\* There are finitely many instants by an instant.
LEMMA InstantsBy ==
  ASSUME NEW t \in Nat
  PROVE  IsFiniteSet(1..t) /\ \A f \in Nat \ {0}: f <= t => f \in 1..t
<1>1. IsFiniteSet(1..t)
  BY FS_Interval
<1>2. \A f \in Nat \ {0}: f <= t => f \in 1..t
  OBVIOUS
<1> QED
  BY <1>1, <1>2

\* Firings do not get fewer, and each adds one.
LEMMA FiringsGrow ==
  ASSUME OrderAssumption, NEW s \in Nat, NEW t \in Nat, s <= t
  PROVE  /\ FiringsBy(s) \in Nat /\ FiringsBy(t) \in Nat /\ FiringsBy(s) <= FiringsBy(t)
         /\ (\E f \in Firings: s < f /\ f <= t) => FiringsBy(s) + 1 <= FiringsBy(t)
         /\ ~(\E f \in Firings: s < f /\ f <= t) => FiringsBy(s) = FiringsBy(t)
<1> DEFINE S == {f \in Firings: f <= s}
           T == {f \in Firings: f <= t}
<1>1. IsFiniteSet(1..t)
  BY InstantsBy
<1>2. T \subseteq 1..t /\ S \subseteq T
  <2>1. Firings \subseteq Nat \ {0}
    BY DEF OrderAssumption
  <2>2. T \subseteq 1..t
    BY <2>1, InstantsBy
  <2>3. \A f \in Nat: f <= s => f <= t
    OBVIOUS
  <2> QED
    BY <2>1, <2>2, <2>3
<1>3. IsFiniteSet(T)
  BY <1>1, <1>2, FS_Subset
<1>4. IsFiniteSet(S) /\ Cardinality(S) <= Cardinality(T) /\ (Cardinality(T) = Cardinality(S) => S = T)
  <2> HIDE DEF S, T
  <2>1. S \in SUBSET T
    BY <1>2
  <2> QED
    BY <2>1, <1>3, FS_Subset
<1>5. Cardinality(S) \in Nat /\ Cardinality(T) \in Nat
  BY <1>3, <1>4, FS_CardinalityType
<1>6. (\E f \in Firings: s < f /\ f <= t) => S # T
  BY DEF OrderAssumption
<1>7. ~(\E f \in Firings: s < f /\ f <= t) => S = T
  <2>1. ASSUME ~(\E f \in Firings: s < f /\ f <= t), NEW f \in Firings, f <= t PROVE f <= s
    BY <2>1 DEF OrderAssumption
  <2> QED
    BY <1>2, <2>1
<1>8. FiringsBy(s) = Cardinality(S) /\ FiringsBy(t) = Cardinality(T)
  BY DEF FiringsBy
<1> HIDE DEF S, T
<1> QED
  BY <1>4, <1>5, <1>6, <1>7, <1>8

\* Heartbeats do not get fewer, and one more comes in an interval.
LEMMA BeatsGrow ==
  ASSUME OrderAssumption, NEW s \in Nat \ {0}, NEW t \in Nat \ {0}, s <= t
  PROVE  /\ BeatsBy(s) \in Nat \ {0} /\ BeatsBy(t) \in Nat \ {0} /\ BeatsBy(s) <= BeatsBy(t)
         /\ t >= s + Interval => BeatsBy(s) + 1 <= BeatsBy(t)
         /\ t <= s + Interval => BeatsBy(t) <= BeatsBy(s) + 1
<1> DEFINE a == (s-1) \div Interval
           b == (t-1) \div Interval
<1>1. Interval \in Nat \ {0} /\ s-1 \in Nat /\ t-1 \in Nat
  BY DEF OrderAssumption
<1>2. /\ a \in Nat /\ Interval * a <= s-1 /\ s-1 < Interval * a + Interval
      /\ b \in Nat /\ Interval * b <= t-1 /\ t-1 < Interval * b + Interval
  BY <1>1
<1> HIDE DEF a, b
<1>3. \A x, y \in Nat: x < y => Interval * x + Interval <= Interval * y
  BY <1>1
<1>4. a <= b
  BY <1>1, <1>2, <1>3
<1>5. t >= s + Interval => a < b
  BY <1>1, <1>2, <1>3, <1>4
<1>6. t <= s + Interval => b <= a + 1
  BY <1>1, <1>2, <1>3, <1>4
<1>7. BeatsBy(s) = 1 + a /\ BeatsBy(t) = 1 + b
  BY DEF BeatsBy, a, b
<1> QED
  BY <1>2, <1>4, <1>5, <1>6, <1>7

-----------------------------------------------------------------------------
(* What may be claimed *)

\* is at most one claim short of what there is,
LEMMA AllowedBound ==
  ASSUME OrderAssumption, NEW last \in Nat, NEW t \in Nat \ {0}, last <= t
  PROVE  /\ ClaimsBy(t) \in Nat /\ Allowed(last, t) \in Nat
         /\ Allowed(last, t) <= ClaimsBy(t) /\ ClaimsBy(t) <= Allowed(last, t) + 1
<1>1. /\ FiringsBy(last) \in Nat /\ FiringsBy(t) \in Nat
      /\ (\E f \in Firings: last < f /\ f <= t) => FiringsBy(last) + 1 <= FiringsBy(t)
  BY FiringsGrow
<1>2. BeatsBy(t) \in Nat \ {0} /\ (last # 0 => /\ BeatsBy(last) \in Nat /\ BeatsBy(last) <= BeatsBy(t)
                                               /\ t <= last + Interval => BeatsBy(t) <= BeatsBy(last) + 1)
  BY BeatsGrow
<1>3. Interval \in Nat
  BY DEF OrderAssumption
<1>4. CASE DueAt(last, t)
  <2>1. FiringsBy(t) # 0 \/ world.beat
    BY <1>1, <1>4 DEF DueAt
  <2> QED
    BY <1>1, <1>2, <1>4, <2>1 DEF ClaimsBy, Allowed
<1>5. CASE ~DueAt(last, t)
  <2>1. world.beat => last # 0 /\ t <= last + Interval
    BY <1>3, <1>5 DEF DueAt
  <2> QED
    BY <1>1, <1>2, <1>5, <2>1 DEF ClaimsBy, Allowed
<1> QED
  BY <1>4, <1>5

\* does not get less with time,
LEMMA AllowedTick ==
  ASSUME OrderAssumption, NEW last \in Nat, NEW t \in Nat \ {0}, last <= t
  PROVE  Allowed(last, t) <= Allowed(last, t+1) /\ ClaimsBy(t) <= ClaimsBy(t+1)
<1>1. /\ FiringsBy(t) \in Nat /\ FiringsBy(t+1) \in Nat /\ FiringsBy(t) <= FiringsBy(t+1)
      /\ (\E f \in Firings: t < f /\ f <= t+1) => FiringsBy(t) + 1 <= FiringsBy(t+1)
  BY FiringsGrow
<1>2. /\ BeatsBy(t) \in Nat \ {0} /\ BeatsBy(t+1) \in Nat \ {0} /\ BeatsBy(t) <= BeatsBy(t+1)
      /\ last # 0 => /\ BeatsBy(last) \in Nat /\ BeatsBy(last) <= BeatsBy(t)
                     /\ t+1 >= last + Interval => BeatsBy(last) + 1 <= BeatsBy(t+1)
  BY BeatsGrow
<1>3. Interval \in Nat /\ Firings \subseteq Nat
  BY DEF OrderAssumption
<1>4. ClaimsBy(t) <= ClaimsBy(t+1)
  BY <1>1, <1>2 DEF ClaimsBy
<1>5. CASE DueAt(last, t)
  <2>1. DueAt(last, t+1)
    BY <1>3, <1>5 DEF DueAt
  <2> QED
    BY <1>1, <1>2, <1>4, <1>5, <2>1 DEF Allowed, ClaimsBy
<1>6. CASE ~DueAt(last, t)
  <2>1. CASE ~DueAt(last, t+1)
    BY <1>1, <1>2, <1>4, <1>6, <2>1 DEF Allowed, DueAt
  <2>2. CASE \E f \in Firings: last < f /\ f <= t+1
    <3>1. \E f \in Firings: t < f /\ f <= t+1
      BY <1>3, <1>6, <2>2 DEF DueAt
    <3>2. world.beat => last # 0
      BY <1>6 DEF DueAt
    <3>3. DueAt(last, t+1)
      BY <2>2 DEF DueAt
    <3> QED
      BY <1>1, <1>2, <1>4, <1>6, <3>1, <3>2, <3>3 DEF Allowed, ClaimsBy
  <2>3. CASE world.beat /\ (last = 0 \/ t+1 >= last + Interval)
    <3>1. last # 0 /\ DueAt(last, t+1)
      BY <1>6, <2>3 DEF DueAt
    <3> QED
      BY <1>1, <1>2, <1>4, <1>6, <2>3, <3>1 DEF Allowed, ClaimsBy
  <2> QED
    BY <2>1, <2>2, <2>3 DEF DueAt
<1> QED
  BY <1>4, <1>5, <1>6

\* nor when the order runs without a claim;
LEMMA AllowedLater ==
  ASSUME OrderAssumption, NEW last \in Nat, NEW later \in Nat, NEW t \in Nat \ {0}, last <= later, later <= t
  PROVE  Allowed(last, t) <= Allowed(later, t)
<1>1. FiringsBy(t) \in Nat
  BY FiringsGrow
<1>2. /\ BeatsBy(t) \in Nat
      /\ later # 0 => /\ BeatsBy(later) \in Nat /\ (t <= later + Interval => BeatsBy(t) <= BeatsBy(later) + 1)
                      /\ last # 0 => BeatsBy(last) \in Nat /\ BeatsBy(last) <= BeatsBy(later)
  BY BeatsGrow
<1>3. Interval \in Nat /\ Firings \subseteq Nat
  BY DEF OrderAssumption
<1>4. CASE DueAt(later, t)
  <2>1. CASE \E f \in Firings: later < f /\ f <= t
    <3>1. \E f \in Firings: last < f /\ f <= t
      BY <1>3, <2>1
    <3>2. DueAt(last, t)
      BY <3>1 DEF DueAt
    <3> QED
      BY <1>1, <1>2, <1>4, <3>2 DEF Allowed, ClaimsBy
  <2>2. CASE world.beat /\ (later = 0 \/ t >= later + Interval)
    <3>1. world.beat /\ (last = 0 \/ t >= last + Interval)
      BY <1>3, <2>2
    <3>2. DueAt(last, t)
      BY <3>1 DEF DueAt
    <3> QED
      BY <1>1, <1>2, <1>4, <3>2 DEF Allowed, ClaimsBy
  <2> QED
    BY <1>4, <2>1, <2>2 DEF DueAt
<1>5. CASE ~DueAt(later, t)
  <2>1. world.beat => later # 0 /\ t <= later + Interval
    BY <1>3, <1>5 DEF DueAt
  <2>2. CASE DueAt(last, t)
    BY <1>1, <1>2, <1>5, <2>1, <2>2 DEF Allowed, ClaimsBy
  <2>3. CASE ~DueAt(last, t)
    <3>1. world.beat => last # 0
      BY <2>3 DEF DueAt
    <3> QED
      BY <1>1, <1>2, <1>5, <2>1, <2>3, <3>1 DEF Allowed
  <2> QED
    BY <2>2, <2>3
<1> QED
  BY <1>4, <1>5

\* and when it has run, everything by then is spent.
LEMMA AllowedSpent ==
  ASSUME OrderAssumption, NEW at \in Nat \ {0}, NEW t \in Nat \ {0}, at <= t
  PROVE  ClaimsBy(at) <= Allowed(at, t)
<1>1. /\ FiringsBy(at) \in Nat /\ FiringsBy(t) \in Nat /\ FiringsBy(at) <= FiringsBy(t)
      /\ (\E f \in Firings: at < f /\ f <= t) => FiringsBy(at) + 1 <= FiringsBy(t)
  BY FiringsGrow
<1>2. /\ BeatsBy(at) \in Nat /\ BeatsBy(t) \in Nat /\ BeatsBy(at) <= BeatsBy(t)
      /\ t >= at + Interval => BeatsBy(at) + 1 <= BeatsBy(t)
  BY BeatsGrow
<1>3. CASE DueAt(at, t)
  <2>1. (\E f \in Firings: at < f /\ f <= t) \/ (world.beat /\ t >= at + Interval)
    BY <1>3 DEF DueAt
  <2> QED
    BY <1>1, <1>2, <1>3, <2>1 DEF Allowed, ClaimsBy
<1>4. CASE ~DueAt(at, t)
  BY <1>1, <1>2, <1>4 DEF Allowed, ClaimsBy
<1> QED
  BY <1>3, <1>4

-----------------------------------------------------------------------------
(* Types *)

Worlds ==
  [harness: Harnesses, beat: BOOLEAN, thread: BOOLEAN, online: BOOLEAN, busy: BOOLEAN, member: BOOLEAN, active: BOOLEAN]

\* The types the argument needs.
OrderTypes ==
  /\ now \in Nat \ {0} /\ row \in Rows /\ world \in Worlds /\ call \in [Calls -> CallStates]
  /\ claims \in Nat /\ lost \in Nat /\ edits \in 0..MaxEdits

FiringInv == OrderTypes /\ FiresInv

\* An idle call, and a missing row.
LEMMA IdleTypes ==
  ASSUME OrderAssumption
  PROVE  Idle \in CallStates /\ NoRow \in Rows /\ Idle.pc = "idle" /\ ~Idle.ran /\ ~Idle.stale /\ Idle.at = 0
         /\ Idle.copy.last = 0 /\ NoRow.last = 0 /\ ~NoRow.here
  BY DEF OrderAssumption, Idle, NoRow, CallStates, Rows

\* An idle call is sound.
LEMMA IdleSound ==
  ASSUME OrderAssumption, OrderTypes
  PROVE  CallSound(Idle)
  BY IdleTypes DEF CallSound, OrderTypes, Putting

-----------------------------------------------------------------------------
(* Steps that write nothing, and steps that do *)

\* A call stays sound while the row stays and nothing is claimed.
LEMMA SoundSame ==
  ASSUME OrderTypes, NEW b \in CallStates, CallSound(b), UNCHANGED <<now, row, claims>>, world'.beat = world.beat,
         lost' \in Nat, lost' >= lost, OrderAssumption, row.last <= now
  PROVE  CallSound(b)'
<1>1. b.pc = "advance" /\ ~b.stale => DueAt(row.last, b.at) /\ Paid(b.at) /\ b.at \in Nat \ {0}
  BY DEF CallSound, CallStates
<1>2. DueAt(row.last, b.at)' <=> DueAt(row.last, b.at)
  BY DEF DueAt
<1>3. ASSUME NEW t \in Nat \ {0}, Paid(t), row.last <= t PROVE Paid(t)'
  <2>1. Allowed(row.last, t) \in Nat
    BY <1>3, AllowedBound DEF OrderTypes, Rows
  <2>2. Allowed(row.last, t)' = Allowed(row.last, t)
    BY DEF DueAt, Allowed, ClaimsBy, FiringsBy, BeatsBy
  <2> QED
    BY <1>3, <2>1, <2>2 DEF Paid, OrderTypes
<1>4. DueAt(row.last, b.at) /\ b.at \in Nat \ {0} => row.last <= b.at
  <2>1. row.last \in Nat /\ Firings \subseteq Nat /\ Interval \in Nat
    BY DEF OrderTypes, Rows, OrderAssumption
  <2> QED
    BY <2>1 DEF DueAt
<1> QED
  BY <1>1, <1>2, <1>3, <1>4 DEF CallSound

\* So does the row.
LEMMA RowSame ==
  ASSUME OrderAssumption, OrderTypes, RowSound, UNCHANGED <<now, row, claims>>, world'.beat = world.beat,
         lost' \in Nat, lost' >= lost
  PROVE  RowSound'
<1>1. Allowed(row.last, now)' = Allowed(row.last, now) /\ ClaimsBy(now)' = ClaimsBy(now)
  BY DEF DueAt, Allowed, ClaimsBy, FiringsBy, BeatsBy
<1>2. Allowed(row.last, now) \in Nat /\ ClaimsBy(now) \in Nat
  BY AllowedBound DEF OrderTypes, RowSound, Rows
<1> QED
  BY <1>1, <1>2 DEF RowSound, FiresOnce, Paid, OrderTypes

\* What holds of the value a call takes holds of the call.
LEMMA SoundHeld ==
  ASSUME NEW d, NEW e, call'[d] = e, CallSound(e)'
  PROVE  CallSound(call[d])'
  BY DEF CallSound, DueAt, Paid, Allowed, ClaimsBy

\* A call moves on, and the row stays.
LEMMA Quiet ==
  ASSUME OrderAssumption, FiringInv, NEW c \in Calls, NEW b \in CallStates, CallSound(b),
         Step(c, b), UNCHANGED <<now, row, claims>>, world' \in Worlds, world'.beat = world.beat,
         lost' \in Nat, lost' >= lost, edits' \in 0..MaxEdits
  PROVE  FiringInv'
<1>1. /\ OrderTypes /\ RowSound /\ row.last <= now
      /\ \A d \in Calls: call[d] \in CallStates /\ CallSound(call[d])
  BY DEF FiringInv, FiresInv, RowSound, OrderTypes
<1>2. call' = [call EXCEPT ![c] = b]
  BY DEF Step
<1>3. OrderTypes'
  BY <1>1, <1>2 DEF OrderTypes
<1>4. RowSound'
  BY <1>1, RowSame
<1>5. ASSUME NEW d \in Calls PROVE CallSound(call[d])'
  <2>1. PICK e \in CallStates : e = call'[d] /\ CallSound(e)
    BY <1>1, <1>2 DEF OrderTypes
  <2>2. CallSound(e)'
    BY <1>1, <2>1, SoundSame
  <2> QED
    BY <2>1, <2>2, SoundHeld
<1> QED
  BY <1>3, <1>4, <1>5 DEF FiringInv, FiresInv

\* The row is written: a call that is overtaken knows the row no more, and the others have
\* lost no claim.
LEMMA OtherSound ==
  ASSUME OrderAssumption, FiringInv, NEW d \in Calls, NEW e,
         e = [call[d] EXCEPT !.stale = ~Free(d) /\ (@ \/ row' # row)],
         now' = now, world'.beat = world.beat, claims' \in Nat, lost' \in Nat,
         row' # row \/ claims' + 2 * lost <= claims + 2 * lost'
  PROVE  e \in CallStates /\ CallSound(e)'
<1>1. call[d] \in CallStates /\ CallSound(call[d]) /\ row.last <= now /\ row \in Rows /\ claims \in Nat /\ lost \in Nat
  BY DEF FiringInv, OrderTypes, FiresInv, RowSound
<1>2. /\ e \in CallStates /\ e.copy = call[d].copy /\ e.at = call[d].at /\ e.pc = call[d].pc /\ e.ran = call[d].ran
      /\ e.stale <=> ~Free(d) /\ (call[d].stale \/ row' # row)
  BY <1>1 DEF CallStates
<1>3. CASE e.stale \/ Free(d)
  BY <1>1, <1>2, <1>3 DEF CallSound, Free, Putting
<1>4. CASE ~e.stale /\ ~Free(d)
  <2>1. row' = row /\ ~call[d].stale
    BY <1>2, <1>4
  <2>2. claims' + 2 * lost <= claims + 2 * lost'
    BY <2>1
  <2>3. ASSUME e.pc = "advance" PROVE e.at >= 1 /\ DueAt(row.last, e.at)' /\ Paid(e.at)'
    <3>1. e.at \in Nat \ {0} /\ DueAt(row.last, e.at) /\ Paid(e.at)
      BY <1>1, <1>2, <2>1, <2>3 DEF CallSound, CallStates
    <3>2. row.last <= e.at
      <4>1. row.last \in Nat /\ Firings \subseteq Nat /\ Interval \in Nat
        BY <1>1 DEF Rows, OrderAssumption
      <4> QED
        BY <3>1, <4>1 DEF DueAt
    <3>3. Allowed(row.last, e.at) \in Nat
      BY <1>1, <3>1, <3>2, AllowedBound DEF Rows
    <3>4. Allowed(row.last, e.at)' = Allowed(row.last, e.at) /\ (DueAt(row.last, e.at)' <=> DueAt(row.last, e.at))
      BY <2>1 DEF DueAt, Allowed, ClaimsBy, FiringsBy, BeatsBy
    <3> QED
      BY <1>1, <2>2, <3>1, <3>3, <3>4 DEF Paid
  <2> QED
    BY <1>1, <1>2, <2>1, <2>3 DEF CallSound
<1> QED
  BY <1>2, <1>3, <1>4

\* The row is written, and every call knows it or not.
LEMMA Written ==
  ASSUME OrderAssumption, FiringInv, NEW c \in Calls, NEW b \in CallStates, CallSound(b)', Wrote(c, b),
         row' \in Rows, RowSound', now' = now, world' \in Worlds, world'.beat = world.beat,
         claims' \in Nat, lost' \in Nat, edits' \in 0..MaxEdits,
         row' # row \/ claims' + 2 * lost <= claims + 2 * lost'
  PROVE  FiringInv'
<1>1. call' = [d \in Calls |-> IF d = c THEN b ELSE [call[d] EXCEPT !.stale = ~Free(d) /\ (@ \/ row' # row)]]
  BY DEF Wrote
<1>2. ASSUME NEW d \in Calls PROVE call'[d] \in CallStates /\ CallSound(call[d])'
  <2>1. CASE d = c
    <3>1. call'[d] = b
      BY <1>1, <2>1
    <3> QED
      BY <3>1, SoundHeld
  <2>2. CASE d # c
    <3>1. PICK e : e = [call[d] EXCEPT !.stale = ~Free(d) /\ (@ \/ row' # row)]
      OBVIOUS
    <3>2. call'[d] = e
      BY <1>1, <2>2, <3>1
    <3>3. e \in CallStates /\ CallSound(e)'
      BY <3>1, OtherSound
    <3> QED
      BY <3>2, <3>3, SoundHeld
  <2> QED
    BY <2>1, <2>2
<1>3. call' \in [Calls -> CallStates]
  BY <1>1, <1>2
<1>4. now \in Nat \ {0}
  BY DEF FiringInv, OrderTypes
<1> QED
  BY <1>2, <1>3, <1>4 DEF FiringInv, OrderTypes, FiresInv

\* A put leaves the row sound: one that is lost, or that is late, pays for what it takes back.
LEMMA PutSound ==
  ASSUME OrderAssumption, FiringInv, NEW r \in Rows, r.last <= now, NEW ok \in BOOLEAN, NEW harm \in BOOLEAN,
         row' = (IF ok THEN r ELSE row), LoseIf(harm), now' = now, world'.beat = world.beat, claims' = claims,
         ~harm => ok /\ row.last <= r.last /\ (r.here => row.here)
  PROVE  /\ row' \in Rows /\ RowSound'
         /\ lost' \in Nat /\ claims' \in Nat /\ claims' + 2 * lost <= claims + 2 * lost'
<1>1. /\ row \in Rows /\ row.last <= now /\ now \in Nat \ {0} /\ claims \in Nat /\ lost \in Nat
      /\ FiresOnce /\ (row.here => Paid(now))
  BY DEF FiringInv, OrderTypes, FiresInv, RowSound
<1>2. row' = (IF ok THEN r ELSE row) /\ lost' = (IF harm THEN lost + 1 ELSE lost)
  BY DEF LoseIf
<1>3. row' \in Rows /\ row'.last <= now /\ row'.last \in Nat /\ row.last \in Nat /\ r.last \in Nat
  BY <1>1, <1>2 DEF Rows
<1>4. PICK l \in Nat : l = row'.last
  BY <1>3
<1>5. /\ ClaimsBy(now) \in Nat /\ Allowed(l, now) \in Nat /\ ClaimsBy(now) <= Allowed(l, now) + 1
      /\ Allowed(row.last, now) \in Nat /\ Allowed(row.last, now) <= ClaimsBy(now)
  BY <1>1, <1>3, <1>4, AllowedBound
<1>6. claims <= ClaimsBy(now) + 2 * lost
  BY <1>1 DEF FiresOnce
<1>7. claims <= Allowed(l, now) + 2 * lost' \/ ~row'.here
  <2>1. CASE harm
    BY <1>1, <1>2, <1>5, <1>6, <2>1
  <2>2. CASE ~harm
    <3>1. l = r.last /\ row'.here = r.here /\ lost' = lost
      BY <1>2, <1>4, <2>2
    <3>2. r.here => claims <= Allowed(row.last, now) + 2 * lost
      BY <1>1, <2>2 DEF Paid
    <3>3. Allowed(row.last, now) <= Allowed(l, now)
      BY <1>1, <1>3, <1>4, <2>2, <3>1, AllowedLater
    <3> QED
      BY <1>1, <1>5, <3>1, <3>2, <3>3
  <2> QED
    BY <2>1, <2>2
<1>8. RowSound'
  <2>1. claims' <= ClaimsBy(now) + 2 * lost'
    BY <1>1, <1>2, <1>5, <1>6
  <2>2. FiresOnce'
    BY <2>1 DEF FiresOnce, ClaimsBy, FiringsBy, BeatsBy
  <2>3. row'.here => Paid(now)'
    BY <1>4, <1>7 DEF Paid, Allowed, DueAt, ClaimsBy, FiringsBy, BeatsBy
  <2> QED
    BY <1>3, <2>2, <2>3 DEF RowSound
<1> QED
  BY <1>1, <1>2, <1>3, <1>8

\* A call that puts the row back and returns.
LEMMA PutReturns ==
  ASSUME OrderAssumption, FiringInv, NEW c \in Calls, NEW r \in Rows, r.last <= now, NEW ok \in BOOLEAN, NEW harm \in BOOLEAN,
         row' = (IF ok THEN r ELSE row), Wrote(c, Idle), LoseIf(harm), UNCHANGED <<now, world, edits, claims>>,
         ~harm => ok /\ row.last <= r.last /\ (r.here => row.here)
  PROVE  FiringInv'
<1>2. /\ row' \in Rows /\ RowSound'
      /\ lost' \in Nat /\ claims' \in Nat /\ claims' + 2 * lost <= claims + 2 * lost'
  BY PutSound
<1>3. world' \in Worlds /\ edits' \in 0..MaxEdits /\ now' \in Nat
  BY DEF FiringInv, OrderTypes
<1>4. Idle \in CallStates /\ CallSound(Idle)'
  BY <1>3, IdleTypes DEF CallSound, Putting
<1> QED
  BY <1>2, <1>3, <1>4, Written

\* A call that puts its copy back, changed in what does not say when the order last ran.
LEMMA CallPuts ==
  ASSUME OrderAssumption, FiringInv, NEW c \in Calls, NEW r \in Rows, NEW ok \in BOOLEAN, call[c].pc \in Putting,
         r.last = call[c].copy.last, r.here = call[c].copy.here,
         PutAndReturn(c, r, ok), UNCHANGED <<now, world, edits, claims>>
  PROVE  FiringInv'
<1>1. call[c] \in CallStates /\ CallSound(call[c]) /\ row.last \in Nat
  BY DEF FiringInv, OrderTypes, FiresInv, Rows
<1>2. PICK harm \in BOOLEAN : harm = (~ok \/ call[c].stale)
  BY <1>1 DEF CallStates
<1>3. row' = (IF ok THEN r ELSE row) /\ Wrote(c, Idle) /\ LoseIf(harm)
  BY <1>2 DEF PutAndReturn, Put
<1>4. call[c].copy.last <= now /\ (~call[c].stale => call[c].copy = row)
  BY <1>1 DEF CallSound
<1>5. r.last <= now /\ (~harm => ok /\ row.last <= r.last /\ (r.here => row.here))
  <2>1. r.last <= now
    BY <1>4
  <2>2. ASSUME ~harm PROVE ok /\ row.last <= r.last /\ (r.here => row.here)
    <3>1. ok /\ call[c].copy = row
      BY <1>2, <1>4, <2>2
    <3> QED
      BY <1>1, <3>1
  <2> QED
    BY <2>1, <2>2
<1> QED
  BY <1>3, <1>5, PutReturns

\* A sweep that goes on with what it has put.
LEMMA SweepGoesOn ==
  ASSUME OrderAssumption, FiringInv, NEW c \in Calls, NEW r \in Rows, r.last <= now, NEW ok \in BOOLEAN,
         NEW pc \in {"look", "catch"}, call[c].op = "sweep",
         PutAndGo(c, pc, r, ok), UNCHANGED <<now, world, edits, claims>>,
         ok /\ ~call[c].stale => row.last <= r.last /\ (r.here => row.here)
  PROVE  FiringInv'
<1>0. PICK b : b = [Idle EXCEPT !.op = call[c].op, !.pc = pc, !.copy = r, !.stale = ~ok]
  OBVIOUS
<1>1. /\ row' = (IF ok THEN r ELSE row) /\ Wrote(c, b)
      /\ call[c].stale \in BOOLEAN /\ LoseIf(~ok \/ call[c].stale)
  BY <1>0 DEF PutAndGo, Put, FiringInv, OrderTypes, CallStates
<1>2. /\ row' \in Rows /\ RowSound' /\ row' = (IF ok THEN r ELSE row)
      /\ lost' \in Nat /\ claims' \in Nat /\ claims' + 2 * lost <= claims + 2 * lost'
  <2>1. PICK harm \in BOOLEAN : harm = (~ok \/ call[c].stale)
    BY <1>1
  <2> QED
    BY <1>1, <2>1, PutSound
<1>3. world' \in Worlds /\ edits' \in 0..MaxEdits /\ now' \in Nat
  BY DEF FiringInv, OrderTypes
<1>4. b \in CallStates /\ b.pc = pc /\ b.copy = r /\ (b.stale <=> ~ok) /\ ~b.ran /\ b.at = 0
  BY <1>0, IdleTypes DEF CallStates, Idle
<1>5. CallSound(b)'
  BY <1>2, <1>3, <1>4 DEF CallSound
<1> QED
  BY <1>1, <1>2, <1>3, <1>4, <1>5, Written

\* The row is deleted, by a call that goes on as b: nobody can claim by it.
LEMMA RowGone ==
  ASSUME OrderAssumption, FiringInv, row' = NoRow, UNCHANGED <<now, world, claims>>, lost' \in Nat, lost' >= lost
  PROVE  row' \in Rows /\ RowSound'
<1>1. now \in Nat \ {0} /\ claims \in Nat /\ lost \in Nat /\ row \in Rows /\ FiresOnce
  BY DEF FiringInv, OrderTypes, FiresInv, RowSound
<1>2. NoRow \in Rows /\ NoRow.last = 0 /\ ~NoRow.here
  BY IdleTypes
<1>3. ClaimsBy(now) \in Nat
  BY <1>1, AllowedBound
<1>4. claims' <= ClaimsBy(now) + 2 * lost'
  BY <1>1, <1>3 DEF FiresOnce
<1>5. FiresOnce'
  BY <1>4 DEF FiresOnce, ClaimsBy, FiringsBy, BeatsBy
<1> QED
  BY <1>1, <1>2, <1>5 DEF RowSound

-----------------------------------------------------------------------------
(* The sweeps *)

\* A call starts on the row as it is.
LEMMA StartSound ==
  ASSUME OrderAssumption, FiringInv, NEW c \in Calls, row.here,
         NEW what \in {"sweep", "message", "update", "delete", "list"}, NEW pc \in {"clock", "look", "update", "delete", "refile"},
         Start(c, what, pc), UNCHANGED <<now, world, row, claims, lost>>, edits' \in 0..MaxEdits
  PROVE  FiringInv'
<1> DEFINE b == [Idle EXCEPT !.op = what, !.pc = pc, !.copy = row]
<1>1. now \in Nat \ {0} /\ row \in Rows /\ row.last <= now /\ lost \in Nat /\ world \in Worlds
  BY DEF FiringInv, OrderTypes, FiresInv, RowSound
<1>2. b \in CallStates /\ b.pc = pc /\ b.copy = row /\ ~b.ran /\ b.at = 0
  BY <1>1, IdleTypes DEF CallStates, Idle
<1>3. Step(c, b)
  BY DEF Start
<1> HIDE DEF b
<1>4. CallSound(b)
  BY <1>1, <1>2 DEF CallSound
<1> QED
  BY <1>1, <1>2, <1>3, <1>4, Quiet

\* What a sweep finds due at its clock may be claimed.
LEMMA SweepClockInv ==
  ASSUME OrderAssumption, FiringInv, NEW c \in Calls, SweepClock(c)
  PROVE  FiringInv'
<1> DEFINE b == [call[c] EXCEPT !.at = now, !.pc = IF Due(call[c].copy) THEN "advance" ELSE "catch"]
<1>1. /\ now \in Nat \ {0} /\ row \in Rows /\ row.last <= now /\ lost \in Nat /\ world \in Worlds /\ edits \in 0..MaxEdits
      /\ call[c] \in CallStates /\ CallSound(call[c]) /\ (row.here => Paid(now))
  BY DEF FiringInv, OrderTypes, FiresInv, RowSound
<1>2. call[c].pc = "clock" /\ Step(c, b) /\ UNCHANGED <<env, row, missed, claims, saved, lost>>
  BY DEF SweepClock
<1>3. /\ b \in CallStates /\ b.at = now /\ b.copy = call[c].copy /\ b.stale = call[c].stale /\ b.ran = call[c].ran
      /\ b.pc = IF Due(call[c].copy) THEN "advance" ELSE "catch"
  BY <1>1 DEF CallStates
<1> HIDE DEF b
<1>4. ASSUME Due(row) PROVE DueAt(row.last, now)
  BY <1>4 DEF Due, DueBySchedule, DueByHeartbeat, DueAt
<1>5. call[c].copy.here /\ (~call[c].stale => call[c].copy = row) /\ ~call[c].ran /\ call[c].copy.last <= now
  BY <1>1, <1>2 DEF CallSound, Putting
<1>6. CallSound(b)
  BY <1>1, <1>3, <1>4, <1>5 DEF CallSound
<1> QED
  BY <1>1, <1>2, <1>3, <1>6, Quiet DEF env

\* The claim is made: it was still to be made, or is paid for.
LEMMA AdvanceInv ==
  ASSUME OrderAssumption, FiringInv, NEW c \in Calls, NEW ok \in BOOLEAN, Advance(c, ok)
  PROVE  FiringInv'
<1>0. PICK r, pc, b : /\ r = Advanced(call[c].copy, call[c].at)
                      /\ pc = IF ok THEN "look" ELSE "catch"
                      /\ b = [Idle EXCEPT !.op = call[c].op, !.pc = pc, !.copy = r, !.stale = ~ok]
  OBVIOUS
<1>1. /\ now \in Nat \ {0} /\ row \in Rows /\ row.last <= now /\ lost \in Nat /\ world \in Worlds /\ edits \in 0..MaxEdits
      /\ call[c] \in CallStates /\ CallSound(call[c]) /\ claims \in Nat /\ FiresOnce
      /\ row.here => Paid(now)
  BY DEF FiringInv, OrderTypes, FiresInv, RowSound
<1>2. /\ call[c].pc = "advance" /\ Wrote(c, b)
      /\ row' = (IF ok THEN r ELSE row) /\ lost' = (IF ~ok \/ call[c].stale THEN lost + 1 ELSE lost)
      /\ claims' = (IF ok THEN claims + 1 ELSE claims) /\ UNCHANGED <<env, missed, saved>>
  BY <1>0 DEF Advance, PutAndGo, Put, LoseIf
<1>3. PICK at \in Nat \ {0} : at = call[c].at /\ at <= now
  BY <1>1, <1>2 DEF CallSound, CallStates
<1>4. r \in Rows /\ r.last = at /\ r.here
  BY <1>0, <1>1, <1>2, <1>3 DEF CallSound, CallStates, Rows, Advanced
<1>5. b \in CallStates /\ b.pc = pc /\ b.copy = r /\ (b.stale <=> ~ok) /\ ~b.ran /\ b.at = 0
  BY <1>0, <1>1, <1>4, IdleTypes, ZenonT(30) DEF CallStates, Idle
<1>6. row' \in Rows /\ row'.last <= now /\ claims' \in Nat /\ lost' \in Nat /\ UNCHANGED <<now, world, edits>>
  BY <1>1, <1>2, <1>3, <1>4 DEF env
<1>7. CallSound(b)'
  <2>1. b.pc \in {"look", "catch"} /\ (~b.stale => b.copy = row')
    BY <1>0, <1>2, <1>5
  <2>2. b.copy.last <= now' /\ b.at <= now'
    BY <1>1, <1>3, <1>4, <1>5, <1>6
  <2>3. ~b.ran /\ b.pc \notin {"clock", "advance"}
    BY <1>5, <2>1
  <2> QED
    BY <2>1, <2>2, <2>3 DEF CallSound
<1>8. /\ ClaimsBy(now) \in Nat /\ ClaimsBy(at) \in Nat /\ ClaimsBy(at) <= Allowed(at, now)
      /\ Allowed(at, now) \in Nat /\ Allowed(at, now) <= ClaimsBy(now) /\ ClaimsBy(now) <= Allowed(at, now) + 1
  <2>1. now \in Nat \ {0} /\ at \in Nat /\ at <= now
    BY <1>1, <1>3
  <2>2. ClaimsBy(at) \in Nat
    BY AllowedBound
  <2>3. /\ ClaimsBy(now) \in Nat /\ Allowed(at, now) \in Nat
        /\ Allowed(at, now) <= ClaimsBy(now) /\ ClaimsBy(now) <= Allowed(at, now) + 1
    BY <2>1, AllowedBound
  <2>4. ClaimsBy(at) <= Allowed(at, now)
    BY <2>1, AllowedSpent
  <2> QED
    BY <2>2, <2>3, <2>4
<1>9. ~call[c].stale => claims + 1 <= ClaimsBy(at) + 2 * lost /\ row.last < at
  <2>1. SUFFICES ASSUME ~call[c].stale PROVE claims + 1 <= ClaimsBy(at) + 2 * lost /\ row.last < at
    OBVIOUS
  <2>2. DueAt(row.last, at) /\ Paid(at)
    BY <1>1, <1>2, <1>3, <2>1 DEF CallSound
  <2>3. claims + 1 <= ClaimsBy(at) + 2 * lost
    BY <1>1, <1>8, <2>2 DEF Paid, Allowed
  <2>4. row.last \in Nat /\ Firings \subseteq Nat /\ Interval \in Nat \ {0}
    BY <1>1 DEF Rows, OrderAssumption
  <2>5. row.last < at
    BY <2>2, <2>4 DEF DueAt
  <2> QED
    BY <2>3, <2>5
<1>10. claims <= ClaimsBy(now) + 2 * lost
  BY <1>1 DEF FiresOnce
<1>11. /\ claims' <= ClaimsBy(now) + 2 * lost'
       /\ ok => claims' <= Allowed(at, now) + 2 * lost'
  BY <1>1, <1>2, <1>8, <1>9, <1>10
<1>12. RowSound'
  <2>1. FiresOnce'
    BY <1>6, <1>11 DEF FiresOnce, ClaimsBy, FiringsBy, BeatsBy
  <2>2. CASE ok
    <3>1. row'.last = at
      BY <1>2, <1>4, <2>2
    <3>2. Paid(now)'
      BY <1>6, <1>11, <2>2, <3>1 DEF Paid, Allowed, DueAt, ClaimsBy, FiringsBy, BeatsBy
    <3> QED
      BY <1>6, <2>1, <3>2 DEF RowSound
  <2>3. CASE ~ok
    <3>1. row' = row /\ lost' = lost + 1 /\ claims' = claims
      BY <1>2, <2>3
    <3> QED
      BY <1>1, <1>6, <3>1, RowSame DEF FiringInv, FiresInv
  <2> QED
    BY <2>2, <2>3
<1>13. row' # row \/ claims' + 2 * lost <= claims + 2 * lost'
  BY <1>1, <1>2, <1>4, <1>9
<1> QED
  BY <1>1, <1>2, <1>5, <1>6, <1>7, <1>12, <1>13, Written

\* The row is deleted, or that fails, and the call goes on as b.
LEMMA DeletesRow ==
  ASSUME OrderAssumption, FiringInv, NEW c \in Calls, NEW ok \in BOOLEAN, NEW b \in CallStates, CallSound(b)',
         row' = (IF ok THEN NoRow ELSE row), LoseIf(~ok), Wrote(c, b), UNCHANGED <<now, world, edits, claims>>
  PROVE  FiringInv'
<1>1. /\ lost \in Nat /\ lost' \in Nat /\ lost' >= lost /\ claims \in Nat /\ world' \in Worlds /\ edits' \in 0..MaxEdits
      /\ row \in Rows /\ RowSound
  BY DEF FiringInv, OrderTypes, FiresInv, LoseIf
<1>2. row' \in Rows /\ RowSound'
  <2>1. CASE ok
    BY <1>1, <2>1, RowGone
  <2>2. CASE ~ok
    BY <1>1, <2>2, RowSame DEF FiringInv
  <2> QED
    BY <2>1, <2>2
<1>3. now' = now /\ world'.beat = world.beat /\ claims' = claims
  OBVIOUS
<1>4. claims' + 2 * lost <= claims + 2 * lost' /\ claims' \in Nat
  <2>1. \A k, m, n \in Nat: n >= m => k + 2 * m <= k + 2 * n
    OBVIOUS
  <2>2. lost \in Nat /\ lost' \in Nat /\ lost' >= lost /\ claims \in Nat
    BY <1>1
  <2> QED
    BY <1>3, <2>1, <2>2
<1>5. lost' \in Nat /\ world' \in Worlds /\ edits' \in 0..MaxEdits
  BY <1>1
<1> QED
  BY <1>2, <1>3, <1>4, <1>5, Written

\* A call goes on with the copy it has,
LEMMA GoesOn ==
  ASSUME OrderAssumption, FiringInv, NEW c \in Calls, call[c].pc \in Putting \ {"clear"},
         NEW pc \in Putting \ {"clock", "advance"}, NEW at \in Nat, at <= now, NEW active \in BOOLEAN, NEW offline \in BOOLEAN,
         Step(c, [call[c] EXCEPT !.pc = pc, !.at = at, !.active = active, !.offline = offline]),
         UNCHANGED <<now, world, row, claims, edits>>, lost' \in Nat, lost' >= lost
  PROVE  FiringInv'
<1>1. PICK b : b = [call[c] EXCEPT !.pc = pc, !.at = at, !.active = active, !.offline = offline]
  OBVIOUS
<1>2. call[c] \in CallStates /\ CallSound(call[c]) /\ world \in Worlds /\ edits \in 0..MaxEdits
  BY DEF FiringInv, OrderTypes, FiresInv
<1>3. /\ b \in CallStates /\ b.pc = pc /\ b.at = at /\ b.copy = call[c].copy /\ b.stale = call[c].stale /\ b.ran = call[c].ran
  BY <1>1, <1>2 DEF CallStates, Putting
<1>4. CallSound(b)
  BY <1>2, <1>3 DEF CallSound
<1> QED
  BY <1>1, <1>2, <1>3, <1>4, Quiet

\* or returns.
LEMMA Returns ==
  ASSUME OrderAssumption, FiringInv, NEW c \in Calls, Return(c),
         UNCHANGED <<now, world, row, claims, edits>>, lost' \in Nat, lost' >= lost
  PROVE  FiringInv'
<1>1. world \in Worlds /\ edits \in 0..MaxEdits /\ OrderTypes
  BY DEF FiringInv, OrderTypes
<1> QED
  BY <1>1, IdleTypes, IdleSound, Quiet DEF Return

\* A sweep or a dispatch is through with the trigger.
LEMMA ThroughInv ==
  ASSUME OrderAssumption, FiringInv, NEW c \in Calls, call[c].pc \in Putting \ {"clear"}, Through(c),
         UNCHANGED <<now, world, row, claims, edits>>, lost' \in Nat, lost' >= lost
  PROVE  FiringInv'
<1>1. CASE call[c].op = "sweep"
  <2>1. call[c] \in CallStates /\ call[c].at <= now
    BY DEF FiringInv, OrderTypes, FiresInv, CallSound
  <2>2. PICK at \in Nat, offline \in BOOLEAN : at = call[c].at /\ offline = call[c].offline
    BY <2>1 DEF CallStates
  <2>3. Step(c, [call[c] EXCEPT !.pc = "catch", !.at = at, !.active = FALSE, !.offline = offline])
    BY <1>1, <2>1, <2>2 DEF Through, CallStates
  <2> QED
    BY <2>1, <2>2, <2>3, GoesOn DEF Putting
<1>2. CASE call[c].op # "sweep"
  BY <1>2, Returns DEF Through
<1> QED
  BY <1>1, <1>2

\* A look at the creator says how the call goes on.
LEMMA LookInv ==
  ASSUME OrderAssumption, FiringInv, NEW c \in Calls, Look(c)
  PROVE  FiringInv'
<1>1. /\ call[c] \in CallStates /\ call[c].at <= now /\ lost \in Nat /\ call[c].pc \in Putting \ {"clear"}
      /\ world.active \in BOOLEAN
  BY DEF Look, FiringInv, OrderTypes, FiresInv, CallSound, Putting, Worlds
<1>2. UNCHANGED <<now, world, row, claims, edits, lost>>
  BY DEF Look, env
<1>3. CASE world.member
  <2>1. PICK at \in Nat, offline \in BOOLEAN, active \in BOOLEAN :
          at = call[c].at /\ offline = call[c].offline /\ active = world.active
    BY <1>1 DEF CallStates
  <2>2. Step(c, [call[c] EXCEPT !.pc = "invoke", !.at = at, !.active = active, !.offline = offline])
    BY <1>1, <1>3, <2>1 DEF Look, CallStates
  <2>3. "invoke" \in Putting \ {"clock", "advance"} /\ at <= now /\ lost' \in Nat /\ lost' >= lost
    BY <1>1, <1>2, <2>1 DEF Putting
  <2>4. call[c].pc \in Putting \ {"clear"} /\ UNCHANGED <<now, world, row, claims, edits>>
    BY <1>1, <1>2
  <2> QED
    BY <2>2, <2>3, <2>4, GoesOn
<1>4. CASE ~world.member
  BY <1>1, <1>2, <1>4, ThroughInv DEF Look
<1> QED
  BY <1>3, <1>4

\* Starting the run moves nothing of the order.
LEMMA InvokeInv ==
  ASSUME OrderAssumption, FiringInv, NEW c \in Calls, Invoke(c)
  PROVE  FiringInv'
<1>1. /\ call[c] \in CallStates /\ call[c].at <= now /\ lost \in Nat /\ call[c].pc \in Putting \ {"clear"}
  BY DEF Invoke, FiringInv, OrderTypes, FiresInv, CallSound, Putting
<1>2. UNCHANGED <<now, world, row, claims, edits, lost>>
  BY DEF Invoke
<1>3. PICK note \in BOOLEAN, offline \in BOOLEAN :
        IF note THEN Step(c, [call[c] EXCEPT !.pc = "mark", !.offline = offline]) ELSE Through(c)
  BY DEF Invoke
<1>4. CASE note
  <2>1. PICK at \in Nat, active \in BOOLEAN : at = call[c].at /\ active = call[c].active
    BY <1>1 DEF CallStates
  <2>2. Step(c, [call[c] EXCEPT !.pc = "mark", !.at = at, !.active = active, !.offline = offline])
    BY <1>1, <1>3, <1>4, <2>1 DEF CallStates
  <2>3. "mark" \in Putting \ {"clock", "advance"} /\ at <= now /\ lost' \in Nat /\ lost' >= lost
    BY <1>1, <1>2, <2>1 DEF Putting
  <2>4. call[c].pc \in Putting \ {"clear"} /\ UNCHANGED <<now, world, row, claims, edits>>
    BY <1>1, <1>2
  <2> QED
    BY <2>2, <2>3, <2>4, GoesOn
<1>5. CASE ~note
  BY <1>1, <1>2, <1>3, <1>5, ThroughInv
<1> QED
  BY <1>4, <1>5

\* Noting a miss leaves when the order last ran.
LEMMA MarkInv ==
  ASSUME OrderAssumption, FiringInv, NEW c \in Calls, NEW ok \in BOOLEAN, Mark(c, ok)
  PROVE  FiringInv'
<1>1. /\ call[c] \in CallStates /\ CallSound(call[c]) /\ lost \in Nat /\ call[c].pc \in Putting \ {"clear"}
  BY DEF Mark, FiringInv, OrderTypes, FiresInv, Putting
<1>2. UNCHANGED <<now, world, edits, claims>>
  BY DEF Mark, env
<1>3. PICK r \in Rows : /\ r = Marked(call[c].copy, call[c].offline)
                        /\ r.last = call[c].copy.last /\ r.here = call[c].copy.here
  <2>1. call[c].copy \in Rows /\ call[c].offline \in BOOLEAN
    BY <1>1 DEF CallStates
  <2>2. PICK r : r = Marked(call[c].copy, call[c].offline)
    OBVIOUS
  <2>3. r \in Rows /\ r.last = call[c].copy.last /\ r.here = call[c].copy.here
    BY <2>1, <2>2 DEF Marked, Rows
  <2> QED
    BY <2>2, <2>3
<1>4. r.last <= now /\ call[c].stale \in BOOLEAN /\ (~call[c].stale => r.last = row.last /\ r.here = row.here)
  BY <1>1, <1>3 DEF CallSound, CallStates
<1>5. row.last \in Nat
  BY DEF FiringInv, OrderTypes, Rows
<1>6. CASE r = call[c].copy
  <2>1. Through(c) /\ LoseIf(call[c].stale) /\ UNCHANGED row
    BY <1>3, <1>6 DEF Mark
  <2>2. lost' \in Nat /\ lost' >= lost
    BY <1>1, <2>1 DEF LoseIf
  <2> QED
    BY <1>1, <1>2, <2>1, <2>2, ThroughInv
<1>7. CASE r # call[c].copy /\ call[c].op = "sweep"
  <2>1. PutAndGo(c, "catch", r, ok)
    BY <1>3, <1>7 DEF Mark
  <2> QED
    BY <1>2, <1>4, <1>5, <1>7, <2>1, SweepGoesOn
<1>8. CASE r # call[c].copy /\ call[c].op # "sweep"
  <2>1. PutAndReturn(c, r, ok)
    BY <1>3, <1>8 DEF Mark
  <2> QED
    BY <1>1, <1>2, <1>3, <2>1, CallPuts
<1> QED
  BY <1>6, <1>7, <1>8

\* The look at what is pending says how the sweep goes on.
LEMMA CatchUpLookInv ==
  ASSUME OrderAssumption, FiringInv, NEW c \in Calls, CatchUpLook(c)
  PROVE  FiringInv'
<1>1. /\ call[c] \in CallStates /\ CallSound(call[c]) /\ lost \in Nat /\ call[c].pc \in Putting \ {"clear"}
      /\ world \in Worlds /\ edits \in 0..MaxEdits /\ call[c].pc = "catch" /\ now \in Nat
  BY DEF CatchUpLook, FiringInv, OrderTypes, FiresInv, Putting
<1>2. UNCHANGED <<now, world, row, claims, edits, lost>>
  BY DEF CatchUpLook, env
<1>3. call[c].at \in Nat /\ call[c].active \in BOOLEAN /\ call[c].offline \in BOOLEAN /\ call[c].at <= now /\ world.active \in BOOLEAN
  BY <1>1 DEF CallStates, CallSound, Worlds
<1>4. lost' \in Nat /\ lost' >= lost /\ UNCHANGED <<now, world, row, claims, edits>>
  BY <1>1, <1>2
<1>5. PICK b : b = call[c]
  OBVIOUS
<1>6. ASSUME NEW pc \in {"clear", "start", "ask"}, NEW at \in Nat, NEW active \in BOOLEAN, NEW offline \in BOOLEAN, at <= now,
             Step(c, [call[c] EXCEPT !.pc = pc, !.at = at, !.active = active, !.offline = offline])
      PROVE  FiringInv'
  <2>1. pc \in Putting \ {"clock", "advance"}
    BY DEF Putting
  <2> QED
    BY <1>1, <1>4, <1>6, <2>1, GoesOn
<1>7. CASE Step(c, [call[c] EXCEPT !.pc = "clear", !.at = 0])
  <2>1. PICK at \in Nat : at = 0 /\ at <= now
    BY <1>1
  <2>2. Step(c, [call[c] EXCEPT !.pc = "clear", !.at = at, !.active = b.active, !.offline = b.offline])
    BY <1>1, <1>5, <1>7, <2>1 DEF CallStates
  <2> QED
    BY <1>1, <1>3, <1>5, <1>6, <2>1, <2>2
<1>8. CASE Step(c, [call[c] EXCEPT !.pc = "start", !.active = world.active])
  <2>1. PICK active \in BOOLEAN : active = world.active
    BY <1>3
  <2>2. Step(c, [call[c] EXCEPT !.pc = "start", !.at = b.at, !.active = active, !.offline = b.offline])
    BY <1>1, <1>5, <1>8, <2>1 DEF CallStates
  <2> QED
    BY <1>1, <1>3, <1>5, <1>6, <2>2
<1>9. CASE Goto(c, "ask")
  <2>1. Step(c, [call[c] EXCEPT !.pc = "ask", !.at = b.at, !.active = b.active, !.offline = b.offline])
    BY <1>1, <1>5, <1>9 DEF Goto, CallStates
  <2> QED
    BY <1>1, <1>3, <1>5, <1>6, <2>1
<1>10. CASE Return(c)
  BY <1>4, <1>10, Returns
<1> QED
  BY <1>7, <1>8, <1>9, <1>10 DEF CatchUpLook

\* A catch-up that starts takes the time for its run.
LEMMA StartCatchUpInv ==
  ASSUME OrderAssumption, FiringInv, NEW c \in Calls, StartCatchUp(c)
  PROVE  FiringInv'
<1>1. /\ call[c] \in CallStates /\ CallSound(call[c]) /\ lost \in Nat /\ call[c].pc = "start" /\ row.last <= now
      /\ world \in Worlds /\ edits \in 0..MaxEdits /\ now \in Nat /\ row \in Rows
  BY DEF StartCatchUp, FiringInv, OrderTypes, FiresInv, RowSound
<1>2. UNCHANGED <<now, world, row, claims, edits, lost>>
  BY DEF StartCatchUp
<1>3. PICK b : b = [call[c] EXCEPT !.pc = "clear", !.ran = TRUE, !.at = now]
  OBVIOUS
<1>4. Step(c, b) \/ Return(c)
  BY <1>3 DEF StartCatchUp
<1>5. CASE Return(c)
  BY <1>1, <1>2, <1>5, Returns
<1>6. CASE Step(c, b)
  <2>1. /\ b \in CallStates /\ b.pc = "clear" /\ b.at = now /\ b.ran /\ b.copy = call[c].copy /\ b.stale = call[c].stale
    BY <1>1, <1>3 DEF CallStates
  <2>2. call[c].copy.last <= now /\ (~call[c].stale => call[c].copy = row)
    BY <1>1 DEF CallSound, Putting
  <2>3. CallSound(b)
    BY <1>1, <2>1, <2>2 DEF CallSound
  <2> QED
    BY <1>1, <1>2, <1>6, <2>1, <2>3, Quiet
<1> QED
  BY <1>4, <1>5, <1>6

\* Clearing puts the time of that run, which is no claim, or keeps the one there was.
LEMMA ClearCatchUpInv ==
  ASSUME OrderAssumption, FiringInv, NEW c \in Calls, NEW ok \in BOOLEAN, ClearCatchUp(c, ok)
  PROVE  FiringInv'
<1>1. /\ call[c] \in CallStates /\ CallSound(call[c]) /\ row \in Rows /\ call[c].pc = "clear" /\ call[c].pc \in Putting
  BY DEF ClearCatchUp, FiringInv, OrderTypes, FiresInv, Putting
<1>2. PICK r : r = Cleared(call[c].copy, call[c])
  OBVIOUS
<1>3. PICK harm \in BOOLEAN : harm = (~ok \/ call[c].stale \/ (call[c].ran /\ missed # "no"))
  BY <1>1 DEF CallStates
<1>4. /\ row' = (IF ok THEN r ELSE row) /\ Wrote(c, Idle) /\ LoseIf(harm) /\ UNCHANGED <<now, world, edits, claims>>
  BY <1>2, <1>3 DEF ClearCatchUp, env
<1>5. call[c].copy \in Rows /\ call[c].at \in Nat /\ call[c].ran \in BOOLEAN
  BY <1>1 DEF CallStates
<1>6. r \in Rows /\ r.here = call[c].copy.here /\ r.last = (IF call[c].ran THEN call[c].at ELSE call[c].copy.last)
  BY <1>2, <1>5 DEF Cleared, Advanced, Dismissed, Rows
<1>7. r.last <= now
  BY <1>1, <1>6 DEF CallSound
<1>8. ~harm => ok /\ row.last <= r.last /\ (r.here => row.here)
  <2>1. ~call[c].stale => call[c].copy = row /\ (call[c].ran => row.last <= call[c].at)
    BY <1>1 DEF CallSound
  <2>2. row.last \in Nat
    BY <1>1 DEF Rows
  <2>3. ASSUME ~harm PROVE ok /\ call[c].copy = row /\ (call[c].ran => row.last <= call[c].at)
    BY <1>3, <2>1, <2>3
  <2>4. ASSUME ~harm PROVE row.last <= r.last
    <3>1. CASE call[c].ran
      BY <1>6, <2>3, <2>4, <3>1
    <3>2. CASE ~call[c].ran
      BY <1>6, <2>2, <2>3, <2>4, <3>2
    <3> QED
      BY <3>1, <3>2
  <2> QED
    BY <1>6, <2>3, <2>4
<1> QED
  BY <1>4, <1>6, <1>7, <1>8, PutReturns

-----------------------------------------------------------------------------
(* The creator's calls *)

\* Sweeps, dispatches and calls of the creator start with the row as it is,
LEMMA ReadsInv ==
  ASSUME OrderAssumption, FiringInv, NEW c \in Calls,
         SweepList(c) \/ DispatchList(c) \/ UpdateRead(c) \/ DeleteRead(c) \/ ListRead(c)
  PROVE  FiringInv'
<1>1. edits \in 0..MaxEdits /\ MaxEdits \in Nat
  BY DEF FiringInv, OrderTypes, OrderAssumption
<1>2. row.here /\ UNCHANGED <<now, world, row, claims, lost>> /\ edits' \in 0..MaxEdits
  BY <1>1 DEF SweepList, DispatchList, UpdateRead, DeleteRead, ListRead, env
<1>3. \/ Start(c, "sweep", "clock") \/ Start(c, "message", "look") \/ Start(c, "update", "update")
      \/ Start(c, "delete", "delete") \/ Start(c, "list", "refile")
  BY DEF SweepList, DispatchList, UpdateRead, DeleteRead, ListRead
<1> QED
  BY <1>2, <1>3, StartSound

\* and so does a decision about the catch-up.
LEMMA DecideReadInv ==
  ASSUME OrderAssumption, FiringInv, NEW c \in Calls, NEW process \in BOOLEAN, DecideRead(c, process)
  PROVE  FiringInv'
<1>1. now \in Nat \ {0} /\ row \in Rows /\ row.last <= now /\ lost \in Nat /\ world \in Worlds /\ edits \in 0..MaxEdits
  BY DEF FiringInv, OrderTypes, FiresInv, RowSound
<1>2. PICK b : b = [Idle EXCEPT !.op = "decide", !.pc = IF process THEN "start" ELSE "clear",
                                !.copy = row, !.active = world.active]
  OBVIOUS
<1>3. /\ b \in CallStates /\ b.pc \in {"start", "clear"} /\ b.copy = row /\ ~b.ran /\ b.at = 0
  BY <1>1, <1>2, IdleTypes, ZenonT(30) DEF CallStates, Idle, Worlds
<1>4. CallSound(b)
  BY <1>1, <1>3 DEF CallSound
<1>5. Step(c, b) /\ UNCHANGED <<now, world, row, claims, lost, edits>>
  BY <1>2 DEF DecideRead, env
<1> QED
  BY <1>1, <1>3, <1>4, <1>5, Quiet

\* Asking, refiling and editing leave when the order last ran.
LEMMA PutsInv ==
  ASSUME OrderAssumption, FiringInv, NEW c \in Calls, NEW ok \in BOOLEAN, NEW sched \in BOOLEAN,
         AskCatchUp(c, ok) \/ Refile(c, ok) \/ UpdatePut(c, sched, ok)
  PROVE  FiringInv'
<1>1. call[c].copy \in Rows /\ edits \in 0..MaxEdits
  BY DEF FiringInv, OrderTypes, CallStates
<1>2. call[c].pc \in Putting /\ UNCHANGED <<now, world, edits, claims>>
  BY DEF AskCatchUp, Refile, UpdatePut, Putting, env
<1>3. PICK r : /\ PutAndReturn(c, r, ok)
               /\ \/ r = [call[c].copy EXCEPT !.asked = TRUE]
                  \/ r = call[c].copy
                  \/ r = [call[c].copy EXCEPT !.instr = edits, !.sched = sched]
  BY DEF AskCatchUp, Refile, UpdatePut
<1>4. r \in Rows /\ r.last = call[c].copy.last /\ r.here = call[c].copy.here
  BY <1>1, <1>3 DEF Rows
<1> QED
  BY <1>2, <1>3, <1>4, CallPuts

\* Deletes take the row away, or fail.
LEMMA DeletesInv ==
  ASSUME OrderAssumption, FiringInv, NEW c \in Calls, NEW ok \in BOOLEAN, Delete(c, ok) \/ StopOrder(c, ok)
  PROVE  FiringInv'
<1>1. /\ call[c] \in CallStates /\ CallSound(call[c]) /\ now \in Nat
  BY DEF FiringInv, OrderTypes, FiresInv
<1>2. row' = (IF ok THEN NoRow ELSE row) /\ LoseIf(~ok) /\ UNCHANGED <<now, world, edits, claims>>
  BY DEF Delete, StopOrder, DeleteRow, env
<1>3. CASE Delete(c, ok)
  <2>1. Idle \in CallStates /\ CallSound(Idle)'
    BY <1>1, <1>2, IdleTypes DEF CallSound, Putting
  <2>2. Wrote(c, Idle)
    BY <1>3 DEF Delete
  <2> QED
    BY <1>2, <2>1, <2>2, DeletesRow
<1>4. CASE StopOrder(c, ok)
  <2>1. PICK b : b = [call[c] EXCEPT !.pc = "stopRuns", !.copy = NoRow]
    OBVIOUS
  <2>2. Wrote(c, b) /\ call[c].pc = "stopOrder"
    BY <1>4, <2>1 DEF StopOrder
  <2>3. /\ b \in CallStates /\ b.pc = "stopRuns" /\ b.copy.last = 0 /\ b.at = call[c].at /\ b.ran = call[c].ran
    BY <1>1, <2>1, IdleTypes DEF CallStates
  <2>4. CallSound(b)'
    BY <1>1, <1>2, <2>2, <2>3 DEF CallSound, Putting
  <2> QED
    BY <1>2, <2>2, <2>3, <2>4, DeletesRow
<1> QED
  BY <1>3, <1>4

\* The deactivation of the account takes no claim.
LEMMA StopsInv ==
  ASSUME OrderAssumption, FiringInv, NEW c \in Calls, Deactivate(c) \/ StopList(c) \/ StopRuns(c)
  PROVE  FiringInv'
<1>1. /\ call[c] \in CallStates /\ CallSound(call[c]) /\ now \in Nat /\ lost \in Nat /\ world \in Worlds /\ edits \in 0..MaxEdits
      /\ row \in Rows /\ row.last <= now
  BY DEF FiringInv, OrderTypes, FiresInv, RowSound
<1>2. UNCHANGED <<now, row, claims, lost, edits>> /\ world' \in Worlds /\ world'.beat = world.beat
  BY <1>1 DEF Deactivate, StopList, StopRuns, Worlds, env
<1>3. CASE StopRuns(c)
  <2>1. UNCHANGED <<now, world, row, claims, edits, lost>> /\ Return(c)
    BY <1>3 DEF StopRuns
  <2> QED
    BY <1>1, <2>1, Returns
<1>4. CASE Deactivate(c)
  <2>1. PICK b : b = [Idle EXCEPT !.op = "deactivate", !.pc = "stopList"]
    OBVIOUS
  <2>2. b \in CallStates /\ b.pc = "stopList" /\ ~b.ran /\ b.at = 0 /\ b.copy.last = 0
    BY <2>1, IdleTypes DEF CallStates
  <2>3. CallSound(b) /\ Step(c, b)
    BY <1>1, <1>4, <2>1, <2>2 DEF CallSound, Putting, Deactivate
  <2> QED
    BY <1>1, <1>2, <2>2, <2>3, Quiet
<1>5. CASE StopList(c)
  <2>1. PICK b : b = [call[c] EXCEPT !.copy = row, !.pc = IF row.here THEN "stopOrder" ELSE "stopRuns"]
    OBVIOUS
  <2>2. /\ b \in CallStates /\ b.pc \in {"stopOrder", "stopRuns"} /\ b.copy = row /\ b.at = call[c].at /\ b.ran = call[c].ran
    BY <1>1, <2>1 DEF CallStates
  <2>3. Step(c, b) /\ call[c].pc = "stopList"
    BY <1>5, <2>1 DEF StopList
  <2>4. CallSound(b)
    BY <1>1, <2>2, <2>3 DEF CallSound, Putting
  <2> QED
    BY <1>1, <1>2, <2>2, <2>3, <2>4, Quiet
<1> QED
  BY <1>3, <1>4, <1>5

-----------------------------------------------------------------------------
(* The world *)

\* What happens to the creator, the agent and its run touches no call.
LEMMA WorldInv ==
  ASSUME OrderAssumption, FiringInv, Disturb \/ Recover \/ EndRun
  PROVE  FiringInv'
<1>1. UNCHANGED <<now, row, claims, lost, edits, call>>
  BY DEF Disturb, Recover, EndRun
<1>2. /\ OrderTypes /\ RowSound /\ row.last <= now
      /\ \A d \in Calls: call[d] \in CallStates /\ CallSound(call[d])
  BY DEF FiringInv, FiresInv, RowSound, OrderTypes
<1>3. world' \in Worlds /\ world'.beat = world.beat
  <2>1. world \in Worlds
    BY <1>2 DEF OrderTypes
  <2> QED
    BY <2>1, ZenonT(30) DEF Disturb, Recover, EndRun, Worlds
<1>4. lost' \in Nat /\ lost' >= lost
  BY <1>1, <1>2 DEF OrderTypes
<1>5. OrderTypes' /\ RowSound'
  BY <1>1, <1>2, <1>3, <1>4, RowSame DEF OrderTypes
<1>6. ASSUME NEW d \in Calls PROVE CallSound(call[d])'
  <2>1. PICK e \in CallStates : e = call'[d] /\ CallSound(e)
    BY <1>1, <1>2
  <2>2. CallSound(e)'
    BY <1>1, <1>2, <1>3, <1>4, <2>1, SoundSame
  <2> QED
    BY <2>1, <2>2, SoundHeld
<1> QED
  BY <1>5, <1>6 DEF FiringInv, FiresInv

\* The order of a quiet thread goes, and every copy of it is stale.
LEMMA ReapInv ==
  ASSUME OrderAssumption, FiringInv, Reap
  PROVE  FiringInv'
<1>1. row' = NoRow /\ UNCHANGED <<now, world, claims, lost, edits>>
      /\ call' = [d \in Calls |-> [call[d] EXCEPT !.stale = ~Free(d)]]
  BY DEF Reap, DeleteRow, env
<1>2. OrderTypes /\ \A d \in Calls: call[d] \in CallStates /\ CallSound(call[d])
  BY DEF FiringInv, FiresInv, OrderTypes
<1>3. row' \in Rows /\ RowSound'
  BY <1>1, <1>2, RowGone DEF OrderTypes
<1>4. ASSUME NEW d \in Calls PROVE call'[d] \in CallStates /\ CallSound(call[d])'
  <2>1. PICK e : e = call'[d]
    OBVIOUS
  <2>2. /\ e \in CallStates /\ e.copy = call[d].copy /\ e.at = call[d].at /\ e.pc = call[d].pc /\ e.ran = call[d].ran
        /\ e.stale <=> ~Free(d)
    BY <1>1, <1>2, <2>1, ZenonT(30) DEF CallStates
  <2>3. CallSound(e)'
    BY <1>1, <1>2, <2>2 DEF CallSound, Free, Putting
  <2> QED
    BY <2>1, <2>2, <2>3, SoundHeld
<1>5. OrderTypes'
  <2>1. call' \in [Calls -> CallStates]
    BY <1>1, <1>4
  <2> QED
    BY <1>1, <1>2, <1>3, <2>1 DEF OrderTypes
<1> QED
  BY <1>3, <1>4, <1>5 DEF FiringInv, FiresInv

\* Time brings claims, and takes none.
LEMMA TickInv ==
  ASSUME OrderAssumption, FiringInv, Tick
  PROVE  FiringInv'
<1>1. /\ now \in Nat \ {0} /\ row \in Rows /\ row.last <= now /\ row.last \in Nat /\ lost \in Nat /\ claims \in Nat
      /\ FiresOnce /\ (row.here => Paid(now)) /\ OrderTypes
      /\ \A d \in Calls: call[d] \in CallStates /\ CallSound(call[d])
  BY DEF FiringInv, FiresInv, RowSound, OrderTypes, Rows
<1>2. now' = now + 1 /\ UNCHANGED <<row, world, claims, lost, edits, call>>
  BY DEF Tick
<1>3. PICK t \in Nat \ {0} : t = now'
  BY <1>1, <1>2
<1>4. /\ Allowed(row.last, now) <= Allowed(row.last, t) /\ ClaimsBy(now) <= ClaimsBy(t)
      /\ Allowed(row.last, now) \in Nat /\ ClaimsBy(now) \in Nat
      /\ Allowed(row.last, t) \in Nat /\ ClaimsBy(t) \in Nat
  <2>1. t = now + 1 /\ row.last <= t
    BY <1>1, <1>2, <1>3
  <2>2. Allowed(row.last, now) <= Allowed(row.last, now + 1) /\ ClaimsBy(now) <= ClaimsBy(now + 1)
    BY <1>1, AllowedTick
  <2>3. Allowed(row.last, now) \in Nat /\ ClaimsBy(now) \in Nat
    BY <1>1, AllowedBound
  <2>4. Allowed(row.last, t) \in Nat /\ ClaimsBy(t) \in Nat
    BY <1>1, <2>1, AllowedBound
  <2> QED
    BY <2>1, <2>2, <2>3, <2>4
<1>5. claims <= ClaimsBy(t) + 2 * lost /\ (row.here => claims <= Allowed(row.last, t) + 2 * lost)
  BY <1>1, <1>4 DEF FiresOnce, Paid
<1>6. RowSound'
  <2>1. FiresOnce'
    BY <1>2, <1>3, <1>5 DEF FiresOnce, ClaimsBy, FiringsBy, BeatsBy
  <2>2. row'.here => Paid(now)'
    BY <1>2, <1>3, <1>5 DEF Paid, Allowed, DueAt, ClaimsBy, FiringsBy, BeatsBy
  <2> QED
    BY <1>1, <1>2, <2>1, <2>2 DEF RowSound
<1>7. ASSUME NEW d \in Calls PROVE CallSound(call[d])'
  <2>1. PICK e \in CallStates : e = call'[d] /\ CallSound(e)
    BY <1>1, <1>2
  <2>2. e.copy.last \in Nat /\ e.at \in Nat
    BY DEF CallStates, Rows
  <2>3. (DueAt(row.last, e.at)' <=> DueAt(row.last, e.at)) /\ (Paid(e.at)' <=> Paid(e.at))
    BY <1>2 DEF Paid, Allowed, DueAt, ClaimsBy, FiringsBy, BeatsBy
  <2>4. CallSound(e)'
    BY <1>1, <1>2, <2>1, <2>2, <2>3 DEF CallSound
  <2> QED
    BY <2>1, <2>4, SoundHeld
<1> QED
  BY <1>1, <1>2, <1>3, <1>6, <1>7 DEF FiringInv, FiresInv, OrderTypes

-----------------------------------------------------------------------------
(* The specification *)

\* A new order has claimed nothing.
LEMMA FiringInit ==
  ASSUME OrderAssumption, OrderInit
  PROVE  FiringInv
<1>1. OrderTypes
  <2>1. PICK kind \in Kinds, h \in Harnesses, busy \in BOOLEAN :
          /\ row = Created(kind)
          /\ world = [harness |-> h, beat |-> kind = "beat", thread |-> kind \in Threaded,
                      online |-> TRUE, busy |-> busy, member |-> TRUE, active |-> TRUE]
    BY DEF OrderInit
  <2>2. world \in Worlds
    BY <2>1 DEF Worlds
  <2>3. row \in Rows
    BY <2>1, IdleTypes DEF Created, Rows
  <2> QED
    BY <2>2, <2>3, IdleTypes DEF OrderInit, OrderTypes, OrderAssumption
<1>2. row.last = 0 /\ now = 1 /\ claims = 0 /\ lost = 0
  BY DEF OrderInit, Created, NoRow
<1>3. Allowed(0, 1) \in Nat /\ ClaimsBy(1) \in Nat
  BY AllowedBound
<1>4. RowSound
  BY <1>2, <1>3 DEF RowSound, FiresOnce, Paid
<1>5. \A c \in Calls: CallSound(call[c])
  BY <1>1, IdleSound DEF OrderInit
<1> QED
  BY <1>1, <1>4, <1>5 DEF FiringInv, FiresInv

\* Every step keeps the invariant.
LEMMA FiringNext ==
  ASSUME OrderAssumption, FiringInv, [OrderNext]_orderVars
  PROVE  FiringInv'
<1>1. CASE UNCHANGED orderVars
  BY <1>1 DEF orderVars, env, FiringInv, OrderTypes, FiresInv, RowSound, FiresOnce, Paid, Allowed, DueAt, ClaimsBy, FiringsBy,
              BeatsBy, CallSound
<1>2. ASSUME NEW c \in Calls, Continue(c) PROVE FiringInv'
  BY <1>2, SweepClockInv, LookInv, InvokeInv, CatchUpLookInv, StartCatchUpInv, StopsInv, AdvanceInv, MarkInv, PutsInv,
     ClearCatchUpInv, DeletesInv DEF Continue
<1>3. ASSUME NEW c \in Calls, Begin(c) \/ SweepList(c) PROVE FiringInv'
  BY <1>3, ReadsInv, DecideReadInv, StopsInv DEF Begin
<1> QED
  BY <1>1, <1>2, <1>3, WorldInv, ReapInv, TickInv DEF OrderNext, Calls

\* A firing is claimed once, and heartbeats keep their interval, however many sweeps there are,
\* but for two claims for a put that is lost or that goes over a newer row.
THEOREM FiresOncePerFiring ==
  ASSUME OrderAssumption
  PROVE  OrderSpec => []FiresOnce
<1>1. OrderInit => FiringInv
  BY FiringInit
<1>2. FiringInv /\ [OrderNext]_orderVars => FiringInv'
  BY FiringNext
<1>3. FiringInv => FiresOnce
  BY DEF FiringInv, FiresInv, RowSound
<1> QED
  BY <1>1, <1>2, <1>3, PTL DEF OrderSpec
-----------------------------------------------------------------------------
(* Consent *)

\* Others stay where they are.
LEMMA OthersStay ==
  ASSUME FiringInv, NEW c \in Calls, NEW b, Step(c, b) \/ Wrote(c, b)
  PROVE  /\ call'[c] = b
         /\ \A d \in Calls \ {c}: /\ call'[d].pc = call[d].pc /\ call'[d].copy = call[d].copy
                                  /\ call'[d].offline = call[d].offline
<1>1. call \in [Calls -> CallStates]
  BY DEF FiringInv, OrderTypes
<1>2. CASE Step(c, b)
  BY <1>1, <1>2 DEF Step
<1>3. CASE Wrote(c, b)
  <2>1. call'[c] = b
    BY <1>3 DEF Wrote
  <2>2. ASSUME NEW d \in Calls \ {c}
        PROVE  call'[d].pc = call[d].pc /\ call'[d].copy = call[d].copy /\ call'[d].offline = call[d].offline
    <3>1. call'[d] = [call[d] EXCEPT !.stale = ~Free(d) /\ (@ \/ row' # row)]
      BY <1>3 DEF Wrote
    <3>2. call[d] \in CallStates
      BY <1>1
    <3> QED
      BY <3>1, <3>2 DEF CallStates
  <2> QED
    BY <2>1, <2>2
<1> QED
  BY <1>2, <1>3

\* A step of a call that was to note nothing, and leaves what is noted on the row.
LEMMA BacklogKept ==
  ASSUME FiringInv, Backlog, NEW c \in Calls, NEW b, Step(c, b) \/ Wrote(c, b), ~AboutToNote(call[c]),
         missed' = "offline" /\ lost' = 0 => missed = "offline" /\ lost = 0 /\ (row.offline => row'.offline)
  PROVE  Backlog'
<1>1. SUFFICES ASSUME missed' = "offline", lost' = 0
               PROVE  row'.offline \/ \E d \in Calls: AboutToNote(call[d])'
  BY DEF Backlog
<1>2. row.offline \/ \E d \in Calls: AboutToNote(call[d])
  BY <1>1 DEF Backlog
<1>3. ASSUME NEW d \in Calls, AboutToNote(call[d]) PROVE AboutToNote(call[d])'
  <2>1. d # c
    BY <1>3
  <2>2. call'[d].pc = call[d].pc /\ call'[d].offline = call[d].offline
    BY <2>1, OthersStay
  <2> QED
    BY <1>3, <2>2 DEF AboutToNote
<1> QED
  BY <1>1, <1>2, <1>3

\* A step of a call that is not about to start a catch-up, or was found to need no consent.
LEMMA JudgedKept ==
  ASSUME FiringInv, Judged, NEW c \in Calls, NEW b, Step(c, b) \/ Wrote(c, b), world'.harness = world.harness,
         c \in Sweepers /\ b.pc = "start" => ~NeedsConsent(b.copy)
  PROVE  Judged'
<1>1. SUFFICES ASSUME NEW d \in Sweepers, call'[d].pc = "start" PROVE ~NeedsConsent(call[d].copy)'
  BY DEF Judged
<1>2. d \in Calls
  BY DEF Calls
<1>3. call'[c] = b
  BY OthersStay
<1>4. CASE d = c
  BY <1>1, <1>3, <1>4 DEF NeedsConsent
<1>5. CASE d # c
  <2>1. call'[d].pc = call[d].pc /\ call'[d].copy = call[d].copy
    BY <1>2, <1>5, OthersStay
  <2>2. ~NeedsConsent(call[d].copy)
    BY <1>1, <2>1 DEF Judged
  <2> QED
    BY <2>1, <2>2 DEF NeedsConsent
<1> QED
  BY <1>4, <1>5

\* Both are kept by a call that notes nothing, loses nothing of what was noted, and starts
\* only what needs no consent.
LEMMA ConsentKept ==
  ASSUME FiringInv, Backlog, Judged, NEW c \in Calls, NEW b, Step(c, b) \/ Wrote(c, b), world'.harness = world.harness,
         ~AboutToNote(call[c]),
         missed' = "offline" /\ lost' = 0 => missed = "offline" /\ lost = 0 /\ (row.offline => row'.offline),
         c \in Sweepers /\ b.pc = "start" => ~NeedsConsent(b.copy)
  PROVE  Backlog' /\ Judged'
  BY BacklogKept, JudgedKept

\* Calls that begin, look on or return; a call of a request may start what it decided.
LEMMA StepsConsent ==
  ASSUME OrderAssumption, FiringInv, Backlog, Judged, NEW c \in Calls,
         \/ SweepList(c) \/ SweepClock(c) \/ Look(c) \/ CatchUpLook(c) \/ StopList(c) \/ StopRuns(c)
         \/ DispatchList(c) \/ UpdateRead(c) \/ DeleteRead(c) \/ ListRead(c) \/ Deactivate(c)
         \/ StartCatchUp(c)
  PROVE  Backlog' /\ Judged'
<1>1. call[c] \in CallStates /\ Idle.pc = "idle"
  BY IdleTypes DEF FiringInv, OrderTypes
<1>2. ~AboutToNote(call[c])
  BY DEF AboutToNote, SweepList, SweepClock, Look, CatchUpLook, StopList, StopRuns, DispatchList, UpdateRead, DeleteRead,
         ListRead, Deactivate, StartCatchUp, Free
<1>3. UNCHANGED <<row, lost>> /\ (missed' = "offline" => missed = "offline")
  BY DEF SweepList, SweepClock, Look, CatchUpLook, StopList, StopRuns, DispatchList, UpdateRead, DeleteRead, ListRead,
         Deactivate, StartCatchUp
<1>4. world'.harness = world.harness
  <2>1. CASE Deactivate(c)
    <3>1. world \in Worlds
      BY DEF FiringInv, OrderTypes
    <3> QED
      BY <2>1, <3>1 DEF Deactivate, Worlds
  <2>2. CASE ~Deactivate(c)
    <3>1. world' = world
      BY <2>2 DEF SweepList, SweepClock, Look, CatchUpLook, StopList, StopRuns, DispatchList, UpdateRead, DeleteRead,
                  ListRead, StartCatchUp, env
    <3> QED
      BY <3>1
  <2> QED
    BY <2>1, <2>2
<1>5. \E b : Step(c, b) /\ (b.pc = "start" => ~NeedsConsent(b.copy))
  <2>1. CASE CatchUpLook(c)
    <3>1. CASE call[c].copy.pending /\ world.member /\ ~NeedsConsent(call[c].copy)
      <4>1. PICK b : b = [call[c] EXCEPT !.pc = "start", !.active = world.active]
        OBVIOUS
      <4>2. Step(c, b)
        BY <2>1, <3>1, <4>1 DEF CatchUpLook
      <4>3. b.copy = call[c].copy
        BY <1>1, <4>1 DEF CallStates
      <4> QED
        BY <3>1, <4>2, <4>3
    <3>2. CASE ~(call[c].copy.pending /\ world.member /\ ~NeedsConsent(call[c].copy))
      <4>1. PICK b : /\ Step(c, b)
                     /\ \/ b = [call[c] EXCEPT !.pc = "clear", !.at = 0]
                        \/ b = [call[c] EXCEPT !.pc = "ask"]
                        \/ b = Idle
        BY <2>1, <3>2 DEF CatchUpLook, Goto, Return
      <4>2. b.pc # "start"
        BY <1>1, <4>1 DEF CallStates
      <4> QED
        BY <4>1, <4>2
    <3> QED
      BY <3>1, <3>2
  <2>2. CASE ~CatchUpLook(c)
    <3> SUFFICES \E b : Step(c, b) /\ b.pc # "start"
      OBVIOUS
    <3>1. ASSUME NEW what, NEW pc, pc # "start", Start(c, what, pc) PROVE \E b : Step(c, b) /\ b.pc # "start"
      <4>1. PICK b : b = [Idle EXCEPT !.op = what, !.pc = pc, !.copy = row]
        OBVIOUS
      <4>2. b.pc = pc
        BY <4>1 DEF Idle
      <4> QED
        BY <3>1, <4>1, <4>2 DEF Start
    <3>2. CASE SweepList(c) \/ DispatchList(c) \/ UpdateRead(c) \/ DeleteRead(c) \/ ListRead(c)
      BY <3>1, <3>2 DEF SweepList, DispatchList, UpdateRead, DeleteRead, ListRead
    <3>3. CASE SweepClock(c)
      <4>1. PICK b : b = [call[c] EXCEPT !.at = now, !.pc = IF Due(call[c].copy) THEN "advance" ELSE "catch"]
        OBVIOUS
      <4>2. b.pc # "start"
        BY <1>1, <4>1 DEF CallStates
      <4> QED
        BY <3>3, <4>1, <4>2 DEF SweepClock
    <3>4. CASE Look(c)
      <4>1. PICK b : /\ Step(c, b)
                     /\ \/ b = [call[c] EXCEPT !.pc = "invoke", !.active = world.active]
                        \/ b = [call[c] EXCEPT !.pc = "catch", !.active = FALSE]
                        \/ b = Idle
        BY <3>4 DEF Look, Through, Return
      <4>2. b.pc # "start"
        BY <1>1, <4>1 DEF CallStates
      <4> QED
        BY <4>1, <4>2
    <3>5. CASE StopList(c)
      <4>1. PICK b : b = [call[c] EXCEPT !.copy = row, !.pc = IF row.here THEN "stopOrder" ELSE "stopRuns"]
        OBVIOUS
      <4>2. b.pc # "start"
        BY <1>1, <4>1 DEF CallStates
      <4> QED
        BY <3>5, <4>1, <4>2 DEF StopList
    <3>6. CASE StopRuns(c)
      BY <1>1, <3>6 DEF StopRuns, Return
    <3>7. CASE Deactivate(c)
      <4>1. PICK b : b = [Idle EXCEPT !.op = "deactivate", !.pc = "stopList"]
        OBVIOUS
      <4>2. b.pc # "start"
        BY <4>1 DEF Idle
      <4> QED
        BY <3>7, <4>1, <4>2 DEF Deactivate
    <3>8. CASE StartCatchUp(c)
      <4>1. PICK b : Step(c, b) /\ (b = [call[c] EXCEPT !.pc = "clear", !.ran = TRUE, !.at = now] \/ b = Idle)
        BY <3>8 DEF StartCatchUp, Return
      <4>2. b.pc # "start"
        BY <1>1, <4>1 DEF CallStates
      <4> QED
        BY <4>1, <4>2
    <3> QED
      BY <2>2, <3>2, <3>3, <3>4, <3>5, <3>6, <3>7, <3>8
  <2> QED
    BY <2>1, <2>2
<1> QED
  BY <1>2, <1>3, <1>4, <1>5, ConsentKept

\* A request starts what its caller decided.
LEMMA DecideConsent ==
  ASSUME OrderAssumption, FiringInv, Backlog, Judged, NEW c \in Requests, NEW process \in BOOLEAN, DecideRead(c, process)
  PROVE  Backlog' /\ Judged'
<1>1. PICK b : b = [Idle EXCEPT !.op = "decide", !.pc = IF process THEN "start" ELSE "clear",
                                !.copy = row, !.active = world.active]
  OBVIOUS
<1>2. Step(c, b) /\ Free(c) /\ UNCHANGED <<row, lost, missed, world>>
  BY <1>1 DEF DecideRead, env
<1>3. c \in Calls /\ c \notin Sweepers
  BY DEF OrderAssumption, Calls
<1>4. ~AboutToNote(call[c])
  BY <1>2 DEF AboutToNote, Free
<1> QED
  BY <1>2, <1>3, <1>4, ConsentKept

\* An offline miss is counted by the call that is about to note it.
LEMMA InvokeConsent ==
  ASSUME OrderAssumption, FiringInv, Backlog, Judged, NEW c \in Calls, Invoke(c)
  PROVE  Backlog' /\ Judged'
<1>1. call[c] \in CallStates /\ call[c].pc = "invoke" /\ UNCHANGED <<row, lost, world>> /\ ~AboutToNote(call[c])
  BY DEF FiringInv, OrderTypes, Invoke, AboutToNote
<1>2. CASE Noted(c) /\ Outcome(call[c].active) \in {"offline", "busy"}
  <2>1. PICK b : b = [call[c] EXCEPT !.pc = "mark", !.offline = Outcome(call[c].active) = "offline"]
    OBVIOUS
  <2>2. /\ Step(c, b) /\ missed' = Worse(Outcome(call[c].active))
        /\ b.pc = "mark" /\ (b.offline <=> Outcome(call[c].active) = "offline")
    BY <1>1, <1>2, <2>1 DEF Invoke, CallStates
  <2>3. Judged'
    BY <1>1, <2>2, JudgedKept
  <2>4. CASE Outcome(call[c].active) = "offline"
    <3>1. call'[c] = b
      BY <2>2, OthersStay
    <3>2. AboutToNote(call[c])'
      BY <2>2, <2>4, <3>1 DEF AboutToNote
    <3> QED
      BY <2>3, <3>2 DEF Backlog
  <2>5. CASE Outcome(call[c].active) = "busy"
    <3>1. missed' = "offline" => missed = "offline"
      BY <2>2, <2>5 DEF Worse
    <3> QED
      BY <1>1, <2>2, <3>1, ConsentKept
  <2> QED
    BY <1>2, <2>4, <2>5
<1>3. CASE ~(Noted(c) /\ Outcome(call[c].active) \in {"offline", "busy"})
  <2>1. PICK b : Step(c, b) /\ (b = [call[c] EXCEPT !.pc = "catch", !.active = FALSE] \/ b = Idle)
    BY <1>3 DEF Invoke, Through, Return
  <2>2. b.pc # "start" /\ missed' = missed
    BY <1>1, <1>3, <2>1, IdleTypes DEF Invoke, CallStates
  <2> QED
    BY <1>1, <2>1, <2>2, ConsentKept
<1> QED
  BY <1>2, <1>3

\* A put that is not lost puts the miss back with the rest of the row.
LEMMA PutsConsent ==
  ASSUME OrderAssumption, FiringInv, Backlog, Judged, NEW c \in Calls, NEW ok \in BOOLEAN, NEW sched \in BOOLEAN,
         Advance(c, ok) \/ AskCatchUp(c, ok) \/ Refile(c, ok) \/ UpdatePut(c, sched, ok)
  PROVE  Backlog' /\ Judged'
<1>1. call[c] \in CallStates /\ call[c].copy \in Rows /\ CallSound(call[c]) /\ lost \in Nat
  BY DEF FiringInv, OrderTypes, FiresInv, CallStates
<1>2. /\ call[c].pc \in Putting /\ ~AboutToNote(call[c]) /\ UNCHANGED <<world, missed>>
  BY DEF AboutToNote, Advance, AskCatchUp, Refile, UpdatePut, Putting, env
<1>3. PICK r, b : /\ Put(c, r, ok) /\ Wrote(c, b) /\ r.offline = call[c].copy.offline /\ b.pc # "start"
  <2>1. CASE Advance(c, ok)
    <3>1. PICK r, b : /\ r = Advanced(call[c].copy, call[c].at)
                      /\ b = [Idle EXCEPT !.op = call[c].op, !.pc = IF ok THEN "look" ELSE "catch", !.copy = r, !.stale = ~ok]
      OBVIOUS
    <3>2. Put(c, r, ok) /\ Wrote(c, b)
      BY <2>1, <3>1 DEF Advance, PutAndGo
    <3>3. r.offline = call[c].copy.offline
      BY <1>1, <3>1 DEF Advanced, Rows
    <3>4. b.pc # "start"
      BY <3>1 DEF Idle
    <3> QED
      BY <3>2, <3>3, <3>4
  <2>2. CASE AskCatchUp(c, ok) \/ Refile(c, ok) \/ UpdatePut(c, sched, ok)
    <3>1. PICK r : /\ PutAndReturn(c, r, ok)
                   /\ \/ r = [call[c].copy EXCEPT !.asked = TRUE]
                      \/ r = call[c].copy
                      \/ r = [call[c].copy EXCEPT !.instr = edits, !.sched = sched]
      BY <2>2 DEF AskCatchUp, Refile, UpdatePut
    <3>2. r.offline = call[c].copy.offline
      BY <1>1, <3>1 DEF Rows
    <3>3. Put(c, r, ok) /\ Wrote(c, Idle) /\ Idle.pc # "start"
      BY <3>1, IdleTypes DEF PutAndReturn
    <3> QED
      BY <3>2, <3>3
  <2> QED
    BY <2>1, <2>2
<1>4. lost' = 0 => lost = 0 /\ ok /\ ~call[c].stale
  BY <1>1, <1>3 DEF Put, LoseIf
<1>5. lost' = 0 => row' = r /\ call[c].copy = row
  BY <1>1, <1>2, <1>3, <1>4 DEF Put, CallSound
<1> QED
  BY <1>2, <1>3, <1>4, <1>5, ConsentKept

\* What was to be noted is on the row, or a put was lost.
LEMMA MarkConsent ==
  ASSUME OrderAssumption, FiringInv, Backlog, Judged, NEW c \in Calls, NEW ok \in BOOLEAN, Mark(c, ok)
  PROVE  Backlog' /\ Judged'
<1>1. /\ call[c] \in CallStates /\ call[c].copy \in Rows /\ call[c].offline \in BOOLEAN /\ CallSound(call[c]) /\ lost \in Nat
      /\ call[c].pc = "mark" /\ call[c].pc \in Putting /\ UNCHANGED <<world, missed>>
  BY DEF FiringInv, OrderTypes, FiresInv, CallStates, Mark, Putting, env
<1>2. PICK r : r = Marked(call[c].copy, call[c].offline)
  OBVIOUS
<1>3. r.offline = (call[c].copy.offline \/ call[c].offline)
  BY <1>1, <1>2 DEF Marked, MarkedAlready, Rows
<1>4. PICK b : (Step(c, b) \/ Wrote(c, b)) /\ b.pc # "start"
  <2>1. PICK b : /\ Step(c, b) \/ Wrote(c, b)
                 /\ \/ b = [call[c] EXCEPT !.pc = "catch", !.active = FALSE]
                    \/ b = [Idle EXCEPT !.op = call[c].op, !.pc = "catch", !.copy = r, !.stale = ~ok]
                    \/ b = Idle
    BY <1>2 DEF Mark, Through, PutAndGo, PutAndReturn, Return
  <2>2. CASE b = [call[c] EXCEPT !.pc = "catch", !.active = FALSE]
    <3>1. call[c] \in CallStates
      BY <1>1
    <3>2. b.pc = "catch"
      BY <3>1, <2>2 DEF CallStates
    <3> QED
      BY <2>1, <3>2
  <2>3. CASE b = [Idle EXCEPT !.op = call[c].op, !.pc = "catch", !.copy = r, !.stale = ~ok]
    BY <2>1, <2>3, ZenonT(30) DEF Idle
  <2>4. CASE b = Idle
    BY <2>1, <2>4 DEF Idle
  <2> QED
    BY <2>1, <2>2, <2>3, <2>4
<1>5. lost' = 0 => lost = 0 /\ row' = r /\ ~call[c].stale
  BY <1>1, <1>2 DEF Mark, PutAndGo, PutAndReturn, Put, LoseIf, CallSound
<1>6. lost' = 0 => (row'.offline <=> row.offline \/ call[c].offline)
  BY <1>1, <1>3, <1>5 DEF CallSound
<1>7. Judged'
  BY <1>1, <1>4, JudgedKept
<1>8. CASE call[c].offline
  BY <1>6, <1>7, <1>8 DEF Backlog
<1>9. CASE ~call[c].offline
  BY <1>1, <1>4, <1>5, <1>6, <1>9, ConsentKept DEF AboutToNote
<1> QED
  BY <1>8, <1>9

\* A clearing that wipes the miss off the row has caught up with it, or is counted as lost.
LEMMA ClearsConsent ==
  ASSUME OrderAssumption, FiringInv, Backlog, Judged, NEW c \in Calls, NEW ok \in BOOLEAN,
         ClearCatchUp(c, ok) \/ Delete(c, ok) \/ StopOrder(c, ok)
  PROVE  Backlog' /\ Judged'
<1>1. call[c] \in CallStates /\ lost \in Nat /\ call[c].ran \in BOOLEAN
  BY DEF FiringInv, OrderTypes, CallStates
<1>2. ~AboutToNote(call[c]) /\ world' = world
  BY DEF AboutToNote, ClearCatchUp, Delete, StopOrder, env
<1>3. PICK b : Wrote(c, b) /\ b.pc # "start"
  <2>1. CASE StopOrder(c, ok)
    <3>1. PICK b : b = [call[c] EXCEPT !.pc = "stopRuns", !.copy = NoRow]
      OBVIOUS
    <3>2. b.pc # "start"
      BY <1>1, <3>1 DEF CallStates
    <3> QED
      BY <2>1, <3>1, <3>2 DEF StopOrder
  <2>2. CASE ~StopOrder(c, ok)
    BY <2>2, IdleTypes DEF ClearCatchUp, Delete
  <2> QED
    BY <2>1, <2>2
<1>4. ASSUME lost' = 0 PROVE lost = 0 /\ missed' # "offline"
  <2>1. CASE ClearCatchUp(c, ok)
    <3>1. ok /\ lost = 0 /\ ~(call[c].ran /\ missed # "no")
      BY <1>1, <1>4, <2>1 DEF ClearCatchUp, LoseIf
    <3> QED
      BY <2>1, <3>1 DEF ClearCatchUp
  <2>2. CASE Delete(c, ok) \/ StopOrder(c, ok)
    BY <1>1, <1>4, <2>2 DEF Delete, StopOrder, DeleteRow, LoseIf
  <2> QED
    BY <2>1, <2>2
<1> QED
  BY <1>2, <1>3, <1>4, ConsentKept

\* The world takes no miss off the row, and moves no agent.
LEMMA WorldConsent ==
  ASSUME OrderAssumption, FiringInv, Backlog, Judged, Disturb \/ Recover \/ EndRun \/ Reap \/ Tick
  PROVE  Backlog' /\ Judged'
<1>1. /\ world \in Worlds /\ \A d \in Calls: call[d] \in CallStates
      /\ call \in [Calls -> CallStates]
  BY DEF FiringInv, OrderTypes
<1>2. world'.harness = world.harness
  BY <1>1 DEF Disturb, Recover, EndRun, Reap, Tick, Worlds, env
<1>3. ASSUME NEW d \in Calls
      PROVE  call'[d].pc = call[d].pc /\ call'[d].copy = call[d].copy /\ call'[d].offline = call[d].offline
  <2>1. CASE Reap
    <3>1. call'[d] = [call[d] EXCEPT !.stale = ~Free(d)]
      BY <2>1 DEF Reap
    <3> QED
      BY <1>1, <3>1 DEF CallStates
  <2>2. CASE ~Reap
    <3>1. call' = call
      BY <2>2 DEF Disturb, Recover, EndRun, Tick
    <3> QED
      BY <3>1
  <2> QED
    BY <2>1, <2>2
<1>4. Judged'
  <2>1. Sweepers \subseteq Calls
    BY DEF Calls
  <2> QED
    BY <1>2, <1>3, <2>1 DEF Judged, NeedsConsent
<1>5. Backlog'
  <2>1. CASE Reap
    BY <2>1 DEF Reap, DeleteRow, Backlog
  <2>2. CASE ~Reap
    <3>1. UNCHANGED <<row, call, lost, missed>>
      BY <2>2 DEF Disturb, Recover, EndRun, Tick
    <3> QED
      BY <3>1 DEF Backlog, AboutToNote
  <2> QED
    BY <2>1, <2>2
<1> QED
  BY <1>4, <1>5

\* The invariant of the order's consent, beside that of its firings.
LEMMA ConsentAlways ==
  ASSUME OrderAssumption
  PROVE  OrderSpec => [](FiringInv /\ Backlog /\ Judged)
<1>1. OrderInit => FiringInv /\ Backlog /\ Judged
  <2> SUFFICES ASSUME OrderInit PROVE FiringInv /\ Backlog /\ Judged
    OBVIOUS
  <2>1. Backlog
    BY DEF OrderInit, Backlog
  <2>2. Judged
    BY IdleTypes DEF OrderInit, Judged, Calls
  <2> QED
    BY <2>1, <2>2, FiringInit
<1>2. FiringInv /\ Backlog /\ Judged /\ [OrderNext]_orderVars => (FiringInv /\ Backlog /\ Judged)'
  <2> SUFFICES ASSUME FiringInv, Backlog, Judged, [OrderNext]_orderVars PROVE Backlog' /\ Judged'
    BY FiringNext
  <2>1. CASE UNCHANGED orderVars
    BY <2>1 DEF orderVars, env, Backlog, Judged, AboutToNote, NeedsConsent
  <2>2. ASSUME NEW c \in Calls, Continue(c) PROVE Backlog' /\ Judged'
    BY <2>2, StepsConsent, InvokeConsent, PutsConsent, MarkConsent, ClearsConsent DEF Continue
  <2>3. ASSUME NEW c \in Requests, Begin(c) PROVE Backlog' /\ Judged'
    BY <2>3, StepsConsent, DecideConsent DEF Begin, Calls
  <2>4. ASSUME NEW c \in Sweepers, SweepList(c) PROVE Backlog' /\ Judged'
    BY <2>4, StepsConsent DEF Calls
  <2> QED
    BY <2>1, <2>2, <2>3, <2>4, WorldConsent DEF OrderNext
<1> QED
  BY <1>1, <1>2, PTL DEF OrderSpec

\* A sweep that knows the order as it is starts nothing on the creator's own machine for a
\* watcher that missed messages while the creator was away, as long as no put was lost.
THEOREM AsksFirst ==
  ASSUME OrderAssumption
  PROVE  OrderSpec => ConsentFirst
<1> DEFINE Unasked(c) ==
             /\ call[c].pc = "start" /\ call'[c].pc = "clear" /\ ~call[c].stale /\ lost = 0
             /\ \A d \in Calls: call[d].pc # "mark"
           Missed == world.harness = "cli" /\ ~row.sched /\ missed = "offline"
           Step1 == \A c \in Sweepers: Unasked(c) => ~Missed
<1>1. FiringInv /\ Backlog /\ Judged => Step1
  <2> SUFFICES ASSUME FiringInv, Backlog, Judged, NEW c \in Sweepers, Unasked(c), Missed PROVE FALSE
    OBVIOUS
  <2>1. row.offline
    BY DEF Backlog, AboutToNote
  <2>2. call[c].copy = row
    BY DEF FiringInv, FiresInv, CallSound, Putting, Calls
  <2>3. ~NeedsConsent(row)
    BY <2>2 DEF Judged
  <2> QED
    BY <2>1, <2>3 DEF NeedsConsent
<1>2. FiringInv /\ Backlog /\ Judged /\ [OrderNext]_orderVars => [Step1]_orderVars
  BY <1>1
<1> QED
  BY <1>2, ConsentAlways, PTL DEF OrderSpec, ConsentFirst
=============================================================================
