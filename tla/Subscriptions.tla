---------------------------- MODULE Subscriptions ----------------------------
(***************************************************************************)
(* Who hears a channel live: its memberships, the sockets of the users and *)
(* the Redis subscriptions that every instance's broker holds for them     *)
(* (internal/pubsub/broker.go, internal/handler/ws.go,                     *)
(* internal/handler/broker_adapter.go, internal/service/channel.go,        *)
(* internal/store/membership.go).                                          *)
(*                                                                         *)
(* A change of membership writes the row, changes the subscription on the  *)
(* instance that serves the request, and publishes a control frame on the  *)
(* user's own topic for the others.  A socket registers, lists the user's  *)
(* channels and subscribes to them, in three steps.  A broker keeps its    *)
(* maps under one mutex and the commands that follow from them in order    *)
(* under another.                                                          *)
(***************************************************************************)
EXTENDS Naturals, Sequences, FiniteSets, SequencesExt

CONSTANTS
  Users, Instances, Socks, Ops,
  Channel,    \* the topic of the channel; a user stands for the user's own topic
  Cap,        \* sockets of a user that an instance keeps
  MaxConns, MaxOps, MaxFaults  \* bounds: connections, changes of membership, failures

ASSUME ConstantsAssumption ==
  /\ Channel \notin Users /\ Cap \in Nat \ {0}
  /\ {MaxConns, MaxOps, MaxFaults} \subseteq Nat

VARIABLES
  members,   \* users with a membership row
  op,        \* changes of membership in flight
  sock,      \* sockets
  clients,   \* per instance and user: the registered sockets, oldest first
  subs,      \* per instance: who is subscribed to which topic (userSubs, redisSubs)
  upstream,  \* per instance: the topics Redis sends it
  pending,   \* per instance: SUBSCRIBE and UNSUBSCRIBE commands on their way
  frames,    \* per instance: control frames that have arrived
  raced,     \* users whose change of membership met a connection or another change
  conns, calls, faults

broker == <<subs, upstream, pending>>
bounds == <<conns, calls, faults>>
vars   == <<members, op, sock, clients, broker, frames, raced, bounds>>

NoOp   == [pc |-> "idle", user |-> Channel, add |-> FALSE, inst |-> Channel]
NoSock == [pc |-> "none", user |-> Channel, inst |-> Channel, listed |-> FALSE, read |-> FALSE]
Topics == Users \cup {Channel}
Has(i, u) == clients[i][u] # <<>>

Init ==
  /\ members \in SUBSET Users
  /\ op = [o \in Ops |-> NoOp] /\ sock = [s \in Socks |-> NoSock]
  /\ clients = [i \in Instances |-> [u \in Users |-> <<>>]]
  /\ subs = [i \in Instances |-> {}] /\ upstream = [i \in Instances |-> {}]
  /\ pending = [i \in Instances |-> {}] /\ frames = [i \in Instances |-> <<>>]
  /\ raced = {} /\ conns = 0 /\ calls = 0 /\ faults = 0

Fault == faults < MaxFaults /\ faults' = faults + 1 /\ UNCHANGED <<conns, calls>>

-----------------------------------------------------------------------------
(* The broker *)

Heard(rel) == {x[2] : x \in rel}

\* subMu is held until the command has been sent.
\* Mutant: only the maps are locked.
MapsOnly(i) == TRUE
SubMuFree(i) == pending[i] = {}

\* The maps change; the topics that are new, or that nobody wants any more,
\* make a command.
Becomes(i, rel, by) ==
  LET on  == Heard(rel) \ Heard(subs[i])
      off == Heard(subs[i]) \ Heard(rel)
  IN /\ SubMuFree(i)
     /\ subs' = [subs EXCEPT ![i] = rel]
     /\ pending' = [pending EXCEPT ![i] = @ \cup (IF on  = {} THEN {} ELSE {[by |-> by, on |-> TRUE,  topics |-> on]})
                                            \cup (IF off = {} THEN {} ELSE {[by |-> by, on |-> FALSE, topics |-> off]})]
     /\ UNCHANGED upstream

SubscribeTo(i, u, topics, by)     == Becomes(i, subs[i] \cup ({u} \X topics), by)
UnsubscribeFrom(i, u, topics, by) == Becomes(i, subs[i] \ ({u} \X topics), by)
Returned(i, by) == \A c \in pending[i] : c.by # by

Command(i) ==
  /\ \E c \in pending[i] :
       /\ pending' = [pending EXCEPT ![i] = @ \ {c}]
       /\ upstream' = [upstream EXCEPT ![i] = IF c.on THEN @ \cup c.topics ELSE @ \ c.topics]
  /\ UNCHANGED <<members, op, sock, clients, subs, frames, raced, bounds>>

\* applyControl
ApplyControl(i) ==
  /\ frames[i] # <<>>
  /\ LET f == Head(frames[i])
     IN IF f.add THEN SubscribeTo(i, f.user, {Channel}, i) ELSE UnsubscribeFrom(i, f.user, {Channel}, i)
  /\ frames' = [frames EXCEPT ![i] = Tail(@)]
  /\ UNCHANGED <<members, op, sock, clients, raced, bounds>>

-----------------------------------------------------------------------------
(* Changes of membership: AddMember, Join, RemoveMember, Leave *)

Overlapping(o, u) == \E p \in Ops \ {o} : op[p].pc # "idle" /\ op[p].user = u

Ask(o) ==
  /\ op[o].pc = "idle" /\ calls < MaxOps /\ calls' = calls + 1 /\ UNCHANGED <<conns, faults>>
  /\ \E u \in Users, i \in Instances, add \in BOOLEAN :
       /\ ~add => u \in members  \* RemoveMember, Leave: the membership is read
       /\ op' = [op EXCEPT ![o] = [pc |-> "asked", user |-> u, add |-> add, inst |-> i]]
       /\ raced' = IF Overlapping(o, u) THEN raced \cup {u} ELSE raced
  /\ UNCHANGED <<members, sock, clients, broker, frames>>

\* A row that is there is not written again: the call fails.
WriteRow(o) ==
  /\ op[o].pc = "asked"
  /\ LET u == op[o].user
     IN IF op[o].add /\ u \in members
        THEN op' = [op EXCEPT ![o] = NoOp] /\ UNCHANGED members
        ELSE /\ members' = IF op[o].add THEN members \cup {u} ELSE members \ {u}
             /\ op' = [op EXCEPT ![o].pc = "written"]
  /\ UNCHANGED <<sock, clients, broker, frames, raced, bounds>>

\* PublishSubscription, on this instance and then for the others.
ApplyHere(o) ==
  /\ op[o].pc = "written"
  /\ LET c == op[o]
     IN IF c.add THEN SubscribeTo(c.inst, c.user, {Channel}, o) ELSE UnsubscribeFrom(c.inst, c.user, {Channel}, o)
  /\ op' = [op EXCEPT ![o].pc = "applied"]
  /\ UNCHANGED <<members, sock, clients, upstream, frames, raced, bounds>>

Listening(i, u) == u \in upstream[i]

\* A socket has listed the channels and is yet to hear of the change.
Stale(u, add) ==
  \E s \in Socks : /\ sock[s].user = u /\ sock[s].listed # add
                   /\ \/ sock[s].pc = "listed"
                      \/ sock[s].pc \in {"up", "leaving"} /\ ~Listening(sock[s].inst, u)

\* Mutant: the other instances are not told.
NotTold(u) == {}
Told(u) == {i \in Instances : Listening(i, u)}

PublishFrame(o) ==
  /\ op[o].pc = "applied" /\ Returned(op[o].inst, o)
  /\ LET c == op[o]
     IN /\ frames' = [i \in Instances |-> IF i \in Told(c.user)
                                          THEN Append(frames[i], [user |-> c.user, add |-> c.add]) ELSE frames[i]]
        /\ raced' = IF Stale(c.user, c.add) THEN raced \cup {c.user} ELSE raced
  /\ op' = [op EXCEPT ![o] = NoOp]
  /\ UNCHANGED <<members, sock, clients, broker, bounds>>

\* PUBLISH fails and is logged, or the instance dies before it.
FrameLost(o) ==
  /\ op[o].pc \in {"written", "applied"} /\ Fault
  /\ raced' = raced \cup {op[o].user}
  /\ op' = [op EXCEPT ![o] = NoOp]
  /\ UNCHANGED <<members, sock, clients, broker, frames>>

-----------------------------------------------------------------------------
(* Sockets *)

Kept(all) == IF Len(all) > Cap THEN Tail(all) ELSE all

\* The oldest socket over the cap is closed: its handler goes on until it looks.
RegisterClient(s) ==
  /\ sock[s].pc = "none" /\ conns < MaxConns /\ conns' = conns + 1 /\ UNCHANGED <<calls, faults>>
  /\ \E u \in Users, i \in Instances :
       /\ clients' = [clients EXCEPT ![i][u] = Kept(Append(@, s))]
       /\ sock' = [sock EXCEPT ![s] = [NoSock EXCEPT !.pc = "registered", !.user = u, !.inst = i]]
  /\ UNCHANGED <<members, op, broker, frames, raced>>

ListChannels(s) ==
  /\ sock[s].pc = "registered"
  /\ sock' = [sock EXCEPT ![s] = [@ EXCEPT !.pc = "listed", !.listed = sock[s].user \in members, !.read = TRUE]]
  /\ UNCHANGED <<members, op, clients, broker, frames, raced, bounds>>

\* The list fails, or its routine panics: it is logged, and the socket goes up without its channels.
ListFails(s) ==
  /\ sock[s].pc = "registered" /\ Fault
  /\ sock' = [sock EXCEPT ![s].pc = "listed"]
  /\ UNCHANGED <<members, op, clients, broker, frames, raced>>

\* A user without a subscribed socket here may have been left with a
\* subscription that no control frame has reached since, or a frame from before
\* may still have to be applied.
Inherits(i, u, listed) ==
  \/ <<u, Channel>> \in subs[i] /\ <<u, u>> \notin subs[i]
  \/ \E k \in 1..Len(frames[i]) : frames[i][k].user = u /\ frames[i][k].add # listed

Subscribe(s) ==
  /\ sock[s].pc = "listed"
  /\ LET c == sock[s]
     IN /\ SubscribeTo(c.inst, c.user, {c.user} \cup (IF c.listed THEN {Channel} ELSE {}), s)
        /\ raced' = IF Inherits(c.inst, c.user, c.listed) THEN raced \cup {c.user} ELSE raced
  /\ sock' = [sock EXCEPT ![s].pc = "up"]
  /\ UNCHANGED <<members, op, clients, frames, bounds>>

Without(all, s) == IF \E k \in DOMAIN all : all[k] = s THEN RemoveAt(all, CHOOSE k \in DOMAIN all : all[k] = s) ELSE all

\* The handler returns.  The user's last socket here takes the subscriptions
\* along, in a step of its own.
UnregisterClient(s) ==
  /\ sock[s].pc \in {"registered", "listed", "up"} /\ Returned(sock[s].inst, s)
  /\ LET c    == sock[s]
         rest == Without(clients[c.inst][c.user], s)
     IN /\ sock' = [sock EXCEPT ![s] = IF rest = <<>> /\ Has(c.inst, c.user) THEN [c EXCEPT !.pc = "leaving"] ELSE NoSock]
        /\ clients' = [clients EXCEPT ![c.inst][c.user] = rest]
  /\ UNCHANGED <<members, op, broker, frames, raced, bounds>>

\* dropUserSubscriptions
\* Mutant: it does not look whether a new socket has registered.
NoLook(i, u) == FALSE
Reconnected(i, u) == Has(i, u)

DropSubscriptions(s) ==
  /\ sock[s].pc = "leaving"
  /\ LET c == sock[s]
     IN IF Reconnected(c.inst, c.user) THEN UNCHANGED broker
        ELSE UnsubscribeFrom(c.inst, c.user, Topics, s)
  /\ sock' = [sock EXCEPT ![s] = NoSock]
  /\ UNCHANGED <<members, op, clients, frames, raced, bounds>>

-----------------------------------------------------------------------------
Broker(i) == Command(i) \/ ApplyControl(i)
Change(o) == Ask(o) \/ WriteRow(o) \/ ApplyHere(o) \/ PublishFrame(o) \/ FrameLost(o)
Socket(s) == RegisterClient(s) \/ ListChannels(s) \/ ListFails(s) \/ Subscribe(s) \/ UnregisterClient(s) \/ DropSubscriptions(s)

Next == \/ \E i \in Instances : Broker(i)
        \/ \E o \in Ops : Change(o)
        \/ \E s \in Socks : Socket(s)

Spec == Init /\ [][Next]_vars

-----------------------------------------------------------------------------
(* Properties *)

\* Types.
TypeOK ==
  /\ members \subseteq Users /\ raced \subseteq Users
  /\ op \in [Ops -> [pc : {"idle", "asked", "written", "applied"}, user : Topics, add : BOOLEAN, inst : Instances \cup {Channel}]]
  /\ sock \in [Socks -> [pc : {"none", "registered", "listed", "up", "leaving"}, user : Topics,
                         inst : Instances \cup {Channel}, listed : BOOLEAN, read : BOOLEAN]]
  /\ clients \in [Instances -> [Users -> Seq(Socks)]]
  /\ \A i \in Instances : \A u \in Users : Len(clients[i][u]) <= Cap
  /\ subs \in [Instances -> SUBSET (Users \X Topics)]
  /\ upstream \in [Instances -> SUBSET Topics]
  /\ pending \in [Instances -> SUBSET [by : Instances \cup Ops \cup Socks, on : BOOLEAN, topics : SUBSET Topics]]
  /\ frames \in [Instances -> Seq([user : Users, add : BOOLEAN])]

\* "those commands reach Redis in exactly the order the refcounts changed: a
\* last member's UNSUBSCRIBE can never land after a new member's SUBSCRIBE"
\* (Broker): when no command is on its way, Redis sends an instance the topics
\* that somebody there is subscribed to.
CommandsInOrder == \A i \in Instances : pending[i] = {} => upstream[i] = Heard(subs[i])

Registered(s) == s \in ToSet(clients[sock[s].inst][sock[s].user])

\* A socket that has subscribed stays subscribed to its user's own topic,
\* whichever other sockets of the user come, go or are evicted around it: the
\* teardown of an old one never takes the subscriptions of a new one along
\* (dropUserSubscriptions, RegisterClient).
UpIsHeard ==
  \A s \in Socks :
    sock[s].pc = "up" /\ Registered(s) => <<sock[s].user, sock[s].user>> \in subs[sock[s].inst]

Settled(u) ==
  /\ \A o \in Ops : op[o].user # u
  /\ \A s \in Socks : sock[s].user = u => sock[s].pc = "up"
  /\ \A i \in Instances : pending[i] = {} /\ \A k \in 1..Len(frames[i]) : frames[i][k].user # u

OfUser(s, u) == sock[s].pc = "up" /\ sock[s].user = u /\ Registered(s)
Hears(s, u)  == <<u, Channel>> \in subs[sock[s].inst]

Follows(u) ==
  \A s \in Socks : OfUser(s, u) =>
    /\ Hears(s, u) => u \in members
    /\ u \in members /\ sock[s].read => Hears(s, u)

\* Once the changes of a user's membership, the control frames and the
\* connections under way have come through, no socket of a user who is not a
\* member hears the channel, and every socket of a member does, on whichever
\* instances the changes were made and the sockets are.  Left out are sockets
\* that went up without a list of their channels because it could not be read
\* (ServeWS), unless another socket or a change has told their instance.
SubscribedAsMember == \A u \in Users \ raced : Settled(u) => Follows(u)

-----------------------------------------------------------------------------
(* The inductive invariant behind SubscribedAsMember: what an instance has    *)
(* still to hear about a user who has no race on record.                      *)

About(f, u) == f.user = u

\* The last frame about user u in q says b; without one, x does.
Says(q, u, x, b) ==
  /\ \A k \in 1..Len(q) :
       About(q[k], u) /\ (\A l \in 1..Len(q) : l > k => ~About(q[l], u)) => (q[k].add <=> b)
  /\ (\A k \in 1..Len(q) : ~About(q[k], u)) => (x <=> b)

\* When the frames that have arrived are applied, user u is subscribed to the
\* channel on instance i if b, and not otherwise.
ComesTo(i, u, b) == Says(frames[i], u, <<u, Channel>> \in subs[i], b)

\* The change of u's membership that is written and not yet published.
Changing(o, u) == op[o].user = u /\ op[o].pc \in {"written", "applied"}

\* One change at a time, and it has written what it publishes;
OneChange(u) ==
  /\ \A o, p \in Ops : op[o].pc # "idle" /\ op[o].user = u /\ op[p].pc # "idle" /\ op[p].user = u => o = p
  /\ \A o \in Ops : Changing(o, u) => (op[o].add <=> u \in members)

\* An instance that serves a subscribed socket of u has to know that u is no member, and that u is
\* one if a socket there could list the channels.
MustKnow(i, u) ==
  /\ <<u, u>> \in subs[i]
  /\ u \in members => \E s \in Socks : OfUser(s, u) /\ sock[s].inst = i /\ sock[s].read

\* while none is written and not published, every such instance, and every socket that has
\* listed the channels, has heard of the last one.
HeardOf(u) ==
  (\A o \in Ops : ~Changing(o, u)) =>
    /\ \A i \in Instances : MustKnow(i, u) => ComesTo(i, u, u \in members)
    /\ \A s \in Socks : sock[s].user = u /\ sock[s].pc = "listed" =>
         (sock[s].listed <=> u \in members /\ sock[s].read)

\* The socket s whose SUBSCRIBE of u's topic is on its way to Redis will hear
\* what it listed: no frame has reached the instance since.
Awaits(s, i, u) ==
  /\ sock[s].pc = "up" /\ sock[s].user = u /\ sock[s].inst = i
  /\ u \notin upstream[i] /\ ComesTo(i, u, sock[s].listed)

OnItsWay(u) ==
  \A i \in Instances : \A c \in pending[i] : c.on /\ u \in c.topics => \E s \in Socks : c.by = s /\ Awaits(s, i, u)

Abreast(u) == OneChange(u) /\ HeardOf(u) /\ OnItsWay(u)

FollowInv == \A u \in Users \ raced : Abreast(u)

-----------------------------------------------------------------------------
(* What the code means to do and does not in every order; refuted on demand. *)

\* Memberships that cannot be read are logged "and the handler proceeds" (ServeWS): a member's socket
\* is up, and hears nothing of the channel until the next change or connection there.
MembersHear == \A u \in Users \ raced : Settled(u) /\ u \in members => \A s \in Socks : OfUser(s, u) => Hears(s, u)

\* Live delivery "is already correct on join" (Resolver): a change that is
\* published while a socket is between its list and its subscription is undone.
FollowsMembership == \A u \in Users : Settled(u) /\ faults = 0 => Follows(u)

\* "redis subscriptions are torn down only when the user's last client
\* disconnects" (Broker): an instance without a socket of the user, to which the
\* request happened to go, keeps the subscription for good.
NoLeftover ==
  \A i \in Instances : \A u \in Users :
    Settled(u) /\ faults = 0 /\ ~Has(i, u) => \A t \in Topics : <<u, t>> \notin subs[i]
=============================================================================
