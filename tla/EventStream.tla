----------------------------- MODULE EventStream -----------------------------
(***************************************************************************)
(* How one user's tab learns of the user's events                          *)
(* (internal/pubsub/redis.go, internal/eventlog/stream.go,                 *)
(* internal/events/client.go, internal/handler/ws.go,                      *)
(* src/hooks/useWebSocket.ts, src/pages/ChatPage.tsx).                     *)
(*                                                                         *)
(* A durable event is stored, stamped with an id that grows with time,     *)
(* published to the sockets that listen, and then appended to the user's   *)
(* stream in Redis by a routine of its own, with retries; when they are    *)
(* used up, the stream is dropped.  A tab that comes back subscribes, is   *)
(* sent what the stream holds beyond its cursor and is told whether that   *)
(* is all; when it is not, and on every reconnect, the tab reads the views *)
(* again from the database.                                                *)
(***************************************************************************)
EXTENDS Naturals, Sequences, FiniteSets, SequencesExt

CONSTANTS
  Events,     \* ids, in the order in which they are stamped
  Ephemeral,  \* the events that live in no stream: typing, presence
  MaxLen,     \* entries that a stream keeps at least
  Buffer,     \* frames that wait for a socket at most
  Retries,    \* attempts after the first to append
  MaxConns, MaxFailures  \* bounds: connections; failed calls and days without traffic

ASSUME StreamAssumption ==
  /\ Events \subseteq Nat \ {0} /\ IsFiniteSet(Events) /\ Ephemeral \subseteq Events
  /\ {MaxLen, Buffer} \subseteq Nat \ {0}
  /\ {Retries, MaxConns, MaxFailures} \subseteq Nat

VARIABLES
  stage,    \* how far the publication of an event has come
  tries,    \* attempts to append that have failed
  stream,   \* the pointers in the user's stream, oldest first
  payload,  \* the payloads that can still be read
  sock,     \* the tab's socket: "down", "open", "listening" (subscribed), "live"
  since,    \* the cursor that the socket was opened with, 0 for none
  wire,     \* replayed frames under way
  verdict,  \* what ends the replay
  frames,   \* live frames that wait for the socket
  cursor,   \* the tab's cursor, 0 for none
  seen,     \* ids whose handler has run in the tab
  view,     \* events that the tab shows
  fetching, \* the tab is about to read its views from the database
  overlap,  \* durable events that were under way together with another one
  excuse,   \* durable events that went past the tab in a way the code accepts
  conns, failures

store   == <<stream, payload>>
session == <<sock, since, wire, verdict, frames>>
tab     == <<cursor, seen, view, fetching>>
limits  == <<conns, failures>>
streamVars == <<stage, tries, store, session, tab, overlap, excuse, limits>>

Durable  == Events \ Ephemeral
UnderWay == {e \in Durable : stage[e] \in {"stamped", "appending", "poisoned"}}
Stored   == {e \in Events : stage[e] # "new"}
Ended    == {"appended", "dropped", "holed", "gone", "live"}

StreamInit ==
  /\ stage = [e \in Events |-> "new"] /\ tries = [e \in Events |-> 0]
  /\ stream = <<>> /\ payload = {}
  /\ sock = "down" /\ since = 0 /\ wire = <<>> /\ verdict = "none" /\ frames = <<>>
  /\ cursor = 0 /\ seen = {} /\ view = {} /\ fetching = TRUE
  /\ overlap = {} /\ excuse = {}
  /\ conns = 0 /\ failures = 0

Failure == failures < MaxFailures /\ failures' = failures + 1 /\ UNCHANGED conns

SocketGone ==
  /\ sock' = "down" /\ since' = 0 /\ wire' = <<>> /\ verdict' = "none" /\ frames' = <<>>

-----------------------------------------------------------------------------
(* The publisher *)

\* The row is written and the event is built, with its id.
Stamp(e) ==
  /\ stage[e] = "new" /\ \A f \in Events : f < e => stage[f] # "new"
  /\ stage' = [stage EXCEPT ![e] = "stamped"]
  /\ overlap' = IF e \in Durable /\ UnderWay # {} THEN overlap \cup UnderWay \cup {e} ELSE overlap
  /\ UNCHANGED <<tries, store, session, tab, excuse, limits>>

\* Mutant: the frame is dropped and the socket stays.
SendOrSkip(e) ==
  IF sock \in {"listening", "live"} /\ Len(frames) < Buffer
  THEN frames' = Append(frames, e) /\ UNCHANGED <<sock, since, wire, verdict>>
  ELSE UNCHANGED session

\* Client.Send: a socket whose buffer is full is closed.
SendFrame(e) ==
  \/ sock \notin {"listening", "live"} /\ UNCHANGED session
  \/ /\ sock \in {"listening", "live"} /\ Len(frames) < Buffer
     /\ frames' = Append(frames, e) /\ UNCHANGED <<sock, since, wire, verdict>>
  \/ sock \in {"listening", "live"} /\ Len(frames) >= Buffer /\ SocketGone

AfterLive(e) == IF e \in Ephemeral THEN "live" ELSE "appending"

\* PUBLISH; the routine that appends is started when it has answered.
GoLive(e) ==
  /\ stage[e] = "stamped"
  /\ SendFrame(e)
  /\ stage' = [stage EXCEPT ![e] = AfterLive(e)]
  /\ UNCHANGED <<tries, store, tab, overlap, excuse, limits>>

\* PUBLISH fails.  Publish gives the event up, PublishMany and
\* PublishMulticast append it all the same.
LiveFails(e) ==
  /\ stage[e] = "stamped" /\ Failure
  /\ \E then \in {"gone", AfterLive(e)} : stage' = [stage EXCEPT ![e] = then]
  /\ excuse' = IF stage'[e] = "gone" \/ sock \in {"listening", "live"}
                THEN excuse \cup {<<e, "unpublished">>} ELSE excuse
  /\ UNCHANGED <<tries, store, session, tab, overlap>>

\* The routine cannot read who is to receive the event (resolveRecipients): it appends to nobody,
\* and drops nobody's stream.
ResolveFails(e) ==
  /\ stage[e] = "appending" /\ tries[e] = 0 /\ Failure
  /\ stage' = [stage EXCEPT ![e] = "gone"]
  /\ excuse' = excuse \cup {<<e, "unresolved">>}
  /\ UNCHANGED <<tries, store, session, tab, overlap>>

\* MAXLEN ~: whole blocks are trimmed, never below the limit.
Trimmed(s) == {SubSeq(s, from, Len(s)) : from \in 1..(IF Len(s) > MaxLen THEN Len(s) - MaxLen + 1 ELSE 1)}

AppendMany(e) ==
  /\ stage[e] = "appending"
  /\ stage' = [stage EXCEPT ![e] = "appended"]
  /\ payload' = payload \cup {e} /\ stream' \in Trimmed(Append(stream, e))
  /\ UNCHANGED <<tries, session, tab, overlap, excuse, limits>>

\* The pipeline answers with an error; any part of it may have been done.
AppendFails(e) ==
  /\ stage[e] = "appending" /\ Failure
  /\ payload' \in {payload, payload \cup {e}} /\ stream' \in {stream} \cup Trimmed(Append(stream, e))
  /\ tries' = [tries EXCEPT ![e] = @ + 1]
  /\ stage' = [stage EXCEPT ![e] = IF tries[e] = Retries THEN "poisoned" ELSE @]
  /\ UNCHANGED <<session, tab, overlap, excuse>>

\* Mutant: the holes stay in the stream.
LeftAsItIs == stream
Emptied == <<>>

Drop(e) ==
  /\ stage[e] = "poisoned"
  /\ stage' = [stage EXCEPT ![e] = "dropped"]
  /\ stream' = Emptied
  /\ UNCHANGED <<tries, payload, session, tab, overlap, excuse, limits>>

\* Redis is still away.
DropFails(e) ==
  /\ stage[e] = "poisoned"
  /\ stage' = [stage EXCEPT ![e] = "holed"]
  /\ excuse' = excuse \cup {<<e, "undropped">>}
  /\ UNCHANGED <<tries, store, session, tab, overlap, limits>>

\* The publishing instance dies.
PublisherDies(e) ==
  /\ stage[e] \in {"stamped", "appending", "poisoned"} /\ Failure
  /\ stage' = [stage EXCEPT ![e] = "gone"]
  /\ excuse' = excuse \cup {<<e, "died">>}
  /\ UNCHANGED <<tries, store, session, tab, overlap>>

\* A day later.  Payloads and the idle stream have the same time to live.
Lapse ==
  /\ Failure
  /\ UnderWay = {}
  /\ \E e \in payload : payload' = {f \in payload : f > e}
  /\ stream' \in {stream} \cup (IF payload' = {} THEN {<<>>} ELSE {})
  /\ UNCHANGED <<stage, tries, session, tab, overlap, excuse>>

-----------------------------------------------------------------------------
(* The socket *)

\* The upgrade.  A tab that has been connected before reads its views again.
Accept ==
  /\ sock = "down" /\ conns < MaxConns /\ conns' = conns + 1 /\ UNCHANGED failures
  /\ sock' = "open" /\ since' = cursor
  /\ fetching' = (fetching \/ conns > 0)
  /\ UNCHANGED <<stage, tries, store, wire, verdict, frames, cursor, seen, view, overlap, excuse>>

\* RegisterClient, the membership lists, Broker.Subscribe.
Subscribe ==
  /\ sock = "open" /\ sock' = "listening"
  /\ UNCHANGED <<stage, tries, store, since, wire, verdict, frames, tab, overlap, excuse, limits>>

\* Stream.Replay reads the newest entries, down to the first one that is not newer than the
\* cursor; `from` is where those to be sent begin.
Oldest == IF Len(stream) > MaxLen + 1 THEN Len(stream) - MaxLen ELSE 1

Newer(from) ==
  /\ \A i \in from..Len(stream) : stream[i] > since
  /\ from # Oldest => stream[from - 1] <= since

Gap(from) == \E i \in from..Len(stream) : stream[i] \notin payload
\* Mutant: a cursor older than the stream is taken for a complete replay.
GapOnly(from)   == Gap(from)
Exhausted(from) == from = Oldest \/ Gap(from)

\* resolvePayloads: what has its payload still, oldest first.
Resolved(from) ==
  LET kept == {i \in from..Len(stream) : stream[i] \in payload}
  IN  {[k \in DOMAIN at |-> stream[at[k]]] :
        at \in {f \in UNION {[1..n -> kept] : n \in 0..Len(stream)} :
                  /\ \A i \in kept : \E k \in DOMAIN f : f[k] = i
                  /\ \A k, l \in DOMAIN f : k < l => f[k] < f[l]}}

\* Published before the tab subscribed.
Before(stages) == {e \in Durable : stage[e] \in stages /\ e \notin ToSet(frames)}
Because(es, why) == {<<e, why>> : e \in es}

Replay ==
  /\ sock = "listening" /\ since # 0
  /\ sock' = "live"
  /\ \E from \in Oldest..(Len(stream) + 1) :
       /\ Newer(from)
       /\ wire' \in Resolved(from) /\ verdict' = IF Exhausted(from) THEN "exhausted" ELSE "done"
       /\ excuse' = IF Exhausted(from) THEN excuse
                    ELSE excuse \cup Because(Before({"appending", "poisoned"}), "late")
  /\ UNCHANGED <<stage, tries, store, since, frames, tab, overlap, limits>>

ReplayFails ==
  /\ sock = "listening" /\ since # 0 /\ Failure
  /\ sock' = "live" /\ wire' = <<>> /\ verdict' = "exhausted"
  /\ UNCHANGED <<stage, tries, store, since, frames, tab, overlap, excuse>>

\* Without a cursor nothing is replayed.
NoReplay ==
  /\ sock = "listening" /\ since = 0
  /\ sock' = "live"
  /\ excuse' = excuse \cup Because(Before({"appending", "poisoned"} \cup Ended), "cursorless")
  /\ UNCHANGED <<stage, tries, store, since, wire, verdict, frames, tab, overlap, limits>>

Disconnect ==
  /\ sock # "down" /\ SocketGone
  /\ UNCHANGED <<stage, tries, store, tab, overlap, excuse, limits>>

-----------------------------------------------------------------------------
(* The tab *)

\* onmessage: the id is recorded when the handler has run, the cursor
\* follows the durable events.
MovesCursor(e) == e \in Durable /\ e > cursor

Handled(e) ==
  /\ seen' = seen \cup {e} /\ view' = view \cup {e}
  /\ cursor' = IF MovesCursor(e) THEN e ELSE cursor
  /\ UNCHANGED <<fetching, excuse, limits>>

Throws(e) ==
  /\ Failure /\ excuse' = excuse \cup {<<e, "threw">>}
  /\ UNCHANGED tab

Handle(e) ==
  \/ e \in seen /\ UNCHANGED <<tab, excuse, limits>>
  \/ e \notin seen /\ (Handled(e) \/ Throws(e))

HandleReplayed ==
  /\ sock = "live" /\ wire # <<>>
  /\ Handle(Head(wire)) /\ wire' = Tail(wire)
  /\ UNCHANGED <<stage, tries, store, sock, since, verdict, frames, overlap>>

HandleVerdict ==
  /\ sock = "live" /\ wire = <<>> /\ verdict # "none"
  /\ verdict' = "none"
  /\ IF verdict = "exhausted" THEN cursor' = 0 /\ fetching' = TRUE ELSE UNCHANGED <<cursor, fetching>>
  /\ UNCHANGED <<stage, tries, store, sock, since, wire, frames, seen, view, overlap, excuse, limits>>

HandleLive ==
  /\ sock = "live" /\ wire = <<>> /\ verdict = "none" /\ frames # <<>>
  /\ Handle(Head(frames)) /\ frames' = Tail(frames)
  /\ UNCHANGED <<stage, tries, store, sock, since, wire, verdict, overlap>>

\* The views are read from the database.
Refetch ==
  /\ fetching /\ fetching' = FALSE
  /\ view' = view \cup Stored
  /\ UNCHANGED <<stage, tries, store, session, cursor, seen, overlap, excuse, limits>>

-----------------------------------------------------------------------------
Publish(e) == \/ Stamp(e) \/ GoLive(e) \/ LiveFails(e) \/ ResolveFails(e) \/ AppendMany(e)
              \/ AppendFails(e) \/ Drop(e) \/ DropFails(e) \/ PublisherDies(e)
Socket == Accept \/ Subscribe \/ Replay \/ ReplayFails \/ NoReplay \/ Disconnect
Tab    == HandleReplayed \/ HandleVerdict \/ HandleLive \/ Refetch

StreamNext == (\E e \in Events : Publish(e)) \/ Lapse \/ Socket \/ Tab

StreamSpec == StreamInit /\ [][StreamNext]_streamVars

-----------------------------------------------------------------------------
(* Properties *)

\* Types.
StreamTypeOK ==
  /\ stage \in [Events -> {"new", "stamped", "appending", "poisoned"} \cup Ended]
  /\ tries \in [Events -> 0..(Retries + 1)]
  /\ \A e \in Events : stage[e] \in {"new", "stamped", "appending"} => tries[e] <= Retries
  /\ \A e \in Ephemeral : stage[e] \in {"new", "stamped", "live", "gone"}
  /\ stream \in Seq(Durable) /\ payload \subseteq Durable
  /\ sock \in {"down", "open", "listening", "live"} /\ since \in Durable \cup {0}
  /\ wire \in Seq(Durable) /\ verdict \in {"none", "done", "exhausted"}
  /\ frames \in Seq(Events) /\ Len(frames) <= Buffer
  /\ cursor \in Durable \cup {0} /\ seen \subseteq Events /\ view \subseteq Stored
  /\ fetching \in BOOLEAN /\ conns \in 0..MaxConns /\ failures \in 0..MaxFailures

Accepted(e) == e \in overlap \/ \E x \in excuse : x[1] = e

\* A replay that ends with replay.done has sent everything beyond the cursor
\* that was published before the tab subscribed: entries that were trimmed or
\* lapsed, a payload that is gone, and an append that was given up after its retries
\* all turn it into replay.exhausted.  Left out is what was not appended yet when
\* the stream was read, events that were published at the same time, whose entries
\* can be in the other order, and what never came to an append or a drop that
\* would tell: its publisher died, its recipients could not be read, or Redis was
\* away for the drop as well (runReplay, Replay, Drop, appendToInboxes).
DoneIsComplete ==
  verdict = "done" =>
    \A e \in Durable :
      e > since /\ stage[e] \notin {"new", "stamped"} =>
        Accepted(e) \/ e \in seen \cup ToSet(wire) \cup ToSet(frames)

\* While a tab is connected, and has not yet to be told that its replay has
\* gaps, its cursor covers no event that it has neither got nor is about to
\* read: no later replay would send it.  Left out are the same events, and one
\* whose handler threw (onmessage, runReplay).
CursorIsHonest ==
  sock # "down" /\ verdict # "exhausted" =>
  \A e \in Durable :
    e <= cursor => fetching \/ Accepted(e) \/ e \in view \cup ToSet(wire) \cup ToSet(frames)

\* When everything has come to rest, a connected tab shows every durable event,
\* whichever of the socket, the stream and the database it has it from: frames
\* lost with a socket, a slow socket closed in the middle, streams that were
\* dropped or lapsed, and a reading of the database that came too early all
\* make up for each other; what no stream was ever to hold, they do not.
AtRest == sock = "live" /\ wire = <<>> /\ verdict = "none" /\ frames = <<>> /\ ~fetching /\ UnderWay = {}
NothingMissing == AtRest => \A e \in Durable \cap Stored : Accepted(e) \/ e \in view

-----------------------------------------------------------------------------
(* The inductive invariant behind the three. *)

\* Events that sockets have been sent, or that were given up.
Out == {e \in Events : stage[e] \notin {"new", "stamped"}}

\* Ids are stamped in their order, and what overlaps nothing has its time for itself: what was
\* stamped before it was over by then, and what comes after is not stamped before it is over.
InTurn ==
  /\ \A e, f \in Events : f < e /\ stage[e] # "new" => stage[f] # "new"
  /\ \A e \in Durable \ overlap : stage[e] # "new" =>
       /\ \A f \in UnderWay : e <= f
       /\ e \in UnderWay => \A f \in Durable : e < f => stage[f] = "new"

\* What was given up half-way is excused.
GivenUp == \A e \in Durable : stage[e] # "live" /\ (stage[e] \in {"holed", "gone"} => Accepted(e))

\* What the stream, the replay and the buffer hold is out.
Carried == ToSet(stream) \cup ToSet(wire) \cup ToSet(frames) \subseteq Out

\* What overlaps nothing has its place in the stream, the older before it and the newer behind;
\* when it is not there any more, nor is anything older.
Placed ==
  \A e \in Durable \ overlap :
    /\ stage[e] # "new" =>
         \A i, j \in DOMAIN stream : i < j => /\ stream[j] <= e => stream[i] <= e
                                              /\ stream[i] >= e => stream[j] >= e
    /\ stage[e] \in {"appended", "dropped"} =>
         \/ stage[e] = "appended" /\ e \in ToSet(stream)
         \/ \A i \in DOMAIN stream : stream[i] > e

\* A socket that is not live yet has been sent nothing, and the tab's cursor is still the one
\* that it was opened with.
Opening ==
  /\ sock # "live" => wire = <<>> /\ verdict = "none"
  /\ sock \in {"down", "open"} => frames = <<>>
  /\ sock \in {"open", "listening"} => cursor = since
  /\ conns = 0 => sock = "down" /\ cursor = 0
  /\ wire # <<>> => verdict # "none"

\* What the tab has handled it shows, and its cursor is the id of an event.
Shown == seen \subseteq view /\ (cursor # 0 => stage[cursor] # "new")

\* A live tab that has read its views, and need not read them again, shows every durable event
\* that is out, or is about to be given it.
Covered ==
  sock = "live" /\ verdict # "exhausted" /\ ~fetching =>
    \A e \in Durable \cap Out : Accepted(e) \/ e \in view \cup ToSet(wire) \cup ToSet(frames)

StreamInv ==
  /\ StreamTypeOK /\ InTurn /\ GivenUp /\ Carried /\ Placed /\ Opening /\ Shown
  /\ DoneIsComplete /\ CursorIsHonest /\ Covered

-----------------------------------------------------------------------------
(* What the comments promise and the code does not keep; refuted on demand. *)

\* "A possible mid-stream hole can never masquerade as a complete replay" (inboxDropper): an event
\* whose recipients could not be read is in no stream, and no stream is dropped for it.
HoleIsTold ==
  verdict = "done" =>
    \A e \in Durable : e > since /\ <<e, "unresolved">> \in excuse => e \in seen \cup ToSet(wire) \cup ToSet(frames)

\* "Comparison is lexicographic, which matches ULID's chronological ordering"
\* (Replay): an older id that was appended late is taken for the cursor, and
\* what lies beneath it is left out of a replay that ends with replay.done.
DoneIsAll ==
  verdict = "done" =>
    \A e \in ToSet(stream) :
      e > since => (\E x \in excuse : x[1] = e) \/ e \in seen \cup ToSet(wire) \cup ToSet(frames)

\* A frame whose handler threw "can still be replayed on the next reconnect"
\* (onmessage): the next event that is handled takes the cursor past it.
ThrownIsReplayed == \A e \in Durable \ seen : <<e, "threw">> \in excuse => e > cursor

\* "Sending the partial entries first is harmless" (runReplay): when the socket
\* goes before the replay.exhausted that follows them, the cursor is past the gap.
PartialIsHarmless ==
  sock = "down" /\ failures = 0 =>
    \A e \in Durable : e <= cursor => Accepted(e) \/ e \in view

\* A page that has read its views, and then is connected without a failure,
\* shows everything: what is published between the reading and the first
\* subscription is neither sent nor replayed, for there is no cursor yet.
FirstPageIsComplete == AtRest /\ conns = 1 /\ failures = 0 => Stored \cap Durable \subseteq view
=============================================================================
