---------------------------- MODULE AudienceCache ----------------------------
(***************************************************************************)
(* Who gets a channel's alerts and durable events: two caches of the       *)
(* channel's members on every instance, both checked against a generation  *)
(* in Redis that every change of membership moves on                       *)
(* (internal/service/notification_audience.go, internal/service/channel.go,*)
(* internal/eventlog/recipients.go, internal/store/membership.go,          *)
(* internal/cache/audience.go, internal/app/infra.go).                     *)
(*                                                                         *)
(* Members are read from DynamoDB, whose ordinary reads may be behind.     *)
(***************************************************************************)
EXTENDS Naturals, FiniteSets

CONSTANTS
  Users, Instances, Ops, Readers,
  Kinds,      \* of caches: a subset of {"alerts", "inbox"}
  MaxChanges, MaxReads, MaxFaults  \* bounds: changes of membership, reads, failures

ASSUME ConstantsAssumption ==
  /\ Kinds \subseteq {"alerts", "inbox"}
  /\ {MaxChanges, MaxReads, MaxFaults} \subseteq Nat

VARIABLES
  members,  \* the membership rows
  behind,   \* users whose last change an ordinary read may not see yet
  gen,      \* the channel's generation
  op,       \* changes in flight: the user whose row was written, or None
  cache,    \* per kind and instance: the entry, or None
  rd,       \* reads in flight and the last result of each reader
  changes, reads, faults

vars   == <<members, behind, gen, op, cache, rd, changes, reads, faults>>
bounds == <<changes, reads, faults>>

None   == [gen |-> 0, ids |-> {}, off |-> FALSE, full |-> FALSE]
Entry(g, ids, off) == [gen |-> g, ids |-> ids, off |-> off, full |-> TRUE]
Nobody == [pc |-> "idle", kind |-> "alerts", inst |-> "none", gen |-> 0, known |-> FALSE,
           ids |-> {}, off |-> FALSE, in |-> {}, out |-> {}, fits |-> TRUE]

Init ==
  /\ members \in SUBSET Users /\ behind = {} /\ gen = 0
  /\ op = [o \in Ops |-> {}]
  /\ cache = [k \in Kinds |-> [i \in Instances |-> None]]
  /\ rd = [r \in Readers |-> Nobody]
  /\ changes = 0 /\ reads = 0 /\ faults = 0

Fault == faults < MaxFaults /\ faults' = faults + 1 /\ UNCHANGED <<changes, reads>>

-----------------------------------------------------------------------------
(* Changes: AddMember, Join, RemoveMember, Leave, through audienceWritten *)

Busy == {u \in Users : \E o \in Ops : u \in op[o]}

\* A read in flight may from now on find the user in or out.
WriteRow(o) ==
  /\ op[o] = {} /\ changes < MaxChanges /\ changes' = changes + 1 /\ UNCHANGED <<reads, faults>>
  /\ \E u \in Users :
       /\ members' = IF u \in members THEN members \ {u} ELSE members \cup {u}
       /\ behind' = behind \cup {u}
       /\ op' = [op EXCEPT ![o] = {u}]
       /\ rd' = [r \in Readers |-> CASE rd[r].pc \in {"idle", "done"} -> rd[r]
                                      [] u \in members               -> [rd[r] EXCEPT !.out = @ \cup {u}]
                                      [] OTHER                       -> [rd[r] EXCEPT !.in = @ \cup {u}]]
  /\ UNCHANGED <<gen, cache>>

Moved == gen + 1

WithoutOwn(i) == [k \in Kinds |-> IF k = "alerts" THEN [cache[k] EXCEPT ![i] = None] ELSE cache[k]]

\* ChannelAudienceChanged: the instance's own entry for alerts and the generation.
Bump(o) ==
  /\ op[o] # {}
  /\ gen' = Moved /\ op' = [op EXCEPT ![o] = {}]
  /\ \E i \in Instances : cache' = WithoutOwn(i)
  /\ UNCHANGED <<members, behind, rd, bounds>>

\* Redis stays away through the retries, or the instance dies: "other instances
\* may alert the old audience briefly".
BumpLost(o) ==
  /\ op[o] # {} /\ Fault
  /\ op' = [op EXCEPT ![o] = {}]
  /\ cache' = [k \in Kinds |-> [i \in Instances |-> [cache[k][i] EXCEPT !.off = TRUE]]]
  /\ rd' = [r \in Readers |-> IF rd[r].pc \in {"idle", "done"} THEN rd[r] ELSE [rd[r] EXCEPT !.off = TRUE]]
  /\ UNCHANGED <<members, behind, gen>>

CatchesUp ==
  /\ \E u \in behind : behind' = behind \ {u}
  /\ UNCHANGED <<members, gen, op, cache, rd, bounds>>

\* The entry is too old, or the cache is full.
Expires ==
  /\ \E k \in Kinds, i \in Instances : cache[k][i].full /\ cache' = [cache EXCEPT ![k][i] = None]
  /\ UNCHANGED <<members, behind, gen, op, rd, bounds>>

-----------------------------------------------------------------------------
(* Reads: loadChannelAudience, cachedResolve *)

\* What an ordinary read may return.
Ordinary == {S \in SUBSET Users : \A u \in Users \ behind : u \in S <=> u \in members}

At(r)      == cache[rd[r].kind][rd[r].inst]
To(r, rec) == rd' = [rd EXCEPT ![r] = rec]

\* The answer is one that held at some moment of the read.
Fits(r, ids) == ids \subseteq rd[r].in /\ Users \ ids \subseteq rd[r].out
Result(r, ids, off) ==
  [Nobody EXCEPT !.pc = "done", !.kind = rd[r].kind, !.known = rd[r].known,
                 !.off = rd[r].off \/ off, !.fits = Fits(r, ids)]

Begin(r) ==
  /\ rd[r].pc \in {"idle", "done"} /\ reads < MaxReads /\ reads' = reads + 1 /\ UNCHANGED <<changes, faults>>
  /\ \E k \in Kinds, i \in Instances :
       To(r, [Nobody EXCEPT !.kind = k, !.inst = i, !.in = members \cup Busy, !.out = (Users \ members) \cup Busy,
                            !.pc = IF k = "alerts" /\ cache[k][i].full THEN "check" ELSE "gen"])
  /\ UNCHANGED <<members, behind, gen, op, cache>>

\* The entry for alerts was looked up first; its generation is compared.
Check(r) ==
  /\ rd[r].pc = "check"
  /\ LET e == At(r)
     IN \/ /\ e.full /\ e.gen = gen /\ To(r, Result(r, e.ids, e.off)) /\ UNCHANGED bounds
        \/ /\ (~(e.full /\ e.gen = gen) /\ UNCHANGED bounds) \/ Fault
           /\ To(r, [rd[r] EXCEPT !.pc = "gen"])
  /\ UNCHANGED <<members, behind, gen, op, cache>>

\* Mutant: a read joins whatever read of the channel is under way.
SameChannel(r, q) == TRUE
SameFlight(r, q)  == rd[q].gen = rd[r].gen /\ rd[q].known = rd[r].known

Joins(r) == \E q \in Readers \ {r} :
  /\ rd[q].kind = "inbox" /\ rd[q].inst = rd[r].inst /\ rd[q].pc \in {"fetch", "fetched"}
  /\ SameFlight(r, q)

\* The generation is read before the members.
ReadGen(r) ==
  /\ rd[r].pc = "gen"
  /\ To(r, [rd[r] EXCEPT !.gen = gen, !.known = TRUE, !.pc = IF rd[r].kind = "inbox" THEN "look" ELSE "fetch"])
  /\ UNCHANGED <<members, behind, gen, op, cache, bounds>>

\* Without a generation the members are read and not kept.
GenFails(r) ==
  /\ rd[r].pc = "gen" /\ Fault
  /\ To(r, [rd[r] EXCEPT !.pc = IF rd[r].kind = "inbox" THEN "look" ELSE "fetch"])
  /\ UNCHANGED <<members, behind, gen, op, cache>>

\* A hit, a flight to join, or a read of its own.
Look(r) ==
  /\ rd[r].pc = "look"
  /\ LET e == At(r)
         hit == e.full /\ rd[r].known /\ e.gen = rd[r].gen
     IN \/ hit /\ To(r, Result(r, e.ids, e.off))
        \/ ~hit /\ To(r, [rd[r] EXCEPT !.pc = IF Joins(r) THEN "wait" ELSE "fetch"])
  /\ UNCHANGED <<members, behind, gen, op, cache, bounds>>

\* The fill of the alerts is read consistently, everything else is not.
Fetch(r) ==
  /\ rd[r].pc = "fetch"
  /\ \E ids \in IF rd[r].kind = "alerts" /\ rd[r].known THEN {members} ELSE Ordinary :
       To(r, [rd[r] EXCEPT !.pc = "fetched", !.ids = ids, !.off = @ \/ ids # members])
  /\ UNCHANGED <<members, behind, gen, op, cache, bounds>>

\* Mutant: the entry carries the generation of the moment.
GenNow(r)  == gen
GenRead(r) == rd[r].gen

\* The readers that a read of members answers.
Flight(r) == {r} \cup {q \in Readers : /\ rd[q].pc = "wait" /\ rd[r].kind = "inbox" /\ rd[q].inst = rd[r].inst
                                       /\ SameFlight(q, r)}

\* The alerts of a channel are not kept when the overrides could not be read.
Keep(r) ==
  /\ rd[r].pc = "fetched"
  /\ \/ /\ rd[r].known
        /\ cache' = [cache EXCEPT ![rd[r].kind][rd[r].inst] = Entry(GenRead(r), rd[r].ids, rd[r].off)]
     \/ (rd[r].known => rd[r].kind = "alerts") /\ UNCHANGED cache
  /\ rd' = [q \in Readers |-> IF q \in Flight(r) THEN Result(q, rd[r].ids, rd[r].off) ELSE rd[q]]
  /\ UNCHANGED <<members, behind, gen, op, bounds>>

\* The members cannot be read: no answer for anybody in the flight.
FetchFails(r) ==
  /\ rd[r].pc = "fetch" /\ Fault
  /\ rd' = [q \in Readers |-> IF q \in Flight(r) THEN Nobody ELSE rd[q]]
  /\ UNCHANGED <<members, behind, gen, op, cache>>

-----------------------------------------------------------------------------
Change(o) == WriteRow(o) \/ Bump(o) \/ BumpLost(o)
Read(r)   == Begin(r) \/ Check(r) \/ ReadGen(r) \/ GenFails(r) \/ Look(r) \/ Fetch(r)
           \/ FetchFails(r) \/ Keep(r)
Next == (\E o \in Ops : Change(o)) \/ CatchesUp \/ Expires \/ (\E r \in Readers : Read(r))

Spec == Init /\ [][Next]_vars

-----------------------------------------------------------------------------
(* Properties *)

Pcs     == {"idle", "check", "gen", "look", "wait", "fetch", "fetched", "done"}
Entries == [gen : Nat, ids : SUBSET Users, off : BOOLEAN, full : BOOLEAN]
Reading == [pc : Pcs, kind : Kinds \cup {"alerts"}, inst : Instances \cup {"none"}, gen : Nat, known : BOOLEAN,
            ids : SUBSET Users, off : BOOLEAN, in : SUBSET Users, out : SUBSET Users, fits : BOOLEAN]

\* Types.
TypeOK ==
  /\ members \subseteq Users /\ behind \subseteq Users /\ gen \in Nat
  /\ op \in [Ops -> SUBSET Users]
  /\ cache \in [Kinds -> [Instances -> Entries]]
  /\ rd \in [Readers -> Reading]

Answered(r, k) == rd[r].pc = "done" /\ rd[r].kind = k

\* "a change that lands after this read bumps the generation past it, so the
\* entry stored below can never shadow that change" (loadChannelAudience): once
\* a change has returned, no alert goes by the members from before it, on any
\* instance, unless Redis failed.
AlertsFollow == \A r \in Readers : Answered(r, "alerts") => rd[r].off \/ rd[r].fits

\* The same of the durable events where the generation could be read, but for an
\* ordinary read that was behind: hits, joined reads and entries that are stored
\* late bring nothing old back.
InboxFollowsItsReads == \A r \in Readers : Answered(r, "inbox") /\ rd[r].known => rd[r].off \/ rd[r].fits

-----------------------------------------------------------------------------
(* What the comments say and the code does not keep; refuted on demand. *)

\* "A cache fill must read consistently" (consistentMemberLister), "a change
\* racing it moves the generation past the stored entry" (cachedResolve): the
\* recipients' cache is filled by an ordinary read, and what that missed is
\* kept under the new generation, for reads that begin long after the change.
InboxFollows ==
  behind = {} /\ Busy = {} /\ faults = 0 =>
    \A i \in Instances : LET e == cache["inbox"][i] IN e.full /\ e.gen = gen => e.ids = members

\* "ok is false when it could not be read; the topic is then fetched and not
\* cached" (generation): all who could not read it share one fetch, whatever
\* changed since the fetch began.
UnreadIsFetched == \A r \in Readers : Answered(r, "inbox") => rd[r].off \/ rd[r].fits
=============================================================================
