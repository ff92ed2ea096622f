------------------------ MODULE AudienceCacheProofs -------------------------
(***************************************************************************)
(* Alerts and durable events go by members from within the read that asked *)
(* for them, for any number of users, instances, changes, readers and      *)
(* failures.                                                               *)
(***************************************************************************)
EXTENDS AudienceCache, TLAPS

-----------------------------------------------------------------------------
(* Types *)

\* The types hold at first.
LEMMA InitType == Init => TypeOK
  BY DEF Init, TypeOK, None, Nobody, Entries, Reading, Pcs

\* A result is a reading.
LEMMA ResultType ==
  ASSUME TypeOK, NEW r \in Readers, NEW ids, NEW off \in BOOLEAN
  PROVE  Result(r, ids, off) \in Reading
<1>1. rd[r] \in Reading
  BY DEF TypeOK
<1>2. Fits(r, ids) \in BOOLEAN
  BY DEF Fits
<1> QED
  BY <1>1, <1>2, ZenonT(30) DEF Result, Nobody, Reading, Pcs

\* The entry a reader looks at.
LEMMA EntryType ==
  ASSUME TypeOK, NEW r \in Readers, rd[r].kind \in Kinds, rd[r].inst \in Instances
  PROVE  At(r) \in Entries
  BY DEF TypeOK, At

\* A reader that is under way reads one of the caches.
Placed(r) == rd[r].pc \notin {"idle", "done"} => rd[r].kind \in Kinds /\ rd[r].inst \in Instances

\* Who looks or waits reads for an inbox; the generation is not known before it
\* is read.
KindInv == \A r \in Readers : /\ Placed(r) /\ (rd[r].pc \in {"look", "wait"} => rd[r].kind = "inbox")
                              /\ rd[r].pc \in {"check", "gen"} => rd[r].known = FALSE

\* Changes keep the types.
LEMMA ChangeType ==
  ASSUME TypeOK, NEW o \in Ops, Change(o)
  PROVE  TypeOK'
<1>1. CASE WriteRow(o)
  <2>1. PICK u \in Users :
       /\ members' = IF u \in members THEN members \ {u} ELSE members \cup {u}
       /\ behind' = behind \cup {u} /\ op' = [op EXCEPT ![o] = {u}]
       /\ rd' = [r \in Readers |-> CASE rd[r].pc \in {"idle", "done"} -> rd[r]
                                      [] u \in members               -> [rd[r] EXCEPT !.out = @ \cup {u}]
                                      [] OTHER                       -> [rd[r] EXCEPT !.in = @ \cup {u}]]
    BY <1>1 DEF WriteRow
  <2>2. \A r \in Readers : rd'[r] \in Reading
    <3> SUFFICES ASSUME NEW r \in Readers PROVE rd'[r] \in Reading
      OBVIOUS
    <3>1. rd[r] \in Reading
      BY DEF TypeOK
    <3>2. /\ [rd[r] EXCEPT !.out = @ \cup {u}] \in Reading
          /\ [rd[r] EXCEPT !.in = @ \cup {u}] \in Reading
      BY <3>1 DEF Reading
    <3> QED
      BY <2>1, <3>1, <3>2
  <2>3. rd' \in [Readers -> Reading]
    BY <2>1, <2>2
  <2> QED
    BY <1>1, <2>1, <2>3 DEF TypeOK, WriteRow
<1>2. CASE Bump(o)
  <2>1. PICK i \in Instances : cache' = WithoutOwn(i)
    BY <1>2 DEF Bump
  <2>2. cache' \in [Kinds -> [Instances -> Entries]]
    BY <2>1 DEF TypeOK, WithoutOwn, None, Entries
  <2> QED
    BY <1>2, <2>2 DEF Bump, Moved, TypeOK
<1>3. CASE BumpLost(o)
  <2>1. cache' \in [Kinds -> [Instances -> Entries]]
    <3>1. \A k \in Kinds : \A i \in Instances : [cache[k][i] EXCEPT !.off = TRUE] \in Entries
      <4>1. \A k \in Kinds : \A i \in Instances : cache[k][i] \in Entries
        BY DEF TypeOK
      <4> QED
        BY <4>1 DEF Entries
    <3>2. cache' = [k \in Kinds |-> [i \in Instances |-> [cache[k][i] EXCEPT !.off = TRUE]]]
      BY <1>3 DEF BumpLost
    <3> QED
      BY <3>1, <3>2
  <2>2. rd' \in [Readers -> Reading]
    <3>1. ASSUME NEW r \in Readers PROVE rd[r] \in Reading /\ [rd[r] EXCEPT !.off = TRUE] \in Reading
      <4>1. rd[r] \in Reading
        BY DEF TypeOK
      <4> QED
        BY <4>1 DEF Reading
    <3>2. rd' = [r \in Readers |-> IF rd[r].pc \in {"idle", "done"} THEN rd[r] ELSE [rd[r] EXCEPT !.off = TRUE]]
      BY <1>3 DEF BumpLost
    <3> QED
      BY <3>1, <3>2
  <2> QED
    BY <1>3, <2>1, <2>2 DEF BumpLost, TypeOK
<1> QED
  BY <1>1, <1>2, <1>3 DEF Change

\* Reads keep them.
LEMMA ReadType ==
  ASSUME TypeOK, KindInv, NEW r \in Readers, Read(r)
  PROVE  TypeOK' /\ KindInv'
<1>1. rd[r] \in Reading
  BY DEF TypeOK
<1>2. ASSUME NEW rec \in Reading, To(r, rec), cache' = cache, UNCHANGED <<members, behind, gen, op>>,
             rec.pc \notin {"idle", "done"} => rec.kind \in Kinds /\ rec.inst \in Instances,
             rec.pc \in {"look", "wait"} => rec.kind = "inbox",
             rec.pc \in {"check", "gen"} => rec.known = FALSE
      PROVE  TypeOK' /\ KindInv'
  BY <1>2 DEF To, TypeOK, KindInv, Placed
<1>3. CASE Begin(r)
  <2>1. PICK k \in Kinds, i \in Instances :
       To(r, [Nobody EXCEPT !.kind = k, !.inst = i, !.in = members \cup Busy, !.out = (Users \ members) \cup Busy,
                            !.pc = IF k = "alerts" /\ cache[k][i].full THEN "check" ELSE "gen"])
    BY <1>3 DEF Begin
  <2> DEFINE rec == [Nobody EXCEPT !.kind = k, !.inst = i, !.in = members \cup Busy, !.out = (Users \ members) \cup Busy,
                            !.pc = IF k = "alerts" /\ cache[k][i].full THEN "check" ELSE "gen"]
  <2>2. Busy \subseteq Users
    BY DEF Busy
  <2>3. rec \in Reading
    BY <2>2 DEF Reading, Nobody, Pcs, TypeOK
  <2>4. rec.pc \in {"check", "gen"} /\ rec.kind = k /\ rec.inst = i /\ rec.known = FALSE
    BY DEF Nobody
  <2> QED
    BY <1>2, <1>3, <2>1, <2>3, <2>4 DEF Begin
<1>4. CASE Check(r)
  <2>1. CASE To(r, Result(r, At(r).ids, At(r).off))
    <3>1. At(r).off \in BOOLEAN
      BY <1>4, EntryType DEF Check, KindInv, Placed, Entries
    <3>2. Result(r, At(r).ids, At(r).off) \in Reading /\ Result(r, At(r).ids, At(r).off).pc = "done"
      BY <3>1, ResultType DEF Result, Nobody
    <3> QED
      BY <1>2, <1>4, <2>1, <3>2 DEF Check
  <2>2. CASE To(r, [rd[r] EXCEPT !.pc = "gen"])
    <3>1. [rd[r] EXCEPT !.pc = "gen"] \in Reading
      BY <1>1 DEF Reading, Pcs
    <3>2. rd[r].kind \in Kinds /\ rd[r].inst \in Instances /\ rd[r].known = FALSE
      BY <1>4 DEF Check, KindInv, Placed
    <3>3. /\ [rd[r] EXCEPT !.pc = "gen"].pc = "gen" /\ [rd[r] EXCEPT !.pc = "gen"].kind = rd[r].kind
          /\ [rd[r] EXCEPT !.pc = "gen"].inst = rd[r].inst
          /\ [rd[r] EXCEPT !.pc = "gen"].known = rd[r].known
      BY <1>1 DEF Reading
    <3> QED
      BY <1>2, <1>4, <2>2, <3>1, <3>2, <3>3 DEF Check
  <2> QED
    BY <1>4, <2>1, <2>2 DEF Check
<1>5. CASE ReadGen(r) \/ GenFails(r)
  <2> DEFINE pc == IF rd[r].kind = "inbox" THEN "look" ELSE "fetch"
  <2>1. PICK rec \in {[rd[r] EXCEPT !.gen = gen, !.known = TRUE, !.pc = pc], [rd[r] EXCEPT !.pc = pc]} : To(r, rec)
    BY <1>5 DEF ReadGen, GenFails
  <2>2. rec \in Reading /\ rec.pc = pc /\ rec.kind = rd[r].kind /\ rec.inst = rd[r].inst
    BY <1>1, <2>1 DEF Reading, Pcs, TypeOK
  <2>3. rd[r].kind \in Kinds /\ rd[r].inst \in Instances
    BY <1>5 DEF ReadGen, GenFails, KindInv, Placed
  <2> QED
    BY <1>2, <1>5, <2>1, <2>2, <2>3 DEF ReadGen, GenFails
<1>6. CASE Look(r)
  <2>1. CASE To(r, Result(r, At(r).ids, At(r).off))
    <3>1. At(r).off \in BOOLEAN
      BY <1>6, EntryType DEF Look, KindInv, Placed, Entries
    <3>2. Result(r, At(r).ids, At(r).off) \in Reading /\ Result(r, At(r).ids, At(r).off).pc = "done"
      BY <3>1, ResultType DEF Result, Nobody
    <3> QED
      BY <1>2, <1>6, <2>1, <3>2 DEF Look
  <2>2. ASSUME NEW p \in {"wait", "fetch"}, To(r, [rd[r] EXCEPT !.pc = p]) PROVE TypeOK' /\ KindInv'
    <3>1. [rd[r] EXCEPT !.pc = p] \in Reading
      BY <1>1, <2>2 DEF Reading, Pcs
    <3>2. rd[r].kind \in Kinds /\ rd[r].inst \in Instances /\ rd[r].kind = "inbox"
      BY <1>6 DEF Look, KindInv, Placed
    <3>3. [rd[r] EXCEPT !.pc = p].pc = p /\ [rd[r] EXCEPT !.pc = p].kind = rd[r].kind /\ [rd[r] EXCEPT !.pc = p].inst = rd[r].inst
      BY <1>1 DEF Reading
    <3> QED
      BY <1>2, <1>6, <2>2, <3>1, <3>2, <3>3 DEF Look
  <2> QED
    BY <1>6, <2>1, <2>2 DEF Look
<1>7. CASE Fetch(r)
  <2>1. PICK ids \in IF rd[r].kind = "alerts" /\ rd[r].known THEN {members} ELSE Ordinary :
          To(r, [rd[r] EXCEPT !.pc = "fetched", !.ids = ids, !.off = @ \/ ids # members])
    BY <1>7 DEF Fetch
  <2> DEFINE rec == [rd[r] EXCEPT !.pc = "fetched", !.ids = ids, !.off = @ \/ ids # members]
  <2>2. ids \in SUBSET Users
    BY <2>1 DEF Ordinary, TypeOK
  <2>3. rec \in Reading /\ rec.pc = "fetched" /\ rec.kind = rd[r].kind /\ rec.inst = rd[r].inst
    BY <1>1, <2>2 DEF Reading, Pcs
  <2>4. rd[r].kind \in Kinds /\ rd[r].inst \in Instances
    BY <1>7 DEF Fetch, KindInv, Placed
  <2> QED
    BY <1>2, <1>7, <2>1, <2>3, <2>4 DEF Fetch
<1>8. CASE FetchFails(r)
  <2>1. Nobody \in Reading /\ Nobody.pc = "idle"
    BY DEF Nobody, Reading, Pcs
  <2>2. \A q \in Readers : rd'[q] = Nobody \/ rd'[q] = rd[q]
    BY <1>8 DEF FetchFails
  <2>3. rd' \in [Readers -> Reading]
    BY <1>8, <2>1 DEF FetchFails, TypeOK
  <2> QED
    BY <1>8, <2>1, <2>2, <2>3 DEF FetchFails, TypeOK, KindInv, Placed
<1>9. CASE Keep(r)
  <2>1. \A q \in Readers : Result(q, rd[r].ids, rd[r].off) \in Reading /\ Result(q, rd[r].ids, rd[r].off).pc = "done"
    <3>1. rd[r].off \in BOOLEAN
      BY <1>1 DEF Reading
    <3> QED
      BY <3>1, ResultType DEF Result, Nobody
  <2>2. \A q \in Readers : rd'[q] = Result(q, rd[r].ids, rd[r].off) \/ rd'[q] = rd[q]
    BY <1>9 DEF Keep
  <2>3. rd' \in [Readers -> Reading]
    BY <1>9, <2>1 DEF Keep, TypeOK
  <2>4. Entry(GenRead(r), rd[r].ids, rd[r].off) \in Entries
    BY <1>1 DEF Entry, GenRead, Entries, Reading
  <2>5. cache' \in [Kinds -> [Instances -> Entries]]
    BY <1>9, <2>4 DEF Keep, TypeOK
  <2> QED
    BY <1>9, <2>1, <2>2, <2>3, <2>5 DEF Keep, TypeOK, KindInv, Placed
<1> QED
  BY <1>3, <1>4, <1>5, <1>6, <1>7, <1>8, <1>9 DEF Read

\* So does everything.
LEMMA NextType == TypeOK /\ KindInv /\ [Next]_vars => TypeOK' /\ KindInv'
<1> SUFFICES ASSUME TypeOK, KindInv, [Next]_vars PROVE TypeOK' /\ KindInv'
  OBVIOUS
<1>1. CASE UNCHANGED vars
  BY <1>1 DEF vars, TypeOK, KindInv, Placed
<1>2. ASSUME NEW o \in Ops, Change(o) PROVE TypeOK' /\ KindInv'
  <2>1. \A r \in Readers : /\ rd'[r].pc = rd[r].pc /\ rd'[r].kind = rd[r].kind /\ rd'[r].inst = rd[r].inst
                           /\ rd'[r].known = rd[r].known
    BY <1>2 DEF Change, WriteRow, Bump, BumpLost, TypeOK, Reading
  <2> QED
    BY <1>2, <2>1, ChangeType DEF KindInv, Placed
<1>3. CASE CatchesUp
  BY <1>3 DEF CatchesUp, TypeOK, KindInv, Placed
<1>4. CASE Expires
  BY <1>4 DEF Expires, TypeOK, None, Entries, KindInv, Placed
<1> QED
  BY <1>1, <1>2, <1>3, <1>4, ReadType DEF Next

-----------------------------------------------------------------------------
(* What is inductive *)

Active(r) == rd[r].pc \notin {"idle", "done"}

\* A reader under way knows who was in or out at some moment of its read, the
\* users of changes that have not returned among both.
Wide(r) == Active(r) => /\ members \cup Busy \subseteq rd[r].in
                        /\ (Users \ members) \cup Busy \subseteq rd[r].out

\* Members that differ from the rows by changes that have not returned.
Near(ids) == \A u \in Users : (u \in ids /\ u \in members) \/ (u \notin ids /\ u \notin members) \/ u \in Busy

\* An entry of the present generation is near; one of an older one is never
\* looked at again by a read that begins now.
GoodEntry(k, i) ==
  LET e == cache[k][i] IN e.full /\ ~e.off => e.gen <= gen /\ (e.gen = gen => Near(e.ids))

\* So are members that were read and are not stored yet; they fit their reader.
GoodFetch(r) == rd[r].pc = "fetched" /\ ~rd[r].off =>
  /\ Fits(r, rd[r].ids)
  /\ rd[r].known => rd[r].gen <= gen /\ (rd[r].gen = gen => Near(rd[r].ids))

\* A reader that has read the generation and waits for members.
Asks(r) == rd[r].pc \in {"look", "wait", "fetch", "fetched"} /\ rd[r].known

\* The generation it read is the present one or older, and whatever carries
\* that generation fits it.
Before(r)      == Asks(r) => rd[r].gen <= gen
FitsEntry(r, k, i) ==
  Asks(r) /\ ~rd[r].off /\ cache[k][i].full /\ ~cache[k][i].off /\ cache[k][i].gen = rd[r].gen => Fits(r, cache[k][i].ids)
FitsFetch(r, q) ==
  Asks(r) /\ ~rd[r].off /\ rd[q].pc = "fetched" /\ rd[q].known /\ ~rd[q].off /\ rd[q].gen = rd[r].gen => Fits(r, rd[q].ids)

\* An answer fits its read, unless it is excused.
GoodAnswer(r) == rd[r].pc = "done" /\ (rd[r].kind = "alerts" \/ rd[r].known) => rd[r].off \/ rd[r].fits

EntriesInv == \A k \in Kinds : \A i \in Instances : GoodEntry(k, i)
ReadersInv == \A r \in Readers : Wide(r) /\ GoodFetch(r) /\ Before(r) /\ GoodAnswer(r)
PairsInv   == /\ \A r \in Readers : \A k \in Kinds : \A i \in Instances : FitsEntry(r, k, i)
              /\ \A r, q \in Readers : FitsFetch(r, q)

Inv == TypeOK /\ KindInv /\ EntriesInv /\ ReadersInv /\ PairsInv

\* It holds at first.
LEMMA InitInv == Init => Inv
<1> SUFFICES ASSUME Init PROVE Inv
  OBVIOUS
<1>1. TypeOK
  BY InitType
<1>2. KindInv /\ ReadersInv
  BY DEF Init, Nobody, KindInv, Placed, ReadersInv, Wide, Active, GoodFetch, Before, Asks, GoodAnswer
<1>3. EntriesInv /\ PairsInv
  BY DEF Init, Nobody, None, EntriesInv, GoodEntry, PairsInv, FitsEntry, FitsFetch, Asks
<1> QED
  BY <1>1, <1>2, <1>3 DEF Inv

\* What is near fits every reader that is under way.
LEMMA NearFits ==
  ASSUME NEW r \in Readers, Active(r), Wide(r), NEW ids \in SUBSET Users, Near(ids)
  PROVE  Fits(r, ids)
  BY DEF Active, Wide, Near, Fits

-----------------------------------------------------------------------------
(* Changes *)

\* A change of a row: its user may now be found in or out.
LEMMA WriteInv ==
  ASSUME Inv, NEW o \in Ops, WriteRow(o)
  PROVE  EntriesInv' /\ ReadersInv' /\ PairsInv'
<1>1. PICK u \in Users :
       /\ members' = IF u \in members THEN members \ {u} ELSE members \cup {u}
       /\ op' = [op EXCEPT ![o] = {u}]
       /\ rd' = [r \in Readers |-> CASE rd[r].pc \in {"idle", "done"} -> rd[r]
                                      [] u \in members               -> [rd[r] EXCEPT !.out = @ \cup {u}]
                                      [] OTHER                       -> [rd[r] EXCEPT !.in = @ \cup {u}]]
  BY DEF WriteRow
<1>2. op[o] = {} /\ UNCHANGED <<gen, cache>>
  BY DEF WriteRow
<1>3. Busy' = Busy \cup {u}
  BY <1>1, <1>2 DEF Busy, Inv, TypeOK
<1>4. \A ids \in SUBSET Users : Near(ids) => Near(ids)'
  BY <1>1, <1>3 DEF Near
<1>5. \A r \in Readers :
        /\ rd'[r].pc = rd[r].pc /\ rd'[r].kind = rd[r].kind /\ rd'[r].gen = rd[r].gen /\ rd'[r].known = rd[r].known
        /\ rd'[r].ids = rd[r].ids /\ rd'[r].off = rd[r].off /\ rd'[r].fits = rd[r].fits
        /\ rd[r].in \subseteq rd'[r].in /\ rd[r].out \subseteq rd'[r].out
        /\ Active(r) => IF u \in members THEN u \in rd'[r].out ELSE u \in rd'[r].in
  <2> SUFFICES ASSUME NEW r \in Readers
               PROVE /\ rd'[r].pc = rd[r].pc /\ rd'[r].kind = rd[r].kind /\ rd'[r].gen = rd[r].gen /\ rd'[r].known = rd[r].known
                     /\ rd'[r].ids = rd[r].ids /\ rd'[r].off = rd[r].off /\ rd'[r].fits = rd[r].fits
                     /\ rd[r].in \subseteq rd'[r].in /\ rd[r].out \subseteq rd'[r].out
                     /\ Active(r) => IF u \in members THEN u \in rd'[r].out ELSE u \in rd'[r].in
    OBVIOUS
  <2>1. rd[r] \in Reading
    BY DEF Inv, TypeOK
  <2>2. CASE ~Active(r)
    BY <1>1, <2>2 DEF Active
  <2>3. CASE Active(r) /\ u \in members
    <3>1. rd'[r] = [rd[r] EXCEPT !.out = @ \cup {u}]
      BY <1>1, <2>3 DEF Active
    <3> QED
      BY <2>1, <2>3, <3>1 DEF Reading
  <2>4. CASE Active(r) /\ u \notin members
    <3>1. rd'[r] = [rd[r] EXCEPT !.in = @ \cup {u}]
      BY <1>1, <2>4 DEF Active
    <3> QED
      BY <2>1, <2>4, <3>1 DEF Reading
  <2> QED
    BY <2>2, <2>3, <2>4
<1>6. \A r \in Readers : \A ids : Fits(r, ids) => Fits(r, ids)'
  BY <1>5 DEF Fits
<1>7. \A r \in Readers : Wide(r)'
  <2> SUFFICES ASSUME NEW r \in Readers, Active(r)'
               PROVE  /\ members' \cup Busy' \subseteq rd'[r].in
                      /\ (Users \ members') \cup Busy' \subseteq rd'[r].out
    BY DEF Wide
  <2>1. /\ Active(r) /\ members \cup Busy \subseteq rd[r].in
        /\ (Users \ members) \cup Busy \subseteq rd[r].out
    BY <1>5 DEF Active, Inv, ReadersInv, Wide
  <2>2. rd[r].in \subseteq rd'[r].in /\ rd[r].out \subseteq rd'[r].out /\ u \in rd'[r].in /\ u \in rd'[r].out
    BY <1>5, <2>1
  <2> QED
    BY <1>1, <1>3, <2>1, <2>2
<1>8. \A r \in Readers : rd[r].ids \in SUBSET Users
  BY DEF Inv, TypeOK, Reading
<1>9. \A k \in Kinds : \A i \in Instances : cache[k][i].ids \in SUBSET Users
  BY DEF Inv, TypeOK, Entries
<1>10. EntriesInv'
  BY <1>2, <1>4, <1>9 DEF Inv, EntriesInv, GoodEntry
<1>11. \A r \in Readers : GoodFetch(r)' /\ Before(r)' /\ GoodAnswer(r)'
  <2> SUFFICES ASSUME NEW r \in Readers PROVE GoodFetch(r)' /\ Before(r)' /\ GoodAnswer(r)'
    OBVIOUS
  <2>1. GoodFetch(r)'
    BY <1>2, <1>4, <1>5, <1>6, <1>8 DEF Inv, ReadersInv, GoodFetch
  <2>2. Before(r)' /\ GoodAnswer(r)'
    BY <1>2, <1>5 DEF Inv, ReadersInv, Before, Asks, GoodAnswer
  <2> QED
    BY <2>1, <2>2
<1>12. \A r \in Readers : \A k \in Kinds : \A i \in Instances : FitsEntry(r, k, i)'
  BY <1>2, <1>5, <1>6 DEF Inv, PairsInv, FitsEntry, Asks
<1>13. \A r, q \in Readers : FitsFetch(r, q)'
  BY <1>5, <1>6 DEF Inv, PairsInv, FitsFetch, Asks
<1> QED
  BY <1>7, <1>10, <1>11, <1>12, <1>13 DEF ReadersInv, PairsInv

\* A change returns: the generation moves past whatever was read.
LEMMA BumpInv ==
  ASSUME Inv, NEW o \in Ops, Bump(o)
  PROVE  EntriesInv' /\ ReadersInv' /\ PairsInv'
<1>1. PICK i \in Instances : cache' = WithoutOwn(i)
  BY DEF Bump
<1>2. gen' = gen + 1 /\ gen \in Nat /\ UNCHANGED <<members, rd>> /\ Busy' \subseteq Busy
  BY DEF Bump, Moved, Inv, TypeOK, Busy
<1>3. \A k \in Kinds : \A j \in Instances : ~cache'[k][j].full \/ cache'[k][j] = cache[k][j]
  BY <1>1 DEF WithoutOwn, None, Inv, TypeOK
<1>4. \A k \in Kinds : \A j \in Instances : cache[k][j].gen \in Nat
  BY DEF Inv, TypeOK, Entries
<1>5. \A r \in Readers : rd[r].gen \in Nat
  BY DEF Inv, TypeOK, Reading
<1>6. EntriesInv'
  BY <1>2, <1>3, <1>4 DEF Inv, EntriesInv, GoodEntry
<1>7. ReadersInv'
  <2> SUFFICES ASSUME NEW r \in Readers PROVE Wide(r)' /\ GoodFetch(r)' /\ Before(r)' /\ GoodAnswer(r)'
    BY DEF ReadersInv
  <2>1. Wide(r)' /\ GoodAnswer(r)'
    BY <1>2 DEF Inv, ReadersInv, Wide, Active, GoodAnswer
  <2>2. GoodFetch(r)' /\ Before(r)'
    BY <1>2, <1>5 DEF Inv, ReadersInv, GoodFetch, Before, Asks, Fits
  <2> QED
    BY <2>1, <2>2
<1>8. PairsInv'
  BY <1>2, <1>3 DEF Inv, PairsInv, FitsEntry, FitsFetch, Asks, Fits
<1> QED
  BY <1>6, <1>7, <1>8

\* A change returns without it: whatever is under way or kept is excused.
LEMMA BumpLostInv ==
  ASSUME Inv, NEW o \in Ops, BumpLost(o)
  PROVE  EntriesInv' /\ ReadersInv' /\ PairsInv'
<1>1. UNCHANGED <<members, gen>> /\ Busy' \subseteq Busy
  BY DEF BumpLost, Busy, Inv, TypeOK
<1>2. \A k \in Kinds : \A i \in Instances : cache'[k][i].off
  BY DEF BumpLost, Inv, TypeOK, Entries
<1>3. \A r \in Readers : /\ ~Active(r) => rd'[r] = rd[r]
                         /\ Active(r) => rd'[r] = [rd[r] EXCEPT !.off = TRUE]
  BY DEF BumpLost, Active
<1>4. \A r \in Readers : rd[r] \in Reading
  BY DEF Inv, TypeOK
<1>5. EntriesInv'
  BY <1>2 DEF EntriesInv, GoodEntry
<1>6. ReadersInv'
  <2> SUFFICES ASSUME NEW r \in Readers PROVE Wide(r)' /\ GoodFetch(r)' /\ Before(r)' /\ GoodAnswer(r)'
    BY DEF ReadersInv
  <2>1. Wide(r) /\ Before(r) /\ GoodAnswer(r)
    BY DEF Inv, ReadersInv
  <2>2. CASE ~Active(r)
    BY <1>1, <1>3, <2>1, <2>2 DEF Active, Wide, GoodFetch, Before, Asks, GoodAnswer
  <2>3. CASE Active(r)
    <3>1. /\ rd'[r].pc = rd[r].pc /\ rd'[r].off /\ rd'[r].in = rd[r].in /\ rd'[r].out = rd[r].out
          /\ rd'[r].gen = rd[r].gen /\ rd'[r].known = rd[r].known
      BY <1>3, <1>4, <2>3 DEF Reading
    <3> QED
      BY <1>1, <2>1, <2>3, <3>1 DEF Active, Wide, GoodFetch, Before, Asks, GoodAnswer
  <2> QED
    BY <2>2, <2>3
<1>7. PairsInv'
  <2>1. \A r \in Readers : Asks(r)' => rd'[r].off
    BY <1>3, <1>4 DEF Asks, Active, Reading
  <2> QED
    BY <2>1 DEF PairsInv, FitsEntry, FitsFetch
<1> QED
  BY <1>5, <1>6, <1>7

-----------------------------------------------------------------------------
(* Reads *)

\* What the invariant asks of one reader.
GoodReader(r) == Wide(r) /\ GoodFetch(r) /\ Before(r) /\ GoodAnswer(r)

\* A reader takes a step of its own that leaves the entries alone and reads no
\* members: what is left to show is about itself, and what it now asks for.
LEMMA OwnStep ==
  ASSUME Inv, NEW r \in Readers, UNCHANGED <<members, gen, op, cache>>,
         \A q \in Readers \ {r} : rd'[q] = rd[q],
         rd'[r].pc # "fetched", GoodReader(r)',
         \A k \in Kinds : \A i \in Instances : FitsEntry(r, k, i)',
         \A q \in Readers \ {r} : FitsFetch(r, q)'
  PROVE  EntriesInv' /\ ReadersInv' /\ PairsInv'
<1>1. Busy' = Busy
  BY DEF Busy
<1>2. EntriesInv'
  BY <1>1 DEF Inv, EntriesInv, GoodEntry, Near
<1>3. ReadersInv'
  <2> SUFFICES ASSUME NEW q \in Readers \ {r} PROVE GoodReader(q)'
    BY DEF ReadersInv, GoodReader
  <2>1. GoodReader(q)
    BY DEF Inv, ReadersInv, GoodReader
  <2> QED
    BY <1>1, <2>1 DEF GoodReader, Wide, Active, GoodFetch, Before, Asks, GoodAnswer, Near, Fits
<1>4. \A q \in Readers : \A k \in Kinds : \A i \in Instances : FitsEntry(q, k, i)'
  BY DEF Inv, PairsInv, FitsEntry, Asks, Fits
<1>5. \A q, p \in Readers : FitsFetch(q, p)'
  <2> SUFFICES ASSUME NEW q \in Readers, NEW p \in Readers PROVE FitsFetch(q, p)'
    OBVIOUS
  <2>1. CASE p = r
    BY <2>1 DEF FitsFetch
  <2>2. CASE p # r /\ q = r
    BY <2>2
  <2>3. CASE p # r /\ q # r
    BY <2>3 DEF Inv, PairsInv, FitsFetch, Asks, Fits
  <2> QED
    BY <2>1, <2>2, <2>3
<1> QED
  BY <1>2, <1>3, <1>4, <1>5 DEF PairsInv

\* An answer needs no more than to fit.
LEMMA AnswerStep ==
  ASSUME Inv, NEW r \in Readers, UNCHANGED <<members, gen, op, cache>>, NEW ids, NEW off,
         To(r, Result(r, ids, off)), (rd[r].kind = "alerts" \/ rd[r].known) => rd[r].off \/ off \/ Fits(r, ids)
  PROVE  EntriesInv' /\ ReadersInv' /\ PairsInv'
<1>1. rd' = [rd EXCEPT ![r] = Result(r, ids, off)] /\ rd \in [Readers -> Reading]
  BY DEF To, Inv, TypeOK
<1>2. rd'[r] = Result(r, ids, off) /\ \A q \in Readers \ {r} : rd'[q] = rd[q]
  BY <1>1
<1>3. /\ rd'[r].pc = "done" /\ rd'[r].kind = rd[r].kind /\ rd'[r].known = rd[r].known
      /\ rd'[r].off = (rd[r].off \/ off) /\ rd'[r].fits = Fits(r, ids)
  BY <1>2 DEF Result, Nobody
<1>4. GoodReader(r)'
  BY <1>3 DEF GoodReader, Wide, Active, GoodFetch, Before, Asks, GoodAnswer
<1>5. ~Asks(r)'
  BY <1>3 DEF Asks
<1> QED
  BY <1>2, <1>3, <1>4, <1>5, OwnStep DEF FitsEntry, FitsFetch

\* A step that only moves a reader on, to where it asks for nothing or asked
\* before.
LEMMA MoveStep ==
  ASSUME Inv, NEW r \in Readers, UNCHANGED <<members, gen, op, cache>>, NEW p,
         To(r, [rd[r] EXCEPT !.pc = p]), p \in Pcs, p \notin {"idle", "done", "fetched"}, Active(r),
         p \in {"look", "wait", "fetch"} /\ rd[r].known => Asks(r)
  PROVE  EntriesInv' /\ ReadersInv' /\ PairsInv'
<1>1. rd' = [rd EXCEPT ![r] = [rd[r] EXCEPT !.pc = p]] /\ rd \in [Readers -> Reading] /\ rd[r] \in Reading
  BY DEF To, Inv, TypeOK
<1>2. \A q \in Readers \ {r} : rd'[q] = rd[q]
  BY <1>1
<1>3. /\ rd'[r].pc = p /\ rd'[r].kind = rd[r].kind /\ rd'[r].known = rd[r].known /\ rd'[r].gen = rd[r].gen
      /\ rd'[r].off = rd[r].off /\ rd'[r].in = rd[r].in /\ rd'[r].out = rd[r].out
  BY <1>1 DEF Reading
<1>4. GoodReader(r)'
  BY <1>3 DEF Inv, ReadersInv, GoodReader, Wide, Active, GoodFetch, Before, Asks, GoodAnswer, Busy
<1>5. \A k \in Kinds : \A i \in Instances : FitsEntry(r, k, i)'
  BY <1>3 DEF Inv, PairsInv, FitsEntry, Asks, Fits
<1>6. \A q \in Readers \ {r} : FitsFetch(r, q)'
  BY <1>2, <1>3, ZenonT(30) DEF Inv, PairsInv, FitsFetch, Asks, Fits
<1> QED
  BY <1>2, <1>3, <1>4, <1>5, <1>6, OwnStep

\* A read begins: it sees what is there and what is under way.
LEMMA BeginInv ==
  ASSUME Inv, NEW r \in Readers, Begin(r)
  PROVE  EntriesInv' /\ ReadersInv' /\ PairsInv'
<1>1. PICK k \in Kinds, i \in Instances :
     To(r, [Nobody EXCEPT !.kind = k, !.inst = i, !.in = members \cup Busy, !.out = (Users \ members) \cup Busy,
                          !.pc = IF k = "alerts" /\ cache[k][i].full THEN "check" ELSE "gen"])
  BY DEF Begin
<1>2. UNCHANGED <<members, gen, op, cache>> /\ Busy' = Busy
  BY DEF Begin, Busy
<1>3. /\ rd'[r].pc \in {"check", "gen"} /\ rd'[r].in = members \cup Busy /\ rd'[r].out = (Users \ members) \cup Busy
      /\ \A q \in Readers \ {r} : rd'[q] = rd[q]
  BY <1>1 DEF To, Nobody, Inv, TypeOK
<1>4. GoodReader(r)' /\ ~Asks(r)'
  BY <1>2, <1>3 DEF GoodReader, Wide, Active, GoodFetch, Before, Asks, GoodAnswer
<1> QED
  BY <1>2, <1>3, <1>4, OwnStep DEF FitsEntry, FitsFetch

\* An entry of the present generation answers.
LEMMA CheckInv ==
  ASSUME Inv, NEW r \in Readers, Check(r)
  PROVE  EntriesInv' /\ ReadersInv' /\ PairsInv'
<1>1. UNCHANGED <<members, gen, op, cache>> /\ rd[r].pc = "check" /\ Active(r)
  BY DEF Check, Active
<1>2. CASE At(r).full /\ At(r).gen = gen /\ To(r, Result(r, At(r).ids, At(r).off))
  <2>1. rd[r].kind \in Kinds /\ rd[r].inst \in Instances
    BY <1>1 DEF Active, Inv, KindInv, Placed
  <2>2. At(r).off \/ Near(At(r).ids)
    BY <1>2, <2>1 DEF At, Inv, EntriesInv, GoodEntry
  <2>3. At(r).ids \in SUBSET Users
    BY <2>1, EntryType DEF Inv, Entries
  <2>4. At(r).off \/ Fits(r, At(r).ids)
    BY <1>1, <2>2, <2>3, NearFits DEF Inv, ReadersInv
  <2> QED
    BY <1>1, <1>2, <2>4, AnswerStep
<1>3. CASE To(r, [rd[r] EXCEPT !.pc = "gen"])
  BY <1>1, <1>3, MoveStep DEF Pcs
<1> QED
  BY <1>2, <1>3 DEF Check

\* The generation is read: what carries it is near, and fits.
LEMMA ReadGenInv ==
  ASSUME Inv, NEW r \in Readers, ReadGen(r)
  PROVE  EntriesInv' /\ ReadersInv' /\ PairsInv'
<1> DEFINE p == IF rd[r].kind = "inbox" THEN "look" ELSE "fetch"
<1>1. /\ UNCHANGED <<members, gen, op, cache>> /\ rd[r].pc = "gen" /\ Active(r)
      /\ To(r, [rd[r] EXCEPT !.gen = gen, !.known = TRUE, !.pc = p])
  BY DEF ReadGen, Active
<1>2. rd' = [rd EXCEPT ![r] = [rd[r] EXCEPT !.gen = gen, !.known = TRUE, !.pc = p]]
      /\ rd \in [Readers -> Reading] /\ rd[r] \in Reading
  BY <1>1 DEF To, Inv, TypeOK
<1>3. \A q \in Readers \ {r} : rd'[q] = rd[q]
  BY <1>2
<1>4. /\ rd'[r].pc \in {"look", "fetch"} /\ rd'[r].known /\ rd'[r].gen = gen
      /\ rd'[r].off = rd[r].off /\ rd'[r].in = rd[r].in /\ rd'[r].out = rd[r].out
  BY <1>2 DEF Reading
<1>5. Wide(r) /\ gen \in Nat
  BY DEF Inv, ReadersInv, TypeOK
<1>6. GoodReader(r)'
  BY <1>1, <1>4, <1>5 DEF GoodReader, Wide, Active, GoodFetch, Before, Asks, GoodAnswer, Busy
<1>7. ASSUME NEW ids \in SUBSET Users, Near(ids) PROVE Fits(r, ids)'
  <2>1. Fits(r, ids)
    BY <1>1, <1>5, <1>7, NearFits
  <2> QED
    BY <1>4, <2>1 DEF Fits
<1>8. \A k \in Kinds : \A i \in Instances : FitsEntry(r, k, i)'
  <2> SUFFICES ASSUME NEW k \in Kinds, NEW i \in Instances, cache[k][i].full, ~cache[k][i].off, cache[k][i].gen = gen
               PROVE  Fits(r, cache[k][i].ids)'
    BY <1>1, <1>4 DEF FitsEntry, Fits
  <2>1. Near(cache[k][i].ids) /\ cache[k][i].ids \in SUBSET Users
    BY DEF Inv, EntriesInv, GoodEntry, TypeOK, Entries
  <2>2. Fits(r, cache[k][i].ids)'
    <3> DEFINE ids == cache[k][i].ids
    <3>1. \A S \in SUBSET Users : Near(S) => S \subseteq rd'[r].in /\ Users \ S \subseteq rd'[r].out
      BY <1>7 DEF Fits
    <3> QED
      BY <1>1, <2>1, <3>1 DEF Fits
  <2> QED
    BY <2>2
<1>9. \A q \in Readers \ {r} : FitsFetch(r, q)'
  <2> SUFFICES ASSUME NEW q \in Readers \ {r}, rd[q].pc = "fetched", rd[q].known, ~rd[q].off, rd[q].gen = gen
               PROVE  rd[q].ids \subseteq rd'[r].in /\ Users \ rd[q].ids \subseteq rd'[r].out
    BY <1>3, <1>4 DEF FitsFetch, Fits
  <2>1. Near(rd[q].ids) /\ rd[q].ids \in SUBSET Users
    BY DEF Inv, ReadersInv, GoodFetch, TypeOK, Reading
  <2> QED
    BY <1>7, <2>1 DEF Fits
<1> QED
  BY <1>1, <1>3, <1>4, <1>6, <1>8, <1>9, OwnStep

\* A hit in the inbox's cache carries the generation that was read.
LEMMA LookInv ==
  ASSUME Inv, NEW r \in Readers, Look(r)
  PROVE  EntriesInv' /\ ReadersInv' /\ PairsInv'
<1>1. UNCHANGED <<members, gen, op, cache>> /\ rd[r].pc = "look" /\ Active(r)
  BY DEF Look, Active
<1>2. CASE At(r).full /\ rd[r].known /\ At(r).gen = rd[r].gen /\ To(r, Result(r, At(r).ids, At(r).off))
  <2>1. rd[r].kind \in Kinds /\ rd[r].inst \in Instances
    BY <1>1 DEF Active, Inv, KindInv, Placed
  <2>2. FitsEntry(r, rd[r].kind, rd[r].inst)
    BY <2>1 DEF Inv, PairsInv
  <2>3. rd[r].off \/ At(r).off \/ Fits(r, At(r).ids)
    BY <1>1, <1>2, <2>2 DEF FitsEntry, Asks, At
  <2> QED
    BY <1>1, <1>2, <2>3, AnswerStep
<1>3. ASSUME NEW p \in {"wait", "fetch"}, To(r, [rd[r] EXCEPT !.pc = p])
      PROVE  EntriesInv' /\ ReadersInv' /\ PairsInv'
  <2>1. p \in Pcs /\ p \notin {"idle", "done", "fetched"} /\ (rd[r].known => Asks(r))
    BY <1>1, <1>3 DEF Pcs, Asks
  <2> QED
    BY <1>1, <1>3, <2>1, MoveStep
<1> QED
  BY <1>2, <1>3 DEF Look

\* Members are read: the rows, but for an ordinary read that was behind.
LEMMA FetchInv ==
  ASSUME Inv, NEW r \in Readers, Fetch(r)
  PROVE  EntriesInv' /\ ReadersInv' /\ PairsInv'
<1>1. PICK ids : To(r, [rd[r] EXCEPT !.pc = "fetched", !.ids = ids, !.off = @ \/ ids # members])
  BY DEF Fetch
<1>2. UNCHANGED <<members, gen, op, cache>> /\ rd[r].pc = "fetch" /\ Active(r) /\ Busy' = Busy
  BY DEF Fetch, Active, Busy
<1>3. rd' = [rd EXCEPT ![r] = [rd[r] EXCEPT !.pc = "fetched", !.ids = ids, !.off = @ \/ ids # members]]
      /\ rd \in [Readers -> Reading] /\ rd[r] \in Reading
  BY <1>1 DEF To, Inv, TypeOK
<1>4. \A q \in Readers \ {r} : rd'[q] = rd[q]
  BY <1>3
<1>5. /\ rd'[r].pc = "fetched" /\ rd'[r].known = rd[r].known /\ rd'[r].gen = rd[r].gen /\ rd'[r].ids = ids
      /\ rd'[r].off = (rd[r].off \/ ids # members) /\ rd'[r].in = rd[r].in /\ rd'[r].out = rd[r].out
  BY <1>3 DEF Reading
<1>6. members \in SUBSET Users /\ Near(members) /\ \A q \in Readers : Active(q) => Fits(q, members)
  BY NearFits DEF Inv, TypeOK, Near, ReadersInv
<1>7. EntriesInv'
  BY <1>2 DEF Inv, EntriesInv, GoodEntry, Near
<1>8. GoodReader(r)'
  BY <1>2, <1>5, <1>6 DEF Inv, ReadersInv, GoodReader, Wide, Active, GoodFetch, Before, Asks, GoodAnswer, Near, Fits
<1>9. \A q \in Readers \ {r} : GoodReader(q)'
  <2> SUFFICES ASSUME NEW q \in Readers \ {r} PROVE GoodReader(q)'
    OBVIOUS
  <2>1. GoodReader(q)
    BY DEF Inv, ReadersInv, GoodReader
  <2> QED
    BY <1>2, <1>4, <2>1 DEF GoodReader, Wide, Active, GoodFetch, Before, Asks, GoodAnswer, Near, Fits
<1>10. \A q \in Readers : \A k \in Kinds : \A i \in Instances : FitsEntry(q, k, i)'
  <2>1. \A k \in Kinds : \A i \in Instances : FitsEntry(r, k, i)'
    BY <1>2, <1>5 DEF Inv, PairsInv, FitsEntry, Asks, Fits
  <2>2. \A q \in Readers \ {r} : \A k \in Kinds : \A i \in Instances : FitsEntry(q, k, i)'
    BY <1>2, <1>4 DEF Inv, PairsInv, FitsEntry, Asks, Fits
  <2> QED
    BY <2>1, <2>2
<1>11. \A q, p \in Readers : FitsFetch(q, p)'
  <2> SUFFICES ASSUME NEW q \in Readers, NEW p \in Readers PROVE FitsFetch(q, p)'
    OBVIOUS
  <2>1. CASE p = r
    <3>1. Asks(q)' => Active(q) /\ rd'[q].in = rd[q].in /\ rd'[q].out = rd[q].out
      BY <1>2, <1>4, <1>5 DEF Asks, Active
    <3> QED
      BY <1>5, <1>6, <2>1, <3>1 DEF FitsFetch, Fits
  <2>2. CASE p # r /\ q = r
    BY <1>2, <1>4, <1>5, <2>2, ZenonT(30) DEF Inv, PairsInv, FitsFetch, Asks, Fits
  <2>3. CASE p # r /\ q # r
    BY <1>4, <2>3 DEF Inv, PairsInv, FitsFetch, Asks, Fits
  <2> QED
    BY <2>1, <2>2, <2>3
<1> QED
  BY <1>7, <1>8, <1>9, <1>10, <1>11 DEF ReadersInv, GoodReader, PairsInv

\* Readers that stop leave nothing behind.
LEMMA FetchFailsInv ==
  ASSUME Inv, NEW r \in Readers, FetchFails(r)
  PROVE  EntriesInv' /\ ReadersInv' /\ PairsInv'
<1>1. UNCHANGED <<members, gen, op, cache>> /\ Busy' = Busy
  BY DEF FetchFails, Busy
<1>2. \A q \in Readers : rd'[q] = rd[q] \/ rd'[q] = Nobody
  BY DEF FetchFails
<1>3. EntriesInv'
  BY <1>1 DEF Inv, EntriesInv, GoodEntry, Near
<1>4. ReadersInv'
  <2> SUFFICES ASSUME NEW q \in Readers PROVE GoodReader(q)'
    BY DEF ReadersInv, GoodReader
  <2>1. GoodReader(q)
    BY DEF Inv, ReadersInv, GoodReader
  <2>2. CASE rd'[q] = rd[q]
    BY <1>1, <2>1, <2>2 DEF GoodReader, Wide, Active, GoodFetch, Before, Asks, GoodAnswer, Near, Fits
  <2>3. CASE rd'[q] = Nobody
    BY <2>3 DEF Nobody, GoodReader, Wide, Active, GoodFetch, Before, Asks, GoodAnswer
  <2> QED
    BY <1>2, <2>2, <2>3
<1>5. \A q \in Readers : rd'[q].pc # "idle" => rd'[q] = rd[q]
  BY <1>2 DEF Nobody
<1>6. PairsInv'
  BY <1>1, <1>5 DEF Inv, PairsInv, FitsEntry, FitsFetch, Asks, Fits
<1> QED
  BY <1>3, <1>4, <1>6

\* Members are stored and answer a flight: what the entry carries now, they
\* carried before.
LEMMA KeepInv ==
  ASSUME Inv, NEW r \in Readers, Keep(r)
  PROVE  EntriesInv' /\ ReadersInv' /\ PairsInv'
<1>1. /\ UNCHANGED <<members, gen, op>> /\ rd[r].pc = "fetched" /\ Active(r) /\ Busy' = Busy
      /\ rd' = [q \in Readers |-> IF q \in Flight(r) THEN Result(q, rd[r].ids, rd[r].off) ELSE rd[q]]
  BY DEF Keep, Active, Busy
<1>2. rd[r].kind \in Kinds /\ rd[r].inst \in Instances
  BY <1>1 DEF Active, Inv, KindInv, Placed
<1>3. GoodFetch(r) /\ rd[r] \in Reading
  BY DEF Inv, ReadersInv, TypeOK
<1>4. \A q \in Readers \ Flight(r) : rd'[q] = rd[q]
  BY <1>1
<1>5. \A q \in Flight(r) : /\ q \in Readers /\ rd'[q].pc = "done" /\ rd'[q].kind = rd[q].kind /\ rd'[q].known = rd[q].known
                           /\ rd'[q].off = (rd[q].off \/ rd[r].off) /\ rd'[q].fits = Fits(q, rd[r].ids)
  BY <1>1 DEF Flight, Result, Nobody
<1>6. ASSUME NEW k \in Kinds, NEW i \in Instances
      PROVE  \/ cache'[k][i] = cache[k][i]
             \/ rd[r].known /\ cache'[k][i] = [gen |-> rd[r].gen, ids |-> rd[r].ids, off |-> rd[r].off, full |-> TRUE]
  <2>1. CASE UNCHANGED cache
    BY <2>1
  <2>2. CASE /\ rd[r].known
             /\ cache' = [cache EXCEPT ![rd[r].kind][rd[r].inst] = Entry(GenRead(r), rd[r].ids, rd[r].off)]
    BY <1>2, <2>2 DEF Entry, GenRead, Inv, TypeOK
  <2> QED
    BY <2>1, <2>2 DEF Keep
<1>7. EntriesInv'
  <2> SUFFICES ASSUME NEW k \in Kinds, NEW i \in Instances PROVE GoodEntry(k, i)'
    BY DEF EntriesInv
  <2>1. CASE cache'[k][i] = cache[k][i]
    BY <1>1, <2>1 DEF Inv, EntriesInv, GoodEntry, Near
  <2>2. CASE rd[r].known /\ cache'[k][i] = [gen |-> rd[r].gen, ids |-> rd[r].ids, off |-> rd[r].off, full |-> TRUE]
    BY <1>1, <1>3, <2>2 DEF GoodFetch, GoodEntry, Near
  <2> QED
    BY <1>6, <2>1, <2>2
<1>8. ReadersInv'
  <2> SUFFICES ASSUME NEW q \in Readers PROVE GoodReader(q)'
    BY DEF ReadersInv, GoodReader
  <2>1. CASE q \notin Flight(r)
    <3>1. GoodReader(q) /\ rd'[q] = rd[q]
      BY <1>4, <2>1 DEF Inv, ReadersInv, GoodReader
    <3> QED
      BY <1>1, <3>1 DEF GoodReader, Wide, Active, GoodFetch, Before, Asks, GoodAnswer, Near, Fits
  <2>2. CASE q \in Flight(r)
    <3>1. rd[q].off \/ rd[r].off \/ Fits(q, rd[r].ids) \/ (rd[q].kind # "alerts" /\ ~rd[q].known)
      <4>1. CASE q = r
        BY <1>1, <1>3, <4>1 DEF GoodFetch
      <4>2. CASE q # r
        <5>1. /\ rd[q].pc = "wait" /\ rd[q].kind = "inbox" /\ rd[r].gen = rd[q].gen /\ rd[r].known = rd[q].known
          BY <2>2, <4>2 DEF Flight, SameFlight, Inv, KindInv
        <5>2. FitsFetch(q, r)
          BY DEF Inv, PairsInv
        <5> QED
          BY <1>1, <5>1, <5>2 DEF FitsFetch, Asks
      <4> QED
        BY <4>1, <4>2
    <3>2. GoodAnswer(q)'
      BY <1>5, <2>2, <3>1 DEF GoodAnswer
    <3>3. rd'[q].pc = "done"
      BY <1>5, <2>2
    <3> QED
      BY <3>2, <3>3 DEF GoodReader, Wide, Active, GoodFetch, Before, Asks
  <2> QED
    BY <2>1, <2>2
<1>9. \A q \in Readers : Asks(q)' \/ rd'[q].pc = "fetched" => rd'[q] = rd[q]
  BY <1>4, <1>5 DEF Asks
<1>10. \A q \in Readers : \A k \in Kinds : \A i \in Instances : FitsEntry(q, k, i)'
  <2> SUFFICES ASSUME NEW q \in Readers, NEW k \in Kinds, NEW i \in Instances PROVE FitsEntry(q, k, i)'
    OBVIOUS
  <2>1. FitsEntry(q, k, i) /\ FitsFetch(q, r)
    BY DEF Inv, PairsInv
  <2>2. CASE cache'[k][i] = cache[k][i]
    BY <1>9, <2>1, <2>2 DEF FitsEntry, Asks, Fits
  <2>3. CASE rd[r].known /\ cache'[k][i] = [gen |-> rd[r].gen, ids |-> rd[r].ids, off |-> rd[r].off, full |-> TRUE]
    BY <1>1, <1>9, <2>1, <2>3 DEF FitsEntry, FitsFetch, Asks, Fits
  <2> QED
    BY <1>6, <2>2, <2>3
<1>11. \A q, p \in Readers : FitsFetch(q, p)'
  BY <1>9 DEF Inv, PairsInv, FitsFetch, Asks, Fits
<1> QED
  BY <1>7, <1>8, <1>10, <1>11 DEF PairsInv

-----------------------------------------------------------------------------
(* Everything *)

\* Entries that go, and rows that replicate.
LEMMA QuietInv ==
  ASSUME Inv, UNCHANGED <<members, gen, op, rd>>,
         \A k \in Kinds : \A i \in Instances : ~cache'[k][i].full \/ cache'[k][i] = cache[k][i]
  PROVE  EntriesInv' /\ ReadersInv' /\ PairsInv'
<1>1. Busy' = Busy
  BY DEF Busy
<1>2. EntriesInv'
  BY <1>1 DEF Inv, EntriesInv, GoodEntry, Near
<1>3. ReadersInv'
  BY <1>1 DEF Inv, ReadersInv, Wide, Active, GoodFetch, Before, Asks, GoodAnswer, Near, Fits
<1>4. PairsInv'
  BY DEF Inv, PairsInv, FitsEntry, FitsFetch, Asks, Fits
<1> QED
  BY <1>2, <1>3, <1>4

\* Every step keeps the invariant,
LEMMA NextInv == Inv /\ [Next]_vars => Inv'
<1> SUFFICES ASSUME Inv, [Next]_vars PROVE Inv'
  OBVIOUS
<1>1. TypeOK' /\ KindInv'
  BY NextType DEF Inv
<1>2. CASE UNCHANGED vars
  BY <1>1, <1>2, QuietInv DEF vars, Inv
<1>3. CASE CatchesUp
  BY <1>1, <1>3, QuietInv DEF CatchesUp, Inv
<1>4. CASE Expires
  <2>1. \A k \in Kinds : \A i \in Instances : ~cache'[k][i].full \/ cache'[k][i] = cache[k][i]
    BY <1>4 DEF Expires, None, Inv, TypeOK
  <2> QED
    BY <1>1, <1>4, <2>1, QuietInv DEF Expires, Inv
<1>5. ASSUME NEW o \in Ops, Change(o) PROVE Inv'
  BY <1>1, <1>5, WriteInv, BumpInv, BumpLostInv DEF Change, Inv
<1>6. ASSUME NEW r \in Readers, Read(r) PROVE Inv'
  <2>1. CASE GenFails(r)
    <3> DEFINE p == IF rd[r].kind = "inbox" THEN "look" ELSE "fetch"
    <3>1. To(r, [rd[r] EXCEPT !.pc = p]) /\ UNCHANGED <<members, gen, op, cache>> /\ ~rd[r].known
      BY <2>1 DEF GenFails, Inv, KindInv
    <3>2. p \in {"look", "fetch"} /\ Active(r)
      BY <2>1 DEF GenFails, Active
    <3> QED
      BY <1>1, <3>1, <3>2, MoveStep DEF Inv, Pcs
  <2> QED
    BY <1>1, <1>6, <2>1, BeginInv, CheckInv, ReadGenInv, LookInv, FetchInv, FetchFailsInv, KeepInv DEF Read, Inv
<1> QED
  BY <1>2, <1>3, <1>4, <1>5, <1>6 DEF Next

\* so it always holds.
LEMMA InvAlways == Spec => []Inv
  BY InitInv, NextInv, PTL DEF Spec

\* The types of the caches and of what readers hold.
THEOREM TypeCorrect == Spec => []TypeOK
  BY InvAlways, PTL DEF Inv

\* Once a change of a channel's members has returned, no alert goes by the
\* members from before it, on any instance, unless Redis failed
\* (notification_audience.go: loadChannelAudience).
THEOREM AlertsCurrent == Spec => []AlertsFollow
<1>1. Inv => AlertsFollow
  BY DEF Inv, ReadersInv, GoodAnswer, AlertsFollow, Answered
<1> QED
  BY <1>1, InvAlways, PTL

\* Nor does a durable event go into the inboxes of members from before a
\* change, where the generation could be read and no ordinary read was behind
\* (recipients.go: cachedResolve).
THEOREM InboxCurrent == Spec => []InboxFollowsItsReads
<1>1. Inv => InboxFollowsItsReads
  BY DEF Inv, ReadersInv, GoodAnswer, InboxFollowsItsReads, Answered
<1> QED
  BY <1>1, InvAlways, PTL
=============================================================================
