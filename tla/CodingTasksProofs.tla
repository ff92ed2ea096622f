------------------------- MODULE CodingTasksProofs ---------------------------
(***************************************************************************)
(* Machine-checked facts about CodingTasks, for any number of tasks, calls,*)
(* members and machines, however often operations fail.                    *)
(***************************************************************************)
EXTENDS CodingTasks, TLAPS

-----------------------------------------------------------------------------
(* Type correctness *)

\* The rows and calls the handlers start from are of their types.
LEMMA StartTypes == NoRow \in Rows /\ Created \in Rows
  BY DEF NoRow, Created, Rows, States, Nowhere

\* A call that moves on to a well-formed state leaves the calls well formed.
LEMMA StepType ==
  ASSUME TypeOK, NEW o \in Ops, NEW b \in Calls, Step(o, b),
         At(o, "idle") => Free(o), b.pc # "idle" => b.id \in Ids
  PROVE  /\ op' \in [Ops -> Calls]
         /\ \A p \in Ops: op'[p].pc # "idle" => op'[p].id \in Ids
<1> DEFINE m == IF At(o, "idle") THEN op[o].n + 1 ELSE op[o].n
<1>1. op[o].n \in 0..MaxCalls /\ MaxCalls \in Nat
  BY ConstantsAssumption DEF TypeOK, Calls, ConstantsAssumption
<1>2. m \in 0..MaxCalls
  BY <1>1 DEF Free
<1>3. [b EXCEPT !.n = m] \in Calls /\ [b EXCEPT !.n = m].pc = b.pc /\ [b EXCEPT !.n = m].id = b.id
  BY <1>2 DEF Calls
<1>4. op' = [op EXCEPT ![o] = [b EXCEPT !.n = m]]
  BY DEF Step
<1> HIDE DEF m
<1> QED
  BY <1>3, <1>4 DEF TypeOK

\* The idle call and the call that is to start a run.
LEMMA IdleType == /\ Idle \in Calls /\ Idle.pc = "idle"
                  /\ \A t \in Ids, w \in People: Starting(t, w) \in Calls /\ Starting(t, w).id = t /\ Starting(t, w).pc = "kick"
<1>1. 0 \in 0..MaxCalls
  BY ConstantsAssumption DEF ConstantsAssumption
<1>2. Idle \in Calls
  BY <1>1, StartTypes DEF Calls, Idle, People
<1> QED
  BY <1>1, <1>2, StartTypes DEF Calls, Idle, Starting, People

\* A call that returns leaves the calls well formed.
LEMMA ReturnType ==
  ASSUME TypeOK, NEW o \in Ops, Return(o), ~At(o, "idle")
  PROVE  /\ op' \in [Ops -> Calls]
         /\ \A p \in Ops: op'[p].pc # "idle" => op'[p].id \in Ids
  BY StepType, IdleType, StartTypes DEF Return

\* So does one that only goes to its next point,
LEMMA GotoType ==
  ASSUME TypeOK, NEW o \in Ops, NEW pc, Goto(o, pc), ~At(o, "idle"),
         pc \in {"store", "settle", "delete", "retract", "supersede", "kick", "write", "again", "consume", "refresh", "claim"}
  PROVE  /\ op' \in [Ops -> Calls]
         /\ \A p \in Ops: op'[p].pc # "idle" => op'[p].id \in Ids
<1>1. op[o] \in Calls /\ op[o].id \in Ids
  BY DEF TypeOK, At
<1>2. [op[o] EXCEPT !.pc = pc] \in Calls /\ [op[o] EXCEPT !.pc = pc].id \in Ids
  BY <1>1 DEF Calls
<1> QED
  BY <1>2, StepType DEF Goto

\* and one that has read a row.
LEMMA HoldsType ==
  ASSUME TypeOK, NEW o \in Ops, NEW kind, NEW pc, NEW t \in Ids, NEW w \in People, NEW r \in Rows,
         HoldsFor(o, kind, pc, t, w, r),
         kind \in {"report", "plan", "mr", "mrown", "signoff", "steering", "close", "pin"},
         pc \in {"write", "consume", "claim"}, At(o, "idle") => Free(o)
  PROVE  /\ op' \in [Ops -> Calls]
         /\ \A p \in Ops: op'[p].pc # "idle" => op'[p].id \in Ids
<1> DEFINE b == [Idle EXCEPT !.kind = kind, !.pc = pc, !.id = t, !.by = w, !.copy = r, !.expect = task[t].state]
<1>1. task[t].state \in States \cup {"none"}
  BY DEF TypeOK, Rows
<1>2. b \in Calls /\ b.id = t
  BY <1>1, IdleType, ZenonT(30) DEF Calls, Idle
<1>3. Step(o, b)
  BY DEF HoldsFor
<1> HIDE DEF b
<1> QED
  BY <1>2, <1>3, StepType

\* Most calls read in the requester's name.
LEMMA OwnType ==
  ASSUME TypeOK, NEW o \in Ops, NEW kind, NEW pc, NEW t \in Ids, NEW r \in Rows, Holds(o, kind, pc, t, r),
         kind \in {"report", "plan", "mr", "mrown", "signoff", "steering", "close", "pin"},
         pc \in {"write", "consume", "claim"}, At(o, "idle") => Free(o)
  PROVE  /\ op' \in [Ops -> Calls]
         /\ \A p \in Ops: op'[p].pc # "idle" => op'[p].id \in Ids
  BY HoldsType DEF Holds, People

\* What a call goes on to after its write is well formed.
LEMMA AfterWriteType ==
  ASSUME NEW b \in Calls, b.id \in Ids
  PROVE  AfterWrite(b) \in Calls /\ (AfterWrite(b).pc # "idle" => AfterWrite(b).id \in Ids)
<1>1. [Idle EXCEPT !.kind = "plan", !.pc = "again", !.id = b.id] \in Calls
  BY IdleType DEF Calls, Idle
<1>2. ASSUME b.kind \in {"report", "close"}
      PROVE  [Idle EXCEPT !.kind = b.kind, !.pc = "refresh", !.id = b.id, !.copy.state = b.copy.state] \in Calls
  <2>1. [NoRow EXCEPT !.state = b.copy.state] \in Rows
    BY DEF Calls, Rows, NoRow, Nowhere
  <2>2. [Idle EXCEPT !.kind = b.kind, !.pc = "refresh", !.id = b.id, !.copy.state = b.copy.state]
          = [Idle EXCEPT !.kind = b.kind, !.pc = "refresh", !.id = b.id, !.copy = [NoRow EXCEPT !.state = b.copy.state]]
    BY DEF Idle
  <2> QED
    BY <1>2, <2>1, <2>2, IdleType DEF Calls, Idle
<1> QED
  BY <1>1, <1>2, IdleType DEF AfterWrite, Idle, People

\* The counters stay within their bounds.
LEMMA CounterTypes ==
  ASSUME TypeOK
  PROVE  /\ \A harm \in BOOLEAN: LoseIf(harm) => lost' \in 0..MaxLost
         /\ UNCHANGED lost => lost' \in 0..MaxLost
  BY ConstantsAssumption DEF TypeOK, LoseIf, ConstantsAssumption

\* The state of a call is well formed after its step.
CallsOK == /\ op \in [Ops -> Calls]
           /\ \A o \in Ops: op[o].pc # "idle" => op[o].id \in Ids

\* A creation's list of shipped tasks may change.
LEMMA OldType ==
  ASSUME NEW b \in Calls, NEW old \in SUBSET (Ids \X Rows)
  PROVE  [b EXCEPT !.old = old] \in Calls /\ [b EXCEPT !.old = old].id = b.id
  BY DEF Calls

\* A call that is to start a run is well formed.
LEMMA StartsType ==
  ASSUME TypeOK, NEW o \in Ops, NEW t \in Ids, NEW w \in People, Starts(o, t, w), At(o, "idle") => Free(o)
  PROVE  CallsOK'
<1>1. Starting(t, w) \in Calls /\ Starting(t, w).id \in Ids
  BY IdleType
<1> QED
  BY <1>1, StepType DEF Starts, CallsOK

\* A creation keeps the types.
LEMMA CreateType ==
  ASSUME TypeOK, NEW o \in Ops, CreateStep(o)
  PROVE  TypeOK'
<1>0. /\ \A harm \in BOOLEAN: LoseIf(harm) => lost' \in 0..MaxLost
      /\ UNCHANGED lost => lost' \in 0..MaxLost
  BY CounterTypes
<1>1. ASSUME NEW t \in Ids, NEW listing \in SUBSET Ids, CreateList(o, t, listing) PROVE TypeOK'
  <2> DEFINE b == [Idle EXCEPT !.kind = "create", !.pc = "card", !.id = t, !.copy = Created,
                               !.old = {<<u, task[u]>> : u \in listing}]
  <2>0. {<<u, task[u]>> : u \in listing} \in SUBSET (Ids \X Rows)
    BY DEF TypeOK
  <2>1. b \in Calls /\ b.id = t
    BY <2>0, IdleType, StartTypes DEF Calls, Idle
  <2>2. Step(o, b) /\ (At(o, "idle") => Free(o))
    BY <1>1 DEF CreateList
  <2> HIDE DEF b
  <2>3. CallsOK'
    BY <2>1, <2>2, StepType DEF CallsOK
  <2> QED
    BY <1>0, <1>1, <2>3 DEF CreateList, TypeOK, CallsOK, rows, runs, words
<1>2. ASSUME NEW listing \in SUBSET Ids, SettleRace(o, listing) PROVE TypeOK'
  <2>1. CallsOK'
    BY <1>2, GotoType DEF SettleRace, CallsOK, At
  <2> QED
    BY <1>0, <1>2, <2>1 DEF SettleRace, TypeOK, CallsOK, rows, runs, words
<1>3. ASSUME NEW sent \in BOOLEAN, NEW answered \in BOOLEAN, PostCard(o, sent, answered) PROVE TypeOK'
  <2>1. CallsOK'
    BY <1>3, GotoType, ReturnType DEF PostCard, CallsOK, At
  <2>2. card' \in [Ids -> States \cup {"none", "retracted"}]
    BY <1>3 DEF PostCard, TypeOK, States
  <2> QED
    BY <1>0, <1>3, <2>1, <2>2 DEF PostCard, TypeOK, CallsOK, runs, words
<1>4. ASSUME NEW stored \in BOOLEAN, NEW answered \in BOOLEAN, StoreTask(o, stored, answered) PROVE TypeOK'
  <2>1. CallsOK'
    BY <1>4, GotoType DEF StoreTask, CallsOK, At
  <2>2. task' \in [Ids -> Rows]
    BY <1>4, StartTypes DEF StoreTask, TypeOK
  <2> QED
    BY <1>0, <1>4, <2>1, <2>2 DEF StoreTask, TypeOK, CallsOK, runs, words
<1>5. CASE SettleBlind(o)
  <2>1. CallsOK'
    BY <1>5, GotoType DEF SettleBlind, CallsOK, At
  <2> QED
    BY <1>0, <1>5, <2>1 DEF SettleBlind, TypeOK, CallsOK, rows, runs, words
<1>6. CASE AllSuperseded(o)
  <2>1. op[o].id \in Ids
    BY <1>6 DEF AllSuperseded, At, TypeOK
  <2>2. CallsOK'
    BY <1>6, <2>1, StartsType DEF AllSuperseded, At, People
  <2> QED
    BY <1>0, <1>6, <2>2 DEF AllSuperseded, TypeOK, CallsOK, rows, runs, words
<1>7. CASE Kick(o)
  <2>1. CallsOK'
    BY <1>7, ReturnType DEF Kick, CallsOK, At
  <2> QED
    BY <1>0, <1>7, <2>1 DEF Kick, TypeOK, CallsOK, rows, words
<1>8. ASSUME NEW ok \in BOOLEAN, DeleteLoser(o, ok) PROVE TypeOK'
  <2>1. CallsOK'
    BY <1>8, GotoType DEF DeleteLoser, CallsOK, At
  <2>2. task' \in [Ids -> Rows]
    BY <1>8, StartTypes DEF DeleteLoser, TypeOK
  <2> QED
    BY <1>0, <1>8, <2>1, <2>2 DEF DeleteLoser, TypeOK, CallsOK, runs, words
<1>9. ASSUME NEW ok \in BOOLEAN, RetractCard(o, ok) PROVE TypeOK'
  <2>1. CallsOK'
    BY <1>9, ReturnType DEF RetractCard, CallsOK, At
  <2> QED
    BY <1>0, <1>9, <2>1 DEF RetractCard, RetractedCard, TypeOK, CallsOK, runs, words
<1>10. ASSUME NEW u \in Ids, NEW ok \in BOOLEAN, Supersede(o, u, ok) PROVE TypeOK'
  <2>1. PICK r \in {p[2] : p \in {q \in op[o].old : q[1] = u}}:
          LET stored == ok /\ Expected(u, "mr_created")
          IN /\ At(o, "supersede") /\ r.state = "mr_created"
             /\ LoseIf(~ok)
             /\ task' = IF stored THEN [task EXCEPT ![u] = [r EXCEPT !.state = "done"]] ELSE task
             /\ Step(o, IF stored THEN [op[o] EXCEPT !.old = (@ \ {<<u, r>>}) \cup {<<u, task'[u]>>}]
                        ELSE [op[o] EXCEPT !.old = @ \ {<<u, r>>}])
             /\ UNCHANGED <<card, runs, words, excuse>>
    BY <1>10 DEF Supersede
  <2>2. op[o] \in Calls /\ op[o].old \in SUBSET (Ids \X Rows)
    BY DEF TypeOK, Calls
  <2>3. r \in Rows
    BY <2>2
  <2>4. [r EXCEPT !.state = "done"] \in Rows
    BY <2>3 DEF Rows, States
  <2>5. task' \in [Ids -> Rows]
    BY <2>1, <2>4 DEF TypeOK
  <2>6. CallsOK'
    <3>1. ~At(o, "idle") /\ op[o].id \in Ids
      BY <2>1 DEF At, TypeOK
    <3>2. PICK old \in SUBSET (Ids \X Rows): Step(o, [op[o] EXCEPT !.old = old])
      <4>1. /\ (op[o].old \ {<<u, r>>}) \cup {<<u, task'[u]>>} \in SUBSET (Ids \X Rows)
            /\ op[o].old \ {<<u, r>>} \in SUBSET (Ids \X Rows)
        BY <2>2, <2>5
      <4> QED
        BY <2>1, <4>1
    <3>3. [op[o] EXCEPT !.old = old] \in Calls /\ [op[o] EXCEPT !.old = old].id = op[o].id
      BY <2>2, OldType
    <3> QED
      BY <3>1, <3>2, <3>3, StepType DEF CallsOK
  <2> QED
    BY <1>0, <2>1, <2>5, <2>6 DEF TypeOK, CallsOK, runs, words
<1>11. ASSUME NEW u \in Ids, NEW ok \in BOOLEAN, SupersededCard(o, u, ok) PROVE TypeOK'
  <2>1. PICK p \in op[o].old:
          /\ At(o, "supersede") /\ LoseIf(~ok)
          /\ card' = IF ok THEN [card EXCEPT ![u] = "done"] ELSE card
          /\ excuse' = IF ok THEN excuse ELSE excuse \cup {"card"}
          /\ Step(o, [op[o] EXCEPT !.old = @ \ {p}])
          /\ UNCHANGED <<task, runs, words>>
    BY <1>11 DEF SupersededCard
  <2>2. op[o] \in Calls /\ op[o].id \in Ids /\ op[o].old \ {p} \in SUBSET (Ids \X Rows)
    BY <2>1 DEF TypeOK, Calls, At
  <2>3. [op[o] EXCEPT !.old = @ \ {p}] \in Calls /\ [op[o] EXCEPT !.old = @ \ {p}].id \in Ids
    BY <2>2, OldType
  <2>4. CallsOK'
    BY <2>1, <2>3, StepType DEF CallsOK, At
  <2> QED
    BY <1>0, <2>1, <2>4 DEF TypeOK, CallsOK, runs, words, States
<1> QED
  BY <1>1, <1>2, <1>3, <1>4, <1>5, <1>6, <1>7, <1>8, <1>9, <1>10, <1>11 DEF CreateStep


\* The other calls keep the types.
LEMMA CallType ==
  ASSUME TypeOK, NEW o \in Ops, CallStep(o)
  PROVE  TypeOK'
<1>0. /\ \A harm \in BOOLEAN: LoseIf(harm) => lost' \in 0..MaxLost
      /\ UNCHANGED lost => lost' \in 0..MaxLost
  BY CounterTypes
<1>1. ASSUME NEW t \in Ids
      PROVE  /\ task[t] \in Rows
             /\ \A s \in States, mr \in BOOLEAN: /\ [task[t] EXCEPT !.state = s] \in Rows
                                                /\ [task[t] EXCEPT !.state = s, !.mr = @ \/ mr] \in Rows
             /\ [task[t] EXCEPT !.signed = TRUE] \in Rows
             /\ [task[t] EXCEPT !.open = ~@] \in Rows
             /\ \A m \in Runners: [task[t] EXCEPT !.pin = m] \in Rows
  <2>1. task[t] \in Rows
    BY DEF TypeOK
  <2> QED
    BY <2>1 DEF Rows
<1>2. ASSUME NEW t \in Ids, NEW s \in Reported \cup {task[t].state}, NEW mr \in BOOLEAN, Report(o, t, s, mr) PROVE TypeOK'
  <2>1. s \in States
    <3>1. task[t].state \in States
      BY <1>2 DEF Report, TypeOK, Rows
    <3> QED
      BY <3>1, ConstantsAssumption DEF ConstantsAssumption
  <2>2. CallsOK'
    BY <1>1, <1>2, <2>1, OwnType DEF Report, CallsOK
  <2> QED
    BY <1>0, <1>2, <2>2 DEF Report, TypeOK, CallsOK, rows, runs, words
<1>3. ASSUME NEW t \in Ids, PublishTestPlan(o, t) PROVE TypeOK'
  <2>1. CallsOK'
    BY <1>1, <1>3, OwnType DEF PublishTestPlan, CallsOK
  <2> QED
    BY <1>0, <1>3, <2>1 DEF PublishTestPlan, TypeOK, CallsOK, rows, runs, words
<1>4. ASSUME NEW t \in Ids, NEW w \in People, NEW which \in {"mr", "mrown"}, RequestMRWith(o, t, w, which) PROVE TypeOK'
  <2>1. CallsOK'
    BY <1>1, <1>4, HoldsType DEF RequestMRWith, CallsOK
  <2> QED
    BY <1>0, <1>4, <2>1 DEF RequestMRWith, TypeOK, CallsOK, rows, runs, words
<1>5. ASSUME NEW t \in Ids, SignOff(o, t) PROVE TypeOK'
  <2>1. CASE task[t].signed
    <3>1. CallsOK'
      BY <1>5, <2>1, StartsType DEF SignOff, People
    <3> QED
      BY <1>0, <1>5, <3>1 DEF SignOff, CallsOK, TypeOK, rows, runs, words
  <2>2. CASE ~task[t].signed
    <3>1. CallsOK'
      BY <1>1, <1>5, <2>2, OwnType DEF SignOff, CallsOK
    <3> QED
      BY <1>0, <1>5, <3>1 DEF SignOff, TypeOK, CallsOK, rows, runs, words
  <2> QED
    BY <2>1, <2>2
<1>6. ASSUME NEW t \in Ids, SetSteering(o, t) PROVE TypeOK'
  <2>1. CallsOK'
    BY <1>1, <1>6, OwnType DEF SetSteering, CallsOK
  <2> QED
    BY <1>0, <1>6, <2>1 DEF SetSteering, TypeOK, CallsOK, rows, runs, words
<1>7. ASSUME NEW t \in Ids, Steer(o, t) PROVE TypeOK'
  <2>1. CallsOK'
    BY <1>7, StartsType DEF Steer, People
  <2> QED
    BY <1>0, <1>7, <2>1 DEF Steer, CallsOK, TypeOK, rows, runs, words
<1>8. ASSUME NEW t \in Ids, NEW s \in Terminal, Close(o, t, s) PROVE TypeOK'
  <2>1. s \in States
    BY DEF Terminal, States
  <2>2. CallsOK'
    BY <1>1, <1>8, <2>1, OwnType DEF Close, CallsOK
  <2> QED
    BY <1>0, <1>8, <2>2 DEF Close, TypeOK, CallsOK, rows, runs, words
<1>9. ASSUME NEW t \in Ids, NEW m \in Runners, ClaimRead(o, m, t) PROVE TypeOK'
  <2>1. CallsOK'
    BY <1>1, <1>9, OwnType DEF ClaimRead, CallsOK
  <2> QED
    BY <1>0, <1>9, <2>1 DEF ClaimRead, TypeOK, CallsOK, rows, runs, words
<1>10. CASE ReportPlan(o)
  <2>1. op[o].id \in Ids /\ "awaiting_user_test" \in States
    BY <1>10 DEF ReportPlan, TypeOK, At, States
  <2>2. CallsOK'
    BY <1>1, <1>10, <2>1, OwnType, ReturnType DEF ReportPlan, CallsOK, At
  <2> QED
    BY <1>0, <1>10, <2>2 DEF ReportPlan, TypeOK, CallsOK, rows, runs, words
<1>11. CASE ConsumeApproval(o)
  <2>1. CallsOK'
    BY <1>11, GotoType, ReturnType DEF ConsumeApproval, CallsOK, At
  <2>2. gate' \in [Ids -> [People -> {"none", "pending", "granted", "denied", "spent"}]]
    <3> DEFINE i == op[o].id
               v == op[o].by
    <3>1. i \in Ids /\ v \in People
      BY <1>11 DEF ConsumeApproval, TypeOK, Calls, At
    <3>2. gate[i][v] \in {"none", "pending", "granted", "denied", "spent"}
      BY <3>1 DEF TypeOK
    <3>3. PICK k \in {"none", "pending", "granted", "denied", "spent"}: gate' = [gate EXCEPT ![i][v] = k]
      BY <1>11, <3>2 DEF ConsumeApproval
    <3> QED
      BY <3>3 DEF TypeOK
  <2> QED
    BY <1>0, <1>11, <2>1, <2>2 DEF ConsumeApproval, TypeOK, CallsOK, rows, words
<1>12. CASE ClaimRun(o)
  <2>1. CallsOK'
    BY <1>12, GotoType, ReturnType DEF ClaimRun, CallsOK, At
  <2>2. op[o].copy.pin \in Runners \cup {"none"}
    BY DEF TypeOK, Calls, Rows, Nowhere
  <2>3. run' \in [Ids -> [People -> Runners \cup {"none", "queued"}]]
    <3>1. op[o].id \in Ids
      BY <1>12 DEF ClaimRun, At, TypeOK
    <3> DEFINE held == [run[op[o].id] EXCEPT ![Owner[op[o].copy.pin]] = op[o].copy.pin]
    <3>2. held \in [People -> Runners \cup {"none", "queued"}]
      BY <2>2, <3>1 DEF TypeOK
    <3>3. run' = run \/ run' = [run EXCEPT ![op[o].id] = held]
      BY <1>12 DEF ClaimRun
    <3> HIDE DEF held
    <3> QED
      BY <3>1, <3>2, <3>3 DEF TypeOK
  <2> QED
    BY <1>0, <1>12, <2>1, <2>3 DEF ClaimRun, TypeOK, CallsOK, rows, words
<1>13. ASSUME NEW stored \in BOOLEAN, NEW answered \in BOOLEAN, Write(o, stored, answered) PROVE TypeOK'
  <2>1. op[o] \in Calls /\ op[o].id \in Ids /\ op[o].copy \in Rows /\ ~At(o, "idle")
    BY <1>13 DEF Write, TypeOK, At, Calls
  <2>2. task' \in [Ids -> Rows]
    BY <1>13, <2>1 DEF Write, TypeOK
  <2>3. CallsOK'
    BY <1>13, <2>1, StepType, AfterWriteType, IdleType DEF Write, CallsOK
  <2>4. Excusing(op[o]) \subseteq {"bounce", "early"}
    BY DEF Excusing
  <2>5. excuse' \subseteq {"post", "answer", "order", "index", "read", "delete", "card", "early", "bounce", "crash"}
    BY <1>13, <2>4 DEF Write, TypeOK
  <2> QED
    BY <1>0, <1>13, <2>2, <2>3, <2>5 DEF Write, TypeOK, CallsOK, runs, words
<1>14. ASSUME NEW ok \in BOOLEAN, RefreshCard(o, ok) PROVE TypeOK'
  <2>1. CallsOK'
    BY <1>14, ReturnType DEF RefreshCard, CallsOK, At
  <2>2. op[o].copy.state \in States \cup {"none"}
    BY DEF TypeOK, Calls, Rows
  <2>3. card' \in [Ids -> States \cup {"none", "retracted"}]
    BY <1>14, <2>2 DEF RefreshCard, TypeOK
  <2> QED
    BY <1>0, <1>14, <2>1, <2>3 DEF RefreshCard, TypeOK, CallsOK, runs, words
<1>15. CASE Crash(o)
  <2>1. CallsOK'
    BY <1>15, ReturnType DEF Crash, CallsOK
  <2> QED
    BY <1>0, <1>15, <2>1 DEF Crash, TypeOK, CallsOK, rows, runs, words
<1>16. ASSUME NEW t \in Ids, NEW w \in Members, Mention(o, t, w) PROVE TypeOK'
  <2>1. CallsOK'
    BY <1>16, StartsType DEF Mention, People
  <2> QED
    BY <1>0, <1>16, <2>1 DEF Mention, CallsOK, TypeOK, rows, runs, words
<1> QED
  BY <1>2, <1>3, <1>4, <1>5, <1>6, <1>7, <1>8, <1>9, <1>10, <1>11, <1>12, <1>13, <1>14, <1>15, <1>16 DEF CallStep


\* And so does what happens outside the calls.
LEMMA WorldType ==
  ASSUME TypeOK, WorldStep
  PROVE  TypeOK'
<1>1. ASSUME NEW t \in Ids, NEW w \in People, RequestMR(t, w) PROVE TypeOK'
  BY <1>1 DEF RequestMR, TypeOK, rows, words
<1>2. ASSUME NEW t \in Ids, NEW w \in People, RunEnds(t, w) PROVE TypeOK'
  BY <1>2 DEF RunEnds, TypeOK, rows, words
<1>3. ASSUME NEW t \in Ids, NEW w \in People, NEW verdict \in {"granted", "denied"}, Decide(t, w, verdict) PROVE TypeOK'
  BY <1>3 DEF Decide, TypeOK, rows, words
<1>4. ASSUME NEW m \in Runners, MachineTurns(m) PROVE TypeOK'
  BY <1>4, ConstantsAssumption DEF MachineTurns, TypeOK, rows, words, ConstantsAssumption
<1> QED
  BY <1>1, <1>2, <1>3, <1>4 DEF WorldStep

\* The types hold at the start.
LEMMA InitType == Init => TypeOK
<1> SUFFICES ASSUME Init PROVE TypeOK
  OBVIOUS
<1>1. PICK s \in Existing, open \in BOOLEAN:
        /\ open => s # "none"
        /\ task = [t \in Ids |-> IF First(t) THEN [Arrived(s) EXCEPT !.open = open] ELSE NoRow]
        /\ card = [t \in Ids |-> IF First(t) THEN s ELSE "none"]
        /\ blessed = {t \in Ids : First(t) /\ s = "mr_created"}
        /\ opened = {t \in Ids : First(t) /\ open}
  BY DEF Init
<1>2. s \in States \cup {"none"}
  BY ConstantsAssumption DEF ConstantsAssumption, States
<1>3. [Arrived(s) EXCEPT !.open = open] \in Rows
  BY <1>2 DEF Arrived, NoRow, Nowhere, Rows
<1>4. lost \in 0..MaxLost /\ outages \in 0..MaxOutages
  BY ConstantsAssumption DEF ConstantsAssumption, Init
<1> QED
  BY <1>1, <1>2, <1>3, <1>4, StartTypes, IdleType DEF Init, TypeOK

\* Every step keeps the types.
LEMMA NextType == TypeOK /\ [Next]_vars => TypeOK'
<1>1. TypeOK /\ UNCHANGED vars => TypeOK'
  BY DEF TypeOK, vars, rows, runs, words
<1> QED
  BY <1>1, WorldType, CreateType, CallType DEF Next

\* The variables keep their types, and a call in flight is about a task, for any number of
\* tasks, calls and machines.
THEOREM TypeCorrect == Spec => []TypeOK
  BY InitType, NextType, PTL DEF Spec

-----------------------------------------------------------------------------
(* The word for a push.  PushNeedsSignOff speaks of the rows alone; what the calls in flight   *)
(* are about to write, and the runs they are about to start, have to be as good.               *)

\* What has been said so far: which tasks are signed off, and which are opened to the members.
Word == [sign |-> blessed \cup lent, open |-> opened]

\* What a row of task t may say on that word.
GoodRow(r, t, word) == /\ r.signed => t \in word.sign
                       /\ r.open => t \in word.open
                       /\ r.state \in {"mr_created", "done"} => r.signed /\ r.mr

\* The calls that carry the copy they will write.
Carrying == {"write", "claim", "consume"}

\* What a call may carry.  A call that is about to spend an approval carries a sign-off that is
\* not yet given, on a task that has a merge request if it is shipped.  A call for a member is
\* about a task that was opened.
GoodCall(b, word) ==
  /\ b.pc \in {"write", "claim"} => GoodRow(b.copy, b.id, word)
  /\ b.pc = "consume" => b.copy.signed /\ b.kind \in {"mr", "mrown"}
                         /\ (b.copy.open => b.id \in word.open)
                         /\ (b.copy.state \in {"mr_created", "done"} => b.copy.mr)
  /\ b.pc \in Carrying => b.expect \in States /\ b.copy.state \in States /\ CanTransition(b.expect, b.copy.state)
  /\ b.pc = "refresh" => b.copy.state \in States
  /\ b.by \in Members => b.id \in word.open
  /\ \A p \in b.old: GoodRow(p[2], p[1], word)

WordInv == /\ lent \subseteq opened
           /\ \A t \in Ids: GoodRow(task[t], t, Word)
           /\ \A t \in Ids, w \in People: gate[t][w] \in {"granted", "spent"} => t \in Word.sign
           /\ \A t \in Ids, w \in Members: run[t][w] # "none" \/ gate[t][w] # "none" => t \in Word.open
           /\ \A o \in Ops: GoodCall(op[o], Word)

\* Nothing that was said is taken back.
Grows == blessed \subseteq blessed' /\ lent \subseteq lent' /\ opened \subseteq opened'

\* What is good stays good when more is signed off.
LEMMA GoodMore ==
  ASSUME NEW word, NEW more, word.sign \subseteq more.sign, word.open \subseteq more.open
  PROVE  /\ \A r, t: GoodRow(r, t, word) => GoodRow(r, t, more)
         /\ \A b: GoodCall(b, word) => GoodCall(b, more)
  BY DEF GoodRow, GoodCall

\* As long as nothing is taken back, that goes for the word at two moments.
LEMMA WordMore ==
  ASSUME Grows
  PROVE  /\ \A r, t: GoodRow(r, t, Word) => GoodRow(r, t, Word')
         /\ \A b: GoodCall(b, Word) => GoodCall(b, Word')
         /\ Word.sign \subseteq Word'.sign /\ Word.open \subseteq Word'.open
<1>1. Word.sign \subseteq Word'.sign /\ Word.open \subseteq Word'.open
  BY DEF Grows, Word
<1> QED
  BY <1>1, GoodMore

\* A call that steps to a good state leaves all calls good.
LEMMA StepGood ==
  ASSUME TypeOK, WordInv, NEW o \in Ops, NEW b \in Calls, Step(o, b),
         Grows, GoodCall(b, Word')
  PROVE  \A p \in Ops: GoodCall(op'[p], Word')
<1> DEFINE m == IF At(o, "idle") THEN op[o].n + 1 ELSE op[o].n
<1>1. op' = [op EXCEPT ![o] = [b EXCEPT !.n = m]]
  BY DEF Step
<1> HIDE DEF m
<1>2. GoodCall([b EXCEPT !.n = m], Word')
  BY DEF GoodCall, Calls
<1> QED
  BY <1>1, <1>2, WordMore DEF WordInv, TypeOK

\* The idle call and the call that starts a run carry nothing.
LEMMA IdleGood == \A word: /\ GoodCall(Idle, word)
                           /\ \A t \in Ids: GoodCall(Starting(t, Requester), word)
                           /\ \A t \in Ids, w \in People: t \in word.open => GoodCall(Starting(t, w), word)
  BY ConstantsAssumption DEF GoodCall, Idle, Starting, Carrying, ConstantsAssumption


\* A creation writes and carries nothing that is signed off but what was read so.
LEMMA CreateWord ==
  ASSUME TypeOK, TypeOK', WordInv, NEW o \in Ops, CreateStep(o)
  PROVE  WordInv'
<1>0. op[o] \in Calls
  BY DEF TypeOK
<1>a. ASSUME UNCHANGED <<run, gate, words>>, \A t \in Ids: GoodRow(task'[t], t, Word),
             \E b \in Calls: Step(o, b) /\ GoodCall(b, Word)
      PROVE  WordInv'
  <2>1. Word' = Word /\ Grows
    BY <1>a DEF words, Word, Grows
  <2>2. \A p \in Ops: GoodCall(op'[p], Word')
    BY <1>a, <2>1, StepGood
  <2> QED
    BY <1>a, <2>1, <2>2 DEF WordInv, words
<1>b. ASSUME NEW pc, pc \notin Carrying \cup {"refresh"}
      PROVE  GoodCall([op[o] EXCEPT !.pc = pc], Word)
  BY <1>0, <1>b DEF WordInv, GoodCall, Carrying, Calls
<1>c. ASSUME NEW pc \in {"store", "settle", "delete", "retract", "supersede"}, Goto(o, pc)
      PROVE  \E b \in Calls: Step(o, b) /\ GoodCall(b, Word)
  <2>1. [op[o] EXCEPT !.pc = pc] \in Calls
    BY <1>0 DEF Calls
  <2> QED
    BY <1>b, <1>c, <2>1 DEF Goto, Carrying
<1>d. ASSUME Return(o) PROVE \E b \in Calls: Step(o, b) /\ GoodCall(b, Word)
  BY <1>d, IdleType, IdleGood DEF Return
<1>1. ASSUME NEW t \in Ids, NEW listing \in SUBSET Ids, CreateList(o, t, listing) PROVE WordInv'
  <2> DEFINE old == {<<u, task[u]>> : u \in listing}
             b == [Idle EXCEPT !.kind = "create", !.pc = "card", !.id = t, !.copy = Created, !.old = old]
  <2>0. old \in SUBSET (Ids \X Rows)
    BY DEF TypeOK
  <2>1. \A p \in old: GoodRow(p[2], p[1], Word)
    BY DEF WordInv
  <2> HIDE DEF old
  <2>2. b \in Calls
    BY <2>0, IdleType, StartTypes DEF Calls, Idle
  <2>3. GoodCall(b, Word)
    BY <2>1, ConstantsAssumption DEF GoodCall, Carrying, Idle, ConstantsAssumption
  <2>4. Step(o, b)
    BY <1>1 DEF CreateList, old
  <2> HIDE DEF b
  <2> QED
    BY <1>1, <1>a, <2>2, <2>3, <2>4 DEF CreateList, WordInv, rows, runs
<1>2. ASSUME NEW listing \in SUBSET Ids, SettleRace(o, listing) PROVE WordInv'
  BY <1>2, <1>a, <1>c DEF SettleRace, WordInv, rows, runs
<1>3. ASSUME NEW sent \in BOOLEAN, NEW answered \in BOOLEAN, PostCard(o, sent, answered) PROVE WordInv'
  BY <1>3, <1>a, <1>c, <1>d DEF PostCard, WordInv, runs
<1>4. ASSUME NEW stored \in BOOLEAN, NEW answered \in BOOLEAN, StoreTask(o, stored, answered) PROVE WordInv'
  <2>1. \A t \in Ids: GoodRow(Created, t, Word)
    BY DEF GoodRow, Created, NoRow
  <2> QED
    BY <1>4, <1>a, <1>c, <2>1 DEF StoreTask, WordInv, runs, TypeOK
<1>5. CASE SettleBlind(o)
  BY <1>5, <1>a, <1>c DEF SettleBlind, WordInv, rows, runs
<1>6. CASE AllSuperseded(o)
  <2>1. op[o].id \in Ids
    BY <1>6 DEF AllSuperseded, At, TypeOK
  <2> QED
    BY <1>6, <1>a, <2>1, IdleGood, IdleType DEF AllSuperseded, Starts, People, WordInv, rows, runs
<1>7. CASE Kick(o)
  <2>1. op[o].id \in Ids /\ op[o].by \in People /\ UNCHANGED <<task, gate, words>>
    BY <1>0, <1>7 DEF Kick, At, TypeOK, Calls, rows
  <2>2. Word' = Word /\ Grows
    BY <2>1 DEF words, Word, Grows
  <2>3. \A p \in Ops: GoodCall(op'[p], Word')
    BY <1>7, <1>d, <2>2, StepGood DEF Kick
  <2>4. \A t \in Ids, w \in Members: run'[t][w] # "none" => run[t][w] # "none" \/ (t = op[o].id /\ w = op[o].by)
    BY <1>7, <2>1 DEF Kick, TypeOK, People
  <2>5. op[o].by \in Members => op[o].id \in Word.open
    BY DEF WordInv, GoodCall
  <2> QED
    BY <2>1, <2>2, <2>3, <2>4, <2>5 DEF WordInv, words
<1>8. ASSUME NEW ok \in BOOLEAN, DeleteLoser(o, ok) PROVE WordInv'
  <2>1. \A t \in Ids: GoodRow(NoRow, t, Word)
    BY DEF GoodRow, NoRow
  <2> QED
    BY <1>8, <1>a, <1>c, <2>1 DEF DeleteLoser, WordInv, runs, TypeOK
<1>9. ASSUME NEW ok \in BOOLEAN, RetractCard(o, ok) PROVE WordInv'
  BY <1>9, <1>a, <1>d DEF RetractCard, WordInv, runs
<1>10. ASSUME NEW u \in Ids, NEW ok \in BOOLEAN, Supersede(o, u, ok) PROVE WordInv'
  <2>1. PICK r \in {p[2] : p \in {q \in op[o].old : q[1] = u}}:
          LET stored == ok /\ Expected(u, "mr_created")
          IN /\ At(o, "supersede") /\ r.state = "mr_created"
             /\ LoseIf(~ok)
             /\ task' = IF stored THEN [task EXCEPT ![u] = [r EXCEPT !.state = "done"]] ELSE task
             /\ Step(o, IF stored THEN [op[o] EXCEPT !.old = (@ \ {<<u, r>>}) \cup {<<u, task'[u]>>}]
                        ELSE [op[o] EXCEPT !.old = @ \ {<<u, r>>}])
             /\ UNCHANGED <<card, runs, words, excuse>>
    BY <1>10 DEF Supersede
  <2>2. op[o].old \in SUBSET (Ids \X Rows) /\ \A p \in op[o].old: GoodRow(p[2], p[1], Word)
    BY <1>0 DEF Calls, WordInv, GoodCall
  <2>3. r \in Rows /\ GoodRow(r, u, Word)
    BY <2>2
  <2>4. GoodRow([r EXCEPT !.state = "done"], u, Word)
    BY <2>1, <2>3 DEF GoodRow, Rows
  <2>5. \A t \in Ids: GoodRow(task'[t], t, Word)
    BY <2>1, <2>4 DEF WordInv, TypeOK
  <2>6. PICK old \in SUBSET (Ids \X Rows): /\ Step(o, [op[o] EXCEPT !.old = old])
                                           /\ \A p \in old: GoodRow(p[2], p[1], Word)
    <3>1. task'[u] \in Rows
      BY DEF TypeOK
    <3>2. /\ (op[o].old \ {<<u, r>>}) \cup {<<u, task'[u]>>} \in SUBSET (Ids \X Rows)
          /\ op[o].old \ {<<u, r>>} \in SUBSET (Ids \X Rows)
      BY <2>2, <3>1
    <3>3. /\ \A p \in (op[o].old \ {<<u, r>>}) \cup {<<u, task'[u]>>}: GoodRow(p[2], p[1], Word)
          /\ \A p \in op[o].old \ {<<u, r>>}: GoodRow(p[2], p[1], Word)
      BY <2>2, <2>5
    <3> QED
      BY <2>1, <3>2, <3>3
  <2>7. [op[o] EXCEPT !.old = old] \in Calls /\ GoodCall([op[o] EXCEPT !.old = old], Word)
    BY <1>0, <2>1, <2>6, OldType DEF GoodCall, Carrying, Calls, At, WordInv
  <2> QED
    BY <1>a, <2>1, <2>5, <2>6, <2>7 DEF runs
<1>11. ASSUME NEW u \in Ids, NEW ok \in BOOLEAN, SupersededCard(o, u, ok) PROVE WordInv'
  <2>1. PICK p \in op[o].old:
          /\ At(o, "supersede") /\ LoseIf(~ok)
          /\ Step(o, [op[o] EXCEPT !.old = @ \ {p}])
          /\ UNCHANGED <<task, runs, words>>
    BY <1>11 DEF SupersededCard
  <2>2. [op[o] EXCEPT !.old = @ \ {p}] \in Calls
    BY <1>0 DEF Calls
  <2>3. GoodCall([op[o] EXCEPT !.old = @ \ {p}], Word)
    BY <1>0, <2>1 DEF GoodCall, Carrying, Calls, At, WordInv
  <2> QED
    BY <1>a, <2>1, <2>2, <2>3 DEF runs, WordInv
<1> QED
  BY <1>1, <1>2, <1>3, <1>4, <1>5, <1>6, <1>7, <1>8, <1>9, <1>10, <1>11 DEF CreateStep


\* The lifecycle: its edges end in states, a task is done only once it was shipped, and a
\* finished one goes nowhere.
LEMMA Lifecycle ==
  ASSUME NEW s \in States, NEW t, CanTransition(s, t)
  PROVE  /\ t \in States
         /\ t = "done" => s \in {"mr_created", "done"}
         /\ s \in Terminal => t = s
  BY DEF CanTransition, Edges, States, Terminal

\* What a call reads and carries is good when the change it makes is.
LEMMA HoldsGood ==
  ASSUME TypeOK, WordInv, NEW o \in Ops, NEW kind, NEW t \in Ids, NEW w \in People, NEW r \in Rows,
         NEW pc \in Carrying, HoldsFor(o, kind, pc, t, w, r),
         kind \in {"report", "plan", "mr", "mrown", "signoff", "steering", "close", "pin"},
         Grows, w \in Members => t \in Word'.open, pc # "consume" => GoodRow(r, t, Word'),
         pc = "consume" => /\ r.signed /\ kind \in {"mr", "mrown"} /\ (r.open => t \in Word'.open)
                           /\ (r.state \in {"mr_created", "done"} => r.mr),
         task[t].state \in States, CanTransition(task[t].state, r.state)
  PROVE  \A p \in Ops: GoodCall(op'[p], Word')
<1> DEFINE b == [Idle EXCEPT !.kind = kind, !.pc = pc, !.id = t, !.by = w, !.copy = r, !.expect = task[t].state]
<1>1. b \in Calls
  BY IdleType, ZenonT(30) DEF Calls, Idle, Carrying
<1>2. GoodCall(b, Word')
  BY Lifecycle DEF GoodCall, Idle, Carrying
<1>3. Step(o, b)
  BY DEF HoldsFor
<1> HIDE DEF b
<1> QED
  BY <1>1, <1>2, <1>3, StepGood

\* Most calls read in the requester's name, and say nothing new.
LEMMA OwnGood ==
  ASSUME TypeOK, WordInv, NEW o \in Ops, NEW kind, NEW t \in Ids, NEW r \in Rows,
         NEW pc \in {"write", "claim"}, Holds(o, kind, pc, t, r),
         kind \in {"report", "plan", "signoff", "steering", "close", "pin"},
         Grows, GoodRow(r, t, Word'), task[t].state \in States, CanTransition(task[t].state, r.state)
  PROVE  \A p \in Ops: GoodCall(op'[p], Word')
<1>1. HoldsFor(o, kind, pc, t, Requester, r) /\ Requester \in People /\ Requester \notin Members
  BY ConstantsAssumption DEF Holds, People, ConstantsAssumption
<1> QED
  BY <1>1, HoldsGood DEF Carrying

\* The other calls write and carry nothing that is signed off but what the requester has signed.
LEMMA CallWord ==
  ASSUME TypeOK, WordInv, NEW o \in Ops, CallStep(o)
  PROVE  WordInv'
<1>0. op[o] \in Calls /\ GoodCall(op[o], Word)
  BY DEF TypeOK, WordInv
<1>a. ASSUME UNCHANGED <<task, run, gate, words>>, \A p \in Ops: GoodCall(op'[p], Word') PROVE WordInv'
  BY <1>a DEF WordInv, words, Word
<1>f. ASSUME Grows, UNCHANGED <<task, run, gate, lent>>, \A p \in Ops: GoodCall(op'[p], Word') PROVE WordInv'
  BY <1>f, WordMore DEF WordInv, Grows
<1>e. UNCHANGED words => Grows /\ Word' = Word
  BY DEF Grows, words, Word
<1>b. ASSUME Return(o), UNCHANGED words PROVE \A p \in Ops: GoodCall(op'[p], Word')
  BY <1>b, <1>e, IdleType, IdleGood, StepGood DEF Return
<1>c. ASSUME NEW t \in Ids
      PROVE  task[t] \in Rows /\ GoodRow(task[t], t, Word) /\ (task[t].state # "none" => task[t].state \in States)
  BY DEF TypeOK, WordInv, Rows
<1>2. ASSUME NEW t \in Ids, NEW s \in Reported \cup {task[t].state}, NEW mr \in BOOLEAN, Report(o, t, s, mr) PROVE WordInv'
  <2> DEFINE r == [task[t] EXCEPT !.state = s, !.mr = @ \/ mr]
  <2>1. task[t].state \in States /\ CanTransition(task[t].state, s) /\ MayBecome(task[t], s, mr)
    BY <1>2, <1>c DEF Report
  <2>2. s \in States /\ (s = "done" => task[t].state \in {"mr_created", "done"})
    BY <2>1, Lifecycle
  <2>3. task[t] \in Rows /\ GoodRow(task[t], t, Word)
    BY <1>c
  <2>4. r \in Rows /\ r.state = s
    BY <2>2, <2>3 DEF Rows
  <2>5. GoodRow(r, t, Word)
    BY <2>1, <2>2, <2>3 DEF GoodRow, MayBecome, Rows
  <2>6. Holds(o, "report", "write", t, r) /\ UNCHANGED <<task, run, gate, words>>
    BY <1>2 DEF Report, rows, runs
  <2> HIDE DEF r
  <2> QED
    BY <1>a, <1>e, <2>1, <2>4, <2>5, <2>6, OwnGood DEF Carrying
<1>3. ASSUME NEW t \in Ids, PublishTestPlan(o, t) PROVE WordInv'
  BY <1>3, <1>a, <1>c, <1>e, OwnGood DEF PublishTestPlan, Carrying, CanTransition, rows, runs
<1>4. ASSUME NEW t \in Ids, NEW w \in People, NEW which \in {"mr", "mrown"}, RequestMRWith(o, t, w, which) PROVE WordInv'
  <2> DEFINE r == [task[t] EXCEPT !.signed = TRUE]
  <2>1. task[t] \in Rows /\ GoodRow(task[t], t, Word) /\ task[t].state \in States /\ run[t][w] \in Runners
    BY <1>4, <1>c DEF RequestMRWith, Asks
  <2>2. r \in Rows /\ r.signed /\ r.state = task[t].state /\ r.mr = task[t].mr /\ r.open = task[t].open
    BY <2>1 DEF Rows
  <2>3. (r.state \in {"mr_created", "done"} => r.mr) /\ (r.open => t \in Word.open)
    BY <2>1, <2>2 DEF GoodRow
  <2>4. HoldsFor(o, which, "consume", t, w, r) /\ UNCHANGED <<task, run, gate, words>>
    BY <1>4 DEF RequestMRWith, rows, runs
  <2>5. w \in Members => t \in Word.open
    BY <2>1, ConstantsAssumption DEF WordInv, ConstantsAssumption
  <2> HIDE DEF r
  <2> QED
    BY <1>a, <1>e, <2>1, <2>2, <2>3, <2>4, <2>5, HoldsGood DEF Carrying, CanTransition
<1>5. ASSUME NEW t \in Ids, SignOff(o, t) PROVE WordInv'
  <2>1. /\ blessed' = blessed \cup {t} /\ UNCHANGED <<task, run, gate, lent, opened>>
        /\ task[t].state = "awaiting_user_test"
    BY <1>5 DEF SignOff, rows, runs
  <2>2. Grows /\ t \in Word'.sign
    BY <2>1 DEF Grows, Word
  <2>3. \A p \in Ops: GoodCall(op'[p], Word')
    <3>1. CASE task[t].signed
      BY <1>5, <2>2, <3>1, StepGood, IdleType, IdleGood DEF SignOff, Starts, People
    <3>2. CASE ~task[t].signed
      <4> DEFINE r == [task[t] EXCEPT !.signed = TRUE]
      <4>0. GoodRow(task[t], t, Word')
        BY <1>c, <2>2, WordMore
      <4>1. r \in Rows /\ r.state = task[t].state /\ GoodRow(r, t, Word')
        BY <1>c, <2>2, <4>0 DEF Rows, GoodRow
      <4>2. Holds(o, "signoff", "write", t, r)
        BY <1>5, <3>2 DEF SignOff
      <4>3. task[t].state \in States
        BY <2>1 DEF States
      <4> HIDE DEF r
      <4> QED
        BY <2>2, <4>1, <4>2, <4>3, OwnGood DEF CanTransition
    <3> QED
      BY <3>1, <3>2
  <2> QED
    BY <1>f, <2>1, <2>2, <2>3
<1>6. ASSUME NEW t \in Ids, SetSteering(o, t) PROVE WordInv'
  <2> DEFINE r == [task[t] EXCEPT !.open = ~@]
  <2>1. /\ opened \subseteq opened' /\ (~task[t].open => t \in opened')
        /\ UNCHANGED <<task, run, gate, lent, blessed>> /\ Holds(o, "steering", "write", t, r)
    BY <1>6 DEF SetSteering, rows, runs
  <2>2. Grows /\ (~task[t].open => t \in Word'.open)
    BY <2>1 DEF Grows, Word
  <2>3. task[t] \in Rows /\ GoodRow(task[t], t, Word') /\ task[t].state \in States
    BY <1>6, <1>c, <2>2, WordMore DEF SetSteering
  <2>4. r \in Rows /\ r.state = task[t].state /\ GoodRow(r, t, Word')
    BY <2>2, <2>3 DEF Rows, GoodRow
  <2> HIDE DEF r
  <2>5. \A p \in Ops: GoodCall(op'[p], Word')
    BY <2>1, <2>2, <2>3, <2>4, OwnGood DEF CanTransition
  <2> QED
    BY <1>f, <2>1, <2>2, <2>5
<1>7. ASSUME NEW t \in Ids, Steer(o, t) PROVE WordInv'
  BY <1>7, <1>a, <1>e, StepGood, IdleType, IdleGood DEF Steer, Starts, People, rows, runs
<1>16. ASSUME NEW t \in Ids, NEW w \in Members, Mention(o, t, w) PROVE WordInv'
  <2>1. t \in Word.open /\ w \in People /\ Starts(o, t, w) /\ UNCHANGED <<task, run, gate, words>>
    BY <1>16, <1>c DEF Mention, GoodRow, People, rows, runs
  <2> QED
    BY <1>a, <1>e, <2>1, StepGood, IdleType, IdleGood DEF Starts
<1>8. ASSUME NEW t \in Ids, NEW s \in Terminal, Close(o, t, s) PROVE WordInv'
  <2> DEFINE r == [task[t] EXCEPT !.state = s]
  <2>1. task[t].state \in States /\ CanTransition(task[t].state, s) /\ s # "mr_created"
    BY <1>8, <1>c DEF Close, Terminal
  <2>2. s \in States /\ (s = "done" => task[t].state \in {"mr_created", "done"})
    BY <2>1, Lifecycle
  <2>3. task[t] \in Rows /\ GoodRow(task[t], t, Word)
    BY <1>c
  <2>4. r \in Rows /\ r.state = s
    BY <2>2, <2>3 DEF Rows
  <2>5. GoodRow(r, t, Word)
    BY <2>1, <2>2, <2>3 DEF GoodRow, Rows
  <2>6. Holds(o, "close", "write", t, r) /\ UNCHANGED <<task, run, gate, words>>
    BY <1>8 DEF Close, rows, runs
  <2> HIDE DEF r
  <2> QED
    BY <1>a, <1>e, <2>1, <2>4, <2>5, <2>6, OwnGood DEF Carrying
<1>9. ASSUME NEW t \in Ids, NEW m \in Runners, ClaimRead(o, m, t) PROVE WordInv'
  <2> DEFINE r == [task[t] EXCEPT !.pin = m]
  <2>1. task[t] \in Rows /\ GoodRow(task[t], t, Word) /\ task[t].state \in States
    BY <1>9, <1>c DEF ClaimRead
  <2>2. r \in Rows /\ r.state = task[t].state /\ GoodRow(r, t, Word)
    BY <2>1 DEF Rows, GoodRow
  <2>3. Holds(o, "pin", "claim", t, r) /\ UNCHANGED <<task, run, gate, words>>
    BY <1>9 DEF ClaimRead, rows, runs
  <2> HIDE DEF r
  <2> QED
    BY <1>a, <1>e, <2>1, <2>2, <2>3, OwnGood DEF Carrying, CanTransition
<1>10. CASE ReportPlan(o)
  <2> DEFINE t == op[o].id
             r == [task[t] EXCEPT !.state = "awaiting_user_test"]
  <2>1. t \in Ids /\ UNCHANGED <<task, run, gate, words>>
    BY <1>10 DEF ReportPlan, TypeOK, At, rows, runs
  <2>2. CASE task[t].state # "none" /\ CanTransition(task[t].state, "awaiting_user_test")
    <3>1. task[t] \in Rows /\ GoodRow(task[t], t, Word) /\ task[t].state \in States
      BY <1>c, <2>1, <2>2
    <3>2. r \in Rows /\ r.state = "awaiting_user_test" /\ GoodRow(r, t, Word)
      BY <3>1 DEF Rows, GoodRow, States
    <3>3. Holds(o, "report", "write", t, r)
      BY <1>10, <2>2 DEF ReportPlan
    <3> HIDE DEF r
    <3> QED
      BY <1>a, <1>e, <2>1, <2>2, <3>1, <3>2, <3>3, OwnGood DEF Carrying
  <2>3. CASE ~(task[t].state # "none" /\ CanTransition(task[t].state, "awaiting_user_test"))
    BY <1>10, <1>a, <1>b, <2>1, <2>3 DEF ReportPlan
  <2> QED
    BY <2>2, <2>3
<1>11. CASE ConsumeApproval(o)
  <2>1. op[o].id \in Ids /\ op[o].pc = "consume" /\ UNCHANGED <<task, run, words>>
    BY <1>11 DEF ConsumeApproval, TypeOK, At, rows
  <2> DEFINE i == op[o].id
             v == op[o].by
  <2>5. \/ gate' = gate
        \/ gate[i][v] = "granted" /\ gate' = [gate EXCEPT ![i][v] = "spent"]
        \/ run[i][v] \in Runners /\ gate' = [gate EXCEPT ![i][v] = "pending"]
    <3>1. \A k: [gate EXCEPT ![i][v] = k][i][v] = k /\ [gate EXCEPT ![i][v] = gate[i][v]] = gate
      BY <1>0, <2>1 DEF TypeOK, Calls
    <3>2. \/ gate' = [gate EXCEPT ![i][v] = IF gate[i][v] = "granted" THEN "spent" ELSE gate[i][v]]
          \/ gate' = [gate EXCEPT ![i][v] = IF op[o].kind = "mrown" /\ gate[i][v] = "none" /\ run[i][v] \in Runners
                                              THEN "pending" ELSE gate[i][v]]
      BY <1>11 DEF ConsumeApproval
    <3> QED
      BY <3>1, <3>2
  <2>2. \A t \in Ids, w \in People: gate'[t][w] \in {"granted", "spent"} => gate[t][w] \in {"granted", "spent"}
    BY <2>5 DEF TypeOK
  <2>4. \A t \in Ids, w \in People: gate'[t][w] # "none" => run[t][w] # "none" \/ gate[t][w] # "none"
    BY <2>5, ConstantsAssumption DEF TypeOK, ConstantsAssumption
  <2>3. \A p \in Ops: GoodCall(op'[p], Word')
    <3>1. CASE Granted(op[o].id, op[o].by, op[o].kind)
      <4>1. Goto(o, "write") /\ op[o].id \in Word.sign
        <5>1. op[o].by \in People /\ gate[op[o].id][op[o].by] = "granted"
          BY <1>0, <3>1 DEF Granted, Calls
        <5> QED
          BY <1>11, <2>1, <3>1, <5>1 DEF ConsumeApproval, WordInv
      <4>2. [op[o] EXCEPT !.pc = "write"] \in Calls
        BY <1>0 DEF Calls
      <4>3. GoodCall([op[o] EXCEPT !.pc = "write"], Word)
        BY <1>0, <2>1, <4>1 DEF GoodCall, GoodRow, Carrying, Calls
      <4> QED
        BY <1>e, <2>1, <4>1, <4>2, <4>3, StepGood DEF Goto
    <3>2. CASE ~Granted(op[o].id, op[o].by, op[o].kind)
      BY <1>11, <1>b, <2>1, <3>2 DEF ConsumeApproval
    <3> QED
      BY <3>1, <3>2
  <2> QED
    BY <1>e, <2>1, <2>2, <2>3, <2>4 DEF WordInv, words, People
<1>12. CASE ClaimRun(o)
  <2>1. op[o].id \in Ids /\ UNCHANGED <<task, gate, words>>
    BY <1>12 DEF ClaimRun, TypeOK, At, rows
  <2>2. \A t \in Ids, w \in Members: run'[t][w] # "none" => run[t][w] # "none"
    BY <1>12, <2>1, ConstantsAssumption DEF ClaimRun, TypeOK, ConstantsAssumption, People
  <2>3. \A p \in Ops: GoodCall(op'[p], Word')
    <3>1. [op[o] EXCEPT !.pc = "write"] \in Calls
      BY <1>0 DEF Calls
    <3>2. GoodCall([op[o] EXCEPT !.pc = "write"], Word)
      BY <1>0, <1>12 DEF ClaimRun, At, GoodCall, Carrying, Calls
    <3>3. Return(o) \/ Step(o, [op[o] EXCEPT !.pc = "write"])
      BY <1>12 DEF ClaimRun, Goto
    <3> QED
      BY <1>b, <1>e, <2>1, <3>1, <3>2, <3>3, StepGood
  <2> QED
    BY <1>e, <2>1, <2>2, <2>3 DEF WordInv, words
<1>13. ASSUME NEW stored \in BOOLEAN, NEW answered \in BOOLEAN, Write(o, stored, answered) PROVE WordInv'
  <2>1. op[o].id \in Ids /\ op[o].pc = "write" /\ UNCHANGED <<run, gate, words>>
    BY <1>13 DEF Write, TypeOK, At, runs
  <2>2. GoodRow(op[o].copy, op[o].id, Word)
    BY <1>0, <2>1 DEF GoodCall
  <2>3. \A t \in Ids: GoodRow(task'[t], t, Word)
    BY <1>13, <2>1, <2>2 DEF Write, WordInv, TypeOK
  <2>4. AfterWrite(op[o]) \in Calls
    BY <1>0, <2>1, AfterWriteType
  <2>5. GoodCall(AfterWrite(op[o]), Word)
    <3>1. op[o].copy.state \in States
      BY <1>0, <2>1 DEF GoodCall, Carrying
    <3>2. GoodCall([Idle EXCEPT !.kind = "plan", !.pc = "again", !.id = op[o].id], Word)
      BY ConstantsAssumption DEF GoodCall, Carrying, Idle, ConstantsAssumption
    <3>3. GoodCall([Idle EXCEPT !.kind = op[o].kind, !.pc = "refresh", !.id = op[o].id, !.copy.state = op[o].copy.state], Word)
      BY <3>1, ConstantsAssumption DEF GoodCall, Carrying, Idle, NoRow, ConstantsAssumption
    <3> QED
      BY <2>1, <3>2, <3>3, IdleGood DEF AfterWrite
  <2>6. \A p \in Ops: GoodCall(op'[p], Word')
    BY <1>13, <1>e, <2>1, <2>4, <2>5, StepGood, IdleType, IdleGood DEF Write
  <2> QED
    BY <1>e, <2>1, <2>3, <2>6 DEF WordInv, words
<1>14. ASSUME NEW ok \in BOOLEAN, RefreshCard(o, ok) PROVE WordInv'
  BY <1>14, <1>a, <1>b DEF RefreshCard, runs
<1>15. CASE Crash(o)
  BY <1>15, <1>a, <1>b DEF Crash, rows, runs
<1> QED
  BY <1>2, <1>3, <1>4, <1>5, <1>6, <1>7, <1>8, <1>9, <1>10, <1>11, <1>12, <1>13, <1>14, <1>15, <1>16 DEF CallStep

\* Outside the calls, only the requester's decision signs anything off.
LEMMA WorldWord ==
  ASSUME TypeOK, WordInv, WorldStep
  PROVE  WordInv'
<1>e. UNCHANGED words => Word' = Word
  BY DEF words, Word
<1>1. ASSUME NEW t \in Ids, NEW w \in People, RequestMR(t, w) PROVE WordInv'
  <2>1. UNCHANGED <<task, run, op, words>>
    BY <1>1 DEF RequestMR, rows
  <2>2. /\ \A u \in Ids, v \in People: gate'[u][v] \in {"granted", "spent"} => gate[u][v] \in {"granted", "spent"}
        /\ \A u \in Ids, v \in People: gate'[u][v] # "none" => run[u][v] # "none" \/ gate[u][v] # "none"
    BY <1>1, ConstantsAssumption DEF RequestMR, Asks, TypeOK, ConstantsAssumption
  <2> QED
    BY <1>e, <2>1, <2>2 DEF WordInv, words, People
<1>2. ASSUME NEW t \in Ids, NEW w \in People, RunEnds(t, w) PROVE WordInv'
  <2>1. UNCHANGED <<task, op, words>>
    BY <1>2 DEF RunEnds, rows
  <2>2. \A u \in Ids, v \in People: /\ gate'[u][v] \in {gate[u][v], "none"}
                                    /\ run'[u][v] \in {run[u][v], "none"}
    BY <1>2 DEF RunEnds, TypeOK
  <2> QED
    BY <1>e, <2>1, <2>2 DEF WordInv, words, People
<1>3. ASSUME NEW t \in Ids, NEW w \in People, NEW verdict \in {"granted", "denied"}, Decide(t, w, verdict) PROVE WordInv'
  <2>1. Grows /\ UNCHANGED <<task, run, op, opened>>
    BY <1>3 DEF Decide, Grows, rows
  <2>2. \A u \in Ids, v \in People: gate'[u][v] # "none" => gate[u][v] # "none"
    BY <1>3 DEF Decide, TypeOK
  <2>3. \A u \in Ids, v \in People: gate'[u][v] \in {"granted", "spent"} => u \in Word'.sign
    <3>1. verdict = "granted" => t \in Word'.sign
      BY <1>3 DEF Decide, Word
    <3>2. \A u \in Ids, v \in People: gate[u][v] \in {"granted", "spent"} => u \in Word'.sign
      BY <2>1, WordMore DEF WordInv
    <3>3. \A u \in Ids, v \in People: gate'[u][v] = gate[u][v] \/ (u = t /\ gate'[u][v] = verdict)
      BY <1>3 DEF Decide, TypeOK
    <3> QED
      BY <3>1, <3>2, <3>3
  <2>4. lent' \subseteq opened'
    <3>1. w # Requester => t \in opened
      BY <1>3 DEF Decide, WordInv, Word, People
    <3> QED
      BY <1>3, <2>1, <3>1 DEF Decide, WordInv
  <2>5. Word'.open = Word.open
    BY <2>1 DEF Word
  <2> QED
    BY <2>1, <2>2, <2>3, <2>4, <2>5, WordMore DEF WordInv, People
<1>4. ASSUME NEW m \in Runners, MachineTurns(m) PROVE WordInv'
  BY <1>4, <1>e DEF MachineTurns, rows, WordInv, words
<1> QED
  BY <1>1, <1>2, <1>3, <1>4 DEF WorldStep

\* At the start only a shipped task is signed off.
LEMMA InitWord == Init => WordInv
<1> SUFFICES ASSUME Init PROVE WordInv
  OBVIOUS
<1>1. PICK s \in Existing, open \in BOOLEAN:
        /\ open => s # "none"
        /\ task = [t \in Ids |-> IF First(t) THEN [Arrived(s) EXCEPT !.open = open] ELSE NoRow]
        /\ blessed = {t \in Ids : First(t) /\ s = "mr_created"}
        /\ opened = {t \in Ids : First(t) /\ open}
  BY DEF Init
<1>2. s # "done"
  BY ConstantsAssumption DEF ConstantsAssumption
<1>3. \A t \in Ids: GoodRow(task[t], t, Word)
  BY <1>1, <1>2 DEF GoodRow, Word, Arrived, NoRow
<1>4. \A t \in Ids, w \in People: gate[t][w] = "none" /\ run[t][w] = "none"
  BY DEF Init
<1>5. \A o \in Ops: GoodCall(op[o], Word)
  BY IdleGood DEF Init
<1> QED
  BY <1>3, <1>4, <1>5 DEF WordInv, People, Init

\* Every step keeps the word.
LEMMA NextWord == TypeOK /\ TypeOK' /\ WordInv /\ [Next]_vars => WordInv'
<1>1. WordInv /\ UNCHANGED vars => WordInv'
  BY DEF WordInv, Word, vars, rows, runs, words
<1> QED
  BY <1>1, WorldWord, CreateWord, CallWord DEF Next

\* Types and word together, in every state.
LEMMA WordSound == Spec => [](TypeOK /\ WordInv)
  BY InitType, NextType, InitWord, NextWord, PTL DEF Spec

\* No push without a word: no order of reports, approvals, decisions, sign-offs, steering switches,
\* closings and creations makes a task count as signed off, or as shipped, unless its requester has
\* signed it off, or has let the members steer it and one of them has signed it off in a run of
\* theirs, however old the copies are that calls write.
THEOREM NoPushUnsigned == Spec => []PushNeedsSignOff
<1>1. WordInv => PushNeedsSignOff
  BY DEF WordInv, GoodRow, Word, PushNeedsSignOff
<1> QED
  BY <1>1, WordSound, PTL


-----------------------------------------------------------------------------
(* The lifecycle.  A creation stores its row over nothing: an id that was taken is not reused. *)

StoreInv == /\ \A t \in Ids: card[t] = "none" => task[t].state = "none"
            /\ \A o \in Ops: /\ op[o].pc \in {"card", "store"} => task[op[o].id].state = "none"
                             /\ op[o].pc = "card" => op[o].kind = "create"
                             /\ op[o].pc = "store" => card[op[o].id] # "none"
            /\ \A o, p \in Ops: o # p /\ {op[o].pc, op[p].pc} \subseteq {"card", "store"} => op[o].id # op[p].id

\* A step that stores no row but the one it was to store, and takes no card away, keeps StoreInv.
LEMMA StoreKept ==
  ASSUME TypeOK, StoreInv, NEW o \in Ops, NEW b \in Calls, Step(o, b), b.pc \notin {"card", "store"},
         \A t \in Ids: card'[t] = "none" => card[t] = "none",
         \A t \in Ids: task'[t].state # "none" => task[t].state # "none" \/ (t = op[o].id /\ op[o].pc = "store")
  PROVE  StoreInv'
<1>1. /\ op'[o].pc \notin {"card", "store"}
      /\ \A p \in Ops \ {o}: op'[p] = op[p]
  BY DEF Step, TypeOK, Calls
<1>2. \A p \in Ops: op[p].pc \in {"card", "store"} => op[p].id \in Ids
  BY DEF TypeOK
<1> QED
  BY <1>1, <1>2 DEF StoreInv

\* What StoreKept asks of a step that returns or goes on.
LEMMA Going ==
  ASSUME TypeOK, NEW o \in Ops
  PROVE  /\ Return(o) => \E b \in Calls: Step(o, b) /\ b.pc \notin {"card", "store"}
         /\ \A t \in Ids, w \in People: Starts(o, t, w) => \E b \in Calls: Step(o, b) /\ b.pc \notin {"card", "store"}
         /\ \A pc \in {"settle", "delete", "retract", "supersede", "write"}:
              Goto(o, pc) => \E b \in Calls: Step(o, b) /\ b.pc \notin {"card", "store"}
<1>0. op[o] \in Calls
  BY DEF TypeOK
<1>1. \A pc \in {"settle", "delete", "retract", "supersede", "write"}: [op[o] EXCEPT !.pc = pc] \in Calls /\ [op[o] EXCEPT !.pc = pc].pc = pc
  BY <1>0 DEF Calls
<1> QED
  BY <1>1, IdleType DEF Return, Starts, Goto

\* A call that has read a row is not about to store one.
LEMMA HoldsGoing ==
  ASSUME TypeOK, NEW o \in Ops, NEW kind, NEW t \in Ids, NEW w \in People, NEW r \in Rows, NEW pc \in Carrying,
         HoldsFor(o, kind, pc, t, w, r),
         kind \in {"report", "plan", "mr", "mrown", "signoff", "steering", "close", "pin"}
  PROVE  \E b \in Calls: Step(o, b) /\ b.pc \notin {"card", "store"}
<1> DEFINE b == [Idle EXCEPT !.kind = kind, !.pc = pc, !.id = t, !.by = w, !.copy = r, !.expect = task[t].state]
<1>1. task[t].state \in States \cup {"none"}
  BY DEF TypeOK, Rows
<1>2. b \in Calls /\ b.pc \notin {"card", "store"}
  BY <1>1, IdleType, ZenonT(30) DEF Calls, Idle, Carrying
<1> QED
  BY <1>2 DEF HoldsFor

\* The same in the requester's name.
LEMMA OwnGoing ==
  ASSUME TypeOK, NEW o \in Ops, NEW kind, NEW t \in Ids, NEW r \in Rows, NEW pc \in Carrying, Holds(o, kind, pc, t, r),
         kind \in {"report", "plan", "mr", "mrown", "signoff", "steering", "close", "pin"}
  PROVE  \E b \in Calls: Step(o, b) /\ b.pc \notin {"card", "store"}
  BY HoldsGoing DEF Holds, People

\* Whatever a creation does to a row is a step of the lifecycle, and StoreInv stays.
LEMMA CreateMoves ==
  ASSUME TypeOK, WordInv, StoreInv, NEW o \in Ops, CreateStep(o)
  PROVE  /\ StoreInv'
         /\ \A t \in Ids: /\ task[t].state \in States /\ task'[t].state \in States =>
                               CanTransition(task[t].state, task'[t].state)
                          /\ task[t].state \in Terminal => task'[t].state \in {task[t].state, "none"}
<1> DEFINE Goal == /\ StoreInv'
                   /\ \A t \in Ids: /\ task[t].state \in States /\ task'[t].state \in States =>
                                         CanTransition(task[t].state, task'[t].state)
                                    /\ task[t].state \in Terminal => task'[t].state \in {task[t].state, "none"}
<1>0. op[o] \in Calls
  BY DEF TypeOK
<1>a. ASSUME UNCHANGED task, StoreInv' PROVE Goal
  BY <1>a DEF CanTransition
<1>b. ASSUME UNCHANGED <<task, card>>, \E b \in Calls: Step(o, b) /\ b.pc \notin {"card", "store"} PROVE Goal
  BY <1>a, <1>b, StoreKept
<1>1. ASSUME NEW t \in Ids, NEW listing \in SUBSET Ids, CreateList(o, t, listing) PROVE Goal
  <2>1. op' = [op EXCEPT ![o] = op'[o]] /\ op'[o].pc = "card" /\ op'[o].kind = "create" /\ op'[o].id = t
    BY <1>1 DEF CreateList, Step, TypeOK
  <2>2. UNCHANGED <<task, card>> /\ task[t].state = "none" /\ card[t] = "none"
    BY <1>1 DEF CreateList, Unused, rows, StoreInv
  <2>3. \A p \in Ops: op[p].pc \in {"card", "store"} => op[p].id # t
    BY <1>1, <2>2 DEF CreateList, Unused, Creating, StoreInv
  <2>4. StoreInv'
    <3>1. \A p \in Ops: p # o => op'[p] = op[p]
      BY <2>1 DEF TypeOK
    <3> QED
      BY <2>1, <2>2, <2>3, <3>1 DEF StoreInv
  <2> QED
    BY <1>a, <2>2, <2>4
<1>2. ASSUME NEW listing \in SUBSET Ids, SettleRace(o, listing) PROVE Goal
  BY <1>2, <1>b, Going DEF SettleRace, rows
<1>3. ASSUME NEW sent \in BOOLEAN, NEW answered \in BOOLEAN, PostCard(o, sent, answered) PROVE Goal
  <2>1. op[o].pc = "card" /\ op[o].id \in Ids /\ UNCHANGED task /\ (answered => sent)
    BY <1>3 DEF PostCard, At, TypeOK
  <2>2. /\ \A u \in Ids: card'[u] = "none" => card[u] = "none"
        /\ sent => card'[op[o].id] # "none"
    BY <1>3, <2>1 DEF PostCard, TypeOK
  <2>3. CASE answered
    <3>0. op' = [op EXCEPT ![o] = [[op[o] EXCEPT !.pc = "store"] EXCEPT !.n = op[o].n]]
      BY <1>3, <2>1, <2>3 DEF PostCard, Goto, Step, At
    <3>1. op' = [op EXCEPT ![o] = op'[o]] /\ op'[o].pc = "store" /\ op'[o].id = op[o].id
      BY <1>0, <3>0 DEF TypeOK, Calls
    <3>2. \A p \in Ops: p # o => op'[p] = op[p]
      BY <3>1 DEF TypeOK
    <3>3. \A p \in Ops: /\ op'[p].id = op[p].id
                        /\ op'[p].pc \in {"card", "store"} => op[p].pc \in {"card", "store"} /\ op[p].id \in Ids
      BY <2>1, <3>1, <3>2 DEF TypeOK
    <3>4. \A p \in Ops: /\ op'[p].pc \in {"card", "store"} => task'[op'[p].id].state = "none"
                        /\ op'[p].pc = "card" => op'[p].kind = "create"
                        /\ op'[p].pc = "store" => card'[op'[p].id] # "none"
      BY <2>1, <2>2, <2>3, <3>1, <3>2, <3>3 DEF StoreInv
    <3>5. \A p, q \in Ops: p # q /\ {op'[p].pc, op'[q].pc} \subseteq {"card", "store"} => op'[p].id # op'[q].id
      BY <3>3 DEF StoreInv
    <3>6. StoreInv'
      BY <2>1, <2>2, <3>4, <3>5 DEF StoreInv
    <3> QED
      BY <1>a, <2>1, <3>6
  <2>4. CASE ~answered
    <3>1. \E b \in Calls: Step(o, b) /\ b.pc \notin {"card", "store"}
      BY <1>3, <2>4, Going DEF PostCard
    <3> QED
      BY <1>a, <2>1, <2>2, <3>1, StoreKept
  <2> QED
    BY <2>3, <2>4
<1>4. ASSUME NEW stored \in BOOLEAN, NEW answered \in BOOLEAN, StoreTask(o, stored, answered) PROVE Goal
  <2>1. op[o].id \in Ids /\ op[o].pc = "store" /\ task[op[o].id].state = "none" /\ UNCHANGED card
    BY <1>4 DEF StoreTask, TypeOK, At, StoreInv
  <2>2. task' = IF stored THEN [task EXCEPT ![op[o].id] = Created] ELSE task
    BY <1>4 DEF StoreTask
  <2>3. StoreInv'
    <3>1. \E b \in Calls: Step(o, b) /\ b.pc \notin {"card", "store"}
      BY <1>4, Going DEF StoreTask
    <3>2. \A t \in Ids: task'[t].state # "none" => task[t].state # "none" \/ t = op[o].id
      BY <2>1, <2>2 DEF TypeOK
    <3> QED
      BY <2>1, <3>1, <3>2, StoreKept
  <2>4. \A t \in Ids: task[t].state \in States => task'[t] = task[t]
    BY <2>1, <2>2 DEF TypeOK, States
  <2>5. Terminal \subseteq States
    BY DEF Terminal, States
  <2> QED
    BY <2>3, <2>4, <2>5 DEF CanTransition
<1>5. CASE SettleBlind(o)
  BY <1>5, <1>b, Going DEF SettleBlind, rows
<1>6. CASE AllSuperseded(o)
  <2>1. op[o].id \in Ids
    BY <1>6 DEF AllSuperseded, At, TypeOK
  <2> QED
    BY <1>6, <1>b, <2>1, Going DEF AllSuperseded, People, rows
<1>7. CASE Kick(o)
  BY <1>7, <1>b, Going DEF Kick, rows
<1>8. ASSUME NEW ok \in BOOLEAN, DeleteLoser(o, ok) PROVE Goal
  <2>1. op[o].id \in Ids /\ UNCHANGED card /\ task' = IF ok THEN [task EXCEPT ![op[o].id] = NoRow] ELSE task
    BY <1>8 DEF DeleteLoser, TypeOK, At
  <2>2. \A t \in Ids: task'[t] = task[t] \/ task'[t].state = "none"
    BY <2>1 DEF TypeOK, NoRow
  <2>3. StoreInv'
    <3>1. \E b \in Calls: Step(o, b) /\ b.pc \notin {"card", "store"}
      BY <1>8, Going DEF DeleteLoser
    <3> QED
      BY <2>1, <2>2, <3>1, StoreKept
  <2>4. "none" \notin States
    BY DEF States
  <2> QED
    BY <2>2, <2>3, <2>4 DEF CanTransition
<1>9. ASSUME NEW ok \in BOOLEAN, RetractCard(o, ok) PROVE Goal
  <2>1. UNCHANGED task /\ op[o].id \in Ids /\ card' = IF ok THEN [card EXCEPT ![op[o].id] = "retracted"] ELSE card
    BY <1>9 DEF RetractCard, RetractedCard, TypeOK, At
  <2>2. \E b \in Calls: Step(o, b) /\ b.pc \notin {"card", "store"}
    BY <1>9, Going DEF RetractCard
  <2>3. \A t \in Ids: card'[t] = "none" => card[t] = "none"
    BY <2>1 DEF TypeOK
  <2> QED
    BY <1>a, <2>1, <2>2, <2>3, StoreKept
<1>10. ASSUME NEW u \in Ids, NEW ok \in BOOLEAN, Supersede(o, u, ok) PROVE Goal
  <2>1. PICK r \in {p[2] : p \in {q \in op[o].old : q[1] = u}}:
          LET stored == ok /\ Expected(u, "mr_created")
          IN /\ task' = IF stored THEN [task EXCEPT ![u] = [r EXCEPT !.state = "done"]] ELSE task
             /\ Step(o, IF stored THEN [op[o] EXCEPT !.old = (@ \ {<<u, r>>}) \cup {<<u, task'[u]>>}]
                        ELSE [op[o] EXCEPT !.old = @ \ {<<u, r>>}])
             /\ UNCHANGED <<card, runs, words, excuse>>
    BY <1>10 DEF Supersede
  <2>2. op[o].old \in SUBSET (Ids \X Rows) /\ op[o].pc = "supersede"
    BY <1>10, <1>0 DEF Supersede, At, Calls
  <2>3. r \in Rows
    BY <2>2
  <2>4. [r EXCEPT !.state = "done"] \in Rows /\ [r EXCEPT !.state = "done"].state = "done"
    BY <2>3 DEF Rows, States
  <2>5. \A t \in Ids: \/ task'[t] = task[t]
                      \/ task[t].state = "mr_created" /\ task'[t].state = "done" /\ task'[t] \in Rows
    BY <2>1, <2>4 DEF TypeOK, Expected
  <2>6. PICK old \in SUBSET (Ids \X Rows): Step(o, [op[o] EXCEPT !.old = old])
    <3>1. task'[u] \in Rows
      BY <2>5 DEF TypeOK
    <3>2. /\ (op[o].old \ {<<u, r>>}) \cup {<<u, task'[u]>>} \in SUBSET (Ids \X Rows)
          /\ op[o].old \ {<<u, r>>} \in SUBSET (Ids \X Rows)
      BY <2>2, <3>1
    <3> QED
      BY <2>1, <3>2
  <2>7. [op[o] EXCEPT !.old = old] \in Calls /\ [op[o] EXCEPT !.old = old].pc \notin {"card", "store"}
    BY <1>0, <2>2, OldType DEF Calls
  <2>8. StoreInv'
    <3>1. \A t \in Ids: task'[t].state # "none" => task[t].state # "none"
      BY <2>5
    <3> QED
      BY <2>1, <2>6, <2>7, <3>1, StoreKept
  <2>9. CanTransition("mr_created", "done")
    BY DEF CanTransition, Edges, States
  <2>10. "mr_created" \notin Terminal
    BY DEF Terminal
  <2> QED
    BY <2>5, <2>8, <2>9, <2>10 DEF CanTransition
<1>11. ASSUME NEW u \in Ids, NEW ok \in BOOLEAN, SupersededCard(o, u, ok) PROVE Goal
  <2>1. PICK p \in op[o].old:
          /\ At(o, "supersede")
          /\ card' = IF ok THEN [card EXCEPT ![u] = "done"] ELSE card
          /\ Step(o, [op[o] EXCEPT !.old = @ \ {p}])
          /\ UNCHANGED task
    BY <1>11 DEF SupersededCard
  <2>2. [op[o] EXCEPT !.old = @ \ {p}] \in Calls /\ [op[o] EXCEPT !.old = @ \ {p}].pc \notin {"card", "store"}
    BY <1>0, <2>1 DEF Calls, At
  <2>3. \A t \in Ids: card'[t] = "none" => card[t] = "none"
    BY <2>1 DEF TypeOK
  <2> QED
    BY <1>a, <2>1, <2>2, <2>3, StoreKept
<1> QED
  BY <1>1, <1>2, <1>3, <1>4, <1>5, <1>6, <1>7, <1>8, <1>9, <1>10, <1>11 DEF CreateStep

\* A call that puts its copy back moves the row from the state it has read along an edge; no other
\* call touches a row.
LEMMA CallMoves ==
  ASSUME TypeOK, WordInv, StoreInv, NEW o \in Ops, CallStep(o)
  PROVE  /\ StoreInv'
         /\ \A t \in Ids: /\ task[t].state \in States /\ task'[t].state \in States =>
                               CanTransition(task[t].state, task'[t].state)
                          /\ task[t].state \in Terminal => task'[t].state \in {task[t].state, "none"}
<1> DEFINE Goal == /\ StoreInv'
                   /\ \A t \in Ids: /\ task[t].state \in States /\ task'[t].state \in States =>
                                         CanTransition(task[t].state, task'[t].state)
                                    /\ task[t].state \in Terminal => task'[t].state \in {task[t].state, "none"}
<1>0. op[o] \in Calls /\ GoodCall(op[o], Word)
  BY DEF TypeOK, WordInv
<1>a. ASSUME UNCHANGED task, StoreInv' PROVE Goal
  BY <1>a DEF CanTransition
<1>b. ASSUME UNCHANGED <<task, card>>, \E b \in Calls: Step(o, b) /\ b.pc \notin {"card", "store"} PROVE Goal
  BY <1>a, <1>b, StoreKept
<1>c. ASSUME NEW t \in Ids
      PROVE  /\ task[t] \in Rows
             /\ \A s \in States, mr \in BOOLEAN: /\ [task[t] EXCEPT !.state = s] \in Rows
                                                /\ [task[t] EXCEPT !.state = s, !.mr = @ \/ mr] \in Rows
             /\ [task[t] EXCEPT !.signed = TRUE] \in Rows
             /\ [task[t] EXCEPT !.open = ~@] \in Rows
             /\ \A m \in Runners: [task[t] EXCEPT !.pin = m] \in Rows
  <2>1. task[t] \in Rows
    BY DEF TypeOK
  <2> QED
    BY <2>1 DEF Rows
<1>d. {"write", "consume", "claim"} \subseteq Carrying
  BY DEF Carrying
<1>2. ASSUME NEW t \in Ids, NEW s \in Reported \cup {task[t].state}, NEW mr \in BOOLEAN, Report(o, t, s, mr) PROVE Goal
  <2>1. s \in States
    <3>1. task[t].state \in States
      BY <1>2 DEF Report, TypeOK, Rows
    <3> QED
      BY <3>1, ConstantsAssumption DEF ConstantsAssumption
  <2> QED
    BY <1>2, <1>b, <1>c, <1>d, <2>1, OwnGoing DEF Report, rows
<1>3. ASSUME NEW t \in Ids, PublishTestPlan(o, t) PROVE Goal
  BY <1>3, <1>b, <1>c, <1>d, OwnGoing DEF PublishTestPlan, rows
<1>4. ASSUME NEW t \in Ids, NEW w \in People, NEW which \in {"mr", "mrown"}, RequestMRWith(o, t, w, which) PROVE Goal
  BY <1>4, <1>b, <1>c, <1>d, HoldsGoing DEF RequestMRWith, rows
<1>5. ASSUME NEW t \in Ids, SignOff(o, t) PROVE Goal
  BY <1>5, <1>b, <1>c, <1>d, OwnGoing, Going DEF SignOff, People, rows
<1>6. ASSUME NEW t \in Ids, SetSteering(o, t) PROVE Goal
  BY <1>6, <1>b, <1>c, <1>d, OwnGoing DEF SetSteering, rows
<1>7. ASSUME NEW t \in Ids, Steer(o, t) PROVE Goal
  BY <1>7, <1>b, Going DEF Steer, People, rows
<1>8. ASSUME NEW t \in Ids, NEW s \in Terminal, Close(o, t, s) PROVE Goal
  <2>1. s \in States
    BY DEF Terminal, States
  <2> QED
    BY <1>8, <1>b, <1>c, <1>d, <2>1, OwnGoing DEF Close, rows
<1>9. ASSUME NEW t \in Ids, NEW m \in Runners, ClaimRead(o, m, t) PROVE Goal
  BY <1>9, <1>b, <1>c, <1>d, OwnGoing DEF ClaimRead, rows
<1>10. CASE ReportPlan(o)
  <2>1. op[o].id \in Ids /\ "awaiting_user_test" \in States
    BY <1>10 DEF ReportPlan, TypeOK, At, States
  <2> QED
    BY <1>10, <1>b, <1>c, <1>d, <2>1, OwnGoing, Going DEF ReportPlan, rows
<1>11. CASE ConsumeApproval(o)
  BY <1>11, <1>b, Going DEF ConsumeApproval, rows
<1>12. CASE ClaimRun(o)
  BY <1>12, <1>b, Going DEF ClaimRun, rows
<1>13. ASSUME NEW stored \in BOOLEAN, NEW answered \in BOOLEAN, Write(o, stored, answered) PROVE Goal
  <2>1. op[o].id \in Ids /\ op[o].pc = "write" /\ UNCHANGED card
    BY <1>13 DEF Write, TypeOK, At
  <2>2. /\ op[o].expect \in States /\ CanTransition(op[o].expect, op[o].copy.state)
    BY <1>0, <2>1 DEF GoodCall, Carrying
  <2>3. \A t \in Ids: \/ task'[t] = task[t]
                      \/ task[t].state = op[o].expect /\ task'[t].state = op[o].copy.state
    BY <1>13, <2>1 DEF Write, TypeOK, Expected
  <2>4. StoreInv'
    <3>1. \A t \in Ids: task'[t].state # "none" => task[t].state # "none"
      BY <2>2, <2>3 DEF States
    <3>2. \E b \in Calls: Step(o, b) /\ b.pc \notin {"card", "store"}
      <4>1. AfterWrite(op[o]) \in Calls /\ AfterWrite(op[o]).pc \notin {"card", "store"}
        BY <1>0, <2>1, AfterWriteType DEF AfterWrite, Idle, Starting
      <4>2. Idle \in Calls /\ Idle.pc \notin {"card", "store"}
        BY IdleType
      <4>3. Step(o, AfterWrite(op[o])) \/ Step(o, Idle)
        BY <1>13 DEF Write
      <4> QED
        BY <4>1, <4>2, <4>3
    <3> QED
      BY <2>1, <3>1, <3>2, StoreKept
  <2>5. op[o].expect \in Terminal => op[o].copy.state = op[o].expect
    BY <2>2 DEF CanTransition, Edges, Terminal
  <2> QED
    BY <2>2, <2>3, <2>4, <2>5 DEF CanTransition
<1>14. ASSUME NEW ok \in BOOLEAN, RefreshCard(o, ok) PROVE Goal
  <2>1. UNCHANGED task /\ op[o].id \in Ids /\ op[o].pc = "refresh"
    BY <1>14 DEF RefreshCard, At, TypeOK
  <2>2. op[o].copy.state \in States
    BY <1>0, <2>1 DEF GoodCall
  <2>3. \A t \in Ids: card'[t] = "none" => card[t] = "none"
    BY <1>14, <2>1, <2>2 DEF RefreshCard, TypeOK, States
  <2> QED
    BY <1>14, <1>a, <2>1, <2>3, StoreKept, Going DEF RefreshCard
<1>15. CASE Crash(o)
  BY <1>15, <1>b, Going DEF Crash, rows
<1>16. ASSUME NEW t \in Ids, NEW w \in Members, Mention(o, t, w) PROVE Goal
  BY <1>16, <1>b, Going DEF Mention, People, rows
<1> QED
  BY <1>2, <1>3, <1>4, <1>5, <1>6, <1>7, <1>8, <1>9, <1>10, <1>11, <1>12, <1>13, <1>14, <1>15, <1>16 DEF CallStep

\* Outside the calls, no row moves.
LEMMA WorldMoves == ASSUME StoreInv, WorldStep PROVE StoreInv' /\ UNCHANGED task
  BY DEF StoreInv, WorldStep, RequestMR, RunEnds, Decide, MachineTurns, rows

\* At the start no creation is in flight, and every row has its card.
LEMMA InitStore == Init => StoreInv
<1> SUFFICES ASSUME Init PROVE StoreInv
  OBVIOUS
<1>1. PICK s \in Existing, open \in BOOLEAN:
        /\ task = [t \in Ids |-> IF First(t) THEN [Arrived(s) EXCEPT !.open = open] ELSE NoRow]
        /\ card = [t \in Ids |-> IF First(t) THEN s ELSE "none"]
  BY DEF Init
<1>2. \A t \in Ids: card[t] = "none" => task[t].state = "none"
  BY <1>1 DEF Arrived, NoRow
<1>3. \A o \in Ops: op[o].pc = "idle"
  BY DEF Init, Idle
<1> QED
  BY <1>2, <1>3 DEF StoreInv

\* Of any writers that race one wins, and a finished task stays finished until it is deleted:
\* whatever copies are in flight, a row only moves along the edges of the lifecycle.
THEOREM EdgesKept == Spec => MovesAlongEdges
<1> DEFINE Moves == \A t \in Ids: /\ task[t].state \in States /\ task'[t].state \in States =>
                                       CanTransition(task[t].state, task'[t].state)
                                  /\ task[t].state \in Terminal => task'[t].state \in {task[t].state, "none"}
<1>1. TypeOK /\ WordInv /\ StoreInv /\ [Next]_vars => StoreInv' /\ [Moves]_task
  <2>1. StoreInv /\ UNCHANGED vars => StoreInv' /\ UNCHANGED task
    BY DEF StoreInv, vars, rows, runs
  <2> QED
    BY <2>1, WorldMoves, CreateMoves, CallMoves DEF Next
<1> QED
  BY <1>1, InitStore, WordSound, PTL DEF Spec, MovesAlongEdges

-----------------------------------------------------------------------------
(* Creations that race.  What OneActive and CardTellsTruth say of rows and cards follows from *)
(* what the creations still in flight can see of one another.                                 *)

\* The other calls stay where they are.
Alone(o) == \A p \in Ops \ {o}: op'[p] = op[p]

\* A step moves its call to the given state, but for the count of its calls.
LEMMA Stepped ==
  ASSUME TypeOK, NEW o \in Ops, NEW b \in Calls, Step(o, b)
  PROVE  /\ Alone(o)
         /\ op'[o].pc = b.pc /\ op'[o].kind = b.kind /\ op'[o].id = b.id
         /\ op'[o].copy = b.copy /\ op'[o].old = b.old
  BY DEF Step, TypeOK, Calls, Alone

\* A call that goes on keeps all but its place.
LEMMA SteppedOn ==
  ASSUME TypeOK, NEW o \in Ops, NEW pc \in {"store", "settle", "delete", "retract", "supersede", "write"}, Goto(o, pc)
  PROVE  /\ Alone(o) /\ op'[o].pc = pc
         /\ op'[o].kind = op[o].kind /\ op'[o].id = op[o].id /\ op'[o].old = op[o].old
<1> DEFINE b == [op[o] EXCEPT !.pc = pc]
<1>0. op[o] \in Calls
  BY DEF TypeOK
<1>1. b \in Calls /\ b.pc = pc /\ b.kind = op[o].kind /\ b.id = op[o].id /\ b.old = op[o].old
  BY <1>0 DEF Calls
<1>2. Step(o, b)
  BY DEF Goto
<1> HIDE DEF b
<1> QED
  BY <1>1, <1>2, Stepped

\* While a call is no creation before and after its step, creations are where they were.
LEMMA CreatingElsewhere ==
  ASSUME NEW o \in Ops, Alone(o), NEW pcs, op[o].pc \notin pcs, op'[o].pc \notin pcs
  PROVE  \A t \in Ids: Creating(t, pcs)' <=> Creating(t, pcs)
  BY DEF Alone, Creating

\* A creation that goes on is still one, and others are where they were.
LEMMA CreatingGoesOn ==
  ASSUME NEW o \in Ops, Alone(o), NEW pcs, op[o].pc \in pcs, op'[o].pc \in pcs,
         op'[o].id = op[o].id, op'[o].kind = op[o].kind
  PROVE  \A t \in Ids: Creating(t, pcs)' <=> Creating(t, pcs)
  BY DEF Alone, Creating

\* A creation that ends is one less.
LEMMA CreatingEnds ==
  ASSUME NEW o \in Ops, Alone(o), NEW pcs, op'[o].pc \notin pcs
  PROVE  \A t \in Ids: /\ Creating(t, pcs)' => Creating(t, pcs)
                       /\ Creating(t, pcs) => Creating(t, pcs)' \/ (op[o].pc \in pcs /\ op[o].id = t)
  BY DEF Alone, Creating

\* A step that makes and takes no row or card, and that enters no point of a creation
\* with a card, keeps rows and cards with their creations.
LEMMA CreationKept ==
  ASSUME TypeOK, CreationInv, NEW o \in Ops, Alone(o),
         op'[o].pc \notin Making, op'[o].pc = "supersede" => op'[o].kind = "create",
         op'[o].pc = "card" => op'[o].kind = "create" /\ op'[o].id \in Ids /\ Unused(op'[o].id),
         \A t \in Ids: Concerns(o, t)' => card[t] # "none",
         \A t \in Ids: task'[t].state = "none" <=> task[t].state = "none",
         \A t \in Ids: card'[t] = "none" <=> card[t] = "none",
         \A t \in Ids: card'[t] = "retracted" => card[t] = "retracted" \/ (op[o].pc = "retract" /\ op[o].id = t)
  PROVE  CreationInv'
<1>0. "card" \notin Making
  BY DEF Making
<1>1. \A p \in Ops: op[p].pc \in Making \cup {"card"} => op[p].id \in Ids
  BY DEF TypeOK, Making
<1>2. \A p \in Ops: op'[p].pc \in Making => p # o /\ op'[p] = op[p] /\ op[p].pc \in Making /\ op[p].id \in Ids
  BY <1>1 DEF Alone
<1>3. ASSUME NEW p \in Ops, NEW q \in Ops, op'[p].pc \in Making \cup {"card"}, op'[q].pc \in Making \cup {"card"},
             op'[p].id = op'[q].id
      PROVE  p = q
  <2>1. ASSUME op'[o].pc = "card", NEW r \in Ops \ {o}, op'[r].pc \in Making \cup {"card"} PROVE op'[r].id # op'[o].id
    <3>1. op'[r] = op[r] /\ op[r].id \in Ids /\ op[r].kind = "create"
      BY <1>1, <2>1 DEF Alone, CreationInv
    <3>2. CASE op[r].pc = "card"
      BY <2>1, <3>1, <3>2 DEF Unused, Creating
    <3>3. CASE op[r].pc \in Making
      <4>1. Concerns(r, op[r].id)
        BY <3>3 DEF Concerns, Making
      <4> QED
        BY <2>1, <3>1, <4>1 DEF CreationInv, Unused
    <3> QED
      BY <2>1, <3>1, <3>2, <3>3
  <2>2. op[p].pc \in Making \cup {"card"} /\ op[q].pc \in Making \cup {"card"} /\ op[p].id = op[q].id => p = q
    BY DEF CreationInv
  <2> QED
    BY <1>3, <2>1, <2>2 DEF Alone
<1>4. \A p \in Ops: op'[p].pc \in Making \cup {"card", "supersede"} => op'[p].kind = "create"
  BY <1>2 DEF CreationInv, Alone
<1>5. \A p \in Ops, t \in Ids: Concerns(p, t)' => card'[t] # "none"
  BY DEF CreationInv, Concerns, Alone
<1>6. ASSUME NEW p \in Ops, op'[p].pc = "store"
      PROVE  task'[op'[p].id].state = "none" /\ card'[op'[p].id] # "retracted"
  <2>1. p # o /\ op'[p] = op[p] /\ op[p].id \in Ids /\ op[p].pc = "store"
    BY <1>2, <1>6 DEF Making
  <2>2. task[op[p].id].state = "none" /\ card[op[p].id] # "retracted"
    BY <2>1 DEF CreationInv
  <2>3. ~(op[o].pc = "retract" /\ op[o].id = op[p].id)
    BY <2>1 DEF CreationInv, Making
  <2> QED BY <2>1, <2>2, <2>3
<1>7. \A p \in Ops: op'[p].pc \in {"settle", "delete"} => task'[op'[p].id].state # "none"
  BY <1>2 DEF CreationInv, Making
<1>8. \A t \in Ids: card'[t] = "none" => task'[t].state = "none"
  BY DEF CreationInv
<1>9. \A p \in Ops: op'[p].pc = "card" => card'[op'[p].id] = "none"
  BY <1>1 DEF CreationInv, Alone, Unused
<1> QED
  BY <1>3, <1>4, <1>5, <1>6, <1>7, <1>8, <1>9 DEF CreationInv

\* A step that makes no task active and neither enters nor leaves the points at which
\* creations settle keeps what they see of one another.
LEMMA SettledKept ==
  ASSUME SettledInv, NEW o \in Ops, Alone(o), excuse \subseteq excuse',
         op[o].pc \notin {"settle", "delete"}, op'[o].pc \notin {"settle", "delete"},
         Clean' => \A t \in Ids: Active(task'[t]) => Active(task[t])
  PROVE  SettledInv'
<1>1. Clean' => Clean
  BY DEF Clean
<1>2. \A t \in Ids: Creating(t, {"settle", "delete"})' <=> Creating(t, {"settle", "delete"})
  BY CreatingElsewhere
<1>3. \A t \in Ids: Creating(t, {"settle"})' <=> Creating(t, {"settle"})
  BY CreatingElsewhere
<1>4. Clean' => \A t \in Ids: Stands(t)' => Stands(t)
  BY <1>2 DEF Stands
<1> QED
  BY <1>1, <1>3, <1>4 DEF SettledInv

\* A call that rewrites a card after another one's step was about to do so before it.
LEMMA RewritesElsewhere ==
  ASSUME NEW o \in Ops, Alone(o), ~At(o, "refresh")', \A p \in op'[o].old: p[2].state = "done" => p \in op[o].old
  PROVE  \A p \in Ops, t \in Ids: Rewrites(p, t)' => Rewrites(p, t)
BY DEF Alone, Rewrites, At

\* A step of a call that is no creation with a card, and that leaves rows and cards alone,
\* keeps what cards tell, if it is not about to rewrite one.
LEMMA CardKept ==
  ASSUME CardInv, NEW o \in Ops, Alone(o), UNCHANGED <<task, card>>, excuse \subseteq excuse',
         op[o].pc \notin Making, op'[o].pc \notin Making \cup {"refresh"},
         \A p \in op'[o].old: p[2].state = "done" => p \in op[o].old
  PROVE  CardInv'
<1>1. \A t \in Ids: Creating(t, Making)' <=> Creating(t, Making)
  BY CreatingElsewhere
<1>2. \A t \in Ids: Made(t)' <=> Made(t)
  BY <1>1 DEF Made
<1>3. \A p \in Ops, t \in Ids: Rewrites(p, t)' => Rewrites(p, t)
  BY RewritesElsewhere DEF At
<1>4. \A p \in Ops: op'[p].pc = "retract" => op[p].pc = "retract" /\ op'[p].id = op[p].id
  BY DEF Alone, Making
<1>5. UnusedInv'
  BY <1>1, <1>2, <1>3 DEF CardInv, UnusedInv
<1>6. GoneInv'
  BY <1>4 DEF CardInv, GoneInv, At
<1>7. ShownInv'
  BY <1>1 DEF CardInv, ShownInv
<1> QED
  BY <1>5, <1>6, <1>7 DEF CardInv

\* What the three parts say together.
Sound == CreationInv /\ SettledInv /\ CardInv

\* A call that is no creation with a card, and touches neither rows nor cards, disturbs nothing.
LEMMA Bystander ==
  ASSUME TypeOK, Sound, NEW o \in Ops, Alone(o), UNCHANGED <<task, card>>, excuse \subseteq excuse',
         op[o].pc \notin Making, op'[o].pc \notin Making \cup {"refresh"},
         op'[o].pc = "supersede" => op'[o].kind = "create",
         op'[o].pc = "card" => op'[o].kind = "create" /\ op'[o].id \in Ids /\ Unused(op'[o].id),
         \A t \in Ids: Concerns(o, t)' => card[t] # "none",
         \A p \in op'[o].old: p[2].state = "done" => p \in op[o].old
  PROVE  Sound'
<1>1. CreationInv'
  BY CreationKept DEF Sound
<1>2. SettledInv'
  BY SettledKept DEF Sound, Making
<1>3. CardInv'
  BY CardKept DEF Sound
<1> QED
  BY <1>1, <1>2, <1>3 DEF Sound

\* A call that returns concerns no task.
LEMMA ReturnSteps ==
  ASSUME TypeOK, NEW o \in Ops, Return(o)
  PROVE  Alone(o) /\ op'[o].pc = "idle" /\ op'[o].old = {} /\ \A t \in Ids: ~Concerns(o, t)'
<1>1. Alone(o) /\ op'[o].pc = "idle" /\ op'[o].old = {}
  BY IdleType, Stepped DEF Return, Idle
<1> QED
  BY <1>1 DEF Concerns

\* A call that goes to start a run concerns the task of the run.
LEMMA StartSteps ==
  ASSUME TypeOK, NEW o \in Ops, NEW t \in Ids, NEW w \in People, Starts(o, t, w)
  PROVE  Alone(o) /\ op'[o].pc = "kick" /\ op'[o].old = {} /\ \A u \in Ids: Concerns(o, u)' => u = t
<1>1. Starting(t, w).old = {}
  BY DEF Starting, Idle
<1>2. Alone(o) /\ op'[o].pc = "kick" /\ op'[o].old = {} /\ op'[o].id = t
  BY <1>1, IdleType, Stepped DEF Starts
<1> QED
  BY <1>2 DEF Concerns

\* A call that has read a row concerns the row's task.
LEMMA HoldsSteps ==
  ASSUME TypeOK, NEW o \in Ops, NEW kind, NEW t \in Ids, NEW w \in People, NEW r \in Rows, NEW pc \in Carrying,
         HoldsFor(o, kind, pc, t, w, r),
         kind \in {"report", "plan", "mr", "mrown", "signoff", "steering", "close", "pin"}
  PROVE  Alone(o) /\ op'[o].pc = pc /\ op'[o].old = {} /\ \A u \in Ids: Concerns(o, u)' => u = t
<1> DEFINE b == [Idle EXCEPT !.kind = kind, !.pc = pc, !.id = t, !.by = w, !.copy = r, !.expect = task[t].state]
<1>1. task[t].state \in States \cup {"none"}
  BY DEF TypeOK, Rows
<1>2. b \in Calls /\ b.pc = pc /\ b.old = {} /\ b.id = t
  BY <1>1, IdleType, ZenonT(30) DEF Calls, Idle, Carrying
<1>3. Step(o, b)
  BY DEF HoldsFor
<1> HIDE DEF b
<1>4. Alone(o) /\ op'[o].pc = pc /\ op'[o].old = {} /\ op'[o].id = t
  BY <1>2, <1>3, Stepped
<1> QED
  BY <1>4 DEF Concerns

\* A creation begins with an unused id and a list of tasks that are not over.
LEMMA ListSound ==
  ASSUME TypeOK, Sound, NEW o \in Ops, NEW t \in Ids, NEW listing \in SUBSET Ids, CreateList(o, t, listing)
  PROVE  Sound'
<1> DEFINE listed == {<<u, task[u]>> : u \in listing}
           b == [Idle EXCEPT !.kind = "create", !.pc = "card", !.id = t, !.copy = Created, !.old = listed]
<1>0. listed \in SUBSET (Ids \X Rows)
  BY DEF TypeOK
<1>2. Step(o, b) /\ op[o].pc = "idle" /\ UNCHANGED <<task, card, excuse>> /\ Unused(t)
  BY DEF CreateList, Free, rows
<1> HIDE DEF listed
<1>1. b \in Calls /\ b.pc = "card" /\ b.kind = "create" /\ b.id = t /\ b.old = listed
  BY <1>0, IdleType, StartTypes DEF Calls, Idle
<1> HIDE DEF b
<1>3. /\ Alone(o) /\ op'[o].pc = "card" /\ op'[o].kind = "create" /\ op'[o].id = t
      /\ op'[o].old = listed
  BY <1>1, <1>2, Stepped
<1>4. listing \subseteq LiveIds
  BY DEF CreateList, Listings
<1>5. \A u \in listing: task[u].state \notin {"none", "done"}
  BY <1>4 DEF LiveIds, Terminal
<1>6. \A p \in op'[o].old: p[2].state # "done" /\ p[1] \in listing
  BY <1>3, <1>5 DEF listed
<1>7. \A u \in Ids: Concerns(o, u)' => card[u] # "none"
  BY <1>3, <1>5, <1>6 DEF Concerns, Sound, CreationInv
<1> QED
  BY <1>2, <1>3, <1>6, <1>7, Bystander DEF Making

\* The card of a creation is the first thing that bears its id.
LEMMA PostSound ==
  ASSUME TypeOK, Sound, NEW o \in Ops, NEW sent \in BOOLEAN, NEW answered \in BOOLEAN, PostCard(o, sent, answered)
  PROVE  Sound'
<1>0. PICK t \in Ids: t = op[o].id
  BY DEF PostCard, At, TypeOK
<1>1. /\ op[o].pc = "card" /\ UNCHANGED task /\ (answered => sent)
      /\ card' = IF sent THEN [card EXCEPT ![t] = "created"] ELSE card
      /\ excuse' = IF sent /\ ~answered THEN excuse \cup {"post"} ELSE excuse
      /\ IF answered THEN Goto(o, "store") ELSE Return(o)
  BY <1>0 DEF PostCard, At
<1>2. /\ op[o].kind = "create" /\ card[t] = "none" /\ task[t].state = "none" /\ \A p \in Ops: ~Concerns(p, t)
  BY <1>0, <1>1 DEF Sound, CreationInv
<1>3. /\ Alone(o) /\ op'[o].pc = (IF answered THEN "store" ELSE "idle")
      /\ answered => op'[o].id = t /\ op'[o].kind = "create"
      /\ op'[o].old \subseteq op[o].old
  <2>1. CASE answered
    BY <1>0, <1>1, <1>2, <2>1, SteppedOn
  <2>2. CASE ~answered
    BY <1>1, <2>2, ReturnSteps
  <2> QED
    BY <2>1, <2>2
<1>4. /\ \A u \in Ids \ {t}: card'[u] = card[u]
      /\ card'[t] = IF sent THEN "created" ELSE "none"
  BY <1>1, <1>2 DEF TypeOK
<1>5. \A p \in Ops \ {o}: /\ op'[p] = op[p]
                          /\ op[p].pc \in Making \cup {"card"} => op[p].id \in Ids /\ op[p].id # t
  BY <1>0, <1>1, <1>3 DEF Alone, Sound, CreationInv, TypeOK, Making
<1>7. CreationInv'
  <2>1. \A x \in Ids: card'[x] = "none" => task'[x].state = "none"
    BY <1>1, <1>4 DEF Sound, CreationInv
  <2>2. op'[o].pc \in Making \cup {"card"} => answered
    BY <1>3 DEF Making
  <2>3. \A p, q \in Ops: op'[p].pc \in Making \cup {"card"} /\ op'[q].pc \in Making \cup {"card"} /\ op'[p].id = op'[q].id
                          => p = q
    BY <1>3, <1>5, <2>2 DEF Sound, CreationInv
  <2>4. \A p \in Ops: op'[p].pc \in Making \cup {"card", "supersede"} => op'[p].kind = "create"
    BY <1>3, <1>5 DEF Sound, CreationInv, Making
  <2>5. \A p \in Ops: op'[p].pc = "card" => card'[op'[p].id] = "none"
    BY <1>3, <1>4, <1>5 DEF Sound, CreationInv
  <2>6. \A p \in Ops, x \in Ids: Concerns(p, x)' => Concerns(p, x) \/ (x = t /\ answered)
    BY <1>3, <1>5 DEF Concerns
  <2>7. \A p \in Ops, x \in Ids: Concerns(p, x)' => card'[x] # "none"
    BY <1>1, <1>2, <1>4, <2>6 DEF Sound, CreationInv
  <2>8. \A p \in Ops: op'[p].pc = "store" => task'[op'[p].id].state = "none" /\ card'[op'[p].id] # "retracted"
    BY <1>1, <1>2, <1>3, <1>4, <1>5 DEF Sound, CreationInv, Making
  <2>9. \A p \in Ops: op'[p].pc \in {"settle", "delete"} => task'[op'[p].id].state # "none"
    BY <1>1, <1>3, <1>5 DEF Sound, CreationInv, Making
  <2> QED
    BY <2>1, <2>3, <2>4, <2>5, <2>7, <2>8, <2>9 DEF CreationInv
<1>8. SettledInv'
  BY <1>1, <1>3, SettledKept DEF Sound
<1>9. CardInv'
  <2>1. \A u \in Ids: Creating(u, Making)' <=> Creating(u, Making) \/ (u = t /\ answered)
    <3>1. op[o].pc \notin Making
      BY <1>1 DEF Making
    <3>2. op'[o].pc \in Making <=> answered
      BY <1>3 DEF Making
    <3> QED
      BY <1>3, <3>1, <3>2 DEF Creating, Alone
  <2>2. \A p \in Ops, u \in Ids: Rewrites(p, u)' => Rewrites(p, u)
    BY <1>3 DEF Rewrites, Alone, At
  <2>3. \A u \in Ids: Made(u) => Made(u)'
    BY <1>1, <1>2, <2>1 DEF Made
  <2>4. UnusedInv'
    BY <1>1, <1>2, <2>1, <2>2, <2>3 DEF Sound, CardInv, UnusedInv
  <2>5. GoneInv'
    <3>1. \A p \in Ops: op'[p].pc = "retract" => op[p].pc = "retract" /\ op'[p].id = op[p].id
      BY <1>3, <1>5
    <3> QED
      BY <1>1, <1>4, <3>1 DEF Sound, CardInv, GoneInv, At
  <2>6. ShownInv'
    <3>1. "none" \notin States
      BY DEF States
    <3> QED
      BY <1>1, <1>4, <2>1, <3>1 DEF Sound, CardInv, ShownInv
  <2> QED
    BY <2>4, <2>5, <2>6 DEF CardInv
<1> QED
  BY <1>7, <1>8, <1>9 DEF Sound

\* A creation that goes on is about the same task.
LEMMA GoesOnSteps ==
  ASSUME TypeOK, CreationInv, NEW o \in Ops, op[o].pc \in {"store", "settle", "delete"},
         NEW pc \in {"settle", "delete", "retract", "supersede"}, Goto(o, pc)
  PROVE  /\ Alone(o) /\ op'[o].pc = pc /\ op[o].id \in Ids /\ op[o].kind = "create"
         /\ op'[o].kind = op[o].kind /\ op'[o].id = op[o].id
         /\ \A p \in Ops: op'[p].id = op[p].id
         /\ \A p \in Ops, t \in Ids: (Concerns(p, t)' <=> Concerns(p, t)) /\ (Rewrites(p, t)' <=> Rewrites(p, t))
         /\ \A p \in Ops \ {o}: op[p].pc \in Making \cup {"card"} => op[p].id # op[o].id /\ op[p].id \in Ids
         /\ \A t \in Ids \ {op[o].id}, pcs \in SUBSET Making: Creating(t, pcs)' <=> Creating(t, pcs)
<1>1. Alone(o) /\ op'[o].pc = pc /\ op'[o].kind = op[o].kind /\ op'[o].id = op[o].id /\ op'[o].old = op[o].old
  BY SteppedOn
<1>2. op[o].id \in Ids /\ op[o].kind = "create"
  BY DEF TypeOK, CreationInv, Making
<1>3. \A p \in Ops, t \in Ids: (Concerns(p, t)' <=> Concerns(p, t)) /\ (Rewrites(p, t)' <=> Rewrites(p, t))
  BY <1>1 DEF Alone, Concerns, Rewrites, At
<1>4. \A p \in Ops \ {o}: op[p].pc \in Making \cup {"card"} => op[p].id # op[o].id /\ op[p].id \in Ids
  BY DEF TypeOK, CreationInv, Making
<1>5. \A t \in Ids \ {op[o].id}, pcs \in SUBSET Making: Creating(t, pcs)' <=> Creating(t, pcs)
  BY <1>1 DEF Alone, Creating
<1> QED
  BY <1>1, <1>2, <1>3, <1>4, <1>5 DEF Alone

\* A creation that goes on, and changes no row but its own, stays apart from the others.
LEMMA CreationGoesOn ==
  ASSUME TypeOK, CreationInv, NEW o \in Ops, op[o].pc \in {"store", "settle", "delete"},
         NEW pc \in {"settle", "delete", "retract", "supersede"}, Goto(o, pc),
         UNCHANGED card, \A t \in Ids \ {op[o].id}: task'[t] = task[t],
         pc \in {"settle", "delete"} => task'[op[o].id].state # "none"
  PROVE  CreationInv'
<1>1. /\ Alone(o) /\ op'[o].pc = pc /\ op[o].id \in Ids /\ op[o].kind = "create"
      /\ op'[o].kind = op[o].kind /\ op'[o].id = op[o].id
      /\ \A p \in Ops, t \in Ids: Concerns(p, t)' <=> Concerns(p, t)
      /\ \A p \in Ops \ {o}: op[p].pc \in Making \cup {"card"} => op[p].id # op[o].id /\ op[p].id \in Ids
  BY GoesOnSteps
<1>2. \A p \in Ops \ {o}: op'[p] = op[p]
  BY <1>1 DEF Alone
<1>3. \A t \in Ids: card'[t] = "none" => task'[t].state = "none"
  <2>1. card[op[o].id] # "none"
    BY <1>1 DEF CreationInv, Concerns
  <2> QED
    BY <2>1 DEF CreationInv
<1>4. \A p, q \in Ops: op'[p].pc \in Making \cup {"card"} /\ op'[q].pc \in Making \cup {"card"} /\ op'[p].id = op'[q].id
                        => p = q
  BY <1>1, <1>2 DEF CreationInv
<1>5. \A p \in Ops: op'[p].pc \in Making \cup {"card", "supersede"} => op'[p].kind = "create"
  BY <1>1, <1>2 DEF CreationInv
<1>6. \A p \in Ops, t \in Ids: Concerns(p, t)' => card'[t] # "none"
  BY <1>1 DEF CreationInv
<1>7. \A p \in Ops: op'[p].pc = "store" => task'[op'[p].id].state = "none" /\ card'[op'[p].id] # "retracted"
  BY <1>1, <1>2 DEF CreationInv, Making
<1>8. \A p \in Ops: op'[p].pc \in {"settle", "delete"} => task'[op'[p].id].state # "none"
  BY <1>1, <1>2 DEF CreationInv, Making
<1>9. \A p \in Ops: op'[p].pc = "card" => card'[op'[p].id] = "none"
  BY <1>1, <1>2 DEF CreationInv
<1> QED
  BY <1>3, <1>4, <1>5, <1>6, <1>7, <1>8, <1>9 DEF CreationInv

\* A creation stores its row, and is then the one that has to look for others.
LEMMA StoreSound ==
  ASSUME TypeOK, Sound, NEW o \in Ops, NEW stored \in BOOLEAN, NEW answered \in BOOLEAN, StoreTask(o, stored, answered)
  PROVE  Sound'
<1> DEFINE pc == IF answered THEN "settle" ELSE "retract"
<1>0. PICK t \in Ids: t = op[o].id
  BY DEF StoreTask, At, TypeOK
<1>1. /\ op[o].pc = "store" /\ Goto(o, pc) /\ (answered => stored) /\ UNCHANGED card
      /\ task' = IF stored THEN [task EXCEPT ![t] = Created] ELSE task
      /\ excuse \subseteq excuse' /\ excuse' \subseteq excuse \cup {"order", "answer"}
      /\ stored /\ ~answered => "answer" \in excuse'
      /\ stored /\ Overtaken(t) => "order" \in excuse'
      /\ ~stored => excuse' = excuse
  BY <1>0 DEF StoreTask, At
<1>2. /\ Alone(o) /\ op'[o].pc = pc /\ t \in Ids /\ op[o].kind = "create"
      /\ op'[o].kind = op[o].kind /\ op'[o].id = t
      /\ \A p \in Ops, u \in Ids: Rewrites(p, u)' <=> Rewrites(p, u)
      /\ \A p \in Ops \ {o}: op[p].pc \in Making => op[p].id # t /\ op[p].id \in Ids
      /\ \A u \in Ids \ {t}, pcs \in SUBSET Making: Creating(u, pcs)' <=> Creating(u, pcs)
  BY <1>0, <1>1, GoesOnSteps DEF Sound
<1>3. /\ task[t].state = "none" /\ card[t] # "retracted"
      /\ Creating(t, {"store"}) /\ Creating(t, Making) /\ Creating(t, Making)'
  BY <1>0, <1>1, <1>2 DEF Sound, CreationInv, Creating, Making
<1>4. /\ \A u \in Ids \ {t}: task'[u] = task[u]
      /\ stored => task'[t] = Created /\ task'[t].state = "created"
      /\ ~stored => task' = task
  BY <1>1, <1>2 DEF TypeOK, Created, NoRow
<1>5. CreationInv'
  BY <1>0, <1>1, <1>3, <1>4, CreationGoesOn DEF Sound
<1>6. SettledInv'
  <2> SUFFICES ASSUME Clean' PROVE SettledInv'
    BY DEF SettledInv
  <2>1. Clean /\ (answered \/ ~stored) /\ (stored => ~Overtaken(t))
    BY <1>1 DEF Clean
  <2>2. ~Stands(t)'
    <3>1. answered => Creating(t, {"settle", "delete"})'
      BY <1>2 DEF Creating
    <3>2. ~answered => ~Active(task'[t])
      BY <1>3, <1>4, <2>1 DEF Active
    <3> QED
      BY <3>1, <3>2 DEF Stands
  <2>3. \A u \in Ids \ {t}: /\ Stands(u)' <=> Stands(u)
                            /\ Creating(u, {"settle"})' <=> Creating(u, {"settle"})
    BY <1>2, <1>4 DEF Stands, Making
  <2>4. ASSUME NEW x \in Ids, Stands(x)', Active(task'[t]) PROVE x < t
    <3>1. x # t /\ Stands(x) /\ stored
      BY <1>3, <1>4, <2>2, <2>3, <2>4 DEF Active
    <3>2. ~(t < x)
      BY <2>1, <3>1 DEF Overtaken
    <3> QED
      BY <3>1, <3>2, ConstantsAssumption DEF ConstantsAssumption
  <2>5. \A x \in Ids: \A u \in Ids \ {x}: Stands(x)' =>
          /\ ~Stands(u)'
          /\ Active(task'[u]) /\ Creating(u, {"settle"})' => x < u
    BY <1>4, <2>1, <2>2, <2>3, <2>4 DEF Sound, SettledInv
  <2> QED
    BY <2>5 DEF SettledInv
<1>7. CardInv'
  <2>1. \A u \in Ids: Creating(u, Making)' <=> Creating(u, Making)
    BY <1>2, <1>3
  <2>2. \A u \in Ids: Made(u) => Made(u)'
    BY <1>3, <1>4, <2>1 DEF Made
  <2>3. UnusedInv'
    BY <1>1, <1>2, <1>3, <1>4, <2>1, <2>2 DEF Sound, CardInv, UnusedInv
  <2>4. GoneInv'
    <3>1. \A p \in Ops \ {o}: op'[p] = op[p]
      BY <1>2 DEF Alone
    <3>2. ASSUME excuse' \cap {"delete", "answer"} = {} PROVE excuse \cap {"delete", "answer"} = {} /\ (answered \/ ~stored)
      BY <1>1, <3>2
    <3> QED
      BY <1>0, <1>1, <1>2, <1>3, <1>4, <3>1, <3>2 DEF Sound, CardInv, GoneInv, At, Making
  <2>5. ShownInv'
    BY <1>1, <1>3, <1>4, <2>1 DEF Sound, CardInv, ShownInv
  <2> QED
    BY <2>3, <2>4, <2>5 DEF CardInv
<1> QED
  BY <1>5, <1>6, <1>7 DEF Sound

\* A creation that has looked for others keeps its row and its card as they are.
LEMMA SettlesInPlace ==
  ASSUME TypeOK, Sound, NEW o \in Ops, op[o].pc = "settle", NEW pc \in {"delete", "supersede"}, Goto(o, pc),
         UNCHANGED <<task, card>>, excuse \subseteq excuse'
  PROVE  CreationInv' /\ CardInv'
<1>0. PICK t \in Ids: t = op[o].id
  BY DEF TypeOK
<1>1. /\ Alone(o) /\ op'[o].pc = pc
      /\ \A p \in Ops: op'[p].id = op[p].id
      /\ \A p \in Ops, u \in Ids: Rewrites(p, u)' <=> Rewrites(p, u)
      /\ \A u \in Ids \ {t}, pcs \in SUBSET Making: Creating(u, pcs)' <=> Creating(u, pcs)
  BY <1>0, GoesOnSteps DEF Sound
<1>2. task[t].state # "none"
  BY <1>0 DEF Sound, CreationInv
<1>3. CreationInv'
  BY <1>0, <1>2, CreationGoesOn DEF Sound
<1>4. /\ \A u \in Ids: Creating(u, Making)' => Creating(u, Making)
      /\ \A u \in Ids \ {t}: Creating(u, Making) => Creating(u, Making)'
  <2>1. Creating(t, Making)
    BY <1>0 DEF Sound, CreationInv, Creating, Making
  <2> QED
    BY <1>1, <2>1
<1>5. \A u \in Ids: Made(u) => Made(u)'
  BY <1>4 DEF Made
<1>6. UnusedInv'
  BY <1>1, <1>4, <1>5 DEF Sound, CardInv, UnusedInv
<1>7. \A p \in Ops: op'[p].pc = "retract" => op[p].pc = "retract"
  BY <1>1 DEF Alone
<1>8. GoneInv'
  BY <1>1, <1>7 DEF Sound, CardInv, GoneInv, At
<1>9. ShownInv'
  BY <1>2, <1>4 DEF Sound, CardInv, ShownInv
<1> QED
  BY <1>3, <1>6, <1>8, <1>9 DEF CardInv

\* A creation that yields to none will be yielded to, and one that yields will not stand.
LEMMA RaceSound ==
  ASSUME TypeOK, Sound, NEW o \in Ops, NEW listing \in SUBSET Ids, SettleRace(o, listing)
  PROVE  Sound'
<1>0. PICK t \in Ids: t = op[o].id
  BY DEF SettleRace, At, TypeOK
<1> DEFINE pc == IF \E u \in listing: YieldsTo(t, u) THEN "delete" ELSE "supersede"
<1>1. /\ op[o].pc = "settle" /\ Goto(o, pc) /\ UNCHANGED <<task, card>> /\ excuse \subseteq excuse'
      /\ ~(LiveIds \subseteq listing \cup {t}) => "index" \in excuse'
  BY <1>0 DEF SettleRace, At, rows
<1>2. CreationInv' /\ CardInv'
  BY <1>1, SettlesInPlace
<1>3. /\ Alone(o) /\ op'[o].pc = pc /\ op[o].kind = "create" /\ op'[o].kind = "create" /\ op'[o].id = t
      /\ \A u \in Ids \ {t}, pcs \in SUBSET Making: Creating(u, pcs)' <=> Creating(u, pcs)
      /\ \A p \in Ops \ {o}: op[p].pc \in Making => op[p].id # t
  BY <1>0, <1>1, GoesOnSteps DEF Sound
<1>4. SettledInv'
  <2> SUFFICES ASSUME Clean' PROVE SettledInv'
    BY DEF SettledInv
  <2>1. Clean /\ LiveIds \subseteq listing \cup {t}
    BY <1>1 DEF Clean
  <2>2. \A u \in Ids: Active(task[u]) => u \in LiveIds
    BY DEF Active, LiveIds
  <2>3. Creating(t, {"settle"}) /\ ~Creating(t, {"settle"})'
    <3>1. \A p \in Ops: op'[p].id = t => p = o \/ op'[p].pc \notin Making
      BY <1>3 DEF Alone
    <3> QED
      BY <1>0, <1>1, <1>3, <3>1 DEF Creating, Making
  <2>4. \A u \in Ids \ {t}: /\ Stands(u)' <=> Stands(u)
                            /\ Creating(u, {"settle"})' <=> Creating(u, {"settle"})
    BY <1>1, <1>3 DEF Stands, Making
  <2>5. \A u \in Ids: u < t \/ u = t \/ t < u
    BY ConstantsAssumption DEF ConstantsAssumption
  <2>6. ASSUME Stands(t)', NEW u \in Ids \ {t} PROVE ~Stands(u) /\ (Active(task[u]) => t < u)
    <3>1. Active(task[t]) /\ pc = "supersede"
      BY <1>1, <1>3, <2>6 DEF Stands, Creating
    <3>2. Active(task[u]) => t < u
      BY <2>1, <2>2, <2>5, <3>1 DEF YieldsTo
    <3>3. Stands(u) => u < t
      BY <2>1, <2>3, <3>1 DEF Sound, SettledInv
    <3>4. Stands(u) => t < u
      BY <3>2 DEF Stands
    <3> QED
      BY <3>2, <3>3, <3>4, ConstantsAssumption DEF ConstantsAssumption
  <2>7. ASSUME NEW x \in Ids, NEW u \in Ids \ {x}, Stands(x)'
        PROVE  ~Stands(u)' /\ (Active(task'[u]) /\ Creating(u, {"settle"})' => x < u)
    <3>1. CASE x = t
      BY <1>1, <2>4, <2>6, <2>7, <3>1
    <3>2. CASE x # t
      <4>1. Stands(x) /\ (u # t => ~Stands(u))
        BY <2>1, <2>4, <2>7, <3>2 DEF Sound, SettledInv
      <4>2. ~Stands(u)'
        BY <2>4, <2>6, <3>2, <4>1
      <4> QED
        BY <1>1, <2>1, <2>3, <2>4, <4>1, <4>2 DEF Sound, SettledInv
    <3> QED
      BY <3>1, <3>2
  <2> QED
    BY <2>7 DEF SettledInv
<1> QED
  BY <1>2, <1>4 DEF Sound

\* A creation that cannot look stands, with an excuse.
LEMMA BlindSound ==
  ASSUME TypeOK, Sound, NEW o \in Ops, SettleBlind(o)
  PROVE  Sound'
<1>1. /\ op[o].pc = "settle" /\ Goto(o, "supersede") /\ UNCHANGED <<task, card>> /\ excuse' = excuse \cup {"read"}
  BY DEF SettleBlind, At, rows
<1>2. CreationInv' /\ CardInv'
  BY <1>1, SettlesInPlace
<1>3. SettledInv'
  BY <1>1 DEF SettledInv, Clean
<1> QED
  BY <1>2, <1>3 DEF Sound

\* The loser of a race takes its row back.
LEMMA DeleteSound ==
  ASSUME TypeOK, Sound, NEW o \in Ops, NEW ok \in BOOLEAN, DeleteLoser(o, ok)
  PROVE  Sound'
<1>0. PICK t \in Ids: t = op[o].id
  BY DEF DeleteLoser, At, TypeOK
<1>1. /\ op[o].pc = "delete" /\ Goto(o, "retract") /\ UNCHANGED card
      /\ task' = IF ok THEN [task EXCEPT ![t] = NoRow] ELSE task
      /\ excuse' = IF ok THEN excuse ELSE excuse \cup {"delete"}
  BY <1>0 DEF DeleteLoser, At
<1>2. /\ Alone(o) /\ op'[o].pc = "retract" /\ op[o].kind = "create" /\ op'[o].kind = "create" /\ op'[o].id = t
      /\ \A p \in Ops, u \in Ids: Rewrites(p, u)' <=> Rewrites(p, u)
      /\ \A u \in Ids \ {t}, pcs \in SUBSET Making: Creating(u, pcs)' <=> Creating(u, pcs)
      /\ \A p \in Ops \ {o}: op[p].pc \in Making => op[p].id # t /\ op[p].id \in Ids
  BY <1>0, <1>1, GoesOnSteps DEF Sound
<1>3. /\ \A u \in Ids \ {t}: task'[u] = task[u]
      /\ ok => task'[t].state = "none"
      /\ ~ok => task' = task
  BY <1>1 DEF TypeOK, NoRow
<1>4. Creating(t, Making) /\ Creating(t, Making)'
  BY <1>0, <1>1, <1>2 DEF Creating, Making
<1>5. CreationInv'
  BY <1>0, <1>1, <1>3, CreationGoesOn DEF Sound
<1>6. SettledInv'
  <2> SUFFICES ASSUME Clean' PROVE SettledInv'
    BY DEF SettledInv
  <2>1. Clean /\ ok
    BY <1>1 DEF Clean
  <2>2. ~Active(task'[t]) /\ ~Stands(t)'
    BY <1>3, <2>1 DEF Active, Stands
  <2>3. \A u \in Ids \ {t}: /\ Stands(u)' <=> Stands(u)
                            /\ Creating(u, {"settle"})' <=> Creating(u, {"settle"})
    BY <1>2, <1>3 DEF Stands, Making
  <2>5. \A x \in Ids: \A u \in Ids \ {x}: Stands(x)' =>
          /\ ~Stands(u)'
          /\ Active(task'[u]) /\ Creating(u, {"settle"})' => x < u
    BY <1>3, <2>1, <2>2, <2>3 DEF Sound, SettledInv
  <2> QED
    BY <2>5 DEF SettledInv
<1>7. CardInv'
  <2>1. \A u \in Ids: Creating(u, Making)' <=> Creating(u, Making)
    BY <1>2, <1>4
  <2>2. \A u \in Ids: Made(u) => Made(u)'
    BY <1>3, <1>4, <2>1 DEF Made
  <2>3. UnusedInv'
    BY <1>1, <1>2, <1>3, <2>1, <2>2 DEF Sound, CardInv, UnusedInv
  <2>4. GoneInv'
    <3>1. \A p \in Ops \ {o}: op'[p] = op[p]
      BY <1>2 DEF Alone
    <3>2. ASSUME excuse' \cap {"delete", "answer"} = {} PROVE excuse \cap {"delete", "answer"} = {} /\ ok
      BY <1>1, <3>2
    <3> QED
      BY <1>1, <1>2, <1>3, <3>1, <3>2 DEF Sound, CardInv, GoneInv, At, Making
  <2>5. ShownInv'
    BY <1>1, <1>3, <1>4, <2>1 DEF Sound, CardInv, ShownInv
  <2> QED
    BY <2>3, <2>4, <2>5 DEF CardInv
<1> QED
  BY <1>5, <1>6, <1>7 DEF Sound

\* A creation whose task is gone retracts its card.
LEMMA RetractSound ==
  ASSUME TypeOK, Sound, NEW o \in Ops, NEW ok \in BOOLEAN, RetractCard(o, ok)
  PROVE  Sound'
<1>0. PICK t \in Ids: t = op[o].id
  BY DEF RetractCard, At, TypeOK
<1>1. /\ op[o].pc = "retract" /\ Return(o) /\ UNCHANGED task
      /\ card' = IF ok THEN [card EXCEPT ![t] = "retracted"] ELSE card
      /\ excuse' = IF ok THEN excuse ELSE excuse \cup {"card"}
  BY <1>0 DEF RetractCard, RetractedCard, At
<1>2. Alone(o) /\ op'[o].pc = "idle" /\ op'[o].old = {} /\ \A u \in Ids: ~Concerns(o, u)'
  BY <1>1, ReturnSteps
<1>3. /\ \A u \in Ids \ {t}: card'[u] = card[u]
      /\ ok => card'[t] = "retracted"
      /\ ~ok => card' = card
      /\ card[t] # "none"
  BY <1>0, <1>1 DEF TypeOK, Sound, CreationInv, Concerns
<1>4. CreationInv'
  BY <1>0, <1>1, <1>2, <1>3, CreationKept DEF Sound, Making
<1>5. SettledInv'
  BY <1>1, <1>2, SettledKept DEF Sound
<1>6. CardInv'
  <2>1. \A u \in Ids: /\ Creating(u, Making)' => Creating(u, Making)
                      /\ u # t /\ Creating(u, Making) => Creating(u, Making)'
    BY <1>0, <1>2, CreatingEnds DEF Making
  <2>2. \A u \in Ids: Made(u) => Made(u)'
    BY <1>1, <2>1 DEF Made
  <2>3. \A p \in Ops, u \in Ids: Rewrites(p, u)' => Rewrites(p, u)
    BY <1>2, RewritesElsewhere DEF At
  <2>4. UnusedInv'
    BY <1>1, <2>1, <2>2, <2>3 DEF Sound, CardInv, UnusedInv
  <2>5. GoneInv'
    <3>1. \A p \in Ops \ {o}: op'[p] = op[p]
      BY <1>2 DEF Alone
    <3>2. excuse \cap {"delete", "answer"} = {} => task[t].state = "none"
      BY <1>0, <1>1 DEF Sound, CardInv, GoneInv, At
    <3> QED
      BY <1>1, <1>2, <1>3, <3>1, <3>2 DEF Sound, CardInv, GoneInv, At
  <2>6. ShownInv'
    <3>1. "retracted" \notin States
      BY DEF States
    <3> QED
      BY <1>1, <1>3, <2>1, <3>1 DEF Sound, CardInv, ShownInv
  <2> QED
    BY <2>4, <2>5, <2>6 DEF CardInv
<1> QED
  BY <1>4, <1>5, <1>6 DEF Sound

\* A creation that goes through its list of shipped tasks remains at that point.
LEMMA SupersedingSteps ==
  ASSUME TypeOK, NEW o \in Ops, op[o].pc = "supersede", NEW old \in SUBSET (Ids \X Rows),
         Step(o, [op[o] EXCEPT !.old = old])
  PROVE  /\ Alone(o) /\ op'[o].pc = "supersede" /\ op'[o].kind = op[o].kind
         /\ op'[o].id = op[o].id /\ op'[o].old = old
<1>0. op[o] \in Calls
  BY DEF TypeOK
<1> DEFINE b == [op[o] EXCEPT !.old = old]
<1>1. b \in Calls /\ b.pc = "supersede" /\ b.kind = op[o].kind /\ b.id = op[o].id /\ b.old = old
  BY <1>0 DEF Calls
<1>2. Step(o, b)
  OBVIOUS
<1> HIDE DEF b
<1> QED
  BY <1>1, <1>2, Stepped

\* A task that is superseded has been shipped, so that no creation is still deciding about it.
LEMMA SupersedeSound ==
  ASSUME TypeOK, Sound, NEW o \in Ops, NEW u \in Ids, NEW ok \in BOOLEAN, Supersede(o, u, ok)
  PROVE  Sound'
<1>1. PICK r \in {p[2] : p \in {q \in op[o].old : q[1] = u}}:
        LET stored == ok /\ Expected(u, "mr_created")
        IN /\ At(o, "supersede") /\ r.state = "mr_created"
           /\ task' = IF stored THEN [task EXCEPT ![u] = [r EXCEPT !.state = "done"]] ELSE task
           /\ Step(o, IF stored THEN [op[o] EXCEPT !.old = (@ \ {<<u, r>>}) \cup {<<u, task'[u]>>}]
                      ELSE [op[o] EXCEPT !.old = @ \ {<<u, r>>}])
           /\ UNCHANGED <<card, excuse>>
  BY DEF Supersede
<1>2. op[o] \in Calls /\ op[o].old \in SUBSET (Ids \X Rows)
  BY DEF TypeOK, Calls
<1>3. r \in Rows /\ <<u, r>> \in op[o].old
  BY <1>2
<1>4. [r EXCEPT !.state = "done"] \in Rows /\ [r EXCEPT !.state = "done"].state = "done"
  BY <1>3 DEF Rows, States
<1> DEFINE stored == ok /\ Expected(u, "mr_created")
           old == IF stored THEN (op[o].old \ {<<u, r>>}) \cup {<<u, [r EXCEPT !.state = "done"]>>} ELSE op[o].old \ {<<u, r>>}
<1>5. /\ stored => task' = [task EXCEPT ![u] = [r EXCEPT !.state = "done"]] /\ task[u].state = "mr_created"
      /\ ~stored => task' = task
      /\ Step(o, [op[o] EXCEPT !.old = old])
  BY <1>1 DEF Expected, TypeOK
<1>6. old \in SUBSET (Ids \X Rows)
  BY <1>2, <1>4
<1>7. /\ \A p \in old: p \in op[o].old \/ (stored /\ p[1] = u)
      /\ op[o].kind = "create" /\ op[o].pc = "supersede"
  BY <1>1 DEF Sound, CreationInv, At
<1> HIDE DEF stored, old
<1>8. Alone(o) /\ op'[o].pc = "supersede" /\ op'[o].kind = "create" /\ op'[o].id = op[o].id /\ op'[o].old = old
  BY <1>5, <1>6, <1>7, SupersedingSteps
<1>9. \A t \in Ids: \/ task'[t] = task[t]
                    \/ stored /\ t = u /\ task[t].state = "mr_created" /\ task'[t].state = "done"
  BY <1>4, <1>5 DEF TypeOK
<1>10. \A t \in Ids: Concerns(o, t)' => Concerns(o, t)
  BY <1>3, <1>7, <1>8 DEF Concerns
<1>11. CreationInv'
  <2>1. \A t \in Ids: Concerns(o, t)' => card[t] # "none"
    BY <1>10 DEF Sound, CreationInv
  <2> QED
    BY <1>1, <1>8, <1>9, <2>1, CreationKept DEF Sound, Making
<1>12. SettledInv'
  <2>1. \A t \in Ids: Active(task'[t]) => Active(task[t])
    BY <1>9 DEF Active, Terminal
  <2> QED
    BY <1>1, <1>7, <1>8, <2>1, SettledKept DEF Sound
<1>13. CardInv'
  <2>1. \A t \in Ids: Creating(t, Making)' <=> Creating(t, Making)
    BY <1>7, <1>8, CreatingElsewhere DEF Making
  <2>2. \A t \in Ids: Made(t) => Made(t)'
    BY <1>9, <2>1 DEF Made
  <2>3. "early" \notin excuse /\ stored => Made(u)'
    BY <1>5, <1>9, <2>1 DEF Made, Sound, CardInv, UnusedInv
  <2>4. \A p \in Ops, t \in Ids: Rewrites(p, t)' => Rewrites(p, t) \/ (stored /\ t = u)
    BY <1>7, <1>8 DEF Rewrites, Alone, At
  <2>5. UnusedInv'
    <3>1. "early" \notin excuse => \A t \in Ids: Creating(t, Making)' => task'[t].state \in {"none", "created"}
      BY <1>9, <2>1 DEF Sound, CardInv, UnusedInv
    <3> QED
      BY <1>1, <2>2, <2>3, <2>4, <3>1 DEF Sound, CardInv, UnusedInv
  <2>6. \A p \in Ops: op'[p].pc = "retract" => op[p].pc = "retract" /\ op'[p].id = op[p].id /\ op[p].id \in Ids
    BY <1>8 DEF Alone, TypeOK
  <2>7. GoneInv'
    <3>1. UNCHANGED <<card, excuse>>
      BY <1>1
    <3>2. \A t \in Ids: task[t].state = "none" => task'[t].state = "none"
      BY <1>9
    <3> QED
      BY <2>6, <3>1, <3>2 DEF Sound, CardInv, GoneInv, At
  <2>8. ShownInv'
    BY <1>1, <1>9, <2>1 DEF Sound, CardInv, ShownInv
  <2> QED
    BY <2>5, <2>7, <2>8 DEF CardInv
<1> QED
  BY <1>11, <1>12, <1>13 DEF Sound

\* The rewrite of a card is about a task that is made, as long as nobody was early.
LEMMA RewriteSound ==
  ASSUME TypeOK, Sound, NEW o \in Ops, NEW t \in Ids, Alone(o), UNCHANGED task, Rewrites(o, t), Concerns(o, t),
         NEW s \in States, NEW ok \in BOOLEAN, card' = IF ok THEN [card EXCEPT ![t] = s] ELSE card,
         excuse' = IF ok THEN excuse ELSE excuse \cup {"card"},
         op[o].pc \in {"refresh", "supersede"}, op'[o].pc \in {"idle", "supersede"},
         op'[o].pc = "supersede" => op'[o].kind = "create" /\ op'[o].id = op[o].id /\ op[o].pc = "supersede",
         op'[o].old \subseteq op[o].old
  PROVE  Sound'
<1>1. /\ \A u \in Ids \ {t}: card'[u] = card[u]
      /\ card'[t] = card[t] \/ card'[t] = s
      /\ s \notin {"none", "retracted"} /\ card[t] # "none"
  BY DEF TypeOK, States, Sound, CreationInv
<1>2. \A u \in Ids: Concerns(o, u)' => card[u] # "none"
  BY DEF Sound, CreationInv, Concerns
<1>3. CreationInv'
  BY <1>1, <1>2, CreationKept DEF Sound, Making
<1>4. SettledInv'
  BY SettledKept DEF Sound
<1>5. CardInv'
  <2>1. \A u \in Ids: Creating(u, Making)' <=> Creating(u, Making)
    BY CreatingElsewhere DEF Making
  <2>2. \A u \in Ids: Made(u) => Made(u)'
    BY <2>1 DEF Made
  <2>3. \A p \in Ops, u \in Ids: Rewrites(p, u)' => Rewrites(p, u)
    BY RewritesElsewhere DEF At
  <2>4. UnusedInv'
    BY <2>1, <2>2, <2>3 DEF Sound, CardInv, UnusedInv
  <2>5. \A p \in Ops: op'[p].pc = "retract" => op[p].pc = "retract" /\ op'[p].id = op[p].id /\ op[p].id \in Ids
    BY DEF Alone, TypeOK
  <2>6. GoneInv'
    BY <1>1, <2>5 DEF Sound, CardInv, GoneInv, At
  <2>7. "early" \notin excuse => task[t].state # "none"
    BY DEF Sound, CardInv, UnusedInv, Made
  <2>8. ShownInv'
    BY <1>1, <2>1, <2>7 DEF Sound, CardInv, ShownInv
  <2> QED
    BY <2>4, <2>6, <2>8 DEF CardInv
<1> QED
  BY <1>3, <1>4, <1>5 DEF Sound

\* So is that of a superseded task.
LEMMA SupersededSound ==
  ASSUME TypeOK, Sound, NEW o \in Ops, NEW u \in Ids, NEW ok \in BOOLEAN, SupersededCard(o, u, ok)
  PROVE  Sound'
<1>1. PICK p \in op[o].old:
        /\ At(o, "supersede") /\ p[1] = u /\ p[2].state = "done"
        /\ card' = IF ok THEN [card EXCEPT ![u] = "done"] ELSE card
        /\ excuse' = IF ok THEN excuse ELSE excuse \cup {"card"}
        /\ Step(o, [op[o] EXCEPT !.old = @ \ {p}])
        /\ UNCHANGED task
  BY DEF SupersededCard
<1>2. op[o] \in Calls /\ op[o].old \ {p} \in SUBSET (Ids \X Rows) /\ op[o].pc = "supersede" /\ op[o].kind = "create"
  BY <1>1 DEF TypeOK, Calls, Sound, CreationInv, At
<1>3. Step(o, [op[o] EXCEPT !.old = op[o].old \ {p}])
  BY <1>1
<1>4. Alone(o) /\ op'[o].pc = "supersede" /\ op'[o].kind = "create" /\ op'[o].id = op[o].id /\ op'[o].old = op[o].old \ {p}
  BY <1>2, <1>3, SupersedingSteps
<1>5. Rewrites(o, u) /\ Concerns(o, u)
  BY <1>1 DEF Rewrites, Concerns
<1>6. "done" \in States
  BY DEF States
<1> QED
  BY <1>1, <1>2, <1>4, <1>5, <1>6, RewriteSound

\* A call that is no creation with a card and goes to start a run, or returns, disturbs nothing.
LEMMA LeaveSound ==
  ASSUME TypeOK, Sound, NEW o \in Ops, UNCHANGED <<task, card>>, excuse \subseteq excuse', op[o].pc \notin Making,
         Return(o) \/ \E t \in Ids, w \in People: Starts(o, t, w) /\ card[t] # "none"
  PROVE  Sound'
<1>1. CASE Return(o)
  BY <1>1, ReturnSteps, Bystander DEF Making
<1>2. ASSUME NEW t \in Ids, NEW w \in People, Starts(o, t, w), card[t] # "none" PROVE Sound'
  BY <1>2, StartSteps, Bystander DEF Making
<1> QED
  BY <1>1, <1>2

\* Creations keep what they know of one another.
LEMMA CreateSound ==
  ASSUME TypeOK, Sound, NEW o \in Ops, CreateStep(o)
  PROVE  Sound'
<1>1. CASE AllSuperseded(o)
  <2>1. op[o].pc = "supersede" /\ op[o].id \in Ids /\ Concerns(o, op[o].id)
    BY <1>1 DEF AllSuperseded, At, TypeOK, Concerns
  <2>2. card[op[o].id] # "none"
    BY <2>1 DEF Sound, CreationInv
  <2> QED
    BY <1>1, <2>1, <2>2, LeaveSound DEF AllSuperseded, Making, People, rows
<1>2. CASE Kick(o)
  BY <1>2, LeaveSound DEF Kick, Making, rows, At
<1> QED
  BY <1>1, <1>2, ListSound, PostSound, StoreSound, RaceSound, BlindSound, DeleteSound,
     RetractSound, SupersedeSound, SupersededSound DEF CreateStep

\* A call that has read a row disturbs nothing.
LEMMA ReadSound ==
  ASSUME TypeOK, Sound, NEW o \in Ops, NEW kind, NEW t \in Ids, NEW w \in People, NEW r \in Rows, NEW pc \in Carrying,
         HoldsFor(o, kind, pc, t, w, r),
         kind \in {"report", "plan", "mr", "mrown", "signoff", "steering", "close", "pin"},
         op[o].pc \notin Making, task[t].state # "none", UNCHANGED <<task, card, excuse>>
  PROVE  Sound'
<1>1. card[t] # "none"
  BY DEF Sound, CreationInv
<1>2. Alone(o) /\ op'[o].pc = pc /\ op'[o].old = {} /\ \A u \in Ids: Concerns(o, u)' => u = t
  BY HoldsSteps
<1> QED
  BY <1>1, <1>2, Bystander DEF Carrying, Making

\* The same in the requester's name.
LEMMA OwnSound ==
  ASSUME TypeOK, Sound, NEW o \in Ops, NEW kind, NEW t \in Ids, NEW r \in Rows, NEW pc \in Carrying, Holds(o, kind, pc, t, r),
         kind \in {"report", "plan", "mr", "mrown", "signoff", "steering", "close", "pin"},
         op[o].pc \notin Making, task[t].state # "none", UNCHANGED <<task, card, excuse>>
  PROVE  Sound'
  BY ReadSound DEF Holds, People

\* A call that goes on to its write disturbs nothing.
LEMMA OnSound ==
  ASSUME TypeOK, Sound, NEW o \in Ops, op[o].pc \in {"consume", "claim"}, Goto(o, "write"), UNCHANGED <<task, card, excuse>>
  PROVE  Sound'
<1>1. Alone(o) /\ op'[o].pc = "write" /\ op'[o].id = op[o].id /\ op'[o].old = op[o].old
  BY SteppedOn
<1>2. \A t \in Ids: Concerns(o, t)' => card[t] # "none"
  BY <1>1 DEF Concerns, Sound, CreationInv
<1> QED
  BY <1>1, <1>2, Bystander DEF Making

\* A write is no creation, before or after.
LEMMA WriteSteps ==
  ASSUME TypeOK, Sound, NEW o \in Ops, op[o].pc = "write", Step(o, AfterWrite(op[o])) \/ Step(o, Idle)
  PROVE  /\ Alone(o) /\ op'[o].pc \in {"idle", "again", "kick", "refresh"} /\ op'[o].old = {}
         /\ \A t \in Ids: Concerns(o, t)' => t = op[o].id
         /\ \A t \in Ids, pcs \in SUBSET Making: Creating(t, pcs)' <=> Creating(t, pcs)
         /\ \A p \in Ops, t \in Ids: Rewrites(p, t)' => Rewrites(p, t) \/ (t = op[o].id /\ Step(o, AfterWrite(op[o])))
<1>1. op[o] \in Calls /\ op[o].id \in Ids
  BY DEF TypeOK
<1>2. /\ AfterWrite(op[o]).pc \in {"idle", "again", "kick", "refresh"} /\ AfterWrite(op[o]).old = {}
      /\ AfterWrite(op[o]).pc # "idle" => AfterWrite(op[o]).id = op[o].id
      /\ AfterWrite(op[o]) \in Calls
  <2> DEFINE b == op[o]
             again == [Idle EXCEPT !.kind = "plan", !.pc = "again", !.id = b.id]
             after == [Idle EXCEPT !.kind = b.kind, !.pc = "refresh", !.id = b.id, !.copy.state = b.copy.state]
  <2>1. again.pc = "again" /\ again.old = {} /\ again.id = b.id
    BY DEF Idle
  <2>2. after.pc = "refresh" /\ after.old = {} /\ after.id = b.id
    BY DEF Idle
  <2>3. Starting(b.id, Requester).pc = "kick" /\ Starting(b.id, Requester).old = {} /\ Starting(b.id, Requester).id = b.id
    BY DEF Idle, Starting
  <2>4. Idle.pc = "idle" /\ Idle.old = {}
    BY DEF Idle
  <2>5. AfterWrite(b) \in {again, Starting(b.id, Requester), after, Idle}
    BY DEF AfterWrite
  <2>6. AfterWrite(b) \in Calls
    BY <1>1, AfterWriteType
  <2> HIDE DEF again, after
  <2> QED
    BY <2>1, <2>2, <2>3, <2>4, <2>5, <2>6
<1>3. Idle \in Calls /\ Idle.pc = "idle" /\ Idle.old = {}
  BY IdleType DEF Idle
<1>4. /\ Alone(o) /\ op'[o].pc \in {"idle", "again", "kick", "refresh"} /\ op'[o].old = {}
      /\ op'[o].pc # "idle" => op'[o].id = op[o].id
      /\ op'[o].pc # "idle" => Step(o, AfterWrite(op[o]))
  <2>1. CASE Step(o, AfterWrite(op[o]))
    BY <1>2, <2>1, Stepped
  <2>2. CASE Step(o, Idle)
    BY <1>3, <2>2, Stepped
  <2> QED
    BY <2>1, <2>2
<1>5. \A t \in Ids: Concerns(o, t)' => t = op[o].id
  BY <1>4 DEF Concerns
<1>6. \A t \in Ids, pcs \in SUBSET Making: Creating(t, pcs)' <=> Creating(t, pcs)
  BY <1>4 DEF Creating, Alone, Making
<1>7. \A p \in Ops, t \in Ids: Rewrites(p, t)' => Rewrites(p, t) \/ (t = op[o].id /\ Step(o, AfterWrite(op[o])))
  BY <1>4 DEF Rewrites, Alone, At
<1> QED
  BY <1>4, <1>5, <1>6, <1>7

\* A write makes a task active only when it was shipped, and then there is an excuse if there
\* is another one.
LEMMA WriteSound ==
  ASSUME TypeOK, WordInv, Sound, NEW o \in Ops, NEW stored \in BOOLEAN, NEW answered \in BOOLEAN, Write(o, stored, answered)
  PROVE  Sound'
<1>0. PICK t \in Ids: t = op[o].id
  BY DEF Write, At, TypeOK
<1> DEFINE fits == Expected(t, op[o].expect)
<1>1. /\ op[o].pc = "write" /\ UNCHANGED card
      /\ Step(o, AfterWrite(op[o])) \/ Step(o, Idle)
      /\ Step(o, AfterWrite(op[o])) => (fits /\ stored) \/ Step(o, Idle)
      /\ fits /\ stored => task' = [task EXCEPT ![t] = op[o].copy] /\ excuse' = excuse \cup Excusing(op[o])
      /\ ~(fits /\ stored) => task' = task /\ excuse' = excuse
  BY <1>0 DEF Write, At
<1>2. /\ Alone(o) /\ op'[o].pc \in {"idle", "again", "kick", "refresh"} /\ op'[o].old = {}
      /\ \A u \in Ids: Concerns(o, u)' => u = t
      /\ \A u \in Ids, pcs \in SUBSET Making: Creating(u, pcs)' <=> Creating(u, pcs)
  BY <1>0, <1>1, WriteSteps
<1>3. op[o].expect \in States /\ op[o].copy.state \in States /\ CanTransition(op[o].expect, op[o].copy.state)
  BY <1>1 DEF WordInv, GoodCall, Carrying
<1>4. excuse \subseteq excuse'
  BY <1>1
<1> DEFINE puts == fits /\ stored
<1>5. /\ \A u \in Ids \ {t}: task'[u] = task[u]
      /\ puts => task[t].state = op[o].expect /\ task'[t] = op[o].copy
      /\ ~puts => task' = task
  BY <1>1 DEF TypeOK, Expected
<1>6. \A u \in Ids: task'[u].state = "none" <=> task[u].state = "none"
  BY <1>3, <1>5 DEF States
<1> HIDE DEF fits
<1>7. card[t] # "none"
  BY <1>0, <1>1 DEF Sound, CreationInv, Concerns
<1>8. CreationInv'
  BY <1>1, <1>2, <1>6, <1>7, CreationKept DEF Sound, Making
<1>9. SettledInv'
  <2>1. CASE puts /\ op[o].expect = "mr_created" /\ Active(op[o].copy)
    <3> SUFFICES ASSUME Clean' PROVE SettledInv'
      BY DEF SettledInv
    <3>1. "bounce" \notin Excusing(op[o])
      BY <1>1, <2>1 DEF Clean
    <3>2. (\A u \in Ids \ {t}: ~Active(task[u])) /\ \A p \in Ops: op[p].kind # "create"
      BY <1>0, <2>1, <3>1 DEF Excusing
    <3>3. \A u \in Ids, pcs \in SUBSET Making: ~Creating(u, pcs)'
      BY <1>2, <3>2 DEF Creating
    <3>4. \A u \in Ids \ {t}: ~Stands(u)'
      BY <1>5, <3>2 DEF Stands
    <3> QED
      BY <3>3, <3>4 DEF SettledInv, Making
  <2>2. CASE ~(puts /\ op[o].expect = "mr_created" /\ Active(op[o].copy))
    <3>1. \A u \in Ids: Active(task'[u]) => Active(task[u])
      <4>1. puts /\ Active(op[o].copy) => Active(task[t])
        <5>1. op[o].expect \in Terminal => op[o].copy.state = op[o].expect
          BY <1>3, Lifecycle
        <5> QED
          BY <1>3, <1>5, <2>2, <5>1 DEF Active, States
      <4> QED
        BY <1>5, <4>1
    <3> QED
      BY <1>1, <1>2, <1>4, <3>1, SettledKept DEF Sound
  <2> QED
    BY <2>1, <2>2
<1>10. CardInv'
  <2>1. \A u \in Ids: Made(u) => Made(u)'
    BY <1>2, <1>6 DEF Made
  <2>2. puts /\ "early" \notin excuse' => ~Creating(t, Making) /\ Made(t)'
    <3>1. puts /\ "early" \notin excuse' => ~Creating(t, {"settle", "delete", "retract"})
      BY <1>0, <1>1 DEF Excusing
    <3>2. puts => ~Creating(t, {"store"})
      BY <1>3, <1>5 DEF Creating, Sound, CreationInv, States
    <3>3. puts /\ "early" \notin excuse' => ~Creating(t, Making)
      BY <3>1, <3>2 DEF Creating, Making
    <3>4. puts => task[t].state # "none"
      BY <1>3, <1>5 DEF States
    <3> QED
      BY <1>2, <1>6, <3>3, <3>4 DEF Made
  <2>3. \A p \in Ops, u \in Ids: Rewrites(p, u)' => Rewrites(p, u) \/ (puts /\ u = t)
    <3>1. CASE puts
      BY <1>0, <1>1, <3>1, WriteSteps
    <3>2. CASE ~puts
      <4>1. Step(o, Idle) /\ Return(o)
        BY <1>1, <3>2 DEF Return
      <4> QED
        BY <4>1, ReturnSteps, RewritesElsewhere DEF At
    <3> QED
      BY <3>1, <3>2
  <2>4. UnusedInv'
    <3>1. "early" \notin excuse' => \A u \in Ids: Creating(u, Making)' => task'[u].state \in {"none", "created"}
      BY <1>2, <1>4, <1>5, <2>2 DEF Sound, CardInv, UnusedInv
    <3> QED
      BY <1>4, <2>1, <2>2, <2>3, <3>1 DEF Sound, CardInv, UnusedInv
  <2>5. \A p \in Ops: op'[p].pc = "retract" => op[p].pc = "retract" /\ op'[p].id = op[p].id /\ op[p].id \in Ids
    BY <1>2 DEF Alone, TypeOK
  <2>6. GoneInv'
    BY <1>1, <1>4, <1>6, <2>5 DEF Sound, CardInv, GoneInv, At
  <2>7. ShownInv'
    BY <1>1, <1>2, <1>4, <1>6 DEF Sound, CardInv, ShownInv
  <2> QED
    BY <2>4, <2>6, <2>7 DEF CardInv
<1> QED
  BY <1>8, <1>9, <1>10 DEF Sound

\* The other calls keep what creations know of one another.
LEMMA CallSound ==
  ASSUME TypeOK, WordInv, Sound, NEW o \in Ops, CallStep(o)
  PROVE  Sound'
<1>0. {"write", "consume", "claim"} \subseteq Carrying /\ "idle" \notin Making
  BY DEF Carrying, Making
<1>c. ASSUME NEW t \in Ids
      PROVE  /\ task[t] \in Rows
             /\ \A s \in States, mr \in BOOLEAN: /\ [task[t] EXCEPT !.state = s] \in Rows
                                                /\ [task[t] EXCEPT !.state = s, !.mr = @ \/ mr] \in Rows
             /\ [task[t] EXCEPT !.signed = TRUE] \in Rows
             /\ [task[t] EXCEPT !.open = ~@] \in Rows
             /\ \A m \in Runners: [task[t] EXCEPT !.pin = m] \in Rows
  <2>1. task[t] \in Rows
    BY DEF TypeOK
  <2> QED
    BY <2>1 DEF Rows
<1>d. \A t \in Ids: task[t].state # "none" => card[t] # "none"
  BY DEF Sound, CreationInv
<1>1. ASSUME NEW t \in Ids, NEW s \in Reported \cup {task[t].state}, NEW mr \in BOOLEAN, Report(o, t, s, mr) PROVE Sound'
  <2>1. s \in States
    <3>1. task[t].state \in States
      BY <1>1 DEF Report, TypeOK, Rows
    <3> QED
      BY <3>1, ConstantsAssumption DEF ConstantsAssumption
  <2> QED
    BY <1>0, <1>1, <1>c, <2>1, OwnSound DEF Report, Free, rows
<1>2. ASSUME NEW t \in Ids, PublishTestPlan(o, t) PROVE Sound'
  BY <1>0, <1>2, <1>c, OwnSound DEF PublishTestPlan, Free, rows
<1>3. ASSUME NEW t \in Ids, NEW w \in People, NEW which \in {"mr", "mrown"}, RequestMRWith(o, t, w, which) PROVE Sound'
  BY <1>0, <1>3, <1>c, ReadSound DEF RequestMRWith, Asks, Free, rows
<1>4. ASSUME NEW t \in Ids, SignOff(o, t) PROVE Sound'
  <2>1. CASE task[t].signed
    BY <1>0, <1>4, <1>d, <2>1, LeaveSound DEF SignOff, People, Free, rows
  <2>2. CASE ~task[t].signed
    BY <1>0, <1>4, <1>c, <2>2, OwnSound DEF SignOff, Free, rows
  <2> QED
    BY <2>1, <2>2
<1>5. ASSUME NEW t \in Ids, SetSteering(o, t) PROVE Sound'
  BY <1>0, <1>5, <1>c, OwnSound DEF SetSteering, Free, rows
<1>6. ASSUME NEW t \in Ids, Steer(o, t) PROVE Sound'
  BY <1>0, <1>6, <1>d, LeaveSound DEF Steer, People, LiveIds, Free, rows
<1>7. ASSUME NEW t \in Ids, NEW s \in Terminal, Close(o, t, s) PROVE Sound'
  <2>1. s \in States
    BY DEF Terminal, States
  <2> QED
    BY <1>0, <1>7, <1>c, <2>1, OwnSound DEF Close, Free, rows
<1>8. ASSUME NEW t \in Ids, NEW m \in Runners, ClaimRead(o, m, t) PROVE Sound'
  BY <1>0, <1>8, <1>c, OwnSound DEF ClaimRead, Free, rows
<1>9. CASE ReportPlan(o)
  <2>1. op[o].pc = "again" /\ op[o].id \in Ids /\ "awaiting_user_test" \in States
    BY <1>9 DEF ReportPlan, At, TypeOK, States
  <2>2. op[o].pc \notin Making /\ UNCHANGED <<task, card, excuse>>
    BY <1>9, <2>1 DEF ReportPlan, Making, rows
  <2>3. CASE Return(o)
    BY <2>2, <2>3, LeaveSound
  <2>4. CASE ~Return(o)
    BY <1>0, <1>9, <1>c, <2>1, <2>2, <2>4, OwnSound DEF ReportPlan
  <2> QED
    BY <2>3, <2>4
<1>10. CASE ConsumeApproval(o)
  <2>1. op[o].pc = "consume" /\ UNCHANGED <<task, card, excuse>> /\ (Goto(o, "write") \/ Return(o))
    BY <1>10 DEF ConsumeApproval, At, rows
  <2> QED
    BY <2>1, OnSound, LeaveSound DEF Making
<1>11. CASE ClaimRun(o)
  <2>1. op[o].pc = "claim" /\ UNCHANGED <<task, card, excuse>> /\ (Goto(o, "write") \/ Return(o))
    BY <1>11 DEF ClaimRun, At, rows
  <2> QED
    BY <2>1, OnSound, LeaveSound DEF Making
<1>12. ASSUME NEW ok \in BOOLEAN, RefreshCard(o, ok) PROVE Sound'
  <2>0. PICK t \in Ids: t = op[o].id
    BY <1>12 DEF RefreshCard, At, TypeOK
  <2>1. op[o].pc = "refresh" /\ Return(o) /\ UNCHANGED task /\ op[o].copy.state \in States
    BY <1>12 DEF RefreshCard, At, WordInv, GoodCall
  <2>2. Alone(o) /\ op'[o].pc = "idle" /\ op'[o].old = {}
    BY <2>1, ReturnSteps
  <2>3. Rewrites(o, t) /\ Concerns(o, t)
    BY <2>0, <2>1 DEF Rewrites, Concerns, At
  <2>4. /\ card' = IF ok THEN [card EXCEPT ![t] = op[o].copy.state] ELSE card
        /\ excuse' = IF ok THEN excuse ELSE excuse \cup {"card"}
    BY <1>12, <2>0 DEF RefreshCard
  <2>5. PICK s \in States: s = op[o].copy.state
    BY <2>1
  <2> QED
    BY <2>1, <2>2, <2>3, <2>4, <2>5, RewriteSound
<1>13. CASE Crash(o)
  <2>1. Return(o) /\ UNCHANGED <<task, card>> /\ excuse' = excuse \cup {"crash"}
    BY <1>13 DEF Crash, rows
  <2>2. Alone(o) /\ op'[o].pc = "idle" /\ op'[o].old = {} /\ \A t \in Ids: ~Concerns(o, t)'
    BY <2>1, ReturnSteps
  <2>3. CreationInv'
    BY <2>1, <2>2, CreationKept DEF Sound, Making
  <2>4. SettledInv'
    BY <2>1 DEF SettledInv, Clean
  <2>5. CardInv'
    <3>1. \A u \in Ids: Creating(u, Making)' => Creating(u, Making)
      BY <2>2, CreatingEnds DEF Making
    <3>2. \A u \in Ids: Made(u) => Made(u)'
      BY <2>1, <3>1 DEF Made
    <3>3. \A p \in Ops, u \in Ids: Rewrites(p, u)' => Rewrites(p, u)
      BY <2>2, RewritesElsewhere DEF At
    <3>4. UnusedInv'
      BY <2>1, <3>1, <3>2, <3>3 DEF Sound, CardInv, UnusedInv
    <3>5. GoneInv'
      BY <2>1, <2>2 DEF Sound, CardInv, GoneInv, At, Alone
    <3>6. ShownInv'
      BY <2>1 DEF ShownInv
    <3> QED
      BY <3>4, <3>5, <3>6 DEF CardInv
  <2> QED
    BY <2>3, <2>4, <2>5 DEF Sound
<1>14. ASSUME NEW t \in Ids, NEW w \in Members, Mention(o, t, w) PROVE Sound'
  BY <1>0, <1>14, <1>d, LeaveSound DEF Mention, People, LiveIds, Free, rows
<1> QED
  BY <1>1, <1>2, <1>3, <1>4, <1>5, <1>6, <1>7, <1>8, <1>9, <1>10, <1>11, <1>12, <1>13, <1>14, WriteSound DEF CallStep

\* A step that changes no row, card, call or excuse.
LEMMA SoundStutters ==
  ASSUME Sound, UNCHANGED <<task, card, op, excuse>>
  PROVE  Sound'
<1>1. \A pcs: \A t \in Ids: Creating(t, pcs)' <=> Creating(t, pcs)
  BY DEF Creating
<1>2. \A t \in Ids: (Made(t)' <=> Made(t)) /\ (Stands(t)' <=> Stands(t))
  BY <1>1 DEF Made, Stands
<1>3. \A o \in Ops, t \in Ids: (Rewrites(o, t)' <=> Rewrites(o, t)) /\ (Concerns(o, t)' <=> Concerns(o, t))
  BY DEF Rewrites, Concerns, At
<1>4. CreationInv'
  BY <1>3 DEF Sound, CreationInv
<1>5. SettledInv'
  BY <1>1, <1>2 DEF Sound, SettledInv, Clean
<1>6. CardInv'
  BY <1>1, <1>2, <1>3 DEF Sound, CardInv, UnusedInv, GoneInv, ShownInv, At
<1> QED
  BY <1>4, <1>5, <1>6 DEF Sound

\* At the start no creation is in flight, and only the first task may have its row and its card.
LEMMA InitSound == Init => Sound
<1> SUFFICES ASSUME Init PROVE Sound
  OBVIOUS
<1>1. PICK s \in Existing, open \in BOOLEAN:
        /\ task = [t \in Ids |-> IF First(t) THEN [Arrived(s) EXCEPT !.open = open] ELSE NoRow]
        /\ card = [t \in Ids |-> IF First(t) THEN s ELSE "none"]
  BY DEF Init
<1>2. \A t \in Ids: /\ task[t].state = card[t] /\ card[t] \in {"none", s}
                    /\ First(t) => card[t] = s
                    /\ ~First(t) => card[t] = "none"
  BY <1>1 DEF Arrived, NoRow
<1>3. \A o \in Ops: op[o].pc = "idle" /\ op[o].old = {}
  BY DEF Init, Idle
<1>4. \A t \in Ids: ~Creating(t, Making) /\ ~Creating(t, {"settle"})
  BY <1>3 DEF Creating, Making
<1>5. s \notin {"retracted"}
  BY ConstantsAssumption DEF ConstantsAssumption
<1>6. CreationInv
  <2>1. \A o \in Ops, t \in Ids: ~Concerns(o, t)
    BY <1>3 DEF Concerns
  <2> QED
    BY <1>2, <1>3, <2>1 DEF CreationInv, Making
<1>7. SettledInv
  <2>1. \A t, u \in Ids: First(t) /\ First(u) => t = u
    BY ConstantsAssumption DEF ConstantsAssumption, First
  <2>2. \A t \in Ids: Stands(t) => First(t)
    BY <1>2 DEF Stands, Active
  <2> QED
    BY <1>4, <2>1, <2>2 DEF SettledInv
<1>8. CardInv
  <2>1. \A o \in Ops: ~At(o, "retract") /\ \A t \in Ids: ~Rewrites(o, t)
    BY <1>3 DEF Rewrites, At
  <2>2. UnusedInv
    BY <1>4, <2>1 DEF UnusedInv
  <2>3. GoneInv
    BY <1>2, <1>5, <2>1 DEF GoneInv
  <2>4. ShownInv
    BY <1>2 DEF ShownInv, States
  <2> QED
    BY <2>2, <2>3, <2>4 DEF CardInv
<1> QED
  BY <1>6, <1>7, <1>8 DEF Sound

\* The inductive invariant: rows, cards and the creations in flight know of one another.
THEOREM CreationsSound == Spec => [](CreationInv /\ SettledInv /\ CardInv)
<1>1. TypeOK /\ WordInv /\ Sound /\ [Next]_vars => Sound'
  <2> SUFFICES ASSUME TypeOK, WordInv, Sound, [Next]_vars PROVE Sound'
    OBVIOUS
  <2>1. CASE WorldStep
    <3>1. UNCHANGED <<task, card, op, excuse>>
      BY <2>1 DEF WorldStep, RequestMR, RunEnds, Decide, MachineTurns, rows
    <3> QED
      BY <3>1, SoundStutters
  <2>2. CASE UNCHANGED vars
    <3>1. UNCHANGED <<task, card, op, excuse>>
      BY <2>2 DEF vars, rows
    <3> QED
      BY <3>1, SoundStutters
  <2> QED
    BY <2>1, <2>2, CreateSound, CallSound DEF Next
<1>2. Sound => CreationInv /\ SettledInv /\ CardInv
  BY DEF Sound
<1> QED
  BY <1>1, <1>2, InitSound, WordSound, PTL DEF Spec

\* Concurrent creations settle on one task, unless something is on record that kept them from it.
THEOREM OneSettles == Spec => []OneActive
<1>1. SettledInv => OneActive
  <2> SUFFICES ASSUME SettledInv, NEW t \in Ids, NEW u \in Ids, t # u, Stands(t), Stands(u)
               PROVE  excuse \cap {"answer", "order", "index", "read", "delete", "bounce", "crash"} # {}
    BY DEF OneActive
  <2>1. ~Clean
    BY DEF SettledInv
  <2> QED
    BY <2>1 DEF Clean
<1> QED
  BY <1>1, CreationsSound, PTL

\* A card for a task that does not exist says so, and the card of one that exists shows it.
THEOREM CardsTell == Spec => []CardTellsTruth
<1>1. CreationInv /\ CardInv => CardTellsTruth
  <2> SUFFICES ASSUME CardInv, NEW t \in Ids, ~Creating(t, Making)
               PROVE  /\ card[t] \in States /\ task[t].state = "none" => excuse \cap {"post", "card", "crash", "early"} # {}
                      /\ card[t] = "retracted" /\ task[t].state # "none" => excuse \cap {"delete", "answer"} # {}
    BY DEF CardTellsTruth, Making
  <2> QED
    BY DEF CardInv, GoneInv, ShownInv
<1> QED
  BY <1>1, CreationsSound, PTL

=============================================================================
