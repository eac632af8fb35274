------------------------- MODULE DeploymentsProofs -------------------------
(***************************************************************************)
(* Theorems about Deployments, for any processes, requests and manifests.  *)
(***************************************************************************)
EXTENDS Deployments, MigrationsProofs, SequenceTheorems

Word == {"plan", "sync", "blocked", "error"}

-----------------------------------------------------------------------------
(* What the operators return.                                              *)

LEMMA PlannedType == \A target \in Target : Planned(target) \in Target \cup {None}
BY DEF Planned, Target

LEMMA NormalizedType ==
    \A body \in Bodies :
        [body EXCEPT !.target = Normalized(@)] \in [action : Action, target : Target]
<1> SUFFICES ASSUME NEW body \in Bodies
             PROVE  [body EXCEPT !.target = Normalized(@)]
                        \in [action : Action, target : Target]
  OBVIOUS
<1>1. body \in [action : Action, target : Target \cup {"k8s"}]
  BY Instance
<1>2. Normalized(body.target) \in Target
  BY <1>1 DEF Normalized, Target
<1> QED
  BY <1>1, <1>2

LEMMA PreflightType == \A checks : PreflightStatus(checks) \in Verdict
BY DEF PreflightStatus, Verdict

LEMMA HealthType == HealthStatuses \subseteq Health
BY DEF HealthStatuses, Health

\* A row that is rewritten keeps its id, the other rows stay.
LEMMA UpsertKeeps ==
    ASSUME TypeOK, NEW t \in Target, NEW row \in Record, Upsert(t, row)
    PROVE  /\ deployments' \in [Target -> Record \cup {None}]
           /\ deployments'[t] \in Record
           /\ deployments'[t].by = row.by
           /\ deployments'[t].id = IF deployments[t] = None THEN row.id ELSE deployments[t].id
           /\ \A u \in Target : u # t => deployments'[u] = deployments[u]
<1>1. deployments \in [Target -> Record \cup {None}]
  BY DEF TypeOK
<1>2. CASE deployments[t] = None
  BY <1>1, <1>2 DEF Upsert
<1>3. CASE deployments[t] # None
  <2>1. deployments[t] \in Record
    BY <1>1, <1>3
  <2> DEFINE new == [deployments[t] EXCEPT !.by = row.by, !.status = row.status]
  <2>2. new \in Record /\ new.by = row.by /\ new.id = deployments[t].id
    BY <2>1 DEF Record
  <2>3. deployments' = [deployments EXCEPT ![t] = new]
    BY <1>3 DEF Upsert
  <2> HIDE DEF new
  <2> QED
    BY <1>1, <1>3, <2>2, <2>3
<1> QED
  BY <1>2, <1>3

\* What a request has of an operation, with one field set.
LEMMA OperationWith ==
    ASSUME NEW op \in Operation
    PROVE  /\ op.status \in {"succeeded", "failed"}
           /\ op.planned \in Target \cup {None}
           /\ op.record \in Requests \cup {None}
           /\ op.completed \in Nat
           /\ \A n \in Nat : [op EXCEPT !.completed = n] \in Operation
           /\ \A id \in Requests : [op EXCEPT !.record = id] \in Operation
           /\ [op EXCEPT !.status = "failed"] \in Operation
BY DEF Operation

\* Sequences of one and of two words.
LEMMA Words ==
    ASSUME NEW S, NEW a \in S, NEW b \in S
    PROVE  /\ Append(<<>>, a) = <<a>> /\ Head(<<a>>) = a /\ Tail(<<a>>) = <<>>
           /\ Append(<<a>>, b) = <<a, b>> /\ Head(<<a, b>>) = a /\ Tail(<<a, b>>) = <<b>>
           /\ <<a>> # <<>>
<1>1. <<>> \in Seq(S) /\ <<a>> \in Seq(S) /\ <<b>> \in Seq(S) /\ <<a, b>> \in Seq(S)
  OBVIOUS
<1>2. Len(<<>>) = 0 /\ Len(<<a>>) = 1 /\ Len(<<b>>) = 1 /\ Len(<<a, b>>) = 2
  OBVIOUS
<1>3. Append(<<>>, a) = <<a>>
  <2>1. Append(<<>>, a) \in Seq(S) /\ Len(Append(<<>>, a)) = 1 /\ Append(<<>>, a)[1] = a
    BY <1>1
  <2> QED
    BY <1>1, <1>2, <2>1, SeqEqual
<1>4. Append(<<a>>, b) = <<a, b>>
  <2> DEFINE s == Append(<<a>>, b)
             t == <<a, b>>
  <2>1. s \in Seq(S) /\ Len(s) = 2 /\ s[1] = a /\ s[2] = b
    BY <1>1
  <2>2. t \in Seq(S) /\ Len(t) = 2 /\ t[1] = a /\ t[2] = b
    BY <1>1
  <2> HIDE DEF s, t
  <2>3. \A i \in 1..Len(s) : s[i] = t[i]
    BY <2>1, <2>2
  <2>4. s = t
    BY <2>1, <2>2, <2>3, SeqEqual
  <2> QED
    BY <2>4 DEF s, t
<1>5. Tail(<<a>>) = <<>>
  <2>1. Tail(<<a>>) \in Seq(S) /\ Len(Tail(<<a>>)) = 0
    BY <1>1, <1>2, HeadTailProperties
  <2> QED
    BY <1>1, <1>2, <2>1, SeqEqual
<1>6. Tail(<<a, b>>) = <<b>>
  <2>1. Tail(<<a, b>>) \in Seq(S) /\ Len(Tail(<<a, b>>)) = 1 /\ Tail(<<a, b>>)[1] = b
    BY <1>1, <1>2, HeadTailProperties
  <2> QED
    BY <1>1, <1>2, <2>1, SeqEqual
<1>7. Head(<<a>>) = a /\ Head(<<a, b>>) = a /\ <<a>> # <<>>
  BY <1>2
<1> QED
  BY <1>3, <1>4, <1>5, <1>6, <1>7

-----------------------------------------------------------------------------
(* The invariant.                                                          *)

\* No record is of r's making.
Unmarked(r) ==
    \A t \in Target : deployments[t] # None =>
        deployments[t].id # r /\ deployments[t].by # r

\* What an operation says of a record is so, stored or not.
Consistent(r, operation) ==
    /\ ask[r] # None /\ ask[r].action \in Operating
    /\ operation.record # None <=> ask[r].action = "sync" /\ operation.status = "succeeded"
    /\ operation.record # None =>
          /\ operation.planned \in Target
          /\ deployments[operation.planned] # None
          /\ deployments[operation.planned].id = operation.record
    /\ operation.record = None => Unmarked(r)

\* What r is about to write is what the story of its operation wants next.
Telling(r) ==
    LET story == Story(operations[r]) IN
    /\ events[r] \in {<<>>, <<story[1]>>, story}
    /\ pc[r] = "events" =>
          \/ events[r] = <<>> /\ pending[r] = story
          \/ Len(story) = 2 /\ events[r] = <<story[1]>> /\ pending[r] = <<story[2]>>
    /\ pc[r] = "done" => events[r] = story

Before(r) ==
    /\ pc[r] \in {"new", "lookup", "upsert", "row", "read"} => operations[r] = None
    /\ pc[r] = "events" => operations[r] # None
    /\ InFlight(r) => ask[r] # None
    /\ pc[r] \in {"new", "lookup", "upsert"} => Unmarked(r)
    /\ pc[r] \in {"new", "lookup", "read"} => draft[r] = NoDraft
    /\ pc[r] = "upsert" /\ ask[r].action = "sync" =>
          /\ draft[r].planned \in Target
          /\ draft[r].status = "succeeded"
          /\ pending[r] = <<"plan">>
    /\ pc[r] = "row" => Consistent(r, draft[r]) /\ pending[r] = Story(draft[r])

After(r) ==
    /\ operations[r] = None => events[r] = <<>>
    /\ operations[r] # None => Consistent(r, operations[r]) /\ Telling(r)

Judging(r) ==
    /\ verdict[r] # None => pc[r] \in {"read", "done"}
    /\ pc[r] = "read" => verdict[r] \in Verdict \cup {None}
    /\ pc[r] = "done" /\ verdict[r] = "passed" =>
          ask[r] # None /\ deployments[ask[r].target] # None

RequestOK(r) == Before(r) /\ After(r) /\ Judging(r)

\* r has synced t, or its row has yet to say so.
Synced(r, t) ==
    \/ operations[r] # None /\ operations[r].record # None /\ operations[r].planned = t
    \/ pc[r] = "row" /\ draft[r].record # None /\ draft[r].planned = t

LatestOK ==
    \A t \in Target : deployments[t] # None =>
        \A earlier, later \in Requests :
            /\ operations[earlier] # None
            /\ Synced(later, t)
            /\ operations[earlier].completed < began[later]
            => deployments[t].by # earlier

UnknownOK ==
    \A r, o \in Requests :
        verdict[r] = "unknown" /\ operations[o] # None /\ operations[o].record # None =>
            began[r] < operations[o].completed

Inv ==
    /\ TypeOK
    /\ AppliedOK
    /\ \A r \in Requests : RequestOK(r)
    /\ LatestOK
    /\ UnknownOK

LEMMA InvInit == Init => Inv
<1> SUFFICES ASSUME Init PROVE Inv
  OBVIOUS
<1> USE DEF Init
<1>1. MigrationTypeOK /\ AppliedOK
  BY MigrationInvInit DEF MigrationInv
<1>2. TypeOK
  <2>1. NoDraft \in Operation
    BY DEF NoDraft, Operation
  <2> QED
    BY <1>1, <2>1 DEF TypeOK
<1>3. ASSUME NEW r \in Requests PROVE RequestOK(r)
  BY Instance DEF RequestOK, Before, After, Judging, Unmarked, InFlight
<1>4. LatestOK /\ UnknownOK
  BY Instance DEF LatestOK, UnknownOK
<1> QED
  BY <1>1, <1>2, <1>3, <1>4 DEF Inv

-----------------------------------------------------------------------------
(* The types.                                                              *)

LEMMA MigrationsGoOn ==
    ASSUME TypeOK, AppliedOK, [Next]_vars
    PROVE  MigrationTypeOK' /\ AppliedOK'
<1>1. MigrationInv
  BY DEF MigrationInv, TypeOK
<1>2. MigrationNext \/ UNCHANGED migrationVars
  BY DEF Next, Bring, Die, MigrationNext, Operate, Begin, Missing, PlanFails, Plan, Sync,
         InsertOperation, AppendEvent, FindWorkload, RecordDeployment, CheckManifest,
         CheckRecords, CheckHealth, Fail, RegisterWorkload, vars
<1> QED
  BY <1>1, <1>2, MigrationStep, MigrationInvStutter DEF MigrationInv

LEMMA ForgetType ==
    ASSUME TypeOK, NEW dead, Forget(dead)
    PROVE  /\ ask' \in [Requests -> [action : Action, target : Target] \cup {None}]
           /\ began' \in [Requests -> 0..clock]
           /\ at' \in [Requests -> Gateways \cup {None}]
           /\ pc' \in [Requests -> {"new", "lookup", "upsert", "row", "events", "read",
                                    "done", "gone"}]
           /\ draft' \in [Requests -> Operation]
           /\ pending' \in [Requests -> Seq(Word)]
           /\ verdict' \in [Requests -> Verdict \cup Health \cup {None}]
<1>1. NoDraft \in Operation
  BY DEF NoDraft, Operation
<1>2. <<>> \in Seq(Word)
  OBVIOUS
<1> QED
  BY <1>1, <1>2 DEF TypeOK, Forget, Word

\* The operation of r as its steps draft it.
LEMMA PlanFailsDrafts ==
    ASSUME TypeOK, NEW r \in Requests, PlanFails(r)
    PROVE  /\ draft' \in [Requests -> Operation]
           /\ draft'[r].status = "failed"
           /\ draft'[r].planned = draft[r].planned
           /\ draft'[r].record = draft[r].record
           /\ \A q \in Requests : q # r => draft'[q] = draft[q]
<1> DEFINE new == [draft[r] EXCEPT !.status = "failed"]
<1>1. draft \in [Requests -> Operation] /\ draft[r] \in Operation
  BY DEF TypeOK
<1>2. /\ new \in Operation
      /\ new.status = "failed"
      /\ new.planned = draft[r].planned
      /\ new.record = draft[r].record
  BY <1>1 DEF Operation
<1>3. draft' = [draft EXCEPT ![r] = new]
  BY DEF PlanFails
<1> HIDE DEF new
<1> QED
  BY <1>1, <1>2, <1>3

LEMMA PlanDrafts ==
    ASSUME TypeOK, NEW r \in Requests, Plan(r), ask[r].target \in Target
    PROVE  /\ draft' \in [Requests -> Operation]
           /\ draft'[r].status = IF ask[r].action \in Blocked THEN "failed" ELSE "succeeded"
           /\ draft'[r].planned = Planned(ask[r].target)
           /\ draft'[r].record = draft[r].record
           /\ \A q \in Requests : q # r => draft'[q] = draft[q]
<1> DEFINE status == IF ask[r].action \in Blocked THEN "failed" ELSE "succeeded"
           planned == Planned(ask[r].target)
           new == [[draft[r] EXCEPT !.planned = planned] EXCEPT !.status = status]
<1>1. draft \in [Requests -> Operation] /\ draft[r] \in Operation
  BY DEF TypeOK
<1>2. planned \in Target \cup {None} /\ status \in {"succeeded", "failed"}
  BY PlannedType
<1>3. draft' = [draft EXCEPT ![r].planned = planned, ![r].status = status]
  BY DEF Plan
<1> HIDE DEF planned, status
<1>4. /\ new \in Operation
      /\ new.status = status
      /\ new.planned = planned
      /\ new.record = draft[r].record
  BY <1>1, <1>2 DEF Operation
<1>5. draft' = [draft EXCEPT ![r] = new]
  BY <1>1, <1>3
<1> HIDE DEF new
<1>6. /\ draft' \in [Requests -> Operation]
      /\ draft'[r].status = status
      /\ draft'[r].planned = planned
      /\ draft'[r].record = draft[r].record
      /\ \A q \in Requests : q # r => draft'[q] = draft[q]
  BY <1>1, <1>4, <1>5
<1> QED
  BY <1>6 DEF planned, status

LEMMA SyncDrafts ==
    ASSUME TypeOK, NEW r \in Requests, Sync(r), draft[r].planned \in Target
    PROVE  /\ deployments' \in [Target -> Record \cup {None}]
           /\ deployments'[draft[r].planned] \in Record
           /\ deployments'[draft[r].planned].by = r
           /\ deployments'[draft[r].planned].id =
                 IF deployments[draft[r].planned] = None THEN r
                 ELSE deployments[draft[r].planned].id
           /\ \A u \in Target : u # draft[r].planned => deployments'[u] = deployments[u]
           /\ draft' \in [Requests -> Operation]
           /\ draft'[r].status = draft[r].status
           /\ draft'[r].planned = draft[r].planned
           /\ draft'[r].record = deployments'[draft[r].planned].id
           /\ \A q \in Requests : q # r => draft'[q] = draft[q]
<1> DEFINE t == draft[r].planned
<1>1. PICK status \in Reported : Upsert(t, [id |-> r, by |-> r, status |-> status])
  BY DEF Sync
<1>2. [id |-> r, by |-> r, status |-> status] \in Record
  BY DEF Record
<1>3. /\ deployments' \in [Target -> Record \cup {None}]
      /\ deployments'[t] \in Record
      /\ deployments'[t].by = r
      /\ deployments'[t].id = IF deployments[t] = None THEN r ELSE deployments[t].id
      /\ \A u \in Target : u # t => deployments'[u] = deployments[u]
  BY <1>1, <1>2, UpsertKeeps
<1> DEFINE id == deployments'[t].id
           new == [draft[r] EXCEPT !.record = id]
<1>4. id \in Requests
  BY <1>3 DEF Record
<1>5. draft \in [Requests -> Operation] /\ draft[r] \in Operation
  BY DEF TypeOK
<1>6. draft' = [draft EXCEPT ![r] = new]
  BY DEF Sync
<1>7. /\ new \in Operation
      /\ new.status = draft[r].status
      /\ new.planned = draft[r].planned
      /\ new.record = id
  <2> HIDE DEF id
  <2> QED
    BY <1>4, <1>5 DEF Operation
<1> HIDE DEF new
<1> QED
  BY <1>3, <1>5, <1>6, <1>7

LEMMA InsertedOperation ==
    ASSUME TypeOK, NEW r \in Requests, InsertOperation(r)
    PROVE  /\ operations' \in [Requests -> Operation \cup {None}]
           /\ operations'[r] # None
           /\ operations'[r].status = draft[r].status
           /\ operations'[r].planned = draft[r].planned
           /\ operations'[r].record = draft[r].record
           /\ operations'[r].completed = clock + 1
           /\ \A q \in Requests : q # r => operations'[q] = operations[q]
<1> DEFINE new == [draft[r] EXCEPT !.completed = clock + 1]
<1>1. operations \in [Requests -> Operation \cup {None}] /\ draft[r] \in Operation
  BY DEF TypeOK
<1>2. clock + 1 \in Nat
  BY DEF TypeOK
<1>3. /\ new \in Operation
      /\ new.status = draft[r].status
      /\ new.planned = draft[r].planned
      /\ new.record = draft[r].record
      /\ new.completed = clock + 1
  BY <1>1, <1>2 DEF Operation
<1>4. operations' = [operations EXCEPT ![r] = new]
  BY DEF InsertOperation
<1> HIDE DEF new
<1> QED
  BY <1>1, <1>3, <1>4, Instance

\* A request in flight has a target.
LEMMA AskTarget ==
    ASSUME Inv, NEW r \in Requests, InFlight(r)
    PROVE  ask[r] # None /\ ask[r].action \in Action /\ ask[r].target \in Target
BY DEF Inv, TypeOK, RequestOK, Before

LEMMA RecordDeploymentKeeps ==
    ASSUME TypeOK, NEW r \in Requests, RecordDeployment(r), ask[r] # None
    PROVE  /\ deployments' \in [Target -> Record \cup {None}]
           /\ ask[r].target \in Target
           /\ deployments'[ask[r].target] \in Record
           /\ deployments'[ask[r].target].by = None
           /\ deployments'[ask[r].target].id =
                 IF deployments[ask[r].target] = None THEN r
                 ELSE deployments[ask[r].target].id
           /\ \A u \in Target : u # ask[r].target => deployments'[u] = deployments[u]
<1>1. ask[r].target \in Target
  BY DEF TypeOK
<1>2. PICK status \in Reported :
        Upsert(ask[r].target, [id |-> r, by |-> None, status |-> status])
  BY DEF RecordDeployment
<1>3. [id |-> r, by |-> None, status |-> status] \in Record
  BY DEF Record
<1> QED
  BY <1>1, <1>2, <1>3, UpsertKeeps

LEMMA TypeStep ==
    ASSUME Inv, Next
    PROVE  TypeOK'
<1>1. MigrationTypeOK'
  BY MigrationsGoOn DEF Inv
<1> USE DEF Word
<1>2. ASSUME NEW p \in Processes, Bring(p) PROVE TypeOK'
  BY <1>1, <1>2 DEF Inv, TypeOK, Bring, rows, asking, drafting
<1>3. ASSUME NEW p \in Processes, Die(p) PROVE TypeOK'
  BY <1>1, <1>3, ForgetType DEF Inv, TypeOK, Die, rows
<1>4. ASSUME NEW r \in Requests, Fail(r) PROVE TypeOK'
  BY <1>1, <1>4, ForgetType DEF Inv, TypeOK, Fail, rows
<1>5. ASSUME RegisterWorkload PROVE TypeOK'
  BY <1>1, <1>5 DEF Inv, TypeOK, RegisterWorkload, asking, drafting
<1>6. ASSUME NEW r \in Requests, Begin(r) PROVE TypeOK'
  BY <1>1, <1>6, NormalizedType, Instance DEF Inv, TypeOK, Begin, Goto, rows, drafting
<1>7. ASSUME NEW r \in Requests, Missing(r) PROVE TypeOK'
  BY <1>1, <1>7, ForgetType DEF Inv, TypeOK, Missing, rows
<1>8. ASSUME NEW r \in Requests, PlanFails(r) PROVE TypeOK'
  <2>1. <<"error">> \in Seq(Word)
    OBVIOUS
  <2> QED
    BY <1>1, <1>8, <2>1, PlanFailsDrafts DEF Inv, TypeOK, PlanFails, Goto, rows, asking
<1>9. ASSUME NEW r \in Requests, Plan(r) PROVE TypeOK'
  <2>1. <<"plan">> \in Seq(Word) /\ <<"plan", "blocked">> \in Seq(Word)
    OBVIOUS
  <2> QED
    BY <1>1, <1>9, <2>1, AskTarget, PlanDrafts
    DEF Inv, TypeOK, Plan, Goto, rows, asking, InFlight
<1>10. ASSUME NEW r \in Requests, Sync(r) PROVE TypeOK'
  <2>1. draft[r].planned \in Target
    BY <1>10 DEF Inv, RequestOK, Before, Sync
  <2>2. Append(pending[r], "sync") \in Seq(Word)
    BY DEF Inv, TypeOK
  <2>3. /\ deployments' \in [Target -> Record \cup {None}]
        /\ draft' \in [Requests -> Operation]
    BY <1>10, <2>1, SyncDrafts DEF Inv
  <2>4. /\ pending' \in [Requests -> Seq(Word)]
        /\ UNCHANGED <<registry, operations, events, clock, asking, verdict>>
    BY <1>10, <2>2 DEF Inv, TypeOK, Sync
  <2>5. pc' \in [Requests -> {"new", "lookup", "upsert", "row", "events", "read", "done",
                             "gone"}]
    BY <1>10 DEF Inv, TypeOK, Sync, Goto
  <2> HIDE DEF Inv
  <2>6. TypeOK
    BY DEF Inv
  <2> QED
    BY <1>1, <2>3, <2>4, <2>5, <2>6 DEF TypeOK, asking
<1>11. ASSUME NEW r \in Requests, InsertOperation(r) PROVE TypeOK'
  <2>1. /\ TypeOK
        /\ clock' = clock + 1
        /\ UNCHANGED <<registry, deployments, events, asking, drafting, verdict>>
    BY <1>11 DEF Inv, InsertOperation
  <2>2. pc' \in [Requests -> {"new", "lookup", "upsert", "row", "events", "read", "done",
                             "gone"}]
    BY <1>11 DEF Inv, TypeOK, InsertOperation, Goto
  <2>3. operations' \in [Requests -> Operation \cup {None}]
    BY <1>11, <2>1, InsertedOperation
  <2> QED
    BY <1>1, <2>1, <2>2, <2>3 DEF TypeOK, asking, drafting
<1>12. ASSUME NEW r \in Requests, AppendEvent(r) PROVE TypeOK'
  <2>1. operations[r] # None /\ pending[r] # <<>>
    BY <1>12 DEF Inv, RequestOK, Before, After, Telling, Story, AppendEvent
  <2>2. Append(events[r], Head(pending[r])) \in Seq(Word) /\ Tail(pending[r]) \in Seq(Word)
    BY <2>1 DEF Inv, TypeOK
  <2> QED
    BY <1>1, <1>12, <2>2 DEF Inv, TypeOK, AppendEvent, Goto, asking
<1>13. ASSUME NEW r \in Requests, FindWorkload(r) PROVE TypeOK'
  BY <1>1, <1>13 DEF Inv, TypeOK, FindWorkload, Goto, rows, asking, drafting
<1>14. ASSUME NEW r \in Requests, RecordDeployment(r) PROVE TypeOK'
  <2>1. ask[r] # None
    BY <1>14 DEF Inv, RequestOK, Before, InFlight, RecordDeployment
  <2> QED
    BY <1>1, <1>14, <2>1, RecordDeploymentKeeps
    DEF Inv, TypeOK, RecordDeployment, Goto, asking, drafting
<1>15. ASSUME NEW r \in Requests, CheckManifest(r) PROVE TypeOK'
  BY <1>1, <1>15, PreflightType DEF Inv, TypeOK, CheckManifest, Goto, rows, asking, drafting
<1>16. ASSUME NEW r \in Requests, CheckRecords(r) PROVE TypeOK'
  BY <1>1, <1>16, PreflightType DEF Inv, TypeOK, CheckRecords, Goto, rows, asking, drafting
<1>17. ASSUME NEW r \in Requests, CheckHealth(r) PROVE TypeOK'
  BY <1>1, <1>17, HealthType DEF Inv, TypeOK, CheckHealth, Goto, rows, asking, drafting
<1> QED
  BY <1>2, <1>3, <1>4, <1>5, <1>6, <1>7, <1>8, <1>9, <1>10, <1>11, <1>12, <1>13, <1>14,
     <1>15, <1>16, <1>17 DEF Next, Operate

-----------------------------------------------------------------------------
(* What is true of one request.                                            *)

LEMMA NoVerdict == None # "passed" /\ None # "unknown"
BY Instance DEF Verdict, Health

\* The steps of others leave a request as it is: rows keep their ids.
LEMMA OthersKeep ==
    ASSUME Inv, NEW q \in Requests,
           pc'[q] = pc[q], ask'[q] = ask[q], draft'[q] = draft[q],
           pending'[q] = pending[q], operations'[q] = operations[q],
           events'[q] = events[q], verdict'[q] = verdict[q],
           \A t \in Target : deployments[t] # None =>
               deployments'[t] # None /\ deployments'[t].id = deployments[t].id,
           Unmarked(q) => Unmarked(q)'
    PROVE  RequestOK(q)'
<1>1. ASSUME NEW op \in Operation, Consistent(q, op) PROVE Consistent(q, op)'
  BY <1>1 DEF Consistent
<1>2. draft[q] \in Operation /\ operations[q] \in Operation \cup {None}
  BY DEF Inv, TypeOK
<1>3. Before(q)'
  <2>1. pc[q] = "row" => Consistent(q, draft[q])'
    BY <1>1, <1>2 DEF Inv, RequestOK, Before
  <2>2. pc[q] = "row" => Consistent(q, draft[q])' /\ draft'[q] = draft[q]
    BY <2>1
  <2> QED
    BY <2>2 DEF Inv, RequestOK, Before, InFlight, Consistent
<1>4. After(q)'
  <2>1. operations[q] # None => Consistent(q, operations[q])'
    BY <1>1, <1>2 DEF Inv, RequestOK, After
  <2>2. operations[q] # None => Telling(q)'
    BY DEF Inv, RequestOK, After, Telling
  <2> QED
    BY <2>1, <2>2 DEF Inv, RequestOK, After, Consistent
<1>5. Judging(q)'
  BY DEF Inv, TypeOK, RequestOK, Judging
<1> QED
  BY <1>3, <1>4, <1>5 DEF RequestOK

LEMMA ForgetKeeps ==
    ASSUME Inv, NEW dead, Forget(dead), UNCHANGED rows, NEW q \in Requests
    PROVE  RequestOK(q)'
<1>1. CASE q \notin dead
  BY <1>1, OthersKeep DEF Forget, rows, Unmarked
<1>2. CASE q \in dead
  <2>1. pc'[q] = "gone" /\ verdict'[q] = None /\ (operations[q] # None => ask'[q] = ask[q])
    BY <1>2 DEF Forget
  <2>2. UNCHANGED <<deployments, operations, events>>
    BY DEF rows
  <2>3. Before(q)' /\ Judging(q)'
    BY <2>1 DEF Before, Judging, InFlight
  <2>4. After(q)'
    BY <2>1, <2>2 DEF Inv, RequestOK, After, Consistent, Unmarked, Telling
  <2> QED
    BY <2>3, <2>4 DEF RequestOK
<1> QED
  BY <1>1, <1>2

\* A step of r that leaves the records alone leaves the other requests alone.
LEMMA OwnStep ==
    ASSUME Inv, NEW r \in Requests, Operate(r), ~Missing(r), deployments' = deployments,
           NEW q \in Requests, q # r
    PROVE  RequestOK(q)'
<1>1. /\ pc'[q] = pc[q] /\ ask'[q] = ask[q] /\ draft'[q] = draft[q]
      /\ pending'[q] = pending[q] /\ operations'[q] = operations[q]
      /\ events'[q] = events[q] /\ verdict'[q] = verdict[q]
  <2> USE DEF Inv, TypeOK, Goto, rows, asking, drafting
  <2>1. CASE Begin(r)
    BY <2>1 DEF Begin
  <2>2. CASE PlanFails(r)
    BY <2>2 DEF PlanFails
  <2>3. CASE Plan(r)
    BY <2>3 DEF Plan
  <2>4. CASE Sync(r)
    BY <2>4 DEF Sync
  <2>5. CASE InsertOperation(r)
    BY <2>5 DEF InsertOperation
  <2>6. CASE AppendEvent(r)
    BY <2>6 DEF AppendEvent
  <2>7. CASE FindWorkload(r)
    BY <2>7 DEF FindWorkload
  <2>8. CASE RecordDeployment(r)
    BY <2>8 DEF RecordDeployment
  <2>9. CASE CheckManifest(r)
    BY <2>9 DEF CheckManifest
  <2>10. CASE CheckRecords(r)
    BY <2>10 DEF CheckRecords
  <2>11. CASE CheckHealth(r)
    BY <2>11 DEF CheckHealth
  <2> QED
    BY <2>1, <2>2, <2>3, <2>4, <2>5, <2>6, <2>7, <2>8, <2>9, <2>10, <2>11 DEF Operate
<1> QED
  BY <1>1, OthersKeep DEF Unmarked

LEMMA PlanStep ==
    ASSUME Inv, NEW r \in Requests, PlanFails(r) \/ Plan(r)
    PROVE  RequestOK(r)'
<1>1. /\ pc[r] = "lookup" /\ ask[r] # None /\ ask[r].action \in Operating
      /\ ask[r].target \in Target
      /\ draft[r] = NoDraft /\ operations[r] = None /\ events[r] = <<>> /\ verdict[r] = None
      /\ Unmarked(r)
  BY AskTarget DEF Inv, RequestOK, Before, After, Judging, InFlight, PlanFails, Plan
<1>2. /\ UNCHANGED <<deployments, operations, events, ask, verdict>>
  BY DEF PlanFails, Plan, rows, asking
<1>3. Unmarked(r)'
  BY <1>1, <1>2 DEF Unmarked
<1>4. CASE PlanFails(r)
  <2>1. /\ draft'[r].status = "failed" /\ draft'[r].planned = None /\ draft'[r].record = None
        /\ pending'[r] = <<"error">> /\ pc'[r] = "row"
    <3>1. draft'[r].status = "failed" /\ draft'[r].planned = None /\ draft'[r].record = None
      BY <1>1, <1>4, PlanFailsDrafts DEF Inv, NoDraft
    <3>2. pending'[r] = <<"error">> /\ pc'[r] = "row"
      BY <1>4 DEF Inv, TypeOK, PlanFails, Goto
    <3> QED
      BY <3>1, <3>2
  <2>2. Consistent(r, draft[r])'
    BY <1>1, <1>2, <1>3, <2>1 DEF Consistent
  <2>3. Story(draft[r])' = <<"error">>
    BY <2>1 DEF Story
  <2> QED
    BY <1>1, <1>2, <2>1, <2>2, <2>3 DEF RequestOK, Before, After, Judging, InFlight
<1>5. CASE Plan(r)
  <2>1. /\ draft'[r].status = IF ask[r].action \in Blocked THEN "failed" ELSE "succeeded"
        /\ draft'[r].planned \in Target /\ draft'[r].record = None
    <3>1. Planned(ask[r].target) \in Target
      BY <1>1, <1>5, PlannedType DEF Plan
    <3>2. draft[r].record = None
      BY <1>1 DEF NoDraft
    <3> QED
      BY <1>1, <1>5, <3>1, <3>2, PlanDrafts DEF Inv
  <2>2. /\ pending'[r] = IF ask[r].action \in Blocked THEN <<"plan", "blocked">> ELSE <<"plan">>
        /\ pc'[r] = IF ask[r].action = "sync" THEN "upsert" ELSE "row"
    BY <1>5 DEF Inv, TypeOK, Plan, Goto
  <2>3. ask[r].action # "sync" => Consistent(r, draft[r])'
    BY <1>1, <1>2, <1>3, <2>1 DEF Consistent
  <2>4. ask[r].action # "sync" => pending'[r] = Story(draft[r])'
    BY <2>1, <2>2, Instance DEF Story
  <2>5. ask[r].action = "sync" => draft'[r].status = "succeeded" /\ pending'[r] = <<"plan">>
    BY <2>1, <2>2 DEF Blocked
  <2> QED
    BY <1>1, <1>2, <1>3, <2>1, <2>2, <2>3, <2>4, <2>5
    DEF RequestOK, Before, After, Judging, InFlight
<1> QED
  BY <1>4, <1>5

\* A record rewritten by r, as anybody sees it.
Rewritten(r, t) ==
    /\ deployments'[t] # None
    /\ deployments'[t].id = IF deployments[t] = None THEN r ELSE deployments[t].id
    /\ deployments'[t].by \in {r, None}
    /\ \A u \in Target : u # t => deployments'[u] = deployments[u]

LEMMA RewrittenKeeps ==
    ASSUME TypeOK, NEW r \in Requests, NEW t \in Target, Rewritten(r, t)
    PROVE  /\ \A u \in Target : deployments[u] # None =>
                  deployments'[u] # None /\ deployments'[u].id = deployments[u].id
           /\ \A q \in Requests : q # r /\ Unmarked(q) => Unmarked(q)'
BY Instance DEF Rewritten, Unmarked

LEMMA SyncStep ==
    ASSUME Inv, NEW r \in Requests, Sync(r), NEW q \in Requests
    PROVE  /\ RequestOK(q)'
           /\ draft[r].planned \in Target
           /\ Rewritten(r, draft[r].planned)
           /\ deployments'[draft[r].planned].by = r
<1>1. /\ pc[r] = "upsert" /\ ask[r] # None /\ ask[r].action = "sync"
      /\ draft[r].planned \in Target /\ draft[r].status = "succeeded"
      /\ pending[r] = <<"plan">>
      /\ operations[r] = None /\ events[r] = <<>> /\ verdict[r] = None
  BY DEF Inv, RequestOK, Before, After, Judging, InFlight, Sync
<1>2. /\ deployments'[draft[r].planned] \in Record
      /\ deployments'[draft[r].planned].by = r
      /\ deployments'[draft[r].planned].id =
            IF deployments[draft[r].planned] = None THEN r
            ELSE deployments[draft[r].planned].id
      /\ \A u \in Target : u # draft[r].planned => deployments'[u] = deployments[u]
      /\ draft'[r].status = draft[r].status
      /\ draft'[r].planned = draft[r].planned
      /\ draft'[r].record = deployments'[draft[r].planned].id
      /\ \A p \in Requests : p # r => draft'[p] = draft[p]
  BY <1>1, SyncDrafts DEF Inv
<1>3. Rewritten(r, draft[r].planned)
  BY <1>2, Instance DEF Rewritten
<1>4. /\ pc' = [pc EXCEPT ![r] = "row"] /\ pending' = [pending EXCEPT ![r] = Append(@, "sync")]
      /\ UNCHANGED <<ask, operations, events, verdict>>
  BY DEF Sync, Goto, asking
<1>5. RequestOK(q)'
  <2>1. CASE q # r
    <3>1. /\ pc'[q] = pc[q] /\ ask'[q] = ask[q] /\ draft'[q] = draft[q]
          /\ pending'[q] = pending[q] /\ operations'[q] = operations[q]
          /\ events'[q] = events[q] /\ verdict'[q] = verdict[q]
      BY <1>2, <1>4, <2>1 DEF Inv, TypeOK
    <3> QED
      BY <1>1, <1>3, <2>1, <3>1, RewrittenKeeps, OthersKeep DEF Inv
  <2>2. CASE q = r
    <3>1. pc'[r] = "row" /\ pending'[r] = <<"plan", "sync">>
      <4>1. Append(<<"plan">>, "sync") = <<"plan", "sync">>
        BY Words, "plan" \in Word, "sync" \in Word DEF Word
      <4>2. pending'[r] = Append(pending[r], "sync")
        BY <1>4 DEF Inv, TypeOK
      <4> QED
        BY <1>1, <1>4, <4>1, <4>2 DEF Inv, TypeOK
    <3>2. draft'[r].record # None
      BY <1>2, Instance DEF Record
    <3>3. Consistent(r, draft[r])'
      BY <1>1, <1>2, <1>3, <1>4, <3>2 DEF Consistent, Rewritten, Operating
    <3>4. Story(draft[r])' = <<"plan", "sync">>
      BY <1>1, <1>2, <3>2, Instance DEF Story
    <3> QED
      BY <1>1, <1>4, <2>2, <3>1, <3>3, <3>4
      DEF RequestOK, Before, After, Judging, InFlight
  <2> QED
    BY <2>1, <2>2
<1> QED
  BY <1>1, <1>2, <1>3, <1>5

LEMMA RecordStep ==
    ASSUME Inv, NEW r \in Requests, RecordDeployment(r), NEW q \in Requests
    PROVE  /\ RequestOK(q)'
           /\ ask[r].target \in Target
           /\ Rewritten(r, ask[r].target)
           /\ deployments'[ask[r].target].by = None
<1>1. /\ pc[r] = "upsert" /\ ask[r] # None
      /\ operations[r] = None /\ events[r] = <<>> /\ verdict[r] = None
  BY DEF Inv, RequestOK, Before, After, Judging, InFlight, RecordDeployment
<1>2. ask[r].target \in Target /\ deployments'[ask[r].target].by = None
  BY <1>1, RecordDeploymentKeeps DEF Inv
<1>3. Rewritten(r, ask[r].target)
  BY <1>1, RecordDeploymentKeeps, Instance DEF Inv, Rewritten
<1>4. pc' = [pc EXCEPT ![r] = "done"]
      /\ UNCHANGED <<ask, operations, events, draft, pending, verdict>>
  BY DEF RecordDeployment, Goto, asking, drafting
<1>5. RequestOK(q)'
  <2>1. CASE q # r
    <3>1. pc'[q] = pc[q]
      BY <1>4, <2>1 DEF Inv, TypeOK
    <3> QED
      BY <1>2, <1>3, <1>4, <2>1, <3>1, RewrittenKeeps, OthersKeep DEF Inv
  <2>2. CASE q = r
    <3>1. pc'[r] = "done"
      BY <1>4 DEF Inv, TypeOK
    <3> QED
      BY <1>1, <1>4, <2>2, <3>1, NoVerdict DEF RequestOK, Before, After, Judging, InFlight
  <2> QED
    BY <2>1, <2>2
<1> QED
  BY <1>2, <1>3, <1>5

LEMMA InsertStep ==
    ASSUME Inv, NEW r \in Requests, InsertOperation(r)
    PROVE  RequestOK(r)'
<1>1. /\ pc[r] = "row" /\ Consistent(r, draft[r]) /\ pending[r] = Story(draft[r])
      /\ events[r] = <<>> /\ verdict[r] = None
  BY DEF Inv, RequestOK, Before, After, Judging, InsertOperation
<1>2. UNCHANGED <<deployments, events, ask, draft, pending, verdict>>
  BY DEF InsertOperation, asking, drafting
<1>3. /\ operations'[r] # None
      /\ operations'[r].status = draft[r].status
      /\ operations'[r].planned = draft[r].planned
      /\ operations'[r].record = draft[r].record
  BY InsertedOperation DEF Inv
<1>4. Consistent(r, operations[r])'
  BY <1>1, <1>2, <1>3 DEF Consistent, Unmarked
<1>5. Story(operations[r])' = Story(draft[r])
  BY <1>3 DEF Story
<1>6. pc'[r] = "events"
  BY DEF Inv, TypeOK, InsertOperation, Goto
<1>7. Telling(r)'
  BY <1>1, <1>2, <1>5, <1>6 DEF Telling
<1> QED
  BY <1>1, <1>2, <1>3, <1>4, <1>6, <1>7
  DEF RequestOK, Before, After, Judging, InFlight, Consistent

LEMMA AppendStep ==
    ASSUME Inv, NEW r \in Requests, AppendEvent(r)
    PROVE  RequestOK(r)'
<1> DEFINE story == Story(operations[r])
<1>1. /\ pc[r] = "events" /\ operations[r] # None /\ Consistent(r, operations[r]) /\ Telling(r)
      /\ verdict[r] = None /\ ask[r] # None
  BY DEF Inv, RequestOK, Before, After, Judging, InFlight, AppendEvent
<1>2. UNCHANGED <<deployments, operations, ask, draft, verdict>>
  BY DEF AppendEvent, asking
<1>3. /\ events'[r] = Append(events[r], Head(pending[r]))
      /\ pending'[r] = Tail(pending[r])
      /\ pc'[r] = IF Tail(pending[r]) = <<>> THEN "done" ELSE "events"
  BY DEF Inv, TypeOK, AppendEvent, Goto
<1>4. Telling(r)'
  <2>1. \/ \E a \in Word : story = <<a>>
        \/ \E a, b \in Word : story = <<a, b>>
    BY DEF Story, Word
  <2>2. \/ events[r] = <<>> /\ pending[r] = story
        \/ Len(story) = 2 /\ events[r] = <<story[1]>> /\ pending[r] = <<story[2]>>
    BY <1>1 DEF Telling
  <2> HIDE DEF story
  <2>3. \/ events'[r] = story /\ pc'[r] = "done"
        \/ /\ Len(story) = 2 /\ events'[r] = <<story[1]>> /\ pending'[r] = <<story[2]>>
           /\ pc'[r] = "events"
    <3>1. CASE \E a \in Word : story = <<a>>
      <4> PICK a \in Word : story = <<a>>
        BY <3>1
      <4>1. Len(story) = 1
        OBVIOUS
      <4>2. Head(story) = a /\ Tail(story) = <<>> /\ Append(<<>>, a) = story
        BY Words
      <4>3. events[r] = <<>> /\ pending[r] = story
        BY <2>2, <4>1
      <4> QED
        BY <1>3, <4>2, <4>3
    <3>2. CASE \E a, b \in Word : story = <<a, b>>
      <4> PICK a \in Word, b \in Word : story = <<a, b>>
        BY <3>2
      <4>1. Len(story) = 2 /\ story[1] = a /\ story[2] = b
        OBVIOUS
      <4>2. /\ Head(story) = a /\ Tail(story) = <<b>> /\ Append(<<>>, a) = <<a>>
            /\ Head(<<b>>) = b /\ Tail(<<b>>) = <<>> /\ Append(<<a>>, b) = story
            /\ <<b>> # <<>>
        BY Words
      <4>3. CASE events[r] = <<>> /\ pending[r] = story
        BY <1>3, <4>1, <4>2, <4>3
      <4>4. CASE events[r] = <<a>> /\ pending[r] = <<b>>
        BY <1>3, <4>1, <4>2, <4>4
      <4> QED
        BY <2>2, <4>1, <4>3, <4>4
    <3> QED
      BY <2>1, <3>1, <3>2
  <2>4. Story(operations[r])' = story
    BY <1>2 DEF story, Story
  <2> QED
    BY <2>3, <2>4 DEF Telling
<1>5. Consistent(r, operations[r])'
  BY <1>1, <1>2 DEF Consistent, Unmarked
<1> QED
  <2>1. pc'[r] \in {"events", "done"}
    BY <1>3
  <2>2. operations'[r] # None /\ ask'[r] # None /\ verdict'[r] = None
    BY <1>1, <1>2
  <2>3. Before(r)' /\ Judging(r)'
    BY <2>1, <2>2, NoVerdict DEF Before, Judging
  <2> QED
    BY <2>2, <2>3, <1>4, <1>5 DEF RequestOK, After

LEMMA LookStep ==
    ASSUME Inv, NEW r \in Requests,
           Begin(r) \/ FindWorkload(r) \/ CheckManifest(r) \/ CheckRecords(r) \/ CheckHealth(r)
    PROVE  RequestOK(r)'
<1>1. /\ pc[r] \in {"new", "lookup", "read"} /\ draft[r] = NoDraft
      /\ operations[r] = None /\ events[r] = <<>>
      /\ UNCHANGED <<deployments, operations, events, draft>>
  BY DEF Inv, RequestOK, Before, After, Begin, FindWorkload, CheckManifest, CheckRecords,
         CheckHealth, rows, drafting
<1>2. After(r)'
  BY <1>1 DEF After
<1>3. CASE Begin(r)
  <2>1. /\ pc'[r] = "lookup" /\ ask'[r] # None
        /\ Unmarked(r) /\ verdict[r] = None /\ verdict' = verdict
    <3>1. PICK body \in Bodies :
            ask' = [ask EXCEPT ![r] = [body EXCEPT !.target = Normalized(@)]]
      BY <1>3 DEF Begin
    <3>2. ask'[r] = [body EXCEPT !.target = Normalized(@)]
      BY <3>1 DEF Inv, TypeOK
    <3>3. ask'[r] # None
      BY <3>2, NormalizedType, Instance
    <3> QED
      BY <1>3, <3>3 DEF Inv, TypeOK, RequestOK, Before, Judging, Begin, Goto
  <2> QED
    BY <1>1, <1>2, <2>1 DEF RequestOK, Before, Judging, Unmarked
<1>4. CASE FindWorkload(r)
  <2>1. /\ pc'[r] = IF ask[r].action = "record" THEN "upsert" ELSE "read"
        /\ ask[r] # None /\ Unmarked(r) /\ verdict[r] = None
        /\ ask[r].action \in {"record", "health"}
        /\ ask' = ask /\ verdict' = verdict
    BY <1>4 DEF Inv, TypeOK, RequestOK, Before, Judging, InFlight, FindWorkload, Goto, asking
  <2> QED
    BY <1>1, <1>2, <2>1 DEF RequestOK, Before, Judging, Unmarked
<1>5. CASE CheckManifest(r)
  <2>1. /\ pc'[r] = "read" /\ ask[r] # None /\ ask' = ask
    BY <1>5 DEF Inv, TypeOK, RequestOK, Before, InFlight, CheckManifest, Goto, asking
  <2>2. verdict'[r] \in Verdict
    BY <1>5, PreflightType DEF Inv, TypeOK, CheckManifest
  <2> QED
    BY <1>1, <1>2, <2>1, <2>2 DEF RequestOK, Before, Judging
<1>6. CASE CheckRecords(r)
  <2>1. /\ pc'[r] = "done" /\ ask[r] # None /\ ask' = ask
    BY <1>6 DEF Inv, TypeOK, RequestOK, Before, InFlight, CheckRecords, Goto, asking
  <2>2. PICK query \in {RecordCheck(ask[r].target), "failed"}, environment \in Verdict :
          verdict'[r] = PreflightStatus({verdict[r], query, environment})
    BY <1>6 DEF Inv, TypeOK, CheckRecords
  <2>3. verdict'[r] = "passed" => query \notin {"failed", "warning"}
    BY <2>2 DEF PreflightStatus
  <2>4. verdict'[r] = "passed" => deployments[ask[r].target] # None
    BY <2>2, <2>3 DEF RecordCheck
  <2> QED
    BY <1>1, <1>2, <2>1, <2>4 DEF RequestOK, Before, Judging, InFlight
<1>7. CASE CheckHealth(r)
  <2>1. pc'[r] = "done"
    BY <1>7 DEF Inv, TypeOK, CheckHealth, Goto
  <2>2. verdict'[r] # "passed"
    BY <1>7, HealthType DEF Inv, TypeOK, CheckHealth, Health
  <2> QED
    BY <1>1, <1>2, <2>1, <2>2 DEF RequestOK, Before, Judging, InFlight
<1> QED
  BY <1>3, <1>4, <1>5, <1>6, <1>7

LEMMA RequestStep ==
    ASSUME Inv, Next, NEW q \in Requests
    PROVE  RequestOK(q)'
<1>1. CASE RegisterWorkload \/ \E p \in Processes : Bring(p)
  BY <1>1, OthersKeep DEF RegisterWorkload, Bring, rows, asking, drafting, Unmarked
<1>2. CASE \E p \in Processes : Die(p)
  BY <1>2, ForgetKeeps DEF Die
<1>3. ASSUME NEW r \in Requests, Missing(r) \/ Fail(r) PROVE RequestOK(q)'
  BY <1>3, ForgetKeeps DEF Missing, Fail
<1>4. ASSUME NEW r \in Requests, Operate(r), ~Missing(r) PROVE RequestOK(q)'
  <2>1. CASE Sync(r)
    BY <2>1, SyncStep
  <2>2. CASE RecordDeployment(r)
    BY <2>2, RecordStep
  <2>3. CASE ~Sync(r) /\ ~RecordDeployment(r)
    <3>1. deployments' = deployments
      BY <1>4, <2>3 DEF Operate, Begin, PlanFails, Plan, InsertOperation, AppendEvent,
         FindWorkload, CheckManifest, CheckRecords, CheckHealth, rows
    <3>2. CASE q # r
      BY <1>4, <3>1, <3>2, OwnStep
    <3>3. CASE q = r
      BY <1>4, <2>3, <3>3, LookStep, PlanStep, InsertStep, AppendStep DEF Operate
    <3> QED
      BY <3>2, <3>3
  <2> QED
    BY <2>1, <2>2, <2>3
<1> QED
  BY <1>1, <1>2, <1>3, <1>4 DEF Next, Operate

-----------------------------------------------------------------------------
(* What is true of two requests.                                           *)

\* Operations are completed after whatever has begun.
Completes(r) ==
    /\ operations[r] = None
    /\ operations'[r] # None
    /\ operations'[r].completed = clock + 1
    /\ began' = began

LEMMA LatestKeeps ==
    ASSUME Inv, deployments' = deployments,
           \A q \in Requests : operations'[q] = operations[q] \/ Completes(q),
           \A q \in Requests, t \in Target :
               Synced(q, t)' => Synced(q, t) /\ began'[q] = began[q]
    PROVE  LatestOK'
<1> SUFFICES ASSUME NEW t \in Target, deployments[t] # None,
                    NEW earlier \in Requests, NEW later \in Requests,
                    operations'[earlier] # None,
                    Synced(later, t)',
                    operations'[earlier].completed < began'[later]
             PROVE  deployments[t].by # earlier
  BY DEF LatestOK
<1>1. began'[later] = began[later] /\ Synced(later, t)
  OBVIOUS
<1>2. ~Completes(earlier)
  BY <1>1 DEF Completes, Inv, TypeOK
<1> QED
  BY <1>1, <1>2 DEF Inv, LatestOK

LEMMA UnknownKeeps ==
    ASSUME Inv,
           \A q \in Requests : operations'[q] = operations[q] \/ Completes(q),
           \A q \in Requests : verdict'[q] = "unknown" =>
               verdict[q] = "unknown" /\ began'[q] = began[q]
    PROVE  UnknownOK'
<1> SUFFICES ASSUME NEW r \in Requests, NEW o \in Requests, verdict'[r] = "unknown",
                    operations'[o] # None, operations'[o].record # None
             PROVE  began'[r] < operations'[o].completed
  BY DEF UnknownOK
<1>1. verdict[r] = "unknown" /\ began'[r] = began[r]
  OBVIOUS
<1>2. CASE Completes(o)
  BY <1>1, <1>2 DEF Completes, Inv, TypeOK
<1>3. CASE operations'[o] = operations[o]
  BY <1>1, <1>3 DEF Inv, UnknownOK
<1> QED
  BY <1>2, <1>3

\* The steps of r, and the steps that end requests, as the others see them.
LEMMA ForgetPairs ==
    ASSUME Inv, NEW dead, Forget(dead), UNCHANGED rows
    PROVE  LatestOK' /\ UnknownOK'
<1>1. \A q \in Requests : operations'[q] = operations[q]
  BY DEF rows
<1>2. ASSUME NEW q \in Requests, NEW t \in Target, Synced(q, t)'
      PROVE  Synced(q, t) /\ began'[q] = began[q]
  <2>1. CASE q \notin dead
    BY <1>2, <2>1 DEF Synced, Forget, rows
  <2>2. CASE q \in dead
    BY <1>2, <2>2 DEF Synced, Forget, rows
  <2> QED
    BY <2>1, <2>2
<1>3. ASSUME NEW q \in Requests, verdict'[q] = "unknown"
      PROVE  verdict[q] = "unknown" /\ began'[q] = began[q]
  BY <1>3, NoVerdict DEF Forget
<1>4. LatestOK'
  BY <1>1, <1>2, LatestKeeps DEF rows
<1>5. UnknownOK'
  BY <1>1, <1>3, UnknownKeeps
<1> QED
  BY <1>4, <1>5

LEMMA RewrittenPairs ==
    ASSUME Inv, NEW r \in Requests, NEW t \in Target, Rewritten(r, t), operations[r] = None,
           deployments'[t].by # None => \A u \in Target : Synced(r, u)' => u = t,
           deployments'[t].by = None => \A u \in Target : Synced(r, u)' => Synced(r, u),
           \A q \in Requests, u \in Target : q # r /\ Synced(q, u)' => Synced(q, u),
           UNCHANGED <<operations, began, verdict>>
    PROVE  LatestOK' /\ UnknownOK'
<1>1. LatestOK'
  <2> SUFFICES ASSUME NEW u \in Target, deployments'[u] # None,
                      NEW earlier \in Requests, NEW later \in Requests,
                      operations[earlier] # None,
                      Synced(later, u)',
                      operations[earlier].completed < began[later]
               PROVE  deployments'[u].by # earlier
    BY DEF LatestOK
  <2>1. CASE u = t
    BY <2>1, Instance DEF Rewritten
  <2>2. CASE u # t
    <3>1. Synced(later, u)
      BY <2>2
    <3>2. deployments'[u] = deployments[u]
      BY <2>2 DEF Rewritten
    <3> QED
      BY <3>1, <3>2 DEF Inv, LatestOK
  <2> QED
    BY <2>1, <2>2
<1>2. UnknownOK'
  BY UnknownKeeps
<1> QED
  BY <1>1, <1>2

LEMMA OperatePairs ==
    ASSUME Inv, NEW r \in Requests, Operate(r), ~Missing(r)
    PROVE  LatestOK' /\ UnknownOK'
<1>1. CASE Sync(r)
  <2> DEFINE t == draft[r].planned
  <2>1. /\ t \in Target /\ Rewritten(r, t) /\ deployments'[t].by = r
        /\ operations[r] = None
    BY <1>1, SyncStep DEF Inv, RequestOK, Before, Sync
  <2>2. /\ UNCHANGED <<operations, began, verdict>>
        /\ pc' = [pc EXCEPT ![r] = "row"]
        /\ draft'[r].planned = t
        /\ \A q \in Requests : q # r => draft'[q] = draft[q]
    BY <1>1, <2>1, SyncDrafts DEF Inv, Sync, Goto, asking
  <2> HIDE DEF t
  <2>3. \A u \in Target : Synced(r, u)' => u = t
    BY <2>1, <2>2 DEF Synced
  <2>4. \A q \in Requests, u \in Target : q # r /\ Synced(q, u)' => Synced(q, u)
    BY <2>2 DEF Synced, Inv, TypeOK
  <2> QED
    BY <2>1, <2>2, <2>3, <2>4, Instance, RewrittenPairs
<1>2. CASE RecordDeployment(r)
  <2>1. /\ ask[r].target \in Target /\ Rewritten(r, ask[r].target)
        /\ deployments'[ask[r].target].by = None
        /\ operations[r] = None
    BY <1>2, RecordStep DEF Inv, RequestOK, Before, RecordDeployment
  <2>2. /\ UNCHANGED <<operations, began, verdict, draft>>
        /\ pc' = [pc EXCEPT ![r] = "done"]
    BY <1>2 DEF RecordDeployment, Goto, asking, drafting
  <2>3. \A q \in Requests, u \in Target : Synced(q, u)' => Synced(q, u)
    BY <2>2 DEF Synced, Inv, TypeOK
  <2> QED
    BY <2>1, <2>2, <2>3, RewrittenPairs
<1>3. CASE InsertOperation(r)
  <2>1. /\ operations[r] = None /\ pc[r] = "row"
        /\ UNCHANGED <<deployments, began, draft, verdict>>
        /\ pc' = [pc EXCEPT ![r] = "events"]
    BY <1>3 DEF Inv, RequestOK, Before, InsertOperation, Goto, asking, drafting
  <2>2. /\ operations'[r] # None
        /\ operations'[r].planned = draft[r].planned
        /\ operations'[r].record = draft[r].record
        /\ operations'[r].completed = clock + 1
        /\ \A q \in Requests : q # r => operations'[q] = operations[q]
    BY <1>3, InsertedOperation DEF Inv
  <2>3. \A q \in Requests : operations'[q] = operations[q] \/ Completes(q)
    BY <2>1, <2>2 DEF Completes
  <2>4. ASSUME NEW q \in Requests, NEW t \in Target, Synced(q, t)' PROVE Synced(q, t)
    BY <2>1, <2>2, <2>4 DEF Synced, Inv, TypeOK
  <2>5. LatestOK'
    BY <2>1, <2>3, <2>4, LatestKeeps
  <2>6. UnknownOK'
    BY <2>1, <2>3, UnknownKeeps
  <2> QED
    BY <2>5, <2>6
<1>4. CASE PlanFails(r) \/ Plan(r)
  <2>1. /\ UNCHANGED <<deployments, operations, began, verdict>>
        /\ pc[r] = "lookup" /\ draft[r] = NoDraft
    BY <1>4 DEF Inv, RequestOK, Before, PlanFails, Plan, rows, asking
  <2>2. draft'[r].record = None /\ \A q \in Requests : q # r => draft'[q] = draft[q]
    <3>1. draft[r].record = None
      BY <2>1 DEF NoDraft
    <3>2. CASE PlanFails(r)
      BY <3>1, <3>2, PlanFailsDrafts DEF Inv
    <3>3. CASE Plan(r)
      <4>1. ask[r].target \in Target
        BY <2>1, AskTarget DEF InFlight
      <4> QED
        BY <3>1, <3>3, <4>1, PlanDrafts DEF Inv
    <3> QED
      BY <1>4, <3>2, <3>3
  <2>3. \A q \in Requests : q # r => pc'[q] = pc[q]
    BY <1>4 DEF Inv, TypeOK, PlanFails, Plan, Goto
  <2>4. ASSUME NEW q \in Requests, NEW t \in Target, Synced(q, t)' PROVE Synced(q, t)
    BY <2>1, <2>2, <2>3, <2>4 DEF Synced
  <2>5. LatestOK'
    BY <2>1, <2>4, LatestKeeps
  <2>6. UnknownOK'
    BY <2>1, UnknownKeeps
  <2> QED
    BY <2>5, <2>6
<1>5. CASE Begin(r) \/ AppendEvent(r) \/ FindWorkload(r) \/ CheckManifest(r)
           \/ CheckRecords(r) \/ CheckHealth(r)
  <2>1. /\ UNCHANGED <<deployments, operations, draft>>
        /\ pc'[r] # "row"
        /\ \A q \in Requests : q # r => pc'[q] = pc[q] /\ began'[q] = began[q]
                                      /\ verdict'[q] = verdict[q]
        /\ ~Begin(r) => began' = began
    BY <1>5 DEF Inv, TypeOK, Begin, AppendEvent, FindWorkload, CheckManifest, CheckRecords,
                CheckHealth, Goto, rows, asking, drafting
  <2>2. Begin(r) => operations[r] = None
    BY DEF Inv, RequestOK, Before, Begin
  <2>3. ASSUME NEW q \in Requests, NEW t \in Target, Synced(q, t)'
        PROVE  Synced(q, t) /\ began'[q] = began[q]
    BY <2>1, <2>2, <2>3 DEF Synced
  <2>4. LatestOK'
    BY <2>1, <2>3, LatestKeeps
  <2>5. CASE CheckHealth(r)
    <3>1. CASE \A t \in Target : deployments[t] = None
      <4>1. ASSUME NEW o \in Requests, operations[o] # None PROVE operations[o].record = None
        BY <3>1, <4>1 DEF Inv, RequestOK, After, Consistent
      <4> QED
        BY <2>1, <2>4, <4>1 DEF UnknownOK
    <3>2. CASE \E t \in Target : deployments[t] # None
      <4>1. "unknown" \notin HealthStatuses
        BY <3>2 DEF HealthStatuses
      <4>2. verdict'[r] # "unknown"
        BY <2>5, <4>1 DEF Inv, TypeOK, CheckHealth
      <4> QED
        BY <2>1, <2>4, <4>2, UnknownKeeps
    <3> QED
      BY <3>1, <3>2
  <2>6. CASE Begin(r) \/ AppendEvent(r) \/ FindWorkload(r)
    <3>1. verdict'[r] = verdict[r] /\ (Begin(r) => verdict[r] = None)
      BY <2>6 DEF Inv, RequestOK, Judging, Begin, AppendEvent, FindWorkload, drafting
    <3> QED
      BY <2>1, <2>4, <3>1, NoVerdict, UnknownKeeps
  <2>7. CASE CheckManifest(r) \/ CheckRecords(r)
    <3>1. verdict'[r] \in Verdict
      <4>1. CASE CheckManifest(r)
        BY <4>1, PreflightType DEF Inv, TypeOK, CheckManifest
      <4>2. CASE CheckRecords(r)
        BY <4>2, PreflightType DEF Inv, TypeOK, CheckRecords
      <4> QED
        BY <2>7, <4>1, <4>2
    <3>2. verdict'[r] # "unknown"
      BY <3>1 DEF Verdict
    <3> QED
      BY <2>1, <2>4, <3>2, UnknownKeeps
  <2> QED
    BY <1>5, <2>5, <2>6, <2>7
<1> QED
  BY <1>1, <1>2, <1>3, <1>4, <1>5 DEF Operate

LEMMA PairStep ==
    ASSUME Inv, Next
    PROVE  LatestOK' /\ UnknownOK'
<1>1. CASE RegisterWorkload \/ \E p \in Processes : Bring(p)
  <2>1. UNCHANGED <<deployments, operations, began, draft, pc, verdict>>
    BY <1>1 DEF RegisterWorkload, Bring, rows, asking, drafting
  <2>2. LatestOK'
    BY <2>1, LatestKeeps DEF Synced
  <2> QED
    BY <2>1, <2>2, UnknownKeeps
<1>2. CASE \E p \in Processes : Die(p)
  BY <1>2, ForgetPairs DEF Die
<1>3. ASSUME NEW r \in Requests, Missing(r) \/ Fail(r) PROVE LatestOK' /\ UnknownOK'
  BY <1>3, ForgetPairs DEF Missing, Fail
<1> QED
  BY <1>1, <1>2, <1>3, OperatePairs DEF Next, Operate

-----------------------------------------------------------------------------
(* The theorems.                                                           *)

LEMMA InvAlways == Spec => []Inv
<1>1. Inv /\ [Next]_vars => Inv'
  <2> SUFFICES ASSUME Inv, [Next]_vars PROVE Inv'
    OBVIOUS
  <2>1. CASE Next
    BY <2>1, MigrationsGoOn, TypeStep, RequestStep, PairStep DEF Inv
  <2>2. CASE UNCHANGED vars
    <3>1. UNCHANGED <<migrationVars, rows, clock, asking, pc, drafting, verdict>>
      BY <2>2 DEF vars
    <3>2. MigrationTypeOK' /\ AppliedOK'
      BY MigrationsGoOn DEF Inv
    <3>3. TypeOK'
      BY <3>1, <3>2 DEF Inv, TypeOK, rows, asking, drafting
    <3>4. \A q \in Requests : RequestOK(q)'
      BY <3>1, OthersKeep DEF rows, asking, drafting, Unmarked
    <3>5. LatestOK' /\ UnknownOK'
      BY <3>1, LatestKeeps, UnknownKeeps DEF rows, asking, drafting, Synced
    <3> QED
      BY <3>2, <3>3, <3>4, <3>5 DEF Inv
  <2> QED
    BY <2>1, <2>2
<1> QED
  BY <1>1, InvInit, PTL DEF Spec

\* Every variable keeps its type.
THEOREM DeploymentsTypeCorrect == Spec => []TypeOK
<1>1. Inv => TypeOK
  BY DEF Inv
<1> QED
  BY <1>1, InvAlways, PTL

\* A gateway or a worker that serves has the tables of every version.
THEOREM ServersHaveTables == Spec => []ServingHasTables
<1>1. Inv => ServingHasTables
  BY MigrationInvServes DEF Inv, TypeOK, MigrationInv
<1> QED
  BY <1>1, InvAlways, PTL

\* Whatever requests meet, an operation names the record of the target it planned, and one
\* that failed, or that did not mean to sync, has touched no record.
THEOREM OperationsAreTrue == Spec => []OperationsMatchRecords
<1>1. Inv => OperationsMatchRecords
  BY DEF Inv, RequestOK, After, Consistent, Unmarked, OperationsMatchRecords
<1> QED
  BY <1>1, InvAlways, PTL

\* The events of an operation tell the story of its row, in order.
THEOREM EventsAreTrue == Spec => []EventsTellOutcome
<1>1. Inv => EventsTellOutcome
  <2> SUFFICES ASSUME Inv, NEW r \in Requests, operations[r] # None
               PROVE  \E n \in 0..2 : events[r] = SubSeq(Story(operations[r]), 1, n)
    BY DEF Inv, RequestOK, After, Telling, EventsTellOutcome
  <2> DEFINE story == Story(operations[r])
  <2>1. events[r] \in {<<>>, <<story[1]>>, story}
    BY DEF Inv, RequestOK, After, Telling
  <2>2. story \in Seq(Word) /\ Len(story) \in {1, 2}
    <3>1. \/ \E a \in Word : story = <<a>>
          \/ \E a, b \in Word : story = <<a, b>>
      BY DEF Story, Word
    <3> HIDE DEF story
    <3>2. \A a \in Word : <<a>> \in Seq(Word) /\ Len(<<a>>) = 1
      OBVIOUS
    <3>3. \A a, b \in Word : <<a, b>> \in Seq(Word) /\ Len(<<a, b>>) = 2
      OBVIOUS
    <3> QED
      BY <3>1, <3>2, <3>3
  <2> HIDE DEF story
  <2>3. SubSeq(story, 1, 0) = <<>>
    BY SubSeqEmpty
  <2>4. SubSeq(story, 1, 1) = <<story[1]>>
    <3>1. story[1] \in Word
      BY <2>2, ElementOfSeq
    <3>2. /\ SubSeq(story, 1, 1) \in Seq(Word) /\ Len(SubSeq(story, 1, 1)) = 1
          /\ SubSeq(story, 1, 1)[1] = story[1]
      BY <3>1, SubSeqProperties
    <3> DEFINE s == SubSeq(story, 1, 1)
               t == <<story[1]>>
    <3>3. t \in Seq(Word) /\ Len(t) = 1 /\ t[1] = story[1]
      BY <3>1
    <3> HIDE DEF s, t
    <3>4. s \in Seq(Word) /\ Len(s) = 1 /\ s[1] = t[1]
      BY <3>2, <3>3 DEF s
    <3>5. s = t
      BY <3>3, <3>4, SeqEqual
    <3> QED
      BY <3>5 DEF s, t
  <2>5. SubSeq(story, 1, Len(story)) = story
    BY <2>2, SubSeqFull
  <2>6. \E n \in 0..2 : events[r] = SubSeq(story, 1, n)
    <3>1. CASE events[r] = <<>>
      BY <2>3, <3>1
    <3>2. CASE events[r] = <<story[1]>>
      BY <2>4, <3>2
    <3>3. CASE events[r] = story
      BY <2>2, <2>5, <3>3
    <3> QED
      BY <2>1, <3>1, <3>2, <3>3
  <2> QED
    BY <2>6 DEF story
<1> QED
  BY <1>1, InvAlways, PTL

\* The record of a target never falls back to an operation that was over before a later
\* one began.
THEOREM RecordsAreLatest == Spec => []RecordIsLatest
<1>1. Inv => RecordIsLatest
  BY DEF Inv, LatestOK, Synced, RecordIsLatest
<1> QED
  BY <1>1, InvAlways, PTL

\* No preflight passes without a record, and no synced workload is unknown to those who
\* ask afterwards.
THEOREM VerdictsAreInformed == Spec => []VerdictsKnowRecords
<1>1. Inv => VerdictsKnowRecords
  BY DEF Inv, RequestOK, Judging, UnknownOK, VerdictsKnowRecords
<1> QED
  BY <1>1, InvAlways, PTL

=============================================================================
