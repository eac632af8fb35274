---------------------------- MODULE Deployments -----------------------------
(***************************************************************************)
(* Deployment operations on one workload of one user: the gateways plan    *)
(* and record deployments in the tables that Migrations creates, row by    *)
(* row and with nothing between the requests; preflights and health        *)
(* requests read the records meanwhile.                                    *)
(*                                                                         *)
(* An operation and its request are one: Requests are also the operation   *)
(* ids, and the ids of the deployments they insert. A k8s target has been  *)
(* renamed when the request begins, as the code does first.                *)
(***************************************************************************)
EXTENDS Migrations, Sequences

CONSTANTS
    Gateways,        \* the processes that answer requests
    Requests,
    Bodies,          \* what requests may ask: an action and a target, k8s among them
    Reported,        \* the statuses that clients report of a deployment
    Manifests,       \* the manifests of the workload that may be registered
    OnDisk,          \* the manifest in the workloads directory, or None
    None

\* The body's action; a record is put by POST /workloads/{name}/deployments.
Action == {"plan", "sync", "apply", "logs", "undeploy", "record", "preflight", "health"}
Operating == {"plan", "sync", "apply", "logs", "undeploy"}
Blocked == {"apply", "logs", "undeploy"}

Target == {"local", "kubernetes", "external"}
Verdict == {"passed", "warning", "failed"}
Health == {"unknown", "healthy", "degraded", "pending"}

\* A row of deployments: by is metadata.operation_id.
Record == [id : Requests, by : Requests \cup {None}, status : Reported]

\* A row of deployment_operations, and what a request has of it before it is inserted:
\* planned is metadata.plan.target, record metadata.deployment_id.
Operation == [status : {"succeeded", "failed"}, planned : Target \cup {None},
              record : Requests \cup {None}, completed : Nat]

ASSUME Instance ==
    /\ Gateways \subseteq Processes
    /\ Bodies \subseteq [action : Action, target : Target \cup {"k8s"}]
    /\ None \notin Requests
    /\ None \notin Manifests
    /\ None \notin Target \cup Verdict \cup Health
    /\ None \notin Record
    /\ None \notin Operation
    /\ None \notin [action : Action, target : Target]

VARIABLES
    registry,     \* workloads: the manifest registered, or None
    deployments,  \* deployments: the row of each target
    operations,   \* deployment_operations: the row of each request
    events,       \* deployment_operation_events: the types, per request
    clock,        \* the number of timestamps taken
    ask,          \* what each request asks
    began,        \* now: the timestamp at its begin
    at,           \* the gateway it runs on
    pc,
    draft,        \* the operation as the request has it
    pending,      \* the events it has yet to append
    verdict       \* what a preflight or a health request found

rows     == <<registry, deployments, operations, events>>
asking   == <<ask, began, at>>
drafting == <<draft, pending>>
vars     == <<migrationVars, rows, clock, asking, pc, drafting, verdict>>

NoDraft == [status |-> "succeeded", planned |-> None, record |-> None, completed |-> 0]

TypeOK ==
    /\ MigrationTypeOK
    /\ registry \in Manifests \cup {None}
    /\ deployments \in [Target -> Record \cup {None}]
    /\ operations \in [Requests -> Operation \cup {None}]
    /\ events \in [Requests -> Seq({"plan", "sync", "blocked", "error"})]
    /\ clock \in Nat
    /\ ask \in [Requests -> [action : Action, target : Target] \cup {None}]
    /\ began \in [Requests -> 0..clock]
    /\ at \in [Requests -> Gateways \cup {None}]
    /\ pc \in [Requests -> {"new", "lookup", "upsert", "row", "events", "read", "done",
                            "gone"}]
    /\ draft \in [Requests -> Operation]
    /\ pending \in [Requests -> Seq({"plan", "sync", "blocked", "error"})]
    /\ verdict \in [Requests -> Verdict \cup Health \cup {None}]

Init ==
    /\ MigrationInit
    /\ registry = None
    /\ deployments = [t \in Target |-> None]
    /\ operations = [r \in Requests |-> None]
    /\ events = [r \in Requests |-> <<>>]
    /\ clock = 0
    /\ ask = [r \in Requests |-> None]
    /\ began = [r \in Requests |-> 0]
    /\ at = [r \in Requests |-> None]
    /\ pc = [r \in Requests |-> "new"]
    /\ draft = [r \in Requests |-> NoDraft]
    /\ pending = [r \in Requests |-> <<>>]
    /\ verdict = [r \in Requests |-> None]

Goto(r, where) == pc' = [pc EXCEPT ![r] = where]

-----------------------------------------------------------------------------
(* The registry.                                                           *)

\* register_workload, create_workload_from_template: the last manifest stays.
RegisterWorkload ==
    /\ \E g \in Gateways : life[g] = "serving"
    /\ \E m \in Manifests : registry' = m
    /\ UNCHANGED <<migrationVars, deployments, operations, events, clock, asking, pc,
                   drafting, verdict>>

\* _all_workloads: what is registered hides what is on disk.
Workload == IF registry # None THEN registry ELSE OnDisk

\* _get_workload and _deployment_plan_response: the target that is planned, None where
\* there is no workload or the target is not one of its own.
Planned(target) ==
    IF Workload = None THEN None
    ELSE IF Workload.mode = "external" THEN "external"
    ELSE IF target \in Workload.targets THEN target
    ELSE None

-----------------------------------------------------------------------------
(* Requests.                                                               *)

\* The requests in dead end; what they did not store of themselves is forgotten.
Forget(dead) ==
    LET Kept(f, none) == [r \in Requests |-> IF r \in dead THEN none ELSE f[r]]
        Stored(f, none) ==
            [r \in Requests |-> IF r \in dead /\ operations[r] = None THEN none ELSE f[r]]
    IN  /\ pc' = Kept(pc, "gone")
        /\ ask' = Stored(ask, None)
        /\ began' = Stored(began, 0)
        /\ at' = Kept(at, None)
        /\ draft' = Kept(draft, NoDraft)
        /\ pending' = Kept(pending, <<>>)
        /\ verdict' = Kept(verdict, None)

\* Fault variant of Normalized: the short name is kept.
AsAsked(target) == target

Normalized(target) == IF target = "k8s" THEN "kubernetes" ELSE target

Begin(r) ==
    /\ pc[r] = "new"
    /\ \E g \in Gateways : life[g] = "serving" /\ at' = [at EXCEPT ![r] = g]
    /\ \E body \in Bodies :
          ask' = [ask EXCEPT ![r] = [body EXCEPT !.target = Normalized(@)]]
    /\ clock' = clock + 1
    /\ began' = [began EXCEPT ![r] = clock + 1]
    /\ Goto(r, "lookup")
    /\ UNCHANGED <<migrationVars, rows, drafting, verdict>>

\* _get_workload raises 404, which ends every request but an operation.
Missing(r) ==
    /\ pc[r] = "lookup"
    /\ ask[r].action \notin Operating
    /\ Workload = None
    /\ Forget({r})
    /\ UNCHANGED <<migrationVars, rows, clock>>

\* An operation that cannot be planned fails, and is recorded all the same.
PlanFails(r) ==
    /\ pc[r] = "lookup"
    /\ ask[r].action \in Operating
    /\ Planned(ask[r].target) = None
    /\ draft' = [draft EXCEPT ![r].status = "failed"]
    /\ pending' = [pending EXCEPT ![r] = <<"error">>]
    /\ Goto(r, "row")
    /\ UNCHANGED <<migrationVars, rows, clock, asking, verdict>>

\* Only a sync does anything; what needs the host or the cluster is refused here.
Plan(r) ==
    /\ pc[r] = "lookup"
    /\ ask[r].action \in Operating
    /\ Planned(ask[r].target) # None
    /\ LET refused == ask[r].action \in Blocked IN
       /\ draft' = [draft EXCEPT
                       ![r].planned = Planned(ask[r].target),
                       ![r].status = IF refused THEN "failed" ELSE "succeeded"]
       /\ pending' = [pending EXCEPT
                         ![r] = IF refused THEN <<"plan", "blocked">> ELSE <<"plan">>]
    /\ Goto(r, IF ask[r].action = "sync" THEN "upsert" ELSE "row")
    /\ UNCHANGED <<migrationVars, rows, clock, asking, verdict>>

\* Fault variant of Upsert: the row is inserted anew.
UpsertAnew(target, row) == deployments' = [deployments EXCEPT ![target] = row]

\* Fault variant of Upsert: without metadata = EXCLUDED.metadata.
UpsertKeepingMetadata(target, row) ==
    deployments' = [deployments EXCEPT
        ![target] = IF @ = None THEN row ELSE [@ EXCEPT !.status = row.status]]

\* upsert_deployment: the row of the target is rewritten and keeps its id.
Upsert(target, row) ==
    deployments' = [deployments EXCEPT
        ![target] = IF @ = None THEN row ELSE [@ EXCEPT !.by = row.by, !.status = row.status]]

Sync(r) ==
    /\ pc[r] = "upsert"
    /\ ask[r].action = "sync"
    /\ \E status \in Reported :
          Upsert(draft[r].planned, [id |-> r, by |-> r, status |-> status])
    /\ draft' = [draft EXCEPT ![r].record = deployments'[draft[r].planned].id]
    /\ pending' = [pending EXCEPT ![r] = Append(@, "sync")]
    /\ Goto(r, "row")
    /\ UNCHANGED <<migrationVars, registry, operations, events, clock, asking, verdict>>

InsertOperation(r) ==
    /\ pc[r] = "row"
    /\ clock' = clock + 1
    /\ operations' = [operations EXCEPT ![r] = [draft[r] EXCEPT !.completed = clock + 1]]
    /\ Goto(r, "events")
    /\ UNCHANGED <<migrationVars, registry, deployments, events, asking, drafting, verdict>>

\* Fault variant of AppendEvent: the last one first.
AppendOutcomeFirst(r) ==
    /\ pc[r] = "events"
    /\ LET n == Len(pending[r]) IN
       /\ events' = [events EXCEPT ![r] = Append(@, pending[r][n])]
       /\ pending' = [pending EXCEPT ![r] = SubSeq(@, 1, n - 1)]
       /\ Goto(r, IF n = 1 THEN "done" ELSE "events")
    /\ UNCHANGED <<migrationVars, registry, deployments, operations, clock, asking, draft,
                   verdict>>

AppendEvent(r) ==
    /\ pc[r] = "events"
    /\ events' = [events EXCEPT ![r] = Append(@, Head(pending[r]))]
    /\ pending' = [pending EXCEPT ![r] = Tail(@)]
    /\ Goto(r, IF Tail(pending[r]) = <<>> THEN "done" ELSE "events")
    /\ UNCHANGED <<migrationVars, registry, deployments, operations, clock, asking, draft,
                   verdict>>

\* record_workload_deployment looks for the workload only: the target may be any.
FindWorkload(r) ==
    /\ pc[r] = "lookup"
    /\ ask[r].action \in {"record", "health"}
    /\ Workload # None
    /\ Goto(r, IF ask[r].action = "record" THEN "upsert" ELSE "read")
    /\ UNCHANGED <<migrationVars, rows, clock, asking, drafting, verdict>>

RecordDeployment(r) ==
    /\ pc[r] = "upsert"
    /\ ask[r].action = "record"
    /\ \E status \in Reported :
          Upsert(ask[r].target, [id |-> r, by |-> None, status |-> status])
    /\ Goto(r, "done")
    /\ UNCHANGED <<migrationVars, registry, operations, events, clock, asking, drafting,
                   verdict>>

-----------------------------------------------------------------------------
(* Preflight and health, which probe what they read about last; probes,    *)
(* pings, secrets and the runtime's location are the environment's.        *)

\* Fault variant of PreflightStatus: warnings are not heeded.
FailuresOnly(checks) == IF "failed" \in checks THEN "failed" ELSE "passed"

\* _preflight_status
PreflightStatus(checks) ==
    IF "failed" \in checks THEN "failed"
    ELSE IF "warning" \in checks THEN "warning"
    ELSE "passed"

Bad == {"failed", "lost", "unhealthy"}
Active == {"applied", "running", "healthy"}

\* The checks of the manifest and of its target.
CheckManifest(r) ==
    /\ pc[r] = "lookup"
    /\ ask[r].action = "preflight"
    /\ Workload # None
    /\ \E environment \in Verdict :
          verdict' = [verdict EXCEPT ![r] = PreflightStatus(
              {environment, IF Planned(ask[r].target) = None THEN "failed" ELSE "passed"})]
    /\ Goto(r, "read")
    /\ UNCHANGED <<migrationVars, rows, clock, asking, drafting>>

\* _deployment_record_check
RecordCheck(target) ==
    LET row == deployments[target] IN
    IF row = None THEN "warning"
    ELSE IF row.status \in Bad THEN "failed"
    ELSE IF row.status \in Active THEN "passed"
    ELSE "warning"

\* The record check, failed where the query fails; the pings and the runtime's answer.
CheckRecords(r) ==
    /\ pc[r] = "read"
    /\ ask[r].action = "preflight"
    /\ \E query \in {RecordCheck(ask[r].target), "failed"}, environment \in Verdict :
          verdict' = [verdict EXCEPT ![r] = PreflightStatus({@, query, environment})]
    /\ Goto(r, "done")
    /\ UNCHANGED <<migrationVars, rows, clock, asking, drafting>>

\* _deployment_health_status: the probes decide where there is an endpoint, otherwise
\* the statuses.
HealthStatuses ==
    LET statuses == {deployments[t].status : t \in {u \in Target : deployments[u] # None}}
        reported == IF statuses \cap Bad # {} THEN "degraded"
                    ELSE IF statuses \cap Active # {} THEN "healthy"
                    ELSE "pending"
    IN  IF statuses = {} THEN {"unknown"} ELSE {"healthy", "degraded", reported}

CheckHealth(r) ==
    /\ pc[r] = "read"
    /\ ask[r].action = "health"
    /\ \E status \in HealthStatuses : verdict' = [verdict EXCEPT ![r] = status]
    /\ Goto(r, "done")
    /\ UNCHANGED <<migrationVars, rows, clock, asking, drafting>>

-----------------------------------------------------------------------------
(* Failures, and the whole.                                                *)

InFlight(r) == pc[r] \in {"lookup", "upsert", "row", "events", "read"}

\* A call to the database fails.
Fail(r) ==
    /\ InFlight(r)
    /\ Forget({r})
    /\ UNCHANGED <<migrationVars, rows, clock>>

\* The requests of a process end with it.
Die(p) ==
    /\ Crash(p)
    /\ Forget({r \in Requests : InFlight(r) /\ at[r] = p})
    /\ UNCHANGED <<rows, clock>>

Bring(p) == Starting(p) /\ UNCHANGED <<rows, clock, asking, pc, drafting, verdict>>

Operate(r) ==
    \/ Begin(r) \/ Missing(r) \/ PlanFails(r) \/ Plan(r) \/ Sync(r)
    \/ InsertOperation(r) \/ AppendEvent(r) \/ FindWorkload(r) \/ RecordDeployment(r)
    \/ CheckManifest(r) \/ CheckRecords(r) \/ CheckHealth(r)

Next ==
    \/ \E p \in Processes : Bring(p) \/ Die(p)
    \/ \E r \in Requests : Operate(r) \/ Fail(r)
    \/ RegisterWorkload

\* What has begun to start goes on, and what ended is started again.
Spec == Init /\ [][Next]_vars /\ \A p \in Processes : WF_vars(Bring(p))

-----------------------------------------------------------------------------
(* Properties.                                                             *)

\* What an operation says of a deployment is so: the record it names is the one of the
\* target it planned, though others have rewritten it since; and an operation that failed
\* or did not mean to sync has touched no record.
OperationsMatchRecords ==
    \A r \in Requests : operations[r] # None =>
        LET operation == operations[r] IN
        /\ operation.record # None <=>
              ask[r].action = "sync" /\ operation.status = "succeeded"
        /\ operation.record # None =>
              /\ deployments[operation.planned] # None
              /\ deployments[operation.planned].id = operation.record
        /\ operation.record = None =>
              \A t \in Target : deployments[t] # None => r \notin {deployments[t].id,
                                                                  deployments[t].by}

\* What happened in an operation, as its row tells it.
Story(operation) ==
    IF operation.planned = None THEN <<"error">>
    ELSE IF operation.record # None THEN <<"plan", "sync">>
    ELSE IF operation.status = "failed" THEN <<"plan", "blocked">>
    ELSE <<"plan">>

\* The events of an operation tell the story of its row, in its order, up to where its
\* request came, and to the end if it was answered.
EventsTellOutcome ==
    \A r \in Requests :
        /\ operations[r] = None => events[r] = <<>>
        /\ operations[r] # None =>
              \E n \in 0..2 : events[r] = SubSeq(Story(operations[r]), 1, n)
        /\ operations[r] # None /\ pc[r] = "done" => events[r] = Story(operations[r])

\* The record of a target does not name an operation that was completed before another
\* one began that synced the target too.
RecordIsLatest ==
    \A t \in Target : deployments[t] # None =>
        \A earlier, later \in Requests :
            /\ operations[earlier] # None
            /\ operations[later] # None
            /\ operations[later].record # None
            /\ operations[later].planned = t
            /\ operations[earlier].completed < began[later]
            => deployments[t].by # earlier

\* A preflight passes only for a target that has a record; and no workload is unknown to
\* a health request that began after an operation that synced it was completed.
VerdictsKnowRecords ==
    \A r \in Requests :
        /\ pc[r] = "done" /\ verdict[r] = "passed" => deployments[ask[r].target] # None
        /\ verdict[r] = "unknown" =>
              \A o \in Requests : operations[o] # None /\ operations[o].record # None =>
                  began[r] < operations[o].completed

=============================================================================
