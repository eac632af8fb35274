# A verification project for MoiraWeave

MoiraWeave accepts *runs* of model, pipeline and agent workloads over HTTP, keeps
them in a Postgres control plane, dispatches them over a Redis stream to a fleet
of workers, and shows clients their status, events, artifacts and replies. This
directory holds TLA+ modules that model the system, TLC configurations that check
them on small instances, and proofs that TLAPS checks for every instance. Paths
below are relative to `src/services/`.

## 1. Inventory

| Component | State | Operations | Talks to |
|---|---|---|---|
| Run submission and cancellation, `api-gateway/app/routes/workloads.py` | none between requests | `_create_run` (row, event, stream entry), `cancel_run` (read, check, write, event) | control plane, Redis |
| Run table and events, `shared/moiraweave_shared/control_plane.py` | `runs`, `run_events`, `artifacts` | `create_run`, `get_run`, `update_run` (unconditional), `append_run_event`, `record_artifact`, `find_stale_runs` | Postgres; one statement per call, no transaction spans two calls |
| Status policy, `shared/moiraweave_shared/workloads.py` | constants | `is_valid_run_transition`, `ensure_run_transition` | asked by gateway and worker before they write |
| Dispatch stream, `shared/moiraweave_shared/streams.py` | stream, consumer group, pending entries, dead-letter stream | `xadd`, `xreadgroup >`, `xack` | Redis |
| Run consumer, `worker/app/run_consumer.py` | per process: the message in hand, its heartbeat task, the snapshot of stale runs | `run_consumer`, `mark_stale_runs`, `_process_message`, `_cancel`, `_transition_run`, `_heartbeat_loop` | control plane, Redis, executor |
| Worker process, `worker/app/main.py` | consumer id, shutdown event | start, SIGTERM | run consumer |
| Workload executor, `worker/app/workload_executor.py` | outputs of finished pipeline nodes | model call, agent call, nested pipelines, cancel check between nodes | model services, adapters |
| Agent adapters, `worker/app/agent_adapters.py` | external run id, deadline, RPC correlation | send, poll or wait, cancel the external run | agent runtimes (HTTP, Hermes, OpenClaw) |
| Agent sessions and channels, `routes/workloads.py`, `control_plane.py` | `agent_sessions`, `agent_messages`, `channel_messages` | create session, post message (creates a run), post channel message, message history (joins messages, runs and artifacts by itself) | run submission, run consumer, control plane |
| Event stream, `routes/workloads.py:1923` | ids already sent, per connection | read all rows of the run every second, send those not yet sent; never ends by itself | control plane |
| Registry, deployments, operations, `routes/workloads.py`, `control_plane.py` | `workloads`, `deployments`, `deployment_operations`, `deployment_operation_events` | register, record deployment, create operation (plan, sync, or a refusal, with its row and events) | control plane, manifests on disk |
| Migrations, `control_plane.py:19-166, 898-924` | `control_plane_migrations`, the tables | apply what is missing at every start of every process | Postgres |
| Preflight and health, `routes/workloads.py` | none | read manifest and records, probe, aggregate | registry, deployments, Postgres, Redis, runtimes |
| Authentication, search, model SDK, drift detector, middleware, Helm charts | little or none | | |

What is hard about it:

* **Concurrency without transactions.** Every `await` is a point where another
  gateway request, another worker or the worker's own heartbeat task may act. A
  status is read, checked against the policy and written by separate calls, and the
  write has no condition on what was read.
* **Failure.** Workers crash, are stopped by SIGTERM in the middle of a run, lose
  calls or the answers to them; heartbeats come late. Redis keeps the entries that a
  dead consumer had in hand, and nothing claims them.
* **Recovery by sweeping.** Each worker also looks for runs whose heartbeat is old
  and marks them lost, from a snapshot.
* **Nesting.** A pipeline's nodes name workloads, pipelines and itself included;
  node ids may repeat and `inputFrom` may name a node that has not run.
* **An external party.** An agent's runtime starts a run of its own, which ends when
  it likes; a call to it may fail after it took effect.
* **Reading in several queries.** The message history, a preflight and a health request
  put an answer together from queries between which everything may change.
* **Starting together.** All processes create the tables at once, without a lock.
* **Ordering.** Row before message, status before event, heartbeat stopped before
  acknowledgement, outputs before success, a last look for a cancel request before
  outputs.

What makes each component correct: an entry is worked on by one worker at most; no work is
acknowledged away; statuses move as the policy says; events, outputs and statuses agree;
started runs end; a cancel request that comes early enough is honoured; consumers survive; a
history links a message to its own run; an operation, its events and the deployment record
tell one story; nobody serves without tables. `PROJECT.json` lists these hazards line by
line with the properties that look for them.

## 2. Modules

| Module | What it is |
|---|---|
| `RunStatuses` | the statuses, the sets that are tested, the transition policy |
| `ManagedRun` | abstract: a run's status appears as `queued` and moves along the policy |
| `AtMostOnceDispatch` | abstract: messages are handed out in order, once each; then settled or stranded |
| `RunLifecycle` | gateway, control plane, stream and workers together, one action per await |
| `MCRunLifecycle` | `RunLifecycle` for TLC; the `Lifecycle*.cfg` files choose the environment |
| `RunLifecycleProofs` | theorems about `RunLifecycle` for all constants |
| `RunPolicyProofs` | theorems about `RunLifecycle` where heartbeats are in time |
| `ExecutorContract` | abstract: an execution ends once, and as cancelled only after a request; exactly what `RunLifecycle!Execute` offers the consumer |
| `PipelineExecution` | model services, pipelines in pipelines, and the looks for a cancel request |
| `PipelineMeaning` | what a manifest means, by recursion on nesting and nodes, to compare `PipelineExecution` with |
| `MCPipelineExecution` | a family of manifests, for TLC |
| `PipelineExecutionProofs` | theorems for all manifests and depths |
| `AgentExecution` | `AgentExecutor` with the generic, Hermes and OpenClaw adapters and a runtime |
| `MCAgentExecution`, `AgentExecutionProofs` | its run and its theorems |
| `EventFeed` | abstract: on one connection, published events only and each once |
| `RowOrder` | the order in which `ORDER BY id` returns rows selected as `id::text`, in `EventStream` and in `AgentSession` |
| `EventStream` | writers inserting into `run_events`, the generators of `stream_run_events` |
| `MCEventStream`, `EventStreamProofs` | its runs and its theorems |
| `SessionStore` | abstract: sessions, runs, channel records, and messages that get a place below those before them and keep it |
| `AgentSession` | the gateway's posts, the worker's answers and the readers of a history, row by row, and the mapping to `SessionStore` |
| `MCAgentSession`, `AgentSessionProofs` | its run and its theorems |
| `Migrations` | `init()` of the control plane, by every process at once |
| `Deployments` | registry, deployment records, operations, preflight and health, on the processes that `Migrations` brings up |
| `MCDeployments`, `MigrationsProofs`, `DeploymentsProofs` | the run of both and their theorems |

How they fit: `RunLifecycle` knows an execution by its ending only;
`PipelineExecution` and `AgentExecution` are two refinements of `ExecutorContract`,
which states these endings. `PipelineExecution` calls an agent like a service;
`AgentExecution` is that call seen from inside. `EventStream` is the reading side of
the events that `RunLifecycle`'s steps append. `AgentSession` is what a user of an agent
sees around a run: `post_agent_message` calls `_create_run` and writes the message after
it, and of the worker there is the order of outputs and success, which `RunLifecycle`
establishes (`OutcomeMatchesOutputs`). `Deployments` extends `Migrations`: a request runs
on a process that serves, and dies with it.

### RunLifecycle and the code

`pc[w]` is the await that worker `w` is at, `ctx[w]` says where in the `try`
statement of `_process_message` it is, `goal[w]` is the status argument of the
`_transition_run` in progress. One transition is `Check` (`get_run` and the policy),
`Write` (`update_run`) and `Log` (`append_run_event`), so everything that may happen
between the calls does happen.

| Variable | Code |
|---|---|
| `submit`, `cancel` | how far `_create_run` and `cancel_run` have come |
| `status`, `stale`, `results` | columns `status`, `heartbeat_at` (else `updated_at`) against the threshold, `result` |
| `log` | `run_events`: which `run.<status>` events exist |
| `outputs` | whether the artifact rows and the assistant message of the run were written |
| `stream`, `delivered`, `pending`, `deadLetters` | `moiraweave:runs`, the group's last-delivered id, its pending entries, `moiraweave:runs:dead-letter` |
| `msg`, `beating` | the message in hand, the heartbeat task |
| `swept`, `victim` | the rest of `find_stale_runs`' answer, the run just marked lost |

Failures are actions of the workers in `Unreliable`: `StoreFault` (a call raises),
`LoseRead` (the group hands over an entry, the answer is lost), `Crash`, `Interrupt`
(SIGTERM cancels the task inside `try`, `finally` still acknowledges). A call that was
applied although it raised is the call followed by a fault at the next await; for an
event, after which the code's context changes, `StoreFault` says so itself. `Raise`
is what Python does with an exception at each place; a worker that ends `"dead"` is a
process that still runs while its consumer task is over (`main.py:74` waits for the
shutdown event only). A restarted worker has a fresh consumer id and is another member
of `Workers`.

Abstractions: the executor only returns, raises `RunCancelledError` after having seen
a cancel request, or fails (a timeout is a failure: `run.timeout` and `run.failed`
are one event here). A run has one cancel request in flight at a time. An entry that
does not validate and one that names no run are the same kind of stray. `Lookup`
reads the run once for the checks up to the payload and workload tests, which
may go either way. Ids, payloads, timestamps and messages are not represented.

### The environment, as constants

`Cancellable`: runs whose owner may cancel. `Unreliable`: workers that may fail.
`LateHeartbeats`: whether a run may look stale while a live worker has it. The
heartbeat interval is 10 s and the threshold 120 s (`worker/app/config.py:39-40`),
so `FALSE` stands for "not twelve beats in a row fail or are delayed". `Strays`:
entries somebody else put on the stream.

Assumed of Redis and Postgres: acknowledged writes are kept, the consumer group is not
deleted, and an `xadd` is applied once (a client library that repeats an `xadd`
whose answer was lost can break this; see the hazards).

### PipelineExecution and the code

`frames` is the stack of `PipelineExecutor.execute` activations, each with its node
and its local variables `outputs` and `last_output`; `pc` is the await of the
innermost execution:

| `pc` | Code (`workload_executor.py`) |
|---|---|
| `execute` | `WorkloadExecutor.execute`, the look at line 51 (`CancelBefore`), the choice of executor |
| `dial`, `dialed`, `answered` | `ModelServiceExecutor`: events, the look before the call, the call, the look after it |
| `node` | the loop of `PipelineExecutor`: the look at line 197, the checks of the node, its input |
| `return` | back to the enclosing loop (`NodeDone`) or to the consumer (`RunDone`) |

A payload is represented by its provenance: the nodes and services it went through.
Two different routings of a pipeline therefore give two different payloads, which
is what `ExecutionFollowsManifests` compares. What a manifest means is defined in
`PipelineMeaning` without a look at the executors: `Meaning(m)[k]` says, for every
workload, payload and list of calls already made, what comes out and which calls are made,
where `k` more pipelines may be entered; a pipeline's nodes are folded over one another
(`After`). `WorkloadExecutor` and
the executor it chooses look for a request one after the other; the two looks
are one step, and the event that announces a call belongs to it. `requested` does not
fall back: `_is_cancel_requested` also reports `cancelling` and `canceled`, which follow a
request, and while heartbeats are in time nothing else is written over it (what
happens otherwise is `RunLifecycle`'s subject). `MaxDepth` stands for Python's
recursion limit, whose `RecursionError` is a failure. `Break` is any exception from
outside: a service that fails, an event that cannot be written, the run's timeout.

### AgentExecution and the code

| Variable | Code (`agent_adapters.py`) |
|---|---|
| `adapter`, `endpoint`, `supported` | `build_agent_adapter`'s choice, the manifest's address, the gateway's method list |
| `pc` | `check`: `AgentExecutor.execute:133`; `describe`, `create`: `_openclaw_ensure_session`; `send`; `loop`, `poll`, `stop`: `wait_for_completion`; `post`, `lastStop`: `AgentExecutor.execute:161` |
| `known`, `seen`, `precise` | `external_run_id` is set; the status of the last answer; whether it was about the run or its session |
| `expired` | the adapter's deadline |
| `held` | the call at hand is kept open: its own timeout does not come |
| `limit` | `asyncio.timeout` around the execution (`run_consumer.py:375`) has fired |
| `session`, `ext`, `stops` | the runtime: its session, the state of the run it started for us, how often it was told to stop |

Statuses come in eight spellings (`TERMINAL_AGENT_STATUSES`); three classes remain.
A call of the OpenClaw client waits for the next frame, with a timeout that starts anew
with every frame that is not its answer (lines 492-499), and the client timeout of an HTTP
call is one for each part; `Hold` is a call that such traffic keeps open. While it lasts the
loop does not look at its deadline. `TimeLimit` is the timeout of the run: it cancels the
call at hand, nobody tells the runtime, and the places that suppress a failure of a call
(`suppress(Exception)`) do not suppress a cancellation. It fires once, also between two
calls. The adapter's deadline is the agent's `timeoutSeconds` from the answer to the message
on (`workload_executor.py:158`), so in a run of the agent alone the limit comes first; in a
pipeline the limit is the pipeline's and may be far off.

When `agent.wait` and `tasks.get` are unavailable the state of the OpenClaw
session stands in for that of the run, and can be anything. Three things a reader may
not expect, all as in the code: a request during the polling tells the runtime to stop
twice; an external run that *failed* is returned, so the MoiraWeave run succeeds; a
lost answer or the run's own timeout leaves the external run running.

### EventStream and the code

`Insert` draws an id from the `bigserial` sequence, which all runs share; `Commit` makes the
row visible. `earlier[i]` is the set of rows that were visible when `i` was drawn: "written
before" for everybody who waits for an insert to finish before beginning another. A
generator is `Read` (`list_run_events`), then one `Take` per row in the order of
`RowOrder!TextAtMost`, then `Sleep`; `seen` is the code's set. A client that reconnects
starts with an empty one: `Last-Event-ID` is not read. Events of other runs only make gaps
in the ids, which `Abort` makes too.

### AgentSession and the code

A post and its run are one value. `pc[p]` is the next call of the gateway's request:

| `pc` | Code (`routes/workloads.py`) |
|---|---|
| `new` | the session is looked up, the channel validated (`Accept`); a refusal leaves nothing |
| `open` | `create_agent_session` for a channel message without a session |
| `stamp`, `row`, `publish` | `_create_run`: `created_at` is taken, the row inserted, the entry put on the stream |
| `message`, `insert` | `append_agent_message`, after the run was published: the insert draws its id, then it is committed |
| `channel` | `record_channel_message` |

`work[p]` is how far `_process_message` is with the run: `RecordArtifacts`, then, where the
result has a reply, `InsertResponse` and `CommitResponse`, then `Succeed`; `EndOtherwise`
stands for the three other ends, which an insert in progress may meet: it then leaves no row.

A result has one artifact here. Its id is what the agent gave it (`AgentIds`) or made from the
run's (`control_plane.py:1560`), and a primary key of the whole table. `RecordArtifact` is the
`INSERT ... ON CONFLICT` of line 1129: where the id is taken, by a run of this or any other
session, agent or user (`Strangers`), the row gets the new contents and keeps its `run_id`;
the run that comes later lists nothing, and the earlier one what is not its own. The gateway's
own demo agent gives one id to all the runs of a session (`routes/workloads.py:124`), so only
its first run shows an artifact. A row is therefore a pair: `run`, which it is listed under,
and `of`, whose output it describes. `given[p]` remembers the id that `p`'s artifact got.

A reader is `list_agent_session_messages` as its queries:
`ReadMessages`; `ReadRuns` (the latest `HistoryLimit` runs, 200 in the code, by
`created_at`, linked by run id or else by the text); `Enrich` (the run's artifacts). One
message of a reading is followed, because the turns of the loop share only the two
lists. `_create_run`'s event and other users' runs and messages are left out.

`messages` holds the messages in the order in which their inserts drew the ids, `FirstId + i
- 1` for the `i`-th; `committed` is the set of those that show. `InOrder(s)` sorts the rows of
a session by the texts of their ids, as the query does, and `Listed(s)` says which of these
places are committed: `list_agent_messages` gives the messages at the places listed. Since
two inserts may commit in the other order than they drew their ids, a list may grow in its
middle; `SessionStore` promises that a message gets a place below all those begun before it
and keeps it, and that what is listed stays listed.

`SessionStore` has no artifacts: the in-memory repository keeps those of each run apart, the
tables have one key for all, so there is no common promise to state.

### Migrations, Deployments and the code

`life[p]` is the next statement of `init()`: `create` and `read` for the ledger
`control_plane_migrations`, then a transaction per version (`migrate`, `commit`).
`CREATE TABLE IF NOT EXISTS` looks for the table and creates it later; if somebody
commits the table in between, Postgres raises, the process ends and is started again.
`saw[p]` is what the look found. A transaction's commit makes its tables and its row
visible together.

A request of `Deployments` is `new`, then `lookup` (manifest and plan), `upsert` (the
record of the target, for a sync or a recorded deployment), `row`
(`create_deployment_operation`), `events` (one `append_deployment_operation_event` after
another); a preflight or a health request is `lookup` and `read`. `draft` and `pending`
are what the request has of its operation and its events before they are written. A row of
`deployments` is unique per target and keeps its `id` through `ON CONFLICT DO UPDATE`;
`by` is the `operation_id` in its metadata.

Things a reader may not expect, all as in the code: `apply`, `logs` and `undeploy` are
always refused, after a plan was made; an operation that cannot be planned is recorded as
failed, with an event `operation.error`; a workload in mode `external` is planned for the
target `external` whatever was asked, so a preflight of its target `local` finds no record
and warns; `updated_at` of a record may go back, because it is the `now` of the request's
beginning (`RecordIsLatest` therefore speaks of operations one of which ended before the
other began). Not modelled is what a client's own metadata may say in the places of the
code's: an `operation_id` in it replaces the code's in the deployment record (line 1658), and a
`deployment_id`, `plan` or `error` in it stays in the operation where the code sets none
(lines 1624, 1636, 1662).

## 3. Runs

| Run | Environment | Shows |
|---|---|---|
| `lifecycle_full` | 1 run, 1 stray, 2 workers, everything may go wrong | `TypeOK`; no message is dropped (`NothingIsDropped`); a success has its outputs and a canceled run has none, while a failed one may have some, as in the code (`OutcomeMatchesOutputs`); the dispatch implements `AtMostOnceDispatch` |
| `lifecycle_mixed` | 2 runs, `r2` cancellable, 2 unreliable workers, heartbeats in time | lost means abandoned, and no heartbeat speaks for a run that was let go (`LivenessIsTruthful`); a logged outcome is the status; what is acknowledged can be swept; runs nobody cancels implement `ManagedRun`, and only a racing cancel overwrites a terminal status (`StatusFollowsPolicy`) |
| `lifecycle_live` | 2 runs, one failing and one reliable worker, nobody cancels, fair | reliable consumers never end; started runs end; published runs end or are stranded unaccepted |
| `lifecycle_cancel` | 1 run, 1 stray, reliable workers, heartbeats late, fair | an early cancel request is honoured and ends the run |
| `lifecycle_cancel_race` | 1 cancellable run, nothing fails | violated: `TerminalIsFinal` |
| `lifecycle_left_behind` | the same | violated: `NoMessageLeftBehind` |
| `pipelines` | 21567 pairs of manifests, 3 pipelines deep, cancel and failure anywhere | the calls made are a prefix of those the manifests mean, each with the right payload, and the result is the meaning (`ExecutionFollowsManifests`); at most one late call; a request is heard; `ExecutorContract` |
| `agents` | 3 adapters, all sets of gateway methods, a runtime that ends when it likes, calls that may be kept open | a request is heard and passed on, results are final, messages have sessions; `ExecutorContract`, its end included: at the adapter's deadline, or at the limit of the run where a call is kept open past it |
| `events` | 3 writers, 1 client, ids 8 to 11 | every event arrives, once, in order among ids of one length; `EventFeed` |
| `sessions` | 1 session, 2 posts with equal or different texts, 2 channels, 1 reader, history limit 1, an artifact id that the agent and a stranger's may give; every request may end anywhere | what is stored was sent; a history links a message within its limit to its own run, and shows a success with its own artifact, unless another run recorded one under its id |
| `deployments` | a gateway that may die, a worker, 3 versions, 2 requests of every kind, 2 manifests that replace each other; starts are fair | nobody serves without tables, and everybody serves in the end; operations, events and records agree; a record is never older than a later sync; preflight and health know the records |
| `events_order` | 1 writer, ids 9 and 10 | violated: `EventsInOrder` |

The three violations are disagreements between what the repository says and what
the code does; each is quoted in `PROJECT.json` under `findings`:

1. `cancel_run` checks a status it read and writes regardless; a run that ended in
   between reads `cancel_requested` for ever.
2. A cancel request between the worker's cancel check and its transition to
   `starting` raises outside `try`: the consumer task ends, and the message is
   neither acknowledged nor dead-lettered.
3. `list_run_events` selects `id::text` and orders by `id`, which Postgres takes for the
   output column of that name: event 10 comes before event 9, and `events[-1]` is then
   not the latest event. (`agent_messages` and `deployment_operation_events` are read
   the same way: a history, too, changes its order where ids gain a digit. The
   refinement of `SessionStore` is therefore stated for ids of one length.)

One ending is allowed although nobody may want it: a worker that dies between the read and
`starting` leaves its run queued for ever, since the group reads `>` only and the
sweeper does not look at queued runs. `PublishedRunsSettle` names it as the one exception.

**Bounds.** Nothing is cut off: runs are submitted once, a worker that ends stays ended, the
stream holds each entry once, so the state spaces are finite and explored to the end (0.01 to
3.0 million distinct states). Two workers suffice for each two-party race named in the hazards
(worker and sweeper, two sweepers, worker and successor), the gateway being a third party. Two
runs are used where the interaction of a stranded and a live run matters, a stray where the
dead-letter path does. `pipelines` takes every outer pipeline of up to two nodes over five
callees, and three nodes of a smaller kind, with every small inner pipeline, which may call
the outer one; `MaxDepth = 3` lets a cycle pass through both pipelines and come back. `agents`
has no bound. `events` has ids on both sides of a change of length, two of each, and more
writers than that can overlap usefully; one client suffices, because clients share nothing but
the table. `sessions` shrinks the limit of the history to one run, so that two posts suffice
to have a message beyond it, and lets the two posts share a text and a channel; more posts or
readers disturb a reading in no new way, which its theorems confirm. It has one id for agents
to give: two runs and a stranger meet in it in every order, before a reading and during it,
while ids that nobody shares are the runs' own. Its `VIEW` takes states for one that differ
only in the order in which the inserts of messages drew their ids, and in the channel and the
kind of end of requests that have ended: no action and none of the run's properties looks at
these. `deployments` has two requests, enough for an operation that overtakes another one and
for a reader between its steps, and the smallest bodies that reach every branch; one process
may die, the other is the one it races with at the start. The theorems of section 4 need no
bounds.

**Symmetry** over the workers is used in the two lifecycle safety runs whose workers are
alike, and over posts and texts in `sessions`, whose properties name none of them;
never with liveness.

**Fairness.** `Fairness` demands of the code's scheduler what asyncio gives: a request that
has written the row goes on (`LogQueued`, `Publish`), a consumer task that can move does move
(`Consumer(w)`), a waiting read is answered when there is an entry (`Read(w)`), and time
passes for a run that nobody beats (`Age`). Nothing is assumed of clients, failures,
cancellations or heartbeats. A pipeline's execution goes on (`WF(Execution)`), where a call
that is not answered is ended by its timeout or the run's, both of which are `Break` there. An
agent's goes on while its call is not kept open (`WF(~held /\ Execution)`), its adapter's
deadline passes (`WF(Expire)`), and the timeout of its run comes while a call is kept open
(`WF(held /\ TimeLimit)`: `asyncio.timeout` cancels whatever the task awaits). It is not
relied on otherwise, as it may be far off: a loop that polls on past its deadline violates
`KeepsContract`. No fairness is assumed of a runtime. A connected client's generator goes on
(`WF(Generator(c))`). A process that has begun to start goes on, and one that ended is started
again (`WF(Bring(p))`; `docker-compose.yml` says `restart: unless-stopped`, Kubernetes
restarts containers by default); `StartsSettle` asks for a process that stops crashing, and
assumes nothing of the others. Deadlock is checked except where all workers may have ended, or
all requests been served.

**Mutants.** Each module carries the fault variants (their comments say `Fault
variant`) that show each property can fail: the definition named in `PROJECT.json`
behaves like its variant, and TLC finds the property violated.

## 4. Proofs

`RunLifecycleProofs` proves, for any sets of runs, strays and workers and any
environment, from `Environment` alone:

| Theorem | Property |
|---|---|
| `TypeCorrect` | `TypeOK` |
| `OneHolder` | `SingleHolder`, on which most of the others rest |
| `HeartbeatIsBounded` | `HeartbeatCoversExecution`, the half of `LivenessIsTruthful` that needs no timely heartbeats |
| `NoneIsDropped` | `NothingIsDropped` |
| `OutcomesMatch` | `OutcomeMatchesOutputs` |
| `AckedAreSweepable` | `AckedIsSweepable` |
| `EarlyCancelsAreHonoured` | `EarlyCancelIsHonoured` |
| `DispatchImplements` | `DispatchIsAtMostOnce`, the whole refinement of `AtMostOnceDispatch` |

None of these is inductive alone. The argument has layers, each inductive relative to
those before:

1. `TypeInv`: the types and `Job(w)`, what the await a worker is at says about its
   message, goal, context and heartbeat task. `RaiseKeeps` settles exceptions once
   for all the awaits that may raise.
2. `DispatchOK`: the stream has no entry twice and only entries of rows that exist
   (`StreamOK`, `RowOK`); messages in hand are distinct, unacknowledged and were handed
   out (`HoldOK`). `Sends`, `Hands` and `Takes` say which steps touch the stream at all.
3. `WorkOK` and `ResultOK`: how far a worker is and what it has left of its run so far.
   A worker that does not move is disturbed by nobody (`WorkFrame`), because by
   `HoldOK` nobody else has its message and by `StatusWrites` nobody else writes
   `canceled`, `succeeded` or `queued` for it. (`StatusWrites` follows from `StatusMoves`,
   which lists what may happen to a status in one step.)
4. `UnbornOK` (nobody knows of a run before its row is there), `UnaskedOK` (nobody asks to
   cancel a run that may not be cancelled) and `StartsOK` (a recorded start is that of a
   worker that had the run).

`EarlyCancelIsHonoured` speaks of all later states; it becomes a stable predicate in
`Doomed(r)`: the run has left `queued` without a start, and the worker that has it, if any,
is not about to write or record one (`DoomedStays`). The refinement works with what its
mapping says once its `CASE` and its `CHOOSE` are resolved (`PhaseOK`, `HolderOK`).
`DispatchMoves` sorts the steps by what they do to the stream; one lemma per abstract action
follows (`PublishSends`, `ReadTakes`, `LostReadLoses`, `LetGoReleases`).

`RunPolicyProofs` proves, for any sets of runs, strays and workers, under `~LateHeartbeats`:

| Theorem | Property |
|---|---|
| `LostRunsAreLeft` | `LivenessIsTruthful` |
| `StatusesFollowPolicy` | `StatusFollowsPolicy`, the refinement of `ManagedRun` included |
| `LoggedOutcomesAreStatuses` | `LoggedOutcomeIsStatus` |
| `ReliableConsumersStay` | `ReliableConsumersSurvive`, where also `Cancellable = {}` |

The assumption is the one explained in section 2, and the properties are false without it:
a sweeper then marks a run lost under the hands of its worker. So is the last one where
runs may be cancelled: that is finding 2. Check and write of a transition
are two steps, so the policy holds only because nobody else writes the status in between.
`TimelyOK` says why: a run in hand looks stale only before its start, whose status no
sweeper looks for (`Beats`); a worker that is about to start a run finds it waiting or asked
to be cancelled (`Enters`), and what it has checked still stands when it writes and logs
(`Changes`); the snapshot of a sweeper, which may be arbitrarily old, holds only runs that
are `Left`, handed out and in nobody's hands (`Sweeps`), which nobody gets back
(`LeftStays`); a lost run is one of them (`RowsOK`). None of these is inductive without the
others. `Serves(w)` then follows a reliable worker through its transitions, each of which
the policy allows.

`PipelineExecutionProofs` proves, from `Catalog` alone, for any manifests and any depth:
`PipelineTypeCorrect` (`TypeOK`), `LateCallsAreBounded` (`OneLateCall`),
`PipelineRequestsAreHeard` (`RequestIsHeard`), `PipelineEndsAsContracted` (the safety of
`ExecutorContract`) and `ExecutionsFollowManifests` (`ExecutionFollowsManifests`).
`TypeInv` adds to the types where a loop must be running;
`LateInv` says that a late call is followed by the look that ends the run; `Heard`
says that a request with a look ahead stays ahead of one, at some level of the stack,
until it ends the run, which is what makes `RequestIsHeard` (an action-like property
over all later states) a stable predicate.

`ExecutionsFollowManifests` compares the loops with a definition by recursion, so its proof
has a part on the definition and one on the steps. The first needs induction on the
nesting and on the nodes. The library's induction theorems take an operator, which the
provers here cannot instantiate; `SetInduction` states induction for a *set* of numbers, and
follows from the well-foundedness of inclusion among finite sets (`LeastNumber`). With it
the recursive functions are shown to solve their equations (`NodesAre`, `LevelsAre`), to have
their types, and only to add calls, none after a failure (`Good`, `Fits`, `NodesGrow`,
`LoopWithin`). The second part is `MeaningInv`: while a run goes on there is a sequence `e`
of what was asked for at each level of the stack, such that each loop's outputs are what the
nodes before it left (`FrameOK`: the dictionary `outputs`, in which a repeated id overwrites,
against the list of all nodes' outputs), each level is what the node above asks for
(`LinkOK`), and what each level comes to is the beginning of what the run comes to
(`Path`). `StepTracks` extends or shortens `e` step by step; `StepEnds` reads the end off it.

`AgentExecutionProofs` proves `AgentTypeCorrect`, `CancelIsPassedOn`
(`CancelReachesRuntime`), `ResultsAreFinal` (`ResultIsFinal`), `MessagesHaveSessions`
(`MessageHasSession`), `RequestsAreHeard` (`RequestIsHeard`) and `EndsAsContracted`
from `KnownAdapters`. Its invariant adds `Stage` (what has happened at the runtime by
the time the executor is at a call), `SessionReady` and `ResultReady`.

`EventStreamProofs` proves, from `Bound`, for any writers, clients and ids:
`StreamTypeCorrect` (`TypeOK`), `OrderIsKept` (`FeedKeepsOrder`) and
`StreamImplementsFeed` (`StreamIsFeed`, the whole refinement). `InsertsOK` keeps an
uncommitted id out of the table, `SeenOK` identifies `seen` with what was sent,
`EarlierOK` gives earlier rows smaller ids, and `EntriesOK` says that nothing of an
entry's length that was there before it has been left out of a reading.

`MigrationsProofs` proves `NobodyServesWithoutTables` (`ServingHasTables`) for any
processes. The invariant adds that what a process need not apply is recorded
(`AppliedOK`): `applied` is a stale reading, but of a set that only grows.

`DeploymentsProofs` proves, from `Instance`, for any processes, requests, bodies and
manifests: `DeploymentsTypeCorrect` (`TypeOK`), `ServersHaveTables` (`ServingHasTables`,
from the invariant of `MigrationsProofs`, which the requests leave alone),
`OperationsAreTrue` (`OperationsMatchRecords`), `EventsAreTrue` (`EventsTellOutcome`),
`RecordsAreLatest` (`RecordIsLatest`) and `VerdictsAreInformed` (`VerdictsKnowRecords`).
`RequestOK(r)` says what a request at each call has drafted and written; the lemmas for one
request (`PlanStep`, `SyncStep`, ...) show that it keeps its own part, `OthersKeep` that it
leaves the others' alone. The last two properties relate two requests. `RecordIsLatest` is
not inductive, because a sync writes the record before its own row: `LatestOK` speaks of a
request as soon as it has `Synced` (`LatestKeeps`, `UnknownKeeps`, `OperatePairs`).

`AgentSessionProofs` proves, from `Instance`, for any sessions, posts, readers and limits:
`SessionTypeCorrect` (`TypeOK`), `StoredMessagesWereSent` (`MessagesWereSent`),
`HistoriesLinkOwnRuns` (`HistoryLinksOwnRuns`) and `ShownSuccessesAreWhole`
(`ShownSuccessIsWhole`, for any strangers and ids that agents may give). `PostOK` ties the
gateway's and the worker's progress to the rows, `ReaderOK` says what a reader has at each
query. The crux is that what a reader read stays true enough while others write: rows are only
added (`RowsStay`, `MessagesGrow`), so the runs newer than a message's only become more and
what was beyond the limit stays beyond it (`BeyondStays`). An artifact is not so lucky: its
row may be rewritten by anybody. What stays is that a run which recorded one is listed with it
or has lost it to a run that used the id (`Recorded`, `Shared`; `OutputsStay`,
`RecordedStays`).

`TablesImplementStore` proves `TablesAreStore`, the whole refinement of `SessionStore`, under
`IdsOfOneLength`: the ids that the messages can get have equally many digits. Without it the
promise is broken, because a history is ordered by the texts of ids (finding 3). An insert
appends a place to the list of its session (`Appends`), whoever else is inserting; its commit
lists that place (`Lists`), in whatever order commits come. `OnceOK` bounds the rows, and so
the ids, by the number of posts. The mapping sorts; the proof goes by ranks instead: the
`n`-th message of a list is the row of rank `n` (`ListsAre`), and a new row, having the
greatest id, comes last and leaves the others their places (`NthAppend`, `ListsGrow`).

Only model-checked: liveness under fairness, which the proof system does not support:
`StartedRunsSettle`, `PublishedRunsSettle`, `EarlyCancelSettles`, `EveryEventArrives`,
`StartsSettle`, and the end of an execution that `KeepsContract` promises beside its safety.
Only proved: `TablesAreStore`, whose mapping sorts the messages in every state; it would take
a run of its own, without the `VIEW` of `sessions`. Every safety property that a passing run
checks, refinements and action properties included, is a theorem.

## 5. Plan

Done: runs, executors, event stream, sessions, migrations and deployments, in this order, and
a theorem for each of their safety properties. What would add most now:

1. The frames on OpenClaw's socket (answers, pushed events, refused handshakes), if
   what a gateway sends is ever documented in the repository.
2. `RunLifecycle` with an entry that may be in the stream twice, if the Redis client's retries
   are ever configured in the repository.

## 6. Not modelled

* Authentication and authorisation check a token and a role per request and keep nothing;
  the models show one user, with requests that were let in.
* Search is one query to an external store; the model SDK keeps a readiness flag; the drift
  detector is a numerical job without a protocol; telemetry and rate limits belong to
  libraries; the charts fix the number of processes, which are constants here.
* The readiness endpoint reports pings and keeps nothing. The text of plans, commands,
  checks and messages is data that no property is about.
* Of the agent adapters, the frames on OpenClaw's socket: a call of a runtime is one step
  that answers or fails, or it is kept open until the timeout of the run.
* Of the in-memory repository, a test double, only the tables of `SessionStore` are
  modelled; its artifacts do not agree with the table, and its deployments and events are the
  same dictionaries.

Redis and Postgres are external: their single calls are atomic steps, their
loss of data is outside the model.
