--------------------------- MODULE AgentExecution ---------------------------
(***************************************************************************)
(* A run of an agent: AgentExecutor and the adapter of the agent's         *)
(* runtime send it a message, poll the run it started, and pass a cancel   *)
(* request on. The runtime's own run is a party of its own: it ends when   *)
(* it likes, and a call to it may fail before or after it took effect.     *)
(*                                                                         *)
(* "requested" is what _is_cancel_requested answers; it does not change    *)
(* back while the worker's heartbeats are in time (see RunLifecycle).      *)
(***************************************************************************)
EXTENDS Naturals

CONSTANT Adapters    \* the runtimes considered, of AdapterName

AdapterName == {"generic-http", "hermes", "openclaw"}

ASSUME KnownAdapters == Adapters \subseteq AdapterName

VARIABLES
    adapter,     \* build_agent_adapter's choice
    endpoint,    \* the manifest gives an endpoint or a port
    supported,   \* the RPC methods of an OpenClaw gateway that the code asks about
    requested,   \* a cancel request is recorded for the run
    pc,          \* the call the executor is at
    known,       \* the runtime's answer named its run: external_run_id is set
    seen,        \* the status in the last answer to a poll
    precise,     \* that answer was about the run, not about its session
    expired,     \* the deadline of wait_for_completion has passed
    held,        \* the call at hand is kept open
    limit,       \* the execution timeout of the run has fired
    session,     \* runtime: the OpenClaw session exists
    ext,         \* runtime: the state of the run that our message started
    stops,       \* runtime: how often it was told to stop
    outcome      \* how the execution ended

setting == <<adapter, endpoint, supported>>
runtime == <<session, ext, stops>>
reading == <<known, seen, precise>>
timing  == <<expired, held, limit>>
vars    == <<setting, requested, pc, reading, timing, runtime, outcome>>

Methods == {"sessions.describe", "sessions.create", "agent.wait", "tasks.get"}

TERMINAL_AGENT_STATUSES == {"completed", "failed", "cancelled"}
AgentStatus == TERMINAL_AGENT_STATUSES \cup {"running"}

Pc == {"check", "describe", "create", "send", "loop", "stop", "poll", "post", "lastStop", "done"}

TypeOK ==
    /\ adapter \in Adapters
    /\ endpoint \in BOOLEAN
    /\ supported \subseteq Methods
    /\ requested \in BOOLEAN
    /\ pc \in Pc
    /\ known \in BOOLEAN
    /\ seen \in AgentStatus \cup {"none"}
    /\ precise \in BOOLEAN
    /\ expired \in BOOLEAN
    /\ held \in BOOLEAN
    /\ limit \in BOOLEAN
    /\ session \in BOOLEAN
    /\ ext \in AgentStatus \cup {"none"}
    /\ stops \in 0..2
    /\ outcome \in {"none", "returned", "cancelled", "failed"}

\* The OpenClaw adapter has a default address; only its gateway names methods and sessions.
Init ==
    /\ adapter \in Adapters
    /\ endpoint \in BOOLEAN
    /\ adapter = "openclaw" => endpoint
    /\ supported \in SUBSET Methods
    /\ session \in BOOLEAN
    /\ adapter # "openclaw" => supported = {} /\ ~session
    /\ requested = FALSE
    /\ pc = "check"
    /\ known = FALSE
    /\ seen = "none"
    /\ precise = FALSE
    /\ expired = FALSE
    /\ held = FALSE
    /\ limit = FALSE
    /\ ext = "none"
    /\ stops = 0
    /\ outcome = "none"

Goto(place) == pc' = place /\ UNCHANGED outcome

Finish(how) == outcome' = how /\ pc' = "done"

Polled == adapter \in {"hermes", "openclaw"}

-----------------------------------------------------------------------------
(* AgentExecutor.execute up to send_message.                               *)

CheckBefore ==
    /\ pc = "check"
    /\ IF requested THEN Finish("cancelled")
                    ELSE Goto(IF adapter = "openclaw" THEN "describe" ELSE "send")
    /\ UNCHANGED <<runtime, reading>>

(* OpenClaw: the session is looked up, and created when it does not answer. *)

SessionFound ==
    /\ pc = "describe"
    /\ "sessions.describe" \in supported
    /\ session
    /\ Goto("send")
    /\ UNCHANGED <<runtime, reading>>

\* Fault variant of SessionNotFound: the suppressed failure goes on to the message.
SendUnfound ==
    /\ pc = "describe"
    /\ Goto("send")
    /\ UNCHANGED <<runtime, reading>>

\* Any failure of the lookup is suppressed, a timeout of an existing session's included.
SessionNotFound ==
    /\ pc = "describe"
    /\ Goto("create")
    /\ UNCHANGED <<runtime, reading>>

CreateSession ==
    /\ pc = "create"
    /\ session' = (session \/ "sessions.create" \in supported)
    /\ Goto("send")
    /\ UNCHANGED <<ext, stops, reading>>

\* The generic and the Hermes adapter accept the message themselves without an endpoint.
AcceptLocally ==
    /\ pc = "send"
    /\ ~endpoint
    /\ Goto("post")
    /\ UNCHANGED <<runtime, reading>>

\* The runtime starts a run for the message. The generic adapter takes its answer for the
\* result, and so do the others if the answer does not name the run.
Send ==
    /\ pc = "send"
    /\ endpoint
    /\ ext' = "running"
    /\ known' \in (IF Polled THEN BOOLEAN ELSE {FALSE})
    /\ Goto(IF known' THEN "loop" ELSE "post")
    /\ UNCHANGED <<session, stops, seen, precise>>

-----------------------------------------------------------------------------
(* wait_for_completion of the Hermes and the OpenClaw adapter.             *)

\* The head of the loop: the deadline first, then the cancel request.
Deadline ==
    /\ pc = "loop"
    /\ expired
    /\ Finish("failed")
    /\ UNCHANGED <<runtime, reading>>

\* Fault variant of CheckWhilePolling: the loop goes on after the deadline.
PollPastDeadline ==
    /\ pc = "loop"
    /\ Goto(IF requested THEN "stop" ELSE "poll")
    /\ UNCHANGED <<runtime, reading>>

CheckWhilePolling ==
    /\ pc = "loop"
    /\ ~expired
    /\ Goto(IF requested THEN "stop" ELSE "poll")
    /\ UNCHANGED <<runtime, reading>>

\* Fault variant of Take: whatever the runtime answers ends the polling.
TakeAny(status, aboutTheRun) ==
    /\ seen' = status
    /\ precise' = aboutTheRun
    /\ Goto("post")
    /\ UNCHANGED <<known, runtime>>

\* What an answer leads to: the artifacts, which cannot change the end, or another turn.
Take(status, aboutTheRun) ==
    /\ seen' = status
    /\ precise' = aboutTheRun
    /\ Goto(IF status \in TERMINAL_AGENT_STATUSES THEN "post" ELSE "loop")
    /\ UNCHANGED <<known, runtime>>

\* Hermes answers GET /v1/runs/<id>; an OpenClaw gateway agent.wait or tasks.get.
PollRun ==
    /\ pc = "poll"
    /\ adapter = "openclaw" => supported \cap {"agent.wait", "tasks.get"} # {}
    /\ Take(ext, TRUE)

\* OpenClaw: when these fail or are not supported, the state of the session stands in.
PollSession ==
    /\ pc = "poll"
    /\ adapter = "openclaw"
    /\ \E status \in AgentStatus : Take(status, FALSE)

\* The runtime is told to stop the run, and has done so when it answers.
TellToStop ==
    /\ stops' = stops + 1
    /\ ext' = IF ext = "running" THEN "cancelled" ELSE ext
    /\ UNCHANGED session

\* Fault variant of StopPolling: the loop goes on after the runtime was told.
StopAndKeepPolling ==
    /\ pc = "stop"
    /\ TellToStop
    /\ seen' = "cancelled"
    /\ Goto("loop")
    /\ UNCHANGED <<known, precise>>

\* The adapter gives "cancelled" as the status of its result.
StopPolling ==
    /\ pc = "stop"
    /\ TellToStop
    /\ seen' = "cancelled"
    /\ Goto("post")
    /\ UNCHANGED <<known, precise>>

-----------------------------------------------------------------------------
(* The end of AgentExecutor.execute.                                       *)

\* Fault variant of ReturnResult: nobody looks for a request after the adapter's answer.
ReturnAnyway ==
    /\ pc = "post"
    /\ Finish("returned")
    /\ UNCHANGED <<runtime, reading>>

ReturnResult ==
    /\ pc = "post"
    /\ ~requested
    /\ Finish("returned")
    /\ UNCHANGED <<runtime, reading>>

HearRequest ==
    /\ pc = "post"
    /\ requested
    /\ Goto("lastStop")
    /\ UNCHANGED <<runtime, reading>>

\* Whether adapter.cancel has somebody to address: Hermes needs the id of the run, the
\* others an endpoint only.
Addressable == endpoint /\ (adapter = "hermes" => known)

\* Fault variant of StopAndRaise: the request is honoured here and not passed on.
RaiseOnly ==
    /\ pc = "lastStop"
    /\ Finish("cancelled")
    /\ UNCHANGED <<runtime, reading>>

\* Also after StopPolling: the runtime is then told a second time.
StopAndRaise ==
    /\ pc = "lastStop"
    /\ IF Addressable THEN TellToStop ELSE UNCHANGED runtime
    /\ Finish("cancelled")
    /\ UNCHANGED reading

-----------------------------------------------------------------------------
(* The environment.                                                        *)

\* A call takes effect at the runtime and then fails for the worker.
LoseAnswer ==
    /\ \/ /\ pc = "send" /\ endpoint
          /\ ext' = "running"
          /\ UNCHANGED <<session, stops>>
       \/ /\ pc = "stop" \/ (pc = "lastStop" /\ Addressable)
          /\ TellToStop
    /\ Finish("failed")
    /\ held' = FALSE
    /\ UNCHANGED <<setting, requested, reading, expired, limit>>

\* A call or an event fails without effect: nobody tells the runtime.
Break ==
    /\ pc # "done"
    /\ Finish("failed")
    /\ held' = FALSE
    /\ UNCHANGED <<setting, requested, reading, expired, limit, runtime>>

\* The call's own timeout does not come, as it starts anew with every frame of a gateway
\* that is not the answer, and with every part of an HTTP response.
Hold ==
    /\ pc # "done"
    /\ ~held
    /\ held' = TRUE
    /\ UNCHANGED <<setting, requested, pc, reading, expired, limit, runtime, outcome>>

\* Fault variant of TimeLimit: it is suppressed where failures of a call are.
TimeLimitSuppressed ==
    /\ pc # "done"
    /\ ~limit
    /\ limit' = TRUE
    /\ CASE pc = "describe" -> Goto("create")
         [] pc = "poll"     -> Goto("poll")
         [] OTHER           -> Finish("failed")
    /\ held' = FALSE
    /\ UNCHANGED <<setting, requested, reading, expired, runtime>>

\* The execution timeout of the run, once: the call at hand is cancelled, and nobody tells
\* the runtime. What an adapter suppresses does not include it.
TimeLimit ==
    /\ pc # "done"
    /\ ~limit
    /\ limit' = TRUE
    /\ Finish("failed")
    /\ held' = FALSE
    /\ UNCHANGED <<setting, requested, reading, expired, runtime>>

RequestCancel ==
    /\ pc # "done"
    /\ ~requested
    /\ requested' = TRUE
    /\ UNCHANGED <<setting, pc, reading, timing, runtime, outcome>>

Expire ==
    /\ pc \in {"loop", "stop", "poll"}
    /\ ~expired
    /\ expired' = TRUE
    /\ UNCHANGED <<setting, requested, pc, reading, held, limit, runtime, outcome>>

\* The runtime's run ends by itself.
RuntimeEnds ==
    /\ ext = "running"
    /\ ext' \in TERMINAL_AGENT_STATUSES
    /\ UNCHANGED <<setting, requested, pc, reading, timing, session, stops, outcome>>

Progress ==
    \/ CheckBefore \/ SessionFound \/ SessionNotFound \/ CreateSession
    \/ AcceptLocally \/ Send
    \/ Deadline \/ CheckWhilePolling \/ PollRun \/ PollSession \/ StopPolling
    \/ ReturnResult \/ HearRequest \/ StopAndRaise

Execution == Progress /\ held' = FALSE /\ UNCHANGED <<setting, requested, expired, limit>>

Next ==
    \/ Execution \/ LoseAnswer \/ Break \/ Hold \/ TimeLimit
    \/ RequestCancel \/ Expire \/ RuntimeEnds

\* A call that is not kept open is answered or fails, and the adapter's deadline comes. The
\* limit of the run may be a long way off, as for an agent in a pipeline that has just
\* begun; it is asyncio.timeout that ends a call which is kept open.
Fairness ==
    /\ WF_vars(~held /\ Execution)
    /\ WF_vars(Expire)
    /\ WF_vars(held /\ TimeLimit)

Spec == Init /\ [][Next]_vars /\ Fairness

-----------------------------------------------------------------------------
(* Properties.                                                             *)

\* A run that was asked to be canceled before its execution ended does not return,
\* wherever the request found it: polling, sending, or with the answer in hand.
RequestIsHeard == [](requested /\ outcome = "none" => [](outcome # "returned"))

\* An execution that ends as canceled leaves nothing running at a runtime it can
\* address.
CancelReachesRuntime ==
    outcome = "cancelled" /\ Addressable => ext # "running"

\* A polled run is returned only when the runtime's run is over, and with the status it
\* ended with, unless a session's state had to stand in for it.
ResultIsFinal ==
    outcome = "returned" /\ known /\ precise => ext = seen /\ ext # "running"

\* No message goes to a session that does not exist when the gateway can create one,
\* whatever the lookup answers.
MessageHasSession ==
    adapter = "openclaw" /\ "sessions.create" \in supported /\ ext # "none" => session

\* An agent's execution keeps the contract the run consumer relies on: it ends once, and
\* although the runtime's run may never end: at the adapter's deadline, or at the limit of
\* its run where a call is kept open past it.
Contract == INSTANCE ExecutorContract
KeepsContract == Contract!Spec

=============================================================================
