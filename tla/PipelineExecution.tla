------------------------- MODULE PipelineExecution -------------------------
(***************************************************************************)
(* The worker's executors: a run of a model service, an agent or a         *)
(* pipeline, whose nodes call other workloads, pipelines included.         *)
(*                                                                         *)
(* A payload is represented by where it comes from: the sequence of nodes  *)
(* and services it went through since it was the payload of the run.       *)
(* A manifest is taken as the code takes it: node ids may repeat, "uses"   *)
(* may name anything, and a pipeline may call itself.                      *)
(***************************************************************************)
EXTENDS Naturals, Sequences

CONSTANTS
    Pipelines,    \* registered pipeline workloads
    Services,     \* registered workloads that are called over the network
    Mocks,        \* registered model services without endpoint and port
    Strangers,    \* names that no registered workload has
    NodeIds,      \* ids of pipeline nodes
    Manifests,    \* the step lists considered: functions from Pipelines
    Root,         \* the workload of the run
    MaxDepth,     \* pipelines within one another before Python's recursion limit
    None          \* no inputFrom, no output

Workloads == Pipelines \cup Services \cup Mocks

Node == [id : NodeIds, uses : Workloads \cup Strangers, from : NodeIds \cup {None}]

Tags == (Pipelines \X (Nat \ {0})) \cup Services \cup Mocks
Payload == Seq(Tags)

ASSUME Catalog ==
    /\ Pipelines \cap (Services \cup Mocks) = {}
    /\ Services \cap Mocks = {}
    /\ Strangers \cap Workloads = {}
    /\ None \notin NodeIds
    /\ Manifests \subseteq [Pipelines -> Seq(Node)]
    /\ Root \in Workloads
    /\ None \notin Payload
    /\ MaxDepth \in Nat \ {0}

VARIABLES
    steps,       \* spec.steps of each pipeline
    requested,   \* a cancel request is recorded for the run
    frames,      \* the pipelines being executed, the outermost first
    pc,          \* where the innermost execution is
    callee,      \* the workload being executed
    payload,     \* the payload it was given, then the output it gave
    calls,       \* the services called and with what, in order
    late,        \* how many of these calls began after the cancel request
    broken,      \* something outside the manifests went wrong
    outcome      \* how the execution ended

vars == <<steps, requested, frames, pc, callee, payload, calls, late, broken, outcome>>
flow == <<frames, pc, callee, payload, calls, late, outcome>>

\* One execution of PipelineExecutor.execute: its pipeline, the node it is at and
\* its local variables outputs and last_output.
Frame == [of : Pipelines, at : Nat \ {0}, outputs : [NodeIds -> Payload \cup {None}], last : Payload]

Pc == {"execute", "dial", "dialed", "answered", "return", "node", "done"}

TypeOK ==
    /\ steps \in [Pipelines -> Seq(Node)]
    /\ requested \in BOOLEAN
    /\ frames \in Seq(Frame)
    /\ Len(frames) <= MaxDepth
    /\ pc \in Pc
    /\ callee \in Workloads
    /\ payload \in Payload
    /\ calls \in Seq([of : Services, with : Payload])
    /\ late \in Nat
    /\ broken \in BOOLEAN
    /\ outcome \in {"none", "returned", "cancelled", "failed"}
    /\ (outcome = "none") <=> (pc # "done")

Init ==
    /\ steps \in Manifests
    /\ requested = FALSE
    /\ frames = <<>>
    /\ pc = "execute"
    /\ callee = Root
    /\ payload = <<>>
    /\ calls = <<>>
    /\ late = 0
    /\ broken = FALSE
    /\ outcome = "none"

Goto(place) == pc' = place /\ UNCHANGED outcome

Finish(how) ==
    /\ outcome' = how
    /\ pc' = "done"
    /\ UNCHANGED <<frames, callee, payload, calls, late>>

Top == frames[Len(frames)]
Below == SubSeq(frames, 1, Len(frames) - 1)

-----------------------------------------------------------------------------
(* WorkloadExecutor.execute and the head of the executor it chooses. A     *)
(* service's executor looks for a cancel request a second time, with the   *)
(* same end; the two looks are one step, taken when the second one is.     *)

CancelBefore ==
    /\ pc = "execute"
    /\ requested
    /\ Finish("cancelled")

MayStart == pc = "execute" /\ ~requested

\* A pipeline without steps gives back what it was given.
EnterEmpty ==
    /\ MayStart
    /\ callee \in Pipelines
    /\ steps[callee] = <<>>
    /\ Goto("return")
    /\ UNCHANGED <<frames, callee, payload, calls, late>>

NoOutputs == [n \in NodeIds |-> None]

\* Fault variant of EnterPipeline: nothing limits the nesting.
EnterAnyDepth ==
    /\ MayStart
    /\ callee \in Pipelines
    /\ steps[callee] # <<>>
    /\ frames' = Append(frames, [of |-> callee, at |-> 1, outputs |-> NoOutputs, last |-> payload])
    /\ Goto("node")
    /\ UNCHANGED <<callee, payload, calls, late>>

EnterPipeline ==
    /\ MayStart
    /\ callee \in Pipelines
    /\ steps[callee] # <<>>
    /\ Len(frames) < MaxDepth
    /\ frames' = Append(frames, [of |-> callee, at |-> 1, outputs |-> NoOutputs, last |-> payload])
    /\ Goto("node")
    /\ UNCHANGED <<callee, payload, calls, late>>

\* A pipeline that calls itself ends in a RecursionError.
TooDeep ==
    /\ MayStart
    /\ callee \in Pipelines
    /\ steps[callee] # <<>>
    /\ Len(frames) = MaxDepth
    /\ Finish("failed")

\* A model service without endpoint and port answers without a call.
AnswerMock ==
    /\ MayStart
    /\ callee \in Mocks
    /\ payload' = Append(payload, callee)
    /\ Goto("return")
    /\ UNCHANGED <<frames, callee, calls, late>>

\* The last look for a cancel request before the call, and the event that announces it.
PrepareCall ==
    /\ MayStart
    /\ callee \in Services
    /\ Goto("dial")
    /\ UNCHANGED <<frames, callee, payload, calls, late>>

-----------------------------------------------------------------------------
(* ModelServiceExecutor.execute and AgentExecutor.execute from the call on. *)

Dial ==
    /\ pc = "dial"
    /\ calls' = Append(calls, [of |-> callee, with |-> payload])
    /\ late' = late + (IF requested THEN 1 ELSE 0)
    /\ Goto("dialed")
    /\ UNCHANGED <<frames, callee, payload>>

\* Fault variant of Answer: a call without an answer is tried once more, without looking
\* for a cancel request.
AnswerOrRetry ==
    /\ pc = "dialed"
    /\ \/ /\ payload' = Append(payload, callee)
          /\ Goto("answered")
       \/ /\ Len(calls) < 2
          /\ Goto("dial")
          /\ UNCHANGED payload
    /\ UNCHANGED <<frames, callee, calls, late>>

Answer ==
    /\ pc = "dialed"
    /\ payload' = Append(payload, callee)
    /\ Goto("answered")
    /\ UNCHANGED <<frames, callee, calls, late>>

\* Fault variant of AfterCall: the look for a cancel request after the call is missing.
AfterCallUnasked ==
    /\ pc = "answered"
    /\ Goto("return")
    /\ UNCHANGED <<frames, callee, payload, calls, late>>

AfterCall ==
    /\ pc = "answered"
    /\ IF requested
         THEN Finish("cancelled")
         ELSE Goto("return") /\ UNCHANGED <<frames, callee, payload, calls, late>>

-----------------------------------------------------------------------------
(* The loop of PipelineExecutor.execute.                                   *)

AtNode == pc = "node" /\ Top.at <= Len(steps[Top.of])
ThisNode == steps[Top.of][Top.at]

CancelBetween ==
    /\ AtNode
    /\ requested
    /\ Finish("cancelled")

Usable(node) ==
    /\ node.uses \in Workloads
    /\ node.from # None => Top.outputs[node.from] # None

BadNode ==
    /\ AtNode
    /\ ~requested
    /\ ~Usable(ThisNode)
    /\ Finish("failed")

\* Fault variant of NodeInput: inputFrom is ignored.
LastOutputAlways(node) == Top.last

\* What the node starts from, before its own payload is merged into it.
NodeInput(node) == IF node.from = None THEN Top.last ELSE Top.outputs[node.from]

StartNode ==
    /\ AtNode
    /\ ~requested
    /\ Usable(ThisNode)
    /\ callee' = ThisNode.uses
    /\ payload' = Append(NodeInput(ThisNode), <<Top.of, Top.at>>)
    /\ Goto("execute")
    /\ UNCHANGED <<frames, calls, late>>

\* A pipeline's local variables after the output of the node it is at.
Filed(frame) ==
    [frame EXCEPT !.outputs = [@ EXCEPT ![ThisNode.id] = payload],
                  !.last = payload,
                  !.at = @ + 1]

\* Fault variant of NodeDone: the output is filed under the node and not kept as the last.
FileOutputOnly ==
    /\ pc = "return"
    /\ frames # <<>>
    /\ frames' = [frames EXCEPT ![Len(frames)] = [Filed(@) EXCEPT !.last = Top.last]]
    /\ Goto("node")
    /\ UNCHANGED <<callee, payload, calls, late>>

\* The innermost execution returns to the pipeline that called it.
NodeDone ==
    /\ pc = "return"
    /\ frames # <<>>
    /\ frames' = [frames EXCEPT ![Len(frames)] = Filed(Top)]
    /\ Goto("node")
    /\ UNCHANGED <<callee, payload, calls, late>>

\* After its last node a pipeline gives back the last output.
PipelineDone ==
    /\ pc = "node"
    /\ Top.at > Len(steps[Top.of])
    /\ payload' = Top.last
    /\ frames' = Below
    /\ Goto("return")
    /\ UNCHANGED <<callee, calls, late>>

RunDone ==
    /\ pc = "return"
    /\ frames = <<>>
    /\ Finish("returned")

-----------------------------------------------------------------------------
\* The owner asks to cancel the run.
RequestCancel ==
    /\ pc # "done"
    /\ ~requested
    /\ requested' = TRUE
    /\ UNCHANGED <<steps, flow, broken>>

\* Fault variant of Break: the end of the awaited task is taken for a cancellation.
BreakAsCancel ==
    /\ pc # "done"
    /\ broken' = TRUE
    /\ Finish("cancelled")
    /\ UNCHANGED <<steps, requested>>

\* The service fails, the store fails a look or an event, or the execution timeout of
\* the run cancels whatever is awaited.
Break ==
    /\ pc # "done"
    /\ broken' = TRUE
    /\ Finish("failed")
    /\ UNCHANGED <<steps, requested>>

Progress ==
    \/ CancelBefore \/ EnterEmpty \/ EnterPipeline \/ TooDeep \/ AnswerMock \/ PrepareCall
    \/ Dial \/ Answer \/ AfterCall
    \/ CancelBetween \/ BadNode \/ StartNode \/ NodeDone \/ PipelineDone \/ RunDone

Execution == Progress /\ UNCHANGED <<steps, requested, broken>>

Next == Execution \/ RequestCancel \/ Break

\* A call is answered or fails: if nothing else ends it, the execution timeout does (Break).
Spec == Init /\ [][Next]_vars /\ WF_vars(Execution)

-----------------------------------------------------------------------------
(* Properties.                                                             *)

\* A look for a cancel request still lies ahead: before a call, after it, or before a
\* node that has not started, at any level of nesting.
LookAhead ==
    \/ pc \in {"execute", "dial", "dialed", "answered"}
    \/ AtNode
    \/ \E i \in DOMAIN frames :
          frames[i].at < Len(steps[frames[i].of])

\* A cancel request that comes before the last look for it keeps the run from
\* returning, however deep the pipeline that is being executed.
RequestIsHeard == [](requested /\ LookAhead => [](outcome # "returned"))

\* After a cancel request at most one more service is called: the one whose call
\* was past its last look.
OneLateCall == late <= 1

\* The executors keep the contract the run consumer relies on: they say "cancelled" only
\* after a request, end once, and do end whatever the manifests say (the recursion limit
\* ends the pipelines that call themselves).
Contract == INSTANCE ExecutorContract
KeepsContract == Contract!Spec

=============================================================================
