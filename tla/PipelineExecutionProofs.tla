---------------------- MODULE PipelineExecutionProofs ----------------------
(***************************************************************************)
(* Theorems about PipelineExecution, for any catalog of workloads, any     *)
(* manifests and any depth of nesting.                                     *)
(***************************************************************************)
EXTENDS PipelineMeaning, FiniteSetTheorems, SequenceTheorems, TLAPS

\* A pipeline loop is running where the control says so.
LoopRuns == pc = "node" => frames # <<>>

\* Only services are called over the network.
CallsAreToServices == pc \in {"dial", "dialed"} => callee \in Services

\* Every loop is over when the run returns.
LoopsEnd == outcome = "returned" => frames = <<>>

TypeInv == TypeOK /\ LoopRuns /\ CallsAreToServices /\ LoopsEnd

LEMMA InitTypeInv == Init => TypeInv
<1> SUFFICES ASSUME Init PROVE TypeInv
  OBVIOUS
<1>1. /\ steps \in [Pipelines -> Seq(Node)]
      /\ frames \in Seq(Frame) /\ Len(frames) <= MaxDepth
      /\ pc \in Pc /\ callee \in Workloads /\ payload \in Payload
      /\ calls \in Seq([of : Services, with : Payload]) /\ late \in Nat
  BY Catalog DEF Init, Payload, Pc
<1>2. LoopRuns /\ CallsAreToServices /\ LoopsEnd
  BY DEF Init, LoopRuns, CallsAreToServices, LoopsEnd
<1> QED
  BY <1>1, <1>2, Zenon DEF Init, TypeInv, TypeOK

\* The innermost frame is one.
LEMMA TopFrame ==
    ASSUME TypeInv, frames # <<>>
    PROVE  /\ Len(frames) \in DOMAIN frames
           /\ Len(frames) \in Nat \ {0}
           /\ Top \in Frame
BY DEF TypeInv, TypeOK, Top

\* The node at which a loop stands is one, and its input is a payload.
LEMMA NodeTyped ==
    ASSUME TypeInv, AtNode, Usable(ThisNode)
    PROVE  /\ ThisNode \in Node
           /\ ThisNode.uses \in Workloads
           /\ NodeInput(ThisNode) \in Payload
<1>1. Top \in Frame /\ steps \in [Pipelines -> Seq(Node)]
  BY TopFrame DEF AtNode, TypeInv, TypeOK, LoopRuns
<1>2. Top.of \in Pipelines /\ Top.at \in Nat \ {0} /\ Top.last \in Payload
      /\ Top.outputs \in [NodeIds -> Payload \cup {None}]
  BY <1>1 DEF Frame
<1>3. steps[Top.of] \in Seq(Node) /\ Top.at \in 1..Len(steps[Top.of])
  BY <1>1, <1>2 DEF AtNode
<1>4. ThisNode \in Node
  BY <1>3 DEF ThisNode
<1>5. ThisNode.from \in NodeIds \cup {None}
  BY <1>4 DEF Node
<1>6. CASE ThisNode.from = None
  BY <1>2, <1>4, <1>6 DEF NodeInput, Usable
<1>7. CASE ThisNode.from # None
  <2>1. Top.outputs[ThisNode.from] # None
    BY <1>7 DEF Usable
  <2> QED
    BY <1>2, <1>4, <1>5, <1>7, <2>1 DEF NodeInput, Usable
<1> QED
  BY <1>6, <1>7

\* A tag more makes a payload of a payload.
LEMMA AppendTag ==
    ASSUME NEW p \in Payload, NEW t \in Tags
    PROVE  Append(p, t) \in Payload
BY DEF Payload

LEMMA ProgressTypes == TypeInv /\ Execution => TypeInv'
<1> SUFFICES ASSUME TypeInv, Execution PROVE TypeInv'
  OBVIOUS
<1>u. UNCHANGED <<steps, requested, broken>>
  BY DEF Execution
<1>t. /\ TypeOK /\ LoopRuns
      /\ pc' \in Pc /\ frames' \in Seq(Frame) /\ Len(frames') <= MaxDepth
      /\ callee' \in Workloads /\ payload' \in Payload
      /\ calls' \in Seq([of : Services, with : Payload]) /\ late' \in Nat
      /\ outcome' \in {"none", "returned", "cancelled", "failed"}
      /\ (outcome' = "none") <=> (pc' # "done")
      /\ LoopRuns' /\ CallsAreToServices' /\ LoopsEnd'
      => TypeInv'
  BY <1>u DEF TypeInv, TypeOK
<1> USE DEF TypeInv, TypeOK, LoopRuns, CallsAreToServices, LoopsEnd, Goto, Finish, Pc
<1>1. CASE CancelBefore \/ TooDeep \/ CancelBetween \/ BadNode \/ RunDone
  BY <1>1, <1>t DEF CancelBefore, TooDeep, MayStart, CancelBetween, AtNode, BadNode, RunDone
<1>2. CASE EnterEmpty \/ PrepareCall
  BY <1>2, <1>t DEF EnterEmpty, PrepareCall, MayStart
<1>3. CASE EnterPipeline
  <2>1. [of |-> callee, at |-> 1, outputs |-> NoOutputs, last |-> payload] \in Frame
    BY <1>3 DEF EnterPipeline, Frame, NoOutputs
  <2>2. frames' \in Seq(Frame) /\ Len(frames') = Len(frames) + 1
    BY <1>3, <2>1 DEF EnterPipeline
  <2>3. Len(frames') <= MaxDepth
    BY <1>3, <2>2, Catalog DEF EnterPipeline
  <2>4. frames' # <<>>
    BY <2>2
  <2> QED
    BY <1>3, <1>t, <2>2, <2>3, <2>4 DEF EnterPipeline, MayStart
<1>4. CASE AnswerMock
  <2>1. payload' \in Payload
    BY <1>4, AppendTag DEF AnswerMock, Tags
  <2> QED
    BY <1>4, <1>t, <2>1 DEF AnswerMock, MayStart
<1>5. CASE Dial
  <2>1. callee \in Services
    BY <1>5 DEF Dial
  <2> QED
    BY <1>5, <1>t, <2>1 DEF Dial
<1>6. CASE Answer
  <2>1. payload' \in Payload
    BY <1>6, AppendTag DEF Answer, Tags
  <2> QED
    BY <1>6, <1>t, <2>1 DEF Answer
<1>7. CASE AfterCall
  BY <1>7, <1>t DEF AfterCall
<1>8. CASE StartNode
  <2>1. callee' \in Workloads
    BY <1>8, NodeTyped DEF StartNode
  <2>2. frames # <<>>
    BY <1>8 DEF StartNode, AtNode
  <2>3. <<Top.of, Top.at>> \in Tags
    BY <2>2, TopFrame DEF Tags, Frame
  <2>4. payload' \in Payload
    BY <1>8, <2>3, NodeTyped, AppendTag DEF StartNode
  <2>5. pc = "node" /\ pc' = "execute" /\ UNCHANGED <<frames, calls, late, outcome>>
    BY <1>8 DEF StartNode, AtNode
  <2> QED
    BY <1>t, <2>1, <2>4, <2>5
<1>9. CASE NodeDone
  <2>1. frames # <<>> /\ Top \in Frame /\ Len(frames) \in DOMAIN frames
    BY <1>9, TopFrame DEF NodeDone
  <2>2. Filed(Top) \in Frame
    <3> DEFINE outs == [Top.outputs EXCEPT ![ThisNode.id] = payload]
    <3>1. outs \in [NodeIds -> Payload \cup {None}]
      BY <2>1 DEF Frame
    <3>2. Filed(Top) = [Top EXCEPT !.outputs = outs, !.last = payload, !.at = @ + 1]
      BY Zenon DEF Filed
    <3> HIDE DEF outs
    <3>3. Top = [of |-> Top.of, at |-> Top.at, outputs |-> Top.outputs, last |-> Top.last]
      BY <2>1 DEF Frame
    <3>4. Filed(Top) = [of |-> Top.of, at |-> Top.at + 1, outputs |-> outs, last |-> payload]
      BY <3>2, <3>3
    <3> QED
      BY <2>1, <3>1, <3>4 DEF Frame
  <2>3. frames' = [frames EXCEPT ![Len(frames)] = Filed(Top)]
    BY <1>9 DEF NodeDone
  <2>4. frames' \in Seq(Frame) /\ Len(frames') = Len(frames)
    BY <2>1, <2>2, <2>3
  <2> QED
    BY <1>9, <1>t, <2>1, <2>4 DEF NodeDone
<1>10. CASE PipelineDone
  <2>1. frames # <<>> /\ Top \in Frame
    BY <1>10, TopFrame DEF PipelineDone
  <2>2. payload' \in Payload
    BY <1>10, <2>1 DEF PipelineDone, Frame
  <2>3. frames' \in Seq(Frame) /\ Len(frames') <= Len(frames)
    BY <1>10, <2>1, TopFrame DEF PipelineDone, Below
  <2> QED
    BY <1>10, <1>t, <2>2, <2>3, Catalog DEF PipelineDone
<1> QED
  BY <1>1, <1>2, <1>3, <1>4, <1>5, <1>6, <1>7, <1>8, <1>9, <1>10 DEF Execution, Progress

LEMMA StepTypes == TypeInv /\ [Next]_vars => TypeInv'
<1> SUFFICES ASSUME TypeInv, [Next]_vars PROVE TypeInv'
  OBVIOUS
<1>1. CASE Execution
  BY <1>1, ProgressTypes
<1>2. CASE RequestCancel
  BY <1>2 DEF RequestCancel, flow, TypeInv, TypeOK, LoopRuns, CallsAreToServices, LoopsEnd
<1>3. CASE Break
  BY <1>3 DEF Break, Finish, TypeInv, TypeOK, LoopRuns, CallsAreToServices, LoopsEnd, Pc
<1>4. CASE UNCHANGED vars
  BY <1>4 DEF vars, TypeInv, TypeOK, LoopRuns, CallsAreToServices, LoopsEnd
<1> QED
  BY <1>1, <1>2, <1>3, <1>4 DEF Next

LEMMA TypeInvAlways == Spec => []TypeInv
BY InitTypeInv, StepTypes, PTL DEF Spec

\* Every variable keeps its type, and the nesting its bound.
THEOREM PipelineTypeCorrect == Spec => []TypeOK
BY TypeInvAlways, PTL DEF TypeInv

-----------------------------------------------------------------------------
\* A late call is the last one: what follows is the look that ends the run.
LateInv ==
    /\ late \in {0, 1}
    /\ late = 1 => requested /\ pc \in {"dialed", "answered", "done"}

LEMMA StepLate == LateInv /\ [Next]_vars => LateInv'
<1> SUFFICES ASSUME LateInv, [Next]_vars PROVE LateInv'
  OBVIOUS
<1> USE DEF LateInv, Goto, Finish
<1>1. CASE Execution
  BY <1>1 DEF Execution, Progress, CancelBefore, MayStart, EnterEmpty, EnterPipeline, TooDeep,
     AnswerMock, PrepareCall, Dial, Answer, AfterCall, AtNode, CancelBetween, BadNode,
     StartNode, NodeDone, PipelineDone, RunDone
<1>2. CASE RequestCancel
  BY <1>2 DEF RequestCancel, flow
<1>3. CASE Break
  BY <1>3 DEF Break
<1>4. CASE UNCHANGED vars
  BY <1>4 DEF vars
<1> QED
  BY <1>1, <1>2, <1>3, <1>4 DEF Next

\* After a cancel request at most one more service is called.
THEOREM LateCallsAreBounded == Spec => []OneLateCall
<1>1. Init => LateInv
  BY DEF Init, LateInv
<1>2. LateInv => OneLateCall
  BY DEF LateInv, OneLateCall
<1> QED
  BY <1>1, <1>2, StepLate, PTL DEF Spec

-----------------------------------------------------------------------------
\* A request has come while a look for it was ahead: it stays ahead until it ends the run.
Heard ==
    /\ requested
    /\ LookAhead \/ outcome \in {"cancelled", "failed"}
    /\ outcome # "returned"

LEMMA ExecutionHears == TypeInv /\ Heard /\ Execution => Heard'
<1> SUFFICES ASSUME TypeInv, Heard, Execution PROVE Heard'
  OBVIOUS
<1> USE DEF Goto, Finish
<1>u. requested' /\ UNCHANGED steps
  BY DEF Execution, Heard
<1>1. CASE CancelBefore \/ TooDeep \/ CancelBetween \/ BadNode \/ AfterCall
  BY <1>1, <1>u DEF CancelBefore, TooDeep, CancelBetween, BadNode, AfterCall, Heard
<1>2. CASE EnterEmpty \/ EnterPipeline \/ AnswerMock \/ PrepareCall \/ StartNode
  BY <1>2 DEF EnterEmpty, EnterPipeline, AnswerMock, PrepareCall, StartNode, MayStart, Heard
<1>3. CASE Dial \/ Answer
  BY <1>3, <1>u DEF Dial, Answer, Heard, LookAhead
<1>4. CASE RunDone
  BY <1>4 DEF RunDone, Heard, LookAhead, AtNode, TypeInv, TypeOK
<1>5. CASE NodeDone
  <2>1. /\ pc = "return" /\ frames # <<>> /\ pc' = "node" /\ UNCHANGED outcome
        /\ frames' = [frames EXCEPT ![Len(frames)] = Filed(Top)]
    BY <1>5 DEF NodeDone
  <2>2. Top \in Frame /\ Len(frames) \in DOMAIN frames
    BY <2>1, TopFrame
  <2>3. Filed(Top).at = Top.at + 1 /\ Filed(Top).of = Top.of
    BY <2>2 DEF Filed, Frame
  <2>4. PICK i \in DOMAIN frames : frames[i].at < Len(steps[frames[i].of])
    BY <2>1 DEF Heard, LookAhead, AtNode, TypeInv, TypeOK
  <2>5. outcome' # "returned" /\ Len(frames') = Len(frames) /\ DOMAIN frames' = DOMAIN frames
    BY <2>1 DEF Heard, TypeInv, TypeOK
  <2>6. CASE i = Len(frames)
    <3>1. frames'[Len(frames')] = Filed(Top)
      BY <2>1, <2>2, <2>5
    <3>2. Top.at < Len(steps[Top.of])
      BY <2>4, <2>6 DEF Top
    <3>3. Top.at \in Nat /\ steps[Top.of] \in Seq(Node)
      BY <2>2 DEF Frame, TypeInv, TypeOK
    <3>4. AtNode'
      BY <1>u, <2>1, <2>3, <3>1, <3>2, <3>3 DEF AtNode, Top
    <3> QED
      BY <1>u, <2>5, <3>4 DEF Heard, LookAhead
  <2>7. CASE i # Len(frames)
    <3>1. frames'[i] = frames[i]
      BY <2>1, <2>4, <2>7
    <3> QED
      BY <1>u, <2>4, <2>5, <3>1 DEF Heard, LookAhead
  <2> QED
    BY <2>6, <2>7
<1>6. CASE PipelineDone
  <2>1. /\ pc = "node" /\ Top.at > Len(steps[Top.of]) /\ frames' = Below
        /\ UNCHANGED outcome /\ pc' = "return"
    BY <1>6 DEF PipelineDone
  <2>2. Top \in Frame /\ Len(frames) \in Nat \ {0} /\ frames \in Seq(Frame)
    BY <2>1, TopFrame DEF TypeInv, TypeOK, LoopRuns
  <2>3. Top.at \in Nat /\ steps[Top.of] \in Seq(Node)
    BY <2>2 DEF Frame, TypeInv, TypeOK
  <2>4. ~AtNode
    BY <2>1, <2>3 DEF AtNode
  <2>5. PICK i \in DOMAIN frames : frames[i].at < Len(steps[frames[i].of])
    BY <2>1, <2>4 DEF Heard, LookAhead, TypeInv, TypeOK
  <2>6. i # Len(frames)
    BY <2>1, <2>3, <2>5 DEF Top
  <2>7. i \in DOMAIN frames' /\ frames'[i] = frames[i]
    BY <2>1, <2>2, <2>5, <2>6 DEF Below
  <2> QED
    BY <1>u, <2>1, <2>5, <2>7 DEF Heard, LookAhead
<1> QED
  BY <1>1, <1>2, <1>3, <1>4, <1>5, <1>6 DEF Execution, Progress

LEMMA StepHears == TypeInv /\ Heard /\ [Next]_vars => Heard'
<1> SUFFICES ASSUME TypeInv, Heard, [Next]_vars PROVE Heard'
  OBVIOUS
<1>1. CASE Execution
  BY <1>1, ExecutionHears
<1>2. CASE RequestCancel
  BY <1>2 DEF RequestCancel, Heard
<1>3. CASE Break
  BY <1>3 DEF Break, Finish, Heard
<1>4. CASE UNCHANGED vars
  BY <1>4 DEF vars, Heard, LookAhead, AtNode, Top
<1> QED
  BY <1>1, <1>2, <1>3, <1>4 DEF Next

\* A request that comes before the last look for it keeps the run from returning, however
\* deep the pipeline that is being executed.
THEOREM PipelineRequestsAreHeard == Spec => RequestIsHeard
<1>1. TypeInv /\ requested /\ LookAhead => Heard
  BY DEF Heard, LookAhead, AtNode, TypeInv, TypeOK, LoopsEnd
<1>2. Heard => outcome # "returned"
  BY DEF Heard
<1> QED
  BY <1>1, <1>2, StepHears, TypeInvAlways, PTL DEF Spec, RequestIsHeard

-----------------------------------------------------------------------------
\* The safety of ExecutorContract: it ends once, and "cancelled" only when asked.
THEOREM PipelineEndsAsContracted == Spec => Contract!Init /\ [][Contract!Next]_(Contract!vars)
<1>1. Init => Contract!Init
  BY DEF Init, Contract!Init
<1>2. TypeInv /\ [Next]_vars => [Contract!Next]_(Contract!vars)
  <2> SUFFICES ASSUME TypeInv, [Next]_vars PROVE [Contract!Next]_(Contract!vars)
    OBVIOUS
  <2> USE DEF Contract!Next, Contract!vars, Contract!Request, Contract!End, TypeInv, TypeOK
  <2>1. CASE Execution
    BY <2>1 DEF Execution, Progress, CancelBefore, MayStart, EnterEmpty, EnterPipeline, TooDeep,
       AnswerMock, PrepareCall, Dial, Answer, AfterCall, AtNode, CancelBetween, BadNode,
       StartNode, NodeDone, PipelineDone, RunDone, Goto, Finish
  <2>2. CASE RequestCancel
    BY <2>2 DEF RequestCancel, flow
  <2>3. CASE Break
    BY <2>3 DEF Break, Finish
  <2>4. CASE UNCHANGED vars
    BY <2>4 DEF vars
  <2> QED
    BY <2>1, <2>2, <2>3, <2>4 DEF Next
<1> QED
  BY <1>1, <1>2, TypeInvAlways, PTL DEF Spec

-----------------------------------------------------------------------------
(* The executors' loops compute what the manifests mean. First, sequences *)
(* that begin others, and induction, which has to be about sets.           *)

\* s is how t begins.
Begins(s, t) == Len(s) <= Len(t) /\ \A i \in 1..Len(s) : s[i] = t[i]

LEMMA BeginsReflexive ==
    ASSUME NEW s \in Seq(Call)
    PROVE  Begins(s, s)
BY DEF Begins

LEMMA BeginsTransitive ==
    ASSUME NEW s \in Seq(Call), NEW t \in Seq(Call), NEW u \in Seq(Call),
           Begins(s, t), Begins(t, u)
    PROVE  Begins(s, u)
BY DEF Begins

LEMMA BeginsAppend ==
    ASSUME NEW s \in Seq(Call), NEW c \in Call
    PROVE  Begins(s, Append(s, c)) /\ Append(s, c) \in Seq(Call)
BY DEF Begins

\* A set of numbers has a least one.
LEMMA LeastNumber ==
    ASSUME NEW S \in SUBSET Nat, S # {}
    PROVE  \E n \in S : \A k \in S : n <= k
<1> DEFINE T == {0..n : n \in S}
<1>1. \A n \in S : 0..n \in FiniteSubsetsOf(Nat)
  BY FS_Interval DEF FiniteSubsetsOf
<1>2. T \subseteq FiniteSubsetsOf(Nat) /\ T # {}
  BY <1>1
<1>3. PICK x \in T : \A y \in T : <<y, x>> \notin StrictSubsetOrdering(Nat)
  <2> HIDE DEF T
  <2> QED
    BY <1>2, FS_StrictSubsetOrderingWellFounded, WFMin
<1>4. PICK n \in S : x = 0..n
  OBVIOUS
<1>5. ASSUME NEW k \in S, k < n PROVE FALSE
  <2>1. 0..k \in SUBSET Nat /\ 0..n \in SUBSET Nat /\ 0..k \subseteq 0..n
    BY <1>5
  <2>2. n \in 0..n /\ n \notin 0..k
    BY <1>5
  <2>3. <<0..k, 0..n>> \in StrictSubsetOrdering(Nat)
    BY <2>1, <2>2 DEF StrictSubsetOrdering
  <2> QED
    BY <1>3, <1>4, <2>3
<1> QED
  BY <1>5

\* Induction, for a set: what has 0 and every successor has all numbers.
LEMMA SetInduction ==
    ASSUME NEW S, 0 \in S, \A n \in Nat : n \in S => n + 1 \in S
    PROVE  Nat \subseteq S
<1> SUFFICES ASSUME Nat \ S # {} PROVE FALSE
  OBVIOUS
<1>1. PICK n \in Nat \ S : \A k \in Nat \ S : n <= k
  BY LeastNumber
<1>2. n - 1 \in Nat \ S
  BY <1>1
<1> QED
  BY <1>1, <1>2

-----------------------------------------------------------------------------
(* The recursive functions of PipelineMeaning solve their equations.       *)

\* The recursion on the nodes has a solution, so that NodesOf is one.
LEMMA NodesAre ==
    ASSUME NEW m, NEW q, NEW below, Len(m[q.of]) \in Nat
    PROVE  NodesOf(m, q, below) =
             [i \in 0..Len(m[q.of]) |->
                IF i = 0 THEN Start(q)
                         ELSE After(m, q.of, i, NodesOf(m, q, below)[i - 1], below)]
<1> DEFINE L == Len(m[q.of])
           Step(i, s) == After(m, q.of, i, s, below)
           Solves(f, n) == f = [i \in 0..n |-> IF i = 0 THEN Start(q) ELSE Step(i, f[i - 1])]
           Good == {n \in Nat : \E f : Solves(f, n)}
<1> HIDE DEF Step
<1>1. 0 \in Good
  <2>1. Solves([i \in 0..0 |-> Start(q)], 0)
    OBVIOUS
  <2> HIDE DEF Solves
  <2> QED
    BY <2>1
<1>2. ASSUME NEW n \in Nat, n \in Good PROVE n + 1 \in Good
  <2>1. PICK f : Solves(f, n)
    BY <1>2
  <2> DEFINE next == Step(n + 1, f[n])
             g == [i \in 0..(n + 1) |-> IF i = n + 1 THEN next ELSE f[i]]
  <2>2. ASSUME NEW i \in 0..(n + 1)
        PROVE  g[i] = IF i = 0 THEN Start(q) ELSE Step(i, g[i - 1])
    <3>1. CASE i = n + 1
      <4>1. g[n + 1] = next /\ g[n] = f[n] /\ i - 1 = n /\ i # 0
        BY <3>1
      <4> HIDE DEF g
      <4> QED
        BY <3>1, <4>1
    <3>2. CASE i # n + 1
      <4>1. i \in 0..n /\ g[i] = f[i] /\ (i # 0 => g[i - 1] = f[i - 1])
        BY <3>2
      <4> HIDE DEF g
      <4> QED
        BY <4>1, <2>1
    <3> QED
      BY <3>1, <3>2
  <2>3. Solves(g, n + 1)
    <3>1. g = [i \in 0..(n + 1) |-> g[i]]
      OBVIOUS
    <3> HIDE DEF g
    <3> QED
      BY <2>2, <3>1
  <2> HIDE DEF Solves, g
  <2> QED
    BY <2>3
<1>3. L \in Good
  <2> HIDE DEF Good
  <2> QED
    BY <1>1, <1>2, SetInduction
<1>4. NodesOf(m, q, below) = CHOOSE f : Solves(f, L)
  BY DEF NodesOf, Step
<1>5. Solves(NodesOf(m, q, below), L)
  <2> HIDE DEF Solves
  <2> QED
    BY <1>3, <1>4
<1> QED
  BY <1>5 DEF Step

\* So has the recursion on the levels.
LEMMA LevelsAre ==
    ASSUME NEW m
    PROVE  Meaning(m) =
             [k \in 0..MaxDepth |->
                IF k = 0 THEN Shallow(m) ELSE Deep(m, Meaning(m)[k - 1])]
<1> DEFINE Step(s) == Deep(m, s)
           Solves(f, n) == f = [i \in 0..n |-> IF i = 0 THEN Shallow(m) ELSE Step(f[i - 1])]
           Good == {n \in Nat : \E f : Solves(f, n)}
<1> HIDE DEF Step
<1>1. 0 \in Good
  <2>1. Solves([i \in 0..0 |-> Shallow(m)], 0)
    OBVIOUS
  <2> HIDE DEF Solves
  <2> QED
    BY <2>1
<1>2. ASSUME NEW n \in Nat, n \in Good PROVE n + 1 \in Good
  <2>1. PICK f : Solves(f, n)
    BY <1>2
  <2> DEFINE next == Step(f[n])
             g == [i \in 0..(n + 1) |-> IF i = n + 1 THEN next ELSE f[i]]
  <2>2. ASSUME NEW i \in 0..(n + 1)
        PROVE  g[i] = IF i = 0 THEN Shallow(m) ELSE Step(g[i - 1])
    <3>1. CASE i = n + 1
      <4>1. g[n + 1] = next /\ g[n] = f[n] /\ i - 1 = n /\ i # 0
        BY <3>1
      <4> HIDE DEF g
      <4> QED
        BY <3>1, <4>1
    <3>2. CASE i # n + 1
      <4>1. i \in 0..n /\ g[i] = f[i] /\ (i # 0 => g[i - 1] = f[i - 1])
        BY <3>2
      <4> HIDE DEF g
      <4> QED
        BY <4>1, <2>1
    <3> QED
      BY <3>1, <3>2
  <2>3. Solves(g, n + 1)
    <3>1. g = [i \in 0..(n + 1) |-> g[i]]
      OBVIOUS
    <3> HIDE DEF g
    <3> QED
      BY <2>2, <3>1
  <2> HIDE DEF Solves, g
  <2> QED
    BY <2>3
<1>3. MaxDepth \in Good
  <2> HIDE DEF Good
  <2> QED
    BY <1>1, <1>2, SetInduction, Catalog
<1>4. Meaning(m) = CHOOSE f : Solves(f, MaxDepth)
  BY DEF Meaning, Step
<1>5. Solves(Meaning(m), MaxDepth)
  <2> HIDE DEF Solves
  <2> QED
    BY <1>3, <1>4
<1> QED
  BY <1>5 DEF Step

-----------------------------------------------------------------------------
(* Types, and that calls are only added.                                   *)

Results == [ok : BOOLEAN, value : Payload, made : Seq(Call)]
Between == [ok : BOOLEAN, last : Payload, values : Seq(Payload), made : Seq(Call)]

\* What workloads mean is a result each, and what was called before is called first.
Good(below) ==
    /\ below \in [Asked -> Results]
    /\ \A q \in Asked : Begins(q.made, below[q].made)

\* What i nodes left, or a failing one among them.
Fits(i, s) == s \in Between /\ (s.ok => Len(s.values) = i)

\* A set of nodes has a last one.
LEMMA LatestIsOne ==
    ASSUME NEW i \in Nat, NEW J \in SUBSET (1..i), J # {}
    PROVE  Latest(J) \in J /\ \A k \in J : k <= Latest(J)
<1> DEFINE Above == {n \in Nat : \A k \in J : k <= n}
<1>1. i \in Above
  OBVIOUS
<1>2. PICK n \in Above : \A k \in Above : n <= k
  BY <1>1, LeastNumber
<1>3. n \in J
  <2> SUFFICES ASSUME n \notin J PROVE FALSE
    OBVIOUS
  <2>1. \A k \in J : k <= n - 1 /\ n - 1 \in Nat
    BY <1>2
  <2>2. n - 1 \in Above
    BY <2>1
  <2> QED
    BY <1>2, <2>2
<1>4. \E j \in J : \A k \in J : k <= j
  BY <1>2, <1>3
<1> QED
  BY <1>4 DEF Latest

\* What a runnable node asks for is something workloads can be asked for.
LEMMA AsksTyped ==
    ASSUME NEW m \in [Pipelines -> Seq(Node)], NEW p \in Pipelines, NEW i \in 1..Len(m[p]),
           NEW s, Fits(i - 1, s), s.ok, Runnable(m, p, i)
    PROVE  Asks(m, p, i, s) \in Asked /\ Asks(m, p, i, s).made = s.made
<1> DEFINE input == IF m[p][i].from = None THEN s.last ELSE s.values[Latest(Sources(m, p, i))]
<1>1. m[p] \in Seq(Node) /\ m[p][i] \in Node /\ i \in Nat \ {0}
  OBVIOUS
<1>2. m[p][i].uses \in Workloads
  BY <1>1 DEF Runnable, Node
<1>3. s.last \in Payload /\ s.values \in Seq(Payload) /\ s.made \in Seq(Call)
      /\ Len(s.values) = i - 1
  BY DEF Fits, Between
<1>4. input \in Payload
  <2>1. CASE m[p][i].from = None
    BY <1>3, <2>1
  <2>2. CASE m[p][i].from # None
    <3>1. Sources(m, p, i) \in SUBSET (1..(i - 1)) /\ Sources(m, p, i) # {}
      BY <2>2 DEF Runnable, Sources
    <3>2. i - 1 \in Nat
      BY <1>1
    <3>3. Latest(Sources(m, p, i)) \in Sources(m, p, i)
      BY <3>1, <3>2, LatestIsOne
    <3>4. Latest(Sources(m, p, i)) \in 1..(i - 1)
      BY <3>1, <3>3
    <3> QED
      BY <1>3, <2>2, <3>4
  <2> QED
    BY <2>1, <2>2
<1>5. Append(input, <<p, i>>) \in Payload
  <2> HIDE DEF input
  <2>1. <<p, i>> \in Tags
    BY <1>1 DEF Tags
  <2> QED
    BY <1>4, <2>1, AppendTag
<1>6. Asks(m, p, i, s) = [of |-> m[p][i].uses, with |-> Append(input, <<p, i>>), made |-> s.made]
  BY DEF Asks
<1> HIDE DEF input
<1> QED
  BY <1>2, <1>3, <1>5, <1>6 DEF Asked

\* A node adds calls, and one output unless it fails; after a failure it does nothing.
LEMMA AfterTyped ==
    ASSUME NEW m \in [Pipelines -> Seq(Node)], NEW p \in Pipelines, NEW i \in 1..Len(m[p]),
           NEW s, Fits(i - 1, s), NEW below, Good(below)
    PROVE  /\ Fits(i, After(m, p, i, s, below))
           /\ Begins(s.made, After(m, p, i, s, below).made)
           /\ ~s.ok => After(m, p, i, s, below) = s
<1>1. s \in Between
  BY DEF Fits
<1>2. CASE s.ok /\ Runnable(m, p, i)
  <2> DEFINE r == below[Asks(m, p, i, s)]
  <2>1. r \in Results /\ Begins(s.made, r.made)
    BY <1>2, AsksTyped DEF Good
  <2>2. After(m, p, i, s, below) = [ok |-> r.ok, last |-> r.value,
                                    values |-> Append(s.values, r.value), made |-> r.made]
    BY <1>2 DEF After
  <2> HIDE DEF r
  <2>3. s.values \in Seq(Payload) /\ Len(s.values) = i - 1
    BY <1>2 DEF Fits, Between
  <2>4. Append(s.values, r.value) \in Seq(Payload) /\ Len(Append(s.values, r.value)) = i
    BY <2>1, <2>3 DEF Results
  <2> QED
    BY <1>2, <2>1, <2>2, <2>4 DEF Fits, Between, Results
<1>3. CASE ~(s.ok /\ Runnable(m, p, i))
  <2>1. After(m, p, i, s, below) = [s EXCEPT !.ok = FALSE]
    BY <1>3 DEF After
  <2>2. s = [ok |-> s.ok, last |-> s.last, values |-> s.values, made |-> s.made]
        /\ s.made \in Seq(Call) /\ s.ok \in BOOLEAN
    BY <1>1 DEF Between
  <2>3. After(m, p, i, s, below) =
          [ok |-> FALSE, last |-> s.last, values |-> s.values, made |-> s.made]
    BY <2>1, <2>2
  <2>4. Fits(i, After(m, p, i, s, below))
    BY <1>1, <2>3 DEF Fits, Between
  <2>5. ~s.ok => After(m, p, i, s, below) = s
    BY <2>2, <2>3
  <2> QED
    BY <2>2, <2>3, <2>4, <2>5, BeginsReflexive
<1> QED
  BY <1>2, <1>3

\* So do all of them.
LEMMA NodesTyped ==
    ASSUME NEW m \in [Pipelines -> Seq(Node)], NEW q \in Asked, HasNodes(m, q),
           NEW below, Good(below)
    PROVE  \A i \in 0..Len(m[q.of]) : Fits(i, NodesOf(m, q, below)[i])
<1> DEFINE L == Len(m[q.of])
           N == NodesOf(m, q, below)
           Right == {i \in Nat : i <= L => Fits(i, N[i])}
<1>1. q.of \in Pipelines /\ L \in Nat
  BY DEF HasNodes
<1>2. N = [i \in 0..L |-> IF i = 0 THEN Start(q) ELSE After(m, q.of, i, N[i - 1], below)]
  BY <1>1, NodesAre
<1> HIDE DEF N
<1>3. 0 \in Right
  <2>1. N[0] = Start(q)
    BY <1>1, <1>2
  <2>2. Fits(0, Start(q))
    BY DEF Fits, Between, Start, Asked
  <2> QED
    BY <2>1, <2>2
<1>4. ASSUME NEW i \in Nat, i \in Right PROVE i + 1 \in Right
  <2> SUFFICES ASSUME i + 1 <= L PROVE Fits(i + 1, N[i + 1])
    OBVIOUS
  <2>1. Fits(i, N[i])
    BY <1>1, <1>4
  <2>2. i + 1 \in 1..L /\ i + 1 \in 0..L /\ (i + 1) - 1 = i
    BY <1>1
  <2>3. N[i + 1] = After(m, q.of, i + 1, N[i], below)
    BY <1>2, <2>2
  <2> QED
    BY <1>1, <2>1, <2>2, <2>3, AfterTyped
<1> HIDE DEF Right
<1>5. Nat \subseteq Right
  BY <1>3, <1>4, SetInduction
<1> QED
  BY <1>1, <1>5 DEF Right, N

\* The calls only become more, and after a failure there is nothing.
LEMMA NodesGrow ==
    ASSUME NEW m \in [Pipelines -> Seq(Node)], NEW q \in Asked, HasNodes(m, q),
           NEW below, Good(below), NEW i \in 0..Len(m[q.of])
    PROVE  LET N == NodesOf(m, q, below)
               L == Len(m[q.of])
           IN  Begins(N[i].made, N[L].made) /\ (~N[i].ok => N[L] = N[i])
<1> DEFINE L == Len(m[q.of])
           N == NodesOf(m, q, below)
           Before(j) == Begins(N[i].made, N[j].made) /\ (~N[i].ok => N[j] = N[i])
           Right == {k \in Nat : i + k <= L => Before(i + k)}
<1>1. q.of \in Pipelines /\ L \in Nat /\ i \in Nat
  BY DEF HasNodes
<1>2. N = [j \in 0..L |-> IF j = 0 THEN Start(q) ELSE After(m, q.of, j, N[j - 1], below)]
  BY <1>1, NodesAre
<1>3. \A j \in 0..L : Fits(j, N[j]) /\ N[j].made \in Seq(Call)
  BY NodesTyped DEF Fits, Between
<1> HIDE DEF N
<1>4. 0 \in Right
  BY <1>1, <1>3, BeginsReflexive
<1>5. ASSUME NEW k \in Nat, k \in Right PROVE k + 1 \in Right
  <2> SUFFICES ASSUME i + (k + 1) <= L PROVE Before(i + (k + 1))
    OBVIOUS
  <2> DEFINE j == i + k
  <2>1. j \in 0..L /\ j + 1 \in 1..L /\ j + 1 \in 0..L /\ (j + 1) - 1 = j /\ i + (k + 1) = j + 1
    BY <1>1
  <2>2. Before(j)
    BY <1>1, <1>5
  <2> HIDE DEF j
  <2>3. N[j + 1] = After(m, q.of, j + 1, N[j], below)
    BY <1>2, <2>1
  <2>4. Begins(N[j].made, N[j + 1].made) /\ (~N[j].ok => N[j + 1] = N[j])
    BY <1>1, <1>3, <2>1, <2>3, AfterTyped
  <2>5. Begins(N[i].made, N[j + 1].made)
    BY <1>3, <2>1, <2>2, <2>4, BeginsTransitive
  <2> QED
    BY <2>1, <2>2, <2>4, <2>5
<1> HIDE DEF Right
<1>6. Nat \subseteq Right
  BY <1>4, <1>5, SetInduction
<1>7. L - i \in Nat /\ i + (L - i) = L
  BY <1>1
<1>8. Before(L)
  <2>1. L - i \in Right
    BY <1>6, <1>7
  <2> HIDE DEF Before, L
  <2>2. Before(i + (L - i))
    BY <1>7, <2>1 DEF Right
  <2> QED
    BY <1>7, <2>2
<1> QED
  BY <1>8 DEF N

\* A workload without nodes gives a result.
LEMMA AloneTyped ==
    ASSUME NEW q \in Asked
    PROVE  Alone(q) \in Results /\ Begins(q.made, Alone(q).made)
<1>1. q.of \in Workloads /\ q.with \in Payload /\ q.made \in Seq(Call)
  BY DEF Asked
<1>2. CASE q.of \in Services
  <2> DEFINE c == [of |-> q.of, with |-> q.with]
  <2>1. Append(q.made, c) \in Seq(Call) /\ Begins(q.made, Append(q.made, c))
    BY <1>1, <1>2, BeginsAppend DEF Call
  <2>2. Append(q.with, q.of) \in Payload
    BY <1>1, <1>2, AppendTag DEF Tags
  <2> HIDE DEF c
  <2> QED
    BY <1>2, <2>1, <2>2 DEF Alone, Result, Results, c
<1>3. CASE q.of \notin Services /\ q.of \in Mocks
  <2>1. Append(q.with, q.of) \in Payload
    BY <1>1, <1>3, AppendTag DEF Tags
  <2> QED
    BY <1>1, <1>3, <2>1, BeginsReflexive DEF Alone, Result, Results
<1>4. CASE q.of \notin Services /\ q.of \notin Mocks
  BY <1>1, <1>4, BeginsReflexive DEF Alone, Result, Results
<1> QED
  BY <1>2, <1>3, <1>4

\* So does a pipeline, if the workloads of its nodes do.
LEMMA DeepIsGood ==
    ASSUME NEW m \in [Pipelines -> Seq(Node)], NEW below, Good(below)
    PROVE  Good(Deep(m, below))
<1> DEFINE D(q) == IF HasNodes(m, q)
                     THEN LET end == NodesOf(m, q, below)[Len(m[q.of])]
                          IN  Result(end.ok, end.last, end.made)
                     ELSE Alone(q)
<1>1. ASSUME NEW q \in Asked PROVE D(q) \in Results /\ Begins(q.made, D(q).made)
  <2>1. CASE HasNodes(m, q)
    <3> DEFINE L == Len(m[q.of])
               end == NodesOf(m, q, below)[L]
    <3>1. L \in Nat /\ 0 \in 0..L /\ L \in 0..L
      BY <2>1 DEF HasNodes
    <3>2. end \in Between
      BY <2>1, <3>1, NodesTyped DEF Fits
    <3>3. NodesOf(m, q, below)[0] = Start(q)
      BY <3>1, NodesAre
    <3>4. Begins(q.made, end.made)
      <4>1. Begins(NodesOf(m, q, below)[0].made, end.made)
        BY <2>1, <3>1, NodesGrow
      <4>2. Start(q).made = q.made
        BY DEF Start
      <4> QED
        BY <3>3, <4>1, <4>2
    <3>5. D(q) = Result(end.ok, end.last, end.made)
      BY <2>1
    <3> HIDE DEF end, D
    <3> QED
      BY <3>2, <3>4, <3>5 DEF Result, Results, Between
  <2>2. CASE ~HasNodes(m, q)
    BY <2>2, AloneTyped
  <2> QED
    BY <2>1, <2>2
<1>2. Deep(m, below) = [q \in Asked |-> D(q)]
  BY DEF Deep
<1> HIDE DEF D
<1> QED
  BY <1>1, <1>2 DEF Good

\* And so does one that may not be entered.
LEMMA ShallowIsGood ==
    ASSUME NEW m
    PROVE  Good(Shallow(m))
<1> DEFINE D(q) == IF HasNodes(m, q) THEN Result(FALSE, q.with, q.made) ELSE Alone(q)
<1>1. ASSUME NEW q \in Asked PROVE D(q) \in Results /\ Begins(q.made, D(q).made)
  <2>1. CASE HasNodes(m, q)
    BY <2>1, BeginsReflexive DEF Result, Results, Asked
  <2>2. CASE ~HasNodes(m, q)
    BY <2>2, AloneTyped
  <2> QED
    BY <2>1, <2>2
<1>2. Shallow(m) = [q \in Asked |-> D(q)]
  BY DEF Shallow
<1> HIDE DEF D
<1> QED
  BY <1>1, <1>2 DEF Good

\* Hence all workloads do, at all levels.
LEMMA MeaningIsGood ==
    ASSUME NEW m \in [Pipelines -> Seq(Node)]
    PROVE  \A k \in 0..MaxDepth : Good(Meaning(m)[k])
<1> DEFINE M == Meaning(m)
           Right == {k \in Nat : k <= MaxDepth => Good(M[k])}
<1>1. M = [k \in 0..MaxDepth |-> IF k = 0 THEN Shallow(m) ELSE Deep(m, M[k - 1])]
      /\ MaxDepth \in Nat
  BY LevelsAre, Catalog
<1> HIDE DEF M
<1>2. 0 \in Right
  <2>1. M[0] = Shallow(m)
    BY <1>1
  <2> QED
    BY <2>1, ShallowIsGood
<1>3. ASSUME NEW k \in Nat, k \in Right PROVE k + 1 \in Right
  <2> SUFFICES ASSUME k + 1 <= MaxDepth PROVE Good(M[k + 1])
    OBVIOUS
  <2>1. Good(M[k])
    BY <1>1, <1>3
  <2>2. k + 1 \in 0..MaxDepth /\ (k + 1) - 1 = k /\ k + 1 # 0
    BY <1>1
  <2>3. M[k + 1] = Deep(m, M[k])
    BY <1>1, <2>2
  <2> QED
    BY <2>1, <2>3, DeepIsGood
<1> HIDE DEF Right
<1>4. Nat \subseteq Right
  BY <1>2, <1>3, SetInduction
<1>5. ASSUME NEW k \in 0..MaxDepth PROVE Good(M[k])
  <2>1. k \in Nat /\ k <= MaxDepth
    BY <1>1
  <2>2. k \in Right
    BY <1>4, <2>1
  <2> QED
    BY <2>1, <2>2 DEF Right
<1> QED
  BY <1>5 DEF M

-----------------------------------------------------------------------------
\* A workload without nodes means the same at every level.
LEMMA AloneMeans ==
    ASSUME NEW m, NEW q \in Asked, ~HasNodes(m, q), NEW k \in 0..MaxDepth
    PROVE  Meaning(m)[k][q] = Alone(q)
<1>1. Meaning(m)[k] = IF k = 0 THEN Shallow(m) ELSE Deep(m, Meaning(m)[k - 1])
  BY LevelsAre
<1> QED
  BY <1>1 DEF Shallow, Deep

\* A pipeline below the last level fails without a call.
LEMMA ShallowMeans ==
    ASSUME NEW m, NEW q \in Asked, HasNodes(m, q)
    PROVE  Meaning(m)[0][q] = Result(FALSE, q.with, q.made)
<1>1. Meaning(m)[0] = Shallow(m)
  <2>1. 0 \in 0..MaxDepth
    BY Catalog
  <2> QED
    BY <2>1, LevelsAre
<1> QED
  BY <1>1 DEF Shallow

\* Above it, it comes to what its nodes leave in the end.
LEMMA DeepMeans ==
    ASSUME NEW m, NEW q \in Asked, HasNodes(m, q), NEW k \in 1..MaxDepth
    PROVE  LET end == NodesOf(m, q, Meaning(m)[k - 1])[Len(m[q.of])]
           IN  Meaning(m)[k][q] = Result(end.ok, end.last, end.made)
<1>1. Meaning(m)[k] = Deep(m, Meaning(m)[k - 1])
  <2>1. k \in 0..MaxDepth /\ k # 0
    OBVIOUS
  <2> QED
    BY <2>1, LevelsAre
<1> QED
  BY <1>1 DEF Deep

-----------------------------------------------------------------------------
(* A frame f against the meaning, where its pipeline was asked for as q    *)
(* and workloads mean what below says.                                     *)

\* What the nodes before the one it is at left.
LeftTo(m, q, f, below) == NodesOf(m, q, below)[f.at - 1]

\* Of them, those with the id n.
Named(m, f, n) == {j \in 1..(f.at - 1) : m[f.of][j].id = n}

FrameOK(m, q, f, below) ==
    LET s == LeftTo(m, q, f, below)
    IN  /\ HasNodes(m, q) /\ f.of = q.of
        /\ f.at \in 1..(Len(m[q.of]) + 1)
        /\ s.ok /\ s.last = f.last
        /\ \A n \in NodeIds :
              f.outputs[n] = IF Named(m, f, n) = {} THEN None
                                                    ELSE s.values[Latest(Named(m, f, n))]

\* The node it is at is being executed, asked for as c.
LinkOK(m, q, f, below, c) ==
    /\ f.at \in 1..Len(m[q.of])
    /\ Runnable(m, q.of, f.at)
    /\ c = Asks(m, q.of, f.at, LeftTo(m, q, f, below))

\* What the nodes before the one at which a loop is left, and what that one leaves.
LEMMA LeftFits ==
    ASSUME NEW m \in [Pipelines -> Seq(Node)], NEW q \in Asked, NEW below, Good(below),
           NEW f, FrameOK(m, q, f, below)
    PROVE  /\ Fits(f.at - 1, LeftTo(m, q, f, below))
           /\ f.at <= Len(m[q.of]) =>
                 /\ f.at \in 1..Len(m[q.of])
                 /\ NodesOf(m, q, below)[f.at] =
                       After(m, q.of, f.at, LeftTo(m, q, f, below), below)
<1>1. /\ HasNodes(m, q) /\ f.at \in 1..(Len(m[q.of]) + 1)
      /\ Len(m[q.of]) \in Nat
  BY DEF FrameOK, HasNodes
<1>2. f.at - 1 \in 0..Len(m[q.of])
  BY <1>1
<1>3. f.at <= Len(m[q.of]) => f.at \in 0..Len(m[q.of]) /\ f.at # 0
  BY <1>1
<1> QED
  BY <1>1, <1>2, <1>3, NodesTyped, NodesAre DEF LeftTo

\* The loop's checks and its choice of an input are the manifest's.
LEMMA NodeMeans ==
    ASSUME NEW m \in [Pipelines -> Seq(Node)], NEW q \in Asked, NEW below, Good(below),
           NEW f \in Frame, FrameOK(m, q, f, below), f.at <= Len(m[q.of])
    PROVE  LET node  == m[q.of][f.at]
               s     == LeftTo(m, q, f, below)
               input == IF node.from = None THEN f.last ELSE f.outputs[node.from]
           IN  /\ Runnable(m, q.of, f.at)
                  <=> /\ node.uses \in Workloads
                      /\ node.from # None => f.outputs[node.from] # None
               /\ Runnable(m, q.of, f.at) =>
                    Asks(m, q.of, f.at, s) =
                      [of |-> node.uses, with |-> Append(input, <<f.of, f.at>>), made |-> s.made]
<1> DEFINE node == m[q.of][f.at]
           s    == LeftTo(m, q, f, below)
<1>1. f.of = q.of /\ q.of \in Pipelines /\ f.at \in 1..Len(m[q.of]) /\ node \in Node
  <2>1. f.of = q.of /\ q.of \in Pipelines /\ f.at \in 1..Len(m[q.of])
    BY LeftFits DEF FrameOK, HasNodes
  <2>2. m[q.of] \in Seq(Node)
    BY <2>1
  <2> QED
    BY <2>1, <2>2
<1>2. /\ s.ok /\ s.last = f.last /\ s.values \in Seq(Payload) /\ Len(s.values) = f.at - 1
      /\ f.at - 1 \in Nat
  <2>1. Fits(f.at - 1, s) /\ s.ok /\ s.last = f.last
    BY LeftFits DEF FrameOK
  <2>2. f.at - 1 \in Nat
    BY <1>1
  <2> HIDE DEF s
  <2> QED
    BY <2>1, <2>2 DEF Fits, Between
<1>3. node.uses \in Workloads \cup Strangers /\ node.from \in NodeIds \cup {None}
  BY <1>1 DEF Node
<1>4. node.uses \notin Strangers <=> node.uses \in Workloads
  BY <1>3, Catalog
<1>5. CASE node.from = None
  BY <1>1, <1>2, <1>4, <1>5 DEF Runnable, Asks
<1>6. CASE node.from # None
  <2> DEFINE J == Named(m, f, node.from)
  <2>1. node.from \in NodeIds /\ Sources(m, q.of, f.at) = J
    BY <1>1, <1>3, <1>6 DEF Named, Sources
  <2>2. f.outputs[node.from] = IF J = {} THEN None ELSE s.values[Latest(J)]
    BY <2>1 DEF FrameOK
  <2>3. J # {} => Latest(J) \in 1..(f.at - 1)
    <3>1. J \in SUBSET (1..(f.at - 1))
      BY DEF Named
    <3> HIDE DEF J
    <3> QED
      BY <1>2, <3>1, LatestIsOne
  <2> HIDE DEF J, s
  <2>4. J # {} => s.values[Latest(J)] \in Payload
    BY <1>2, <2>3
  <2>5. f.outputs[node.from] # None <=> J # {}
    BY <2>2, <2>4, Catalog
  <2>6. Runnable(m, q.of, f.at) <=> node.uses \notin Strangers /\ J # {}
    BY <1>6, <2>1 DEF Runnable
  <2>7. J # {} => Asks(m, q.of, f.at, s) =
           [of |-> node.uses, with |-> Append(f.outputs[node.from], <<f.of, f.at>>), made |-> s.made]
    BY <1>1, <1>6, <2>1, <2>2 DEF Asks
  <2> QED
    BY <1>4, <1>6, <2>5, <2>6, <2>7 DEF s
<1> QED
  BY <1>5, <1>6

\* The loop's variables are g instead of f when that node has given v.
Files(m, q, f, v, g) ==
    /\ g.of = f.of /\ g.at = f.at + 1 /\ g.last = v
    /\ \A n \in NodeIds : g.outputs[n] = IF n = m[q.of][f.at].id THEN v ELSE f.outputs[n]

\* Filing an output is what a node leaves.
LEMMA NodeFiled ==
    ASSUME NEW m \in [Pipelines -> Seq(Node)], NEW q \in Asked, NEW below, Good(below),
           NEW f \in Frame, FrameOK(m, q, f, below),
           NEW c, LinkOK(m, q, f, below, c),
           NEW v \in Payload, below[c].ok = TRUE, below[c].value = v,
           NEW g \in Frame, Files(m, q, f, v, g)
    PROVE  FrameOK(m, q, g, below)
<1> DEFINE node == m[q.of][f.at]
           s    == LeftTo(m, q, f, below)
           t    == LeftTo(m, q, g, below)
           made == below[c].made
<1>0. /\ g.of = f.of /\ g.at = f.at + 1 /\ g.last = v
      /\ \A n \in NodeIds : g.outputs[n] = IF n = node.id THEN v ELSE f.outputs[n]
  BY DEF Files
<1>1. /\ f.of = q.of /\ q.of \in Pipelines /\ HasNodes(m, q)
      /\ f.at \in 1..Len(m[q.of]) /\ Len(m[q.of]) \in Nat /\ node \in Node /\ node.id \in NodeIds
      /\ Runnable(m, q.of, f.at) /\ c = Asks(m, q.of, f.at, s)
  <2>1. /\ f.of = q.of /\ q.of \in Pipelines /\ HasNodes(m, q) /\ f.at \in 1..Len(m[q.of])
        /\ Runnable(m, q.of, f.at) /\ c = Asks(m, q.of, f.at, s)
    BY DEF FrameOK, LinkOK, HasNodes
  <2>2. m[q.of] \in Seq(Node)
    BY <2>1
  <2>3. Len(m[q.of]) \in Nat /\ node \in Node
    BY <2>1, <2>2
  <2> HIDE DEF s
  <2> QED
    BY <2>1, <2>3 DEF Node
<1>n. f.at \in Nat \ {0} /\ g.at = f.at + 1
  BY <1>0, <1>1
<1>2. s.ok /\ s.values \in Seq(Payload) /\ Len(s.values) = f.at - 1
  BY LeftFits DEF FrameOK, Fits, Between
<1>3. t = After(m, q.of, f.at, s, below)
  <2>1. g.at - 1 = f.at
    BY <1>0, <1>1
  <2>2. t = NodesOf(m, q, below)[f.at]
    BY <2>1 DEF LeftTo
  <2> QED
    BY <1>1, <2>2, LeftFits
<1>4. t = [ok |-> TRUE, last |-> v, values |-> Append(s.values, v), made |-> made]
  <2>1. c = Asks(m, q.of, f.at, s) /\ Runnable(m, q.of, f.at) /\ s.ok
    BY <1>1, <1>2
  <2>2. LET r == below[Asks(m, q.of, f.at, s)] IN r.ok = TRUE /\ r.value = v /\ r.made = made
    BY <2>1
  <2> HIDE DEF s, t, made
  <2>3. t = [ok     |-> below[Asks(m, q.of, f.at, s)].ok,
             last   |-> below[Asks(m, q.of, f.at, s)].value,
             values |-> Append(s.values, below[Asks(m, q.of, f.at, s)].value),
             made   |-> below[Asks(m, q.of, f.at, s)].made]
    BY <2>1, <1>3 DEF After
  <2> QED
    BY <2>2, <2>3
<1> HIDE DEF s, t, node, made
<1>5. ASSUME NEW n \in NodeIds
      PROVE  g.outputs[n] = IF Named(m, g, n) = {} THEN None ELSE t.values[Latest(Named(m, g, n))]
  <2> DEFINE J == Named(m, f, n)
             K == Named(m, g, n)
  <2>1. f.outputs[n] = IF J = {} THEN None ELSE s.values[Latest(J)]
    BY DEF FrameOK, s
  <2>2. J \in SUBSET (1..(f.at - 1)) /\ f.at - 1 \in Nat
    BY <1>1 DEF Named
  <2>3. K = IF node.id = n THEN J \cup {f.at} ELSE J
    <3>1. 1..(g.at - 1) = (1..(f.at - 1)) \cup {f.at}
      BY <1>n
    <3> QED
      BY <1>0, <1>1, <3>1 DEF Named, node
  <2>4. f.outputs \in [NodeIds -> Payload \cup {None}]
    BY DEF Frame
  <2> HIDE DEF J, K
  <2>5. CASE node.id = n
    <3>1. g.outputs[n] = v
      BY <1>0, <2>5
    <3>2. K \in SUBSET (1..f.at) /\ f.at \in K /\ f.at \in Nat
      <4>1. 1..(f.at - 1) \subseteq 1..f.at /\ f.at \in 1..f.at
        BY <1>n
      <4> QED
        BY <1>n, <2>2, <2>3, <2>5, <4>1
    <3>3. Latest(K) = f.at
      <4>1. Latest(K) \in K /\ f.at <= Latest(K)
        BY <3>2, LatestIsOne
      <4>2. Latest(K) \in 1..f.at
        BY <3>2, <4>1
      <4> QED
        BY <3>2, <4>1, <4>2
    <3>4. t.values[f.at] = v
      <4>1. t.values = Append(s.values, v) /\ f.at = Len(s.values) + 1
        BY <1>n, <1>2, <1>4
      <4> QED
        BY <1>2, <4>1
    <3> QED
      BY <3>1, <3>2, <3>3, <3>4 DEF K
  <2>6. CASE node.id # n
    <3>1. g.outputs[n] = f.outputs[n] /\ K = J
      BY <1>0, <2>3, <2>6
    <3>2. CASE J = {}
      BY <2>1, <3>1, <3>2 DEF K
    <3>3. CASE J # {}
      <4>1. Latest(J) \in 1..(f.at - 1)
        BY <2>2, <3>3, LatestIsOne
      <4>2. t.values[Latest(J)] = s.values[Latest(J)]
        BY <1>2, <1>4, <4>1
      <4> QED
        BY <2>1, <3>1, <3>3, <4>2 DEF K
    <3> QED
      BY <3>2, <3>3
  <2> QED
    BY <2>5, <2>6
<1>6. g.at \in 1..(Len(m[q.of]) + 1)
  BY <1>0, <1>1
<1>7. t.ok /\ t.last = g.last /\ t.made = made /\ g.of = q.of
  BY <1>0, <1>1, <1>4
<1> QED
  BY <1>1, <1>5, <1>6, <1>7 DEF FrameOK, t, made

\* It leaves the calls that its workload left.
LEMMA NodeLeaves ==
    ASSUME NEW m \in [Pipelines -> Seq(Node)], NEW q \in Asked, NEW below, Good(below),
           NEW f, FrameOK(m, q, f, below), NEW c, LinkOK(m, q, f, below, c),
           NEW g, g.at = f.at + 1
    PROVE  LeftTo(m, q, g, below).made = below[c].made
<1> DEFINE s == LeftTo(m, q, f, below)
<1>1. /\ q.of \in Pipelines /\ f.at \in 1..Len(m[q.of]) /\ s.ok
      /\ Runnable(m, q.of, f.at) /\ c = Asks(m, q.of, f.at, s)
  BY DEF FrameOK, LinkOK, HasNodes
<1>2. Len(m[q.of]) \in Nat
  BY <1>1
<1>3. NodesOf(m, q, below)[f.at] = After(m, q.of, f.at, s, below)
  BY <1>1, <1>2, LeftFits
<1>4. LeftTo(m, q, g, below) = NodesOf(m, q, below)[f.at]
  <2>1. g.at - 1 = f.at
    BY <1>1, <1>2
  <2> QED
    BY <2>1 DEF LeftTo
<1> HIDE DEF s
<1> QED
  BY <1>1, <1>3, <1>4 DEF After

\* The loop begins as the meaning does.
LEMMA FrameEntered ==
    ASSUME NEW m \in [Pipelines -> Seq(Node)], NEW q \in Asked, HasNodes(m, q), NEW below
    PROVE  LET f == [of |-> q.of, at |-> 1, outputs |-> NoOutputs, last |-> q.with]
           IN  FrameOK(m, q, f, below) /\ LeftTo(m, q, f, below).made = q.made
<1> DEFINE f == [of |-> q.of, at |-> 1, outputs |-> NoOutputs, last |-> q.with]
<1>1. Len(m[q.of]) \in Nat
  BY DEF HasNodes
<1>2. LeftTo(m, q, f, below) = Start(q)
  <2>1. f.at - 1 = 0 /\ 0 \in 0..Len(m[q.of])
    BY <1>1
  <2> QED
    BY <1>1, <2>1, NodesAre DEF LeftTo
<1>3. \A n \in NodeIds : f.outputs[n] = None /\ Named(m, f, n) = {}
  BY DEF NoOutputs, Named
<1>4. f.of = q.of /\ f.at = 1 /\ f.last = q.with
  OBVIOUS
<1> HIDE DEF f
<1> QED
  BY <1>1, <1>2, <1>3, <1>4 DEF FrameOK, Start, f

-----------------------------------------------------------------------------
\* A part of the run that comes to r is the beginning of what comes to whole, or its end.
Within(r, whole) ==
    /\ Begins(r.made, whole.made)
    /\ ~r.ok => ~whole.ok /\ whole.made = r.made

\* A workload comes to a result that begins with the calls made before.
LEMMA MadeTyped ==
    ASSUME NEW m \in [Pipelines -> Seq(Node)], NEW k \in 0..MaxDepth, NEW q \in Asked
    PROVE  /\ Meaning(m)[k][q] \in Results
           /\ Meaning(m)[k][q].made \in Seq(Call)
           /\ q.made \in Seq(Call)
           /\ Begins(q.made, Meaning(m)[k][q].made)
<1>1. Good(Meaning(m)[k])
  BY MeaningIsGood
<1>2. Meaning(m)[k][q] \in Results /\ Begins(q.made, Meaning(m)[k][q].made)
  BY <1>1 DEF Good
<1> QED
  BY <1>2 DEF Results, Asked

\* What a loop has left so far, and what its next node leaves, are within the run.
LEMMA LoopWithin ==
    ASSUME NEW m \in [Pipelines -> Seq(Node)], NEW k \in 1..MaxDepth, NEW q \in Asked, NEW f,
           FrameOK(m, q, f, Meaning(m)[k - 1]),
           NEW whole \in Results, Within(Meaning(m)[k][q], whole)
    PROVE  LET below == Meaning(m)[k - 1]
               s     == LeftTo(m, q, f, below)
               t     == After(m, q.of, f.at, s, below)
           IN  /\ s.made \in Seq(Call) /\ Begins(s.made, whole.made)
               /\ f.at <= Len(m[q.of]) => Within(t, whole)
               /\ f.at > Len(m[q.of]) => Meaning(m)[k][q] = Result(TRUE, f.last, s.made)
<1> DEFINE below == Meaning(m)[k - 1]
           L     == Len(m[q.of])
           N     == NodesOf(m, q, below)
           s     == LeftTo(m, q, f, below)
           t     == After(m, q.of, f.at, s, below)
           r     == Meaning(m)[k][q]
<1>1. k - 1 \in 0..MaxDepth /\ k \in 0..MaxDepth /\ Good(below)
  <2>1. k - 1 \in 0..MaxDepth /\ k \in 0..MaxDepth
    BY Catalog
  <2> QED
    BY <2>1, MeaningIsGood
<1>2. HasNodes(m, q) /\ f.at \in 1..(L + 1) /\ L \in Nat /\ s.ok /\ s.last = f.last
  <2>1. HasNodes(m, q) /\ f.at \in 1..(L + 1) /\ s.ok /\ s.last = f.last
    BY DEF FrameOK
  <2>2. m[q.of] \in Seq(Node)
    BY <2>1 DEF HasNodes
  <2> HIDE DEF s
  <2> QED
    BY <2>1, <2>2
<1>3. f.at - 1 \in 0..L /\ (f.at <= L => f.at \in 0..L) /\ (f.at > L => f.at - 1 = L)
  <2>1. f.at \in 1..(L + 1) /\ L \in Nat
    BY <1>2
  <2> HIDE DEF L
  <2> QED
    BY <2>1
<1>4. r = Result(N[L].ok, N[L].last, N[L].made)
  <2>1. HasNodes(m, q)
    BY <1>2
  <2> QED
    BY <2>1, DeepMeans
<1>5. s = N[f.at - 1]
  BY DEF LeftTo
<1>6. whole.made \in Seq(Call) /\ r.made \in Seq(Call)
  BY <1>1, MadeTyped DEF Results
<1> HIDE DEF below, N, r
<1>7. ASSUME NEW i \in 0..L
      PROVE  N[i].made \in Seq(Call) /\ Within(N[i], whole)
  <2>1. Fits(i, N[i]) /\ Fits(L, N[L])
    <3>1. L \in 0..L
      BY <1>2
    <3> QED
      BY <1>1, <1>2, <3>1, NodesTyped DEF N
  <2>2. N[i].made \in Seq(Call) /\ N[L].made \in Seq(Call)
    BY <2>1 DEF Fits, Between
  <2>3. Begins(N[i].made, N[L].made) /\ (~N[i].ok => N[L] = N[i])
    BY <1>1, <1>2, NodesGrow DEF N
  <2>4. Within(N[L], whole)
    BY <1>4 DEF Within, Result, r
  <2>5. Begins(N[i].made, whole.made)
    BY <1>6, <2>2, <2>3, <2>4, BeginsTransitive DEF Within
  <2> QED
    BY <2>2, <2>3, <2>4, <2>5 DEF Within
<1>8. s.made \in Seq(Call) /\ Begins(s.made, whole.made)
  BY <1>3, <1>5, <1>7 DEF Within
<1>9. f.at <= L => Within(t, whole)
  <2>1. f.at <= L => N[f.at] = t
    BY <1>1, LeftFits DEF N, below
  <2> QED
    BY <1>3, <1>7, <2>1
<1>10. f.at > L => r = Result(TRUE, f.last, s.made)
  <2> SUFFICES ASSUME f.at > L PROVE r = Result(TRUE, f.last, s.made)
    OBVIOUS
  <2>1. N[L] = s
    BY <1>3, <1>5
  <2>2. N[L].ok = TRUE
    <3>1. Fits(L, N[L])
      <4>1. L \in 0..L
        BY <1>2
      <4> QED
        BY <1>1, <1>2, <4>1, NodesTyped DEF N
    <3>2. N[L].ok \in BOOLEAN
      BY <3>1 DEF Fits, Between
    <3>3. N[L].ok
      BY <1>2, <2>1
    <3> QED
      BY <3>2, <3>3
  <2>3. N[L].last = f.last /\ N[L].made = s.made
    BY <1>2, <2>1
  <2> QED
    BY <1>4, <2>2, <2>3
<1> QED
  BY <1>8, <1>9, <1>10 DEF below, r

-----------------------------------------------------------------------------
(* The stack of loops fs against the manifests m: e is what was asked for  *)
(* at each level, the last of it either by a node or for the last loop.    *)

Whole(m) == Meaning(m)[MaxDepth][TheRun]

\* What workloads mean to the nodes of the k-th loop, and what it comes to itself.
Under(m, k) == Meaning(m)[MaxDepth - k]
Comes(m, e, k) == Meaning(m)[MaxDepth - (k - 1)][e[k]]

Path(m, fs, e) ==
    /\ e \in Seq(Asked) /\ Len(e) \in {Len(fs), Len(fs) + 1} \ {0}
    /\ e[1] = TheRun
    /\ \A k \in 1..Len(fs) : FrameOK(m, e[k], fs[k], Under(m, k))
    /\ \A k \in 1..(Len(e) - 1) : LinkOK(m, e[k], fs[k], Under(m, k), e[k + 1])
    /\ \A k \in 1..Len(e) : Within(Comes(m, e, k), Whole(m))

\* So does the run.
LEMMA WholeTyped ==
    ASSUME NEW m \in [Pipelines -> Seq(Node)]
    PROVE  Whole(m) \in Results /\ Whole(m).made \in Seq(Call) /\ TheRun \in Asked
<1>1. TheRun \in Asked
  BY Catalog DEF TheRun, Asked, Payload
<1>2. MaxDepth \in 0..MaxDepth
  BY Catalog
<1> QED
  BY <1>1, <1>2, MadeTyped DEF Whole

\* In the beginning only the run itself was asked for.
LEMMA PathBegins ==
    ASSUME NEW m \in [Pipelines -> Seq(Node)]
    PROVE  Path(m, <<>>, <<TheRun>>)
<1> DEFINE e == <<TheRun>>
<1>1. e \in Seq(Asked) /\ Len(e) = 1 /\ e[1] = TheRun
  BY WholeTyped
<1>2. Comes(m, e, 1) = Whole(m)
  BY <1>1, Catalog DEF Comes, Whole
<1>3. Within(Whole(m), Whole(m))
  BY WholeTyped, BeginsReflexive DEF Within
<1> HIDE DEF e
<1>4. \A k \in 1..Len(e) : Within(Comes(m, e, k), Whole(m))
  BY <1>1, <1>2, <1>3
<1>5. Path(m, <<>>, e)
  BY <1>1, <1>4 DEF Path
<1> QED
  BY <1>5 DEF e

\* The levels of the stack are levels of the meaning.
LEMMA PathTyped ==
    ASSUME NEW m, NEW fs \in Seq(Frame), Len(fs) <= MaxDepth, NEW e, Path(m, fs, e)
    PROVE  /\ Len(fs) \in Nat /\ Len(e) \in 1..(MaxDepth + 1)
           /\ \A k \in 1..Len(e) :
                 /\ e[k] \in Asked
                 /\ MaxDepth - (k - 1) \in 0..MaxDepth
           /\ \A k \in 1..Len(fs) :
                 /\ MaxDepth - (k - 1) \in 1..MaxDepth
                 /\ MaxDepth - k \in 0..MaxDepth
                 /\ MaxDepth - k = (MaxDepth - (k - 1)) - 1
                 /\ k \in 1..Len(e) /\ fs[k] \in Frame
<1>1. Len(fs) \in Nat /\ MaxDepth \in Nat \ {0}
  BY Catalog
<1>2. e \in Seq(Asked) /\ Len(e) \in {Len(fs), Len(fs) + 1} \ {0}
  BY DEF Path
<1>3. Len(e) \in 1..(MaxDepth + 1)
  BY <1>1, <1>2
<1>4. ASSUME NEW k \in 1..Len(e) PROVE e[k] \in Asked /\ MaxDepth - (k - 1) \in 0..MaxDepth
  <2>1. k \in Nat \ {0} /\ k <= MaxDepth + 1
    BY <1>1, <1>3
  <2>2. e[k] \in Asked
    BY <1>2
  <2> QED
    BY <1>1, <2>1, <2>2
<1>5. ASSUME NEW k \in 1..Len(fs)
      PROVE  /\ MaxDepth - (k - 1) \in 1..MaxDepth
             /\ MaxDepth - k \in 0..MaxDepth
             /\ MaxDepth - k = (MaxDepth - (k - 1)) - 1
             /\ k \in 1..Len(e) /\ fs[k] \in Frame
  <2>1. k \in Nat \ {0} /\ k <= Len(fs) /\ k <= MaxDepth
    BY <1>1
  <2>2. k \in 1..Len(e)
    BY <1>1, <1>2, <2>1
  <2>3. fs[k] \in Frame
    OBVIOUS
  <2> QED
    BY <1>1, <2>1, <2>2, <2>3
<1> QED
  BY <1>1, <1>3, <1>4, <1>5

\* A workload without nodes comes to what it is alone; one that has them fails below the
\* last level.
LEMMA PathAlone ==
    ASSUME NEW m, NEW fs \in Seq(Frame), Len(fs) <= MaxDepth, NEW e, Path(m, fs, e),
           ~HasNodes(m, e[Len(e)])
    PROVE  Comes(m, e, Len(e)) = Alone(e[Len(e)])
<1>1. Len(e) \in 1..Len(e) /\ e[Len(e)] \in Asked /\ MaxDepth - (Len(e) - 1) \in 0..MaxDepth
  <2>1. Len(e) \in 1..(MaxDepth + 1)
    BY PathTyped
  <2>2. Len(e) \in 1..Len(e)
    BY <2>1, Catalog
  <2> QED
    BY <2>2, PathTyped
<1> QED
  BY <1>1, AloneMeans DEF Comes

\* What was called before the innermost workload is the beginning of all calls.
LEMMA PathCalls ==
    ASSUME NEW m \in [Pipelines -> Seq(Node)], NEW fs \in Seq(Frame), Len(fs) <= MaxDepth,
           NEW e, Path(m, fs, e)
    PROVE  /\ e[Len(e)] \in Asked
           /\ Begins(e[Len(e)].made, Whole(m).made)
           /\ Comes(m, e, Len(e)) \in Results
           /\ Within(Comes(m, e, Len(e)), Whole(m))
<1> DEFINE n == Len(e)
<1>1. n \in 1..Len(e) /\ e[n] \in Asked /\ MaxDepth - (n - 1) \in 0..MaxDepth
  <2>1. n \in 1..(MaxDepth + 1)
    BY PathTyped
  <2>2. n \in 1..Len(e)
    BY <2>1, Catalog
  <2> QED
    BY <2>2, PathTyped
<1>2. Within(Comes(m, e, n), Whole(m))
  BY <1>1 DEF Path
<1>3. /\ Comes(m, e, n) \in Results /\ Comes(m, e, n).made \in Seq(Call)
      /\ e[n].made \in Seq(Call) /\ Begins(e[n].made, Comes(m, e, n).made)
  BY <1>1, MadeTyped DEF Comes
<1> QED
  BY <1>1, <1>2, <1>3, WholeTyped, BeginsTransitive DEF Within

\* LoopWithin for the innermost loop.
LEMMA PathLoop ==
    ASSUME NEW m \in [Pipelines -> Seq(Node)], NEW fs \in Seq(Frame), Len(fs) <= MaxDepth,
           NEW e, Path(m, fs, e), Len(fs) # 0
    PROVE  LET n == Len(fs)
               s == LeftTo(m, e[n], fs[n], Under(m, n))
               t == After(m, e[n].of, fs[n].at, s, Under(m, n))
           IN  /\ e[n] \in Asked /\ fs[n] \in Frame /\ Good(Under(m, n))
               /\ FrameOK(m, e[n], fs[n], Under(m, n))
               /\ s.made \in Seq(Call) /\ Begins(s.made, Whole(m).made)
               /\ fs[n].at <= Len(m[e[n].of]) => Within(t, Whole(m))
               /\ fs[n].at > Len(m[e[n].of]) => Comes(m, e, n) = Result(TRUE, fs[n].last, s.made)
<1> DEFINE n == Len(fs)
           k == MaxDepth - (n - 1)
<1>1. /\ n \in 1..Len(fs) /\ n \in 1..Len(e) /\ e[n] \in Asked /\ fs[n] \in Frame
      /\ k \in 1..MaxDepth /\ k - 1 = MaxDepth - n /\ k - 1 \in 0..MaxDepth
  <2>1. Len(fs) \in Nat
    BY PathTyped
  <2>2. n \in 1..Len(fs)
    BY <2>1
  <2>3. /\ k \in 1..MaxDepth /\ MaxDepth - n \in 0..MaxDepth /\ MaxDepth - n = k - 1
        /\ n \in 1..Len(e) /\ fs[n] \in Frame
    BY <2>2, PathTyped
  <2>4. e[n] \in Asked
    BY <2>3, PathTyped
  <2> QED
    BY <2>2, <2>3, <2>4
<1>2. FrameOK(m, e[n], fs[n], Under(m, n)) /\ Within(Comes(m, e, n), Whole(m))
  BY <1>1 DEF Path
<1>3. Under(m, n) = Meaning(m)[k - 1] /\ Comes(m, e, n) = Meaning(m)[k][e[n]]
  BY <1>1 DEF Under, Comes
<1>4. Good(Under(m, n))
  BY <1>1, <1>3, MeaningIsGood
<1>5. Whole(m) \in Results
  BY WholeTyped
<1> DEFINE q == e[n]
           f == fs[n]
           below == Meaning(m)[k - 1]
           s == LeftTo(m, q, f, below)
           t == After(m, q.of, f.at, s, below)
<1>6. FrameOK(m, q, f, below) /\ Within(Meaning(m)[k][q], Whole(m)) /\ q \in Asked
  BY <1>1, <1>2, <1>3
<1> HIDE DEF n, k, q, f
<1>7. /\ s.made \in Seq(Call) /\ Begins(s.made, Whole(m).made)
      /\ f.at <= Len(m[q.of]) => Within(t, Whole(m))
      /\ f.at > Len(m[q.of]) => Meaning(m)[k][q] = Result(TRUE, f.last, s.made)
  BY <1>1, <1>5, <1>6, LoopWithin
<1> QED
  BY <1>1, <1>2, <1>3, <1>4, <1>7 DEF n, q, f

\* A pipeline is entered.
LEMMA PathEnter ==
    ASSUME NEW m \in [Pipelines -> Seq(Node)], NEW fs \in Seq(Frame), Len(fs) < MaxDepth,
           NEW e, Path(m, fs, e), Len(e) = Len(fs) + 1,
           NEW f \in Frame, FrameOK(m, e[Len(e)], f, Under(m, Len(e)))
    PROVE  Path(m, Append(fs, f), e)
<1> DEFINE gs == Append(fs, f)
<1>1. e \in Seq(Asked) /\ Len(fs) \in Nat /\ Len(e) = Len(gs) /\ Len(e) # 0
  BY DEF Path
<1>2. \A k \in 1..Len(fs) : gs[k] = fs[k]
  OBVIOUS
<1>3. gs[Len(e)] = f /\ Len(gs) = Len(fs) + 1
  BY <1>1
<1> HIDE DEF gs
<1>4. ASSUME NEW k \in 1..Len(gs) PROVE FrameOK(m, e[k], gs[k], Under(m, k))
  <2>1. CASE k = Len(e)
    BY <1>3, <2>1
  <2>2. CASE k # Len(e)
    <3>1. k \in 1..Len(fs)
      BY <1>1, <1>3, <2>2
    <3> QED
      BY <1>2, <3>1 DEF Path
  <2> QED
    BY <2>1, <2>2
<1>5. ASSUME NEW k \in 1..(Len(e) - 1) PROVE LinkOK(m, e[k], gs[k], Under(m, k), e[k + 1])
  <2>1. k \in 1..Len(fs)
    BY <1>1
  <2> QED
    BY <1>2, <2>1 DEF Path
<1> QED
  BY <1>1, <1>4, <1>5 DEF Path, gs

\* A node is started.
LEMMA PathStart ==
    ASSUME NEW m \in [Pipelines -> Seq(Node)], NEW fs \in Seq(Frame), Len(fs) <= MaxDepth,
           NEW e, Path(m, fs, e), Len(e) = Len(fs),
           NEW c, LinkOK(m, e[Len(e)], fs[Len(e)], Under(m, Len(e)), c)
    PROVE  Path(m, fs, Append(e, c)) /\ c \in Asked
<1> DEFINE n == Len(e)
           g == Append(e, c)
           s == LeftTo(m, e[n], fs[n], Under(m, n))
           t == After(m, e[n].of, fs[n].at, s, Under(m, n))
<1>1. /\ e \in Seq(Asked) /\ n \in 1..(MaxDepth + 1) /\ n \in 1..Len(fs)
      /\ n \in Nat \ {0} /\ Len(fs) \in Nat /\ Len(fs) # 0
      /\ MaxDepth - n \in 0..MaxDepth
  <2>1. e \in Seq(Asked) /\ Len(e) # 0 /\ Len(fs) \in Nat
    BY DEF Path
  <2>2. n \in 1..Len(fs)
    BY <2>1
  <2> QED
    BY <2>1, <2>2, PathTyped
<1>2. /\ fs[n].at \in 1..Len(m[e[n].of]) /\ Runnable(m, e[n].of, fs[n].at)
      /\ c = Asks(m, e[n].of, fs[n].at, s)
  BY DEF LinkOK
<1>3. /\ e[n] \in Asked /\ Good(Under(m, n)) /\ FrameOK(m, e[n], fs[n], Under(m, n))
      /\ fs[n].at <= Len(m[e[n].of]) => Within(t, Whole(m))
  BY <1>1, PathLoop
<1>4. s.ok /\ Fits(fs[n].at - 1, s) /\ e[n].of \in Pipelines
  BY <1>3, LeftFits DEF FrameOK, HasNodes
<1>5. c \in Asked
  BY <1>2, <1>4, AsksTyped
<1>6. Within(t, Whole(m))
  <2>1. Len(m[e[n].of]) \in Nat
    BY <1>4
  <2>2. fs[n].at <= Len(m[e[n].of])
    BY <1>2, <2>1
  <2> QED
    BY <1>3, <2>2
<1>7. t.ok = Under(m, n)[c].ok /\ t.made = Under(m, n)[c].made
  BY <1>2, <1>4 DEF After
<1> HIDE DEF s, t
<1>8. Within(Under(m, n)[c], Whole(m))
  BY <1>6, <1>7 DEF Within
<1>9. /\ g \in Seq(Asked) /\ Len(g) = n + 1 /\ g[n + 1] = c
      /\ \A k \in 1..n : g[k] = e[k]
  BY <1>1, <1>5
<1> HIDE DEF g, n
<1>10. Comes(m, g, n + 1) = Under(m, n)[c]
  <2>1. (n + 1) - 1 = n
    BY <1>1
  <2> QED
    BY <1>9, <2>1 DEF Comes, Under
<1>11. ASSUME NEW k \in 1..Len(g) PROVE Within(Comes(m, g, k), Whole(m))
  <2>1. CASE k = n + 1
    BY <1>8, <1>10, <2>1
  <2>2. CASE k # n + 1
    <3>1. k \in 1..n
      BY <1>1, <1>9, <2>2
    <3>2. Comes(m, g, k) = Comes(m, e, k)
      BY <1>9, <3>1 DEF Comes
    <3> QED
      BY <3>1, <3>2 DEF Path, n
  <2> QED
    BY <2>1, <2>2
<1>12. ASSUME NEW k \in 1..(Len(g) - 1)
       PROVE  LinkOK(m, g[k], fs[k], Under(m, k), g[k + 1])
  <2>0. k \in 1..n
    BY <1>1, <1>9
  <2>1. CASE k = n
    BY <1>9, <2>0, <2>1 DEF n
  <2>2. CASE k # n
    <3>1. k \in 1..(n - 1) /\ k + 1 \in 1..n
      BY <1>1, <2>0, <2>2
    <3> QED
      BY <1>9, <2>0, <3>1 DEF Path, n
  <2> QED
    BY <2>1, <2>2
<1>13. ASSUME NEW k \in 1..Len(fs) PROVE FrameOK(m, g[k], fs[k], Under(m, k))
  BY <1>9 DEF Path, n
<1>14. g[1] = TheRun
  BY <1>1, <1>9 DEF Path
<1>15. Len(g) \in {Len(fs), Len(fs) + 1} \ {0}
  BY <1>1, <1>9 DEF n
<1> QED
  BY <1>5, <1>9, <1>11, <1>12, <1>13, <1>14, <1>15 DEF Path, g

\* A node is done.
LEMMA PathFiled ==
    ASSUME NEW m, NEW fs \in Seq(Frame), NEW e, Path(m, fs, e), Len(e) = Len(fs) + 1,
           Len(fs) # 0,
           NEW f \in Frame, FrameOK(m, e[Len(fs)], f, Under(m, Len(fs)))
    PROVE  LET g == SubSeq(e, 1, Len(fs))
           IN  /\ Path(m, [fs EXCEPT ![Len(fs)] = f], g)
               /\ Len(g) = Len(fs) /\ g[Len(fs)] = e[Len(fs)]
<1> DEFINE n  == Len(fs)
           g  == SubSeq(e, 1, n)
           gs == [fs EXCEPT ![n] = f]
<1>1. e \in Seq(Asked) /\ n \in Nat \ {0} /\ Len(e) = n + 1
  BY DEF Path
<1>2. g \in Seq(Asked) /\ Len(g) = n /\ \A k \in 1..n : g[k] = e[k]
  BY <1>1, SubSeqProperties
<1>3. Len(gs) = n /\ gs[n] = f /\ \A k \in 1..n : k # n => gs[k] = fs[k]
  BY <1>1
<1> HIDE DEF g, gs, n
<1>4. ASSUME NEW k \in 1..n PROVE FrameOK(m, g[k], gs[k], Under(m, k))
  <2>1. CASE k = n
    BY <1>2, <1>3, <2>1 DEF n
  <2>2. CASE k # n
    BY <1>2, <1>3, <2>2 DEF Path, n
  <2> QED
    BY <2>1, <2>2
<1>5. ASSUME NEW k \in 1..(n - 1) PROVE LinkOK(m, g[k], gs[k], Under(m, k), g[k + 1])
  <2>1. k \in 1..n /\ k + 1 \in 1..n /\ k # n /\ k \in 1..(Len(e) - 1)
    BY <1>1
  <2> QED
    BY <1>2, <1>3, <2>1 DEF Path
<1>6. ASSUME NEW k \in 1..n PROVE Within(Comes(m, g, k), Whole(m))
  <2>1. k \in 1..Len(e) /\ Comes(m, g, k) = Comes(m, e, k)
    BY <1>1, <1>2 DEF Comes
  <2> QED
    BY <2>1 DEF Path
<1>7. g[1] = TheRun /\ Len(g) \in {Len(gs), Len(gs) + 1} \ {0}
  BY <1>1, <1>2, <1>3 DEF Path
<1>8. Path(m, gs, g) /\ Len(g) = n /\ g[n] = e[n]
  BY <1>1, <1>2, <1>3, <1>4, <1>5, <1>6, <1>7 DEF Path
<1> QED
  BY <1>8 DEF g, gs, n

\* A pipeline is over.
LEMMA PathLeave ==
    ASSUME NEW m, NEW fs \in Seq(Frame), NEW e, Path(m, fs, e), Len(e) = Len(fs)
    PROVE  Path(m, SubSeq(fs, 1, Len(fs) - 1), e) /\ Len(SubSeq(fs, 1, Len(fs) - 1)) = Len(fs) - 1
<1> DEFINE n  == Len(fs)
           gs == SubSeq(fs, 1, n - 1)
<1>1. e \in Seq(Asked) /\ n \in Nat \ {0}
  BY DEF Path
<1>2. Len(gs) = n - 1 /\ \A k \in 1..(n - 1) : gs[k] = fs[k]
  BY <1>1, SubSeqProperties
<1> HIDE DEF gs, n
<1>3. ASSUME NEW k \in 1..(n - 1)
      PROVE  /\ FrameOK(m, e[k], gs[k], Under(m, k))
             /\ LinkOK(m, e[k], gs[k], Under(m, k), e[k + 1])
  <2>1. k \in 1..n
    BY <1>1
  <2> QED
    BY <1>2, <2>1 DEF Path, n
<1>4. Len(e) \in {Len(gs), Len(gs) + 1} \ {0} /\ Len(e) - 1 = n - 1
  BY <1>1, <1>2 DEF n
<1>5. Path(m, gs, e)
  BY <1>2, <1>3, <1>4 DEF Path
<1> QED
  BY <1>2, <1>5 DEF gs, n

-----------------------------------------------------------------------------
(* The state of the executors against the manifests.                       *)

\* The innermost workload, asked for as c.
Now(e) ==
    LET n == Len(e)
        c == e[n]
        called == Append(c.made, [of |-> c.of, with |-> c.with])
    IN  /\ pc \in {"execute", "dial"} => callee = c.of /\ payload = c.with /\ calls = c.made
        /\ pc \in {"dialed", "answered"} => callee = c.of /\ calls = called
        /\ pc = "dialed" => payload = c.with
        /\ pc = "answered" => payload = Append(c.with, c.of)
        /\ pc \in {"dial", "dialed", "answered"} => c.of \in Services
        /\ pc = "return" => Comes(steps, e, n) = Result(TRUE, payload, calls)
        /\ pc = "node" => calls = LeftTo(steps, c, frames[n], Under(steps, n)).made

\* The executors are where the manifests say, if e is what they were asked for.
Tracks(e) ==
    /\ Path(steps, frames, e)
    /\ Len(e) = IF pc = "node" THEN Len(frames) ELSE Len(frames) + 1
    /\ Now(e)

\* While the run goes on there is such an e; when it is over, it ended as it should.
MeaningInv ==
    /\ pc # "done" => \E e : Tracks(e)
    /\ pc = "done" => Begins(calls, TheMeaning.made)
    /\ EndFollowsManifests

\* Whole is the meaning of the run's manifests.
LEMMA WholeIsMeaning == TheMeaning = Whole(steps)
BY DEF TheMeaning, Whole

\* The facts about types that the following lemmas need.
LEMMA TracksTyped ==
    ASSUME TypeInv, NEW e, Tracks(e)
    PROVE  /\ steps \in [Pipelines -> Seq(Node)] /\ frames \in Seq(Frame)
           /\ Len(frames) <= MaxDepth /\ Len(frames) \in Nat
           /\ calls \in Seq(Call) /\ payload \in Payload
           /\ Path(steps, frames, e) /\ e[Len(e)] \in Asked
<1>1. /\ steps \in [Pipelines -> Seq(Node)] /\ frames \in Seq(Frame)
      /\ Len(frames) <= MaxDepth /\ calls \in Seq(Call) /\ payload \in Payload
  BY DEF TypeInv, TypeOK, Call
<1>2. Path(steps, frames, e)
  BY DEF Tracks
<1> QED
  BY <1>1, <1>2, PathCalls

\* What a service or a mock comes to, once answered.
LEMMA AloneResult ==
    ASSUME NEW m, NEW q \in Asked
    PROVE  /\ q.of \in Services =>
                 /\ ~HasNodes(m, q)
                 /\ Alone(q) = Result(TRUE, Append(q.with, q.of),
                                      Append(q.made, [of |-> q.of, with |-> q.with]))
           /\ q.of \in Mocks => ~HasNodes(m, q) /\ Alone(q) = Result(TRUE, Append(q.with, q.of), q.made)
           /\ q.of \in Pipelines /\ m[q.of] = <<>> =>
                 ~HasNodes(m, q) /\ Alone(q) = Result(TRUE, q.with, q.made)
BY Catalog DEF HasNodes, Alone

\* The calls made are the first ones that the manifests ask for.
LEMMA CallsBegin ==
    ASSUME TypeInv, NEW e, Tracks(e), pc # "done"
    PROVE  Begins(calls, TheMeaning.made)
<1> DEFINE n == Len(e)
           c == e[n]
<1>1. /\ steps \in [Pipelines -> Seq(Node)] /\ frames \in Seq(Frame)
      /\ Len(frames) <= MaxDepth /\ Len(frames) \in Nat
      /\ Path(steps, frames, e) /\ c \in Asked
  BY TracksTyped
<1>2. Begins(c.made, Whole(steps).made) /\ Within(Comes(steps, e, n), Whole(steps))
  BY <1>1, PathCalls
<1>3. CASE pc \in {"execute", "dial"}
  <2>1. calls = c.made
    BY <1>3 DEF Tracks, Now
  <2> QED
    BY <1>2, <2>1, WholeIsMeaning
<1>4. CASE pc \in {"dialed", "answered"}
  <2>1. c.of \in Services /\ calls = Append(c.made, [of |-> c.of, with |-> c.with])
    BY <1>4 DEF Tracks, Now
  <2>2. ~HasNodes(steps, c) /\ Alone(c).made = calls
    <3>1. /\ ~HasNodes(steps, c)
          /\ Alone(c) = Result(TRUE, Append(c.with, c.of),
                               Append(c.made, [of |-> c.of, with |-> c.with]))
      BY <1>1, <2>1, AloneResult
    <3> QED
      BY <2>1, <3>1 DEF Result
  <2>3. Comes(steps, e, n) = Alone(c)
    BY <1>1, <2>2, PathAlone
  <2> QED
    BY <1>2, <2>2, <2>3, WholeIsMeaning DEF Within
<1>5. CASE pc = "return"
  <2>1. Comes(steps, e, n).made = calls
    BY <1>5 DEF Tracks, Now, Result
  <2> QED
    BY <1>2, <2>1, WholeIsMeaning DEF Within
<1>6. CASE pc = "node"
  <2>1. n = Len(frames) /\ n # 0
    BY <1>1, <1>6 DEF Tracks, Path
  <2>2. calls = LeftTo(steps, e[n], frames[n], Under(steps, n)).made
    BY <1>6 DEF Tracks, Now
  <2>3. Begins(LeftTo(steps, e[n], frames[n], Under(steps, n)).made, Whole(steps).made)
    <3> HIDE DEF n
    <3> QED
      BY <1>1, <2>1, PathLoop
  <2> QED
    BY <2>2, <2>3, WholeIsMeaning
<1> QED
  BY <1>3, <1>4, <1>5, <1>6 DEF TypeInv, TypeOK, Pc

-----------------------------------------------------------------------------
\* Every step that goes on keeps the track.
LEMMA StepTracks ==
    ASSUME TypeInv, NEW e, Tracks(e), Execution, pc' # "done"
    PROVE  \E g : Tracks(g)'
<1> DEFINE n == Len(e)
           c == e[n]
           k == Len(frames)
<1>1. /\ steps \in [Pipelines -> Seq(Node)] /\ frames \in Seq(Frame)
      /\ k <= MaxDepth /\ k \in Nat /\ calls \in Seq(Call) /\ payload \in Payload
      /\ Path(steps, frames, e) /\ c \in Asked
  BY TracksTyped
<1>u. steps' = steps
  BY DEF Execution
<1> USE DEF Goto
<1>2. ASSUME EnterEmpty \/ AnswerMock \/ AfterCall PROVE Tracks(e)'
  <2>1. /\ pc \in {"execute", "answered"} /\ pc' = "return" /\ frames' = frames /\ calls' = calls
        /\ callee' = callee
    BY <1>2 DEF EnterEmpty, AnswerMock, AfterCall, MayStart, Finish
  <2>2. n = k + 1 /\ Now(e)
    BY <2>1 DEF Tracks
  <2>3. ~HasNodes(steps, c) /\ Alone(c) = Result(TRUE, payload', calls')
    <3>1. CASE EnterEmpty
      <4>1. /\ callee = c.of /\ payload = c.with /\ calls = c.made /\ c.of \in Pipelines
            /\ steps[c.of] = <<>> /\ payload' = payload
        BY <2>2, <3>1 DEF EnterEmpty, MayStart, Now
      <4> QED
        BY <1>1, <2>1, <4>1, AloneResult
    <3>2. CASE AnswerMock
      <4>1. /\ callee = c.of /\ payload = c.with /\ calls = c.made /\ c.of \in Mocks
            /\ payload' = Append(payload, callee)
        BY <2>2, <3>2 DEF AnswerMock, MayStart, Now
      <4> QED
        BY <1>1, <2>1, <4>1, AloneResult
    <3>3. CASE AfterCall
      <4>1. /\ c.of \in Services /\ payload = Append(c.with, c.of) /\ payload' = payload
            /\ calls = Append(c.made, [of |-> c.of, with |-> c.with])
        BY <2>1, <2>2, <3>3 DEF AfterCall, Now, Finish
      <4> QED
        BY <1>1, <2>1, <4>1, AloneResult
    <3> QED
      BY <1>2, <3>1, <3>2, <3>3
  <2>4. Comes(steps, e, n) = Result(TRUE, payload', calls')
    BY <1>1, <2>3, PathAlone
  <2>5. Path(steps', frames', e)
    BY <1>1, <1>u, <2>1
  <2>6. Now(e)'
    BY <1>u, <2>1, <2>4 DEF Now
  <2>7. Len(e) = Len(frames') + 1
    BY <2>1, <2>2
  <2> QED
    BY <2>1, <2>5, <2>6, <2>7 DEF Tracks
<1>3. ASSUME PrepareCall \/ Dial \/ Answer PROVE Tracks(e)'
  <2>1. /\ pc \in {"execute", "dial", "dialed"} /\ pc' \in {"dial", "dialed", "answered"}
        /\ frames' = frames /\ callee' = callee
    BY <1>3 DEF PrepareCall, Dial, Answer, MayStart
  <2>2. n = k + 1 /\ Now(e)
    BY <2>1 DEF Tracks
  <2>3. Now(e)'
    <3>1. CASE PrepareCall
      BY <2>2, <3>1 DEF PrepareCall, MayStart, Now
    <3>2. CASE Dial
      BY <2>2, <3>2 DEF Dial, Now
    <3>3. CASE Answer
      BY <2>2, <3>3 DEF Answer, Now
    <3> QED
      BY <1>3, <3>1, <3>2, <3>3
  <2>4. Path(steps', frames', e) /\ Len(e) = Len(frames') + 1
    BY <1>1, <1>u, <2>1, <2>2
  <2> QED
    BY <2>1, <2>3, <2>4 DEF Tracks
<1>4. ASSUME EnterPipeline PROVE Tracks(e)'
  <2> DEFINE f == [of |-> callee, at |-> 1, outputs |-> NoOutputs, last |-> payload]
  <2>1. /\ pc = "execute" /\ pc' = "node" /\ callee \in Pipelines /\ steps[callee] # <<>>
        /\ k < MaxDepth /\ frames' = Append(frames, f) /\ calls' = calls
    BY <1>4 DEF EnterPipeline, MayStart
  <2>2. n = k + 1 /\ callee = c.of /\ payload = c.with /\ calls = c.made
    BY <2>1 DEF Tracks, Now
  <2>3. f \in Frame
    BY <1>1, <2>1 DEF Frame, NoOutputs
  <2>4. HasNodes(steps, c)
    BY <2>1, <2>2 DEF HasNodes
  <2>5. FrameOK(steps, c, f, Under(steps, n)) /\ LeftTo(steps, c, f, Under(steps, n)).made = calls
    BY <1>1, <2>2, <2>4, FrameEntered
  <2> HIDE DEF f
  <2>6. Path(steps, Append(frames, f), e)
    BY <1>1, <2>1, <2>2, <2>3, <2>5, PathEnter
  <2>7. Len(frames') = n /\ frames'[n] = f
    BY <1>1, <2>1, <2>2
  <2>8. Now(e)'
    BY <1>u, <2>1, <2>5, <2>7 DEF Now
  <2> QED
    BY <1>u, <2>1, <2>6, <2>7, <2>8 DEF Tracks
<1>5. ASSUME StartNode PROVE \E g : Tracks(g)'
  <2> DEFINE s == LeftTo(steps, c, Top, Under(steps, n))
             d == [of |-> ThisNode.uses, with |-> Append(NodeInput(ThisNode), <<Top.of, Top.at>>),
                   made |-> s.made]
  <2>1. /\ pc = "node" /\ pc' = "execute" /\ Top.at <= Len(steps[Top.of]) /\ Usable(ThisNode)
        /\ callee' = d.of /\ payload' = d.with /\ frames' = frames /\ calls' = calls
    BY <1>5 DEF StartNode, AtNode
  <2>2. n = k /\ k # 0 /\ frames[n] = Top /\ calls = s.made
    BY <1>1, <2>1 DEF Tracks, Now, Path, Top
  <2>3. Good(Under(steps, n)) /\ Top \in Frame /\ FrameOK(steps, c, Top, Under(steps, n))
    <3>1. /\ Good(Under(steps, k)) /\ frames[k] \in Frame
          /\ FrameOK(steps, e[k], frames[k], Under(steps, k))
      BY <1>1, <2>2, PathLoop
    <3> QED
      BY <2>2, <3>1
  <2>4. Top.of = c.of /\ ThisNode = steps[c.of][Top.at] /\ Top.at <= Len(steps[c.of])
    BY <2>1, <2>3 DEF FrameOK, ThisNode
  <2>5. /\ Runnable(steps, c.of, Top.at)
        /\ Asks(steps, c.of, Top.at, s) = d
    <3>1. Runnable(steps, c.of, Top.at)
      BY <1>1, <2>1, <2>3, <2>4, NodeMeans DEF Usable
    <3> QED
      BY <1>1, <2>3, <2>4, <3>1, NodeMeans DEF NodeInput
  <2>6. Top.at \in 1..Len(steps[c.of])
    BY <1>1, <2>3, <2>4, LeftFits
  <2>7. LinkOK(steps, e[n], frames[n], Under(steps, n), d)
    BY <2>2, <2>5, <2>6 DEF LinkOK
  <2>g. PICK g : g = Append(e, d)
    OBVIOUS
  <2>8. Path(steps, frames, g)
    <3> HIDE DEF d
    <3> QED
      BY <1>1, <2>2, <2>7, <2>g, PathStart
  <2>9. Len(g) = n + 1 /\ g[n + 1] = d
    <3> HIDE DEF d
    <3> QED
      BY <1>1, <2>g DEF Path
  <2>10. d.made = calls'
    BY <2>1, <2>2
  <2> HIDE DEF d
  <2>11. Now(g)'
    BY <2>1, <2>9, <2>10 DEF Now
  <2>12. Tracks(g)'
    BY <1>u, <2>1, <2>2, <2>8, <2>9, <2>11 DEF Tracks
  <2> QED
    BY <2>12
<1>6. ASSUME NodeDone PROVE \E g : Tracks(g)'
  <2> DEFINE f == Filed(Top)
             q == e[k]
  <2>1. /\ pc = "return" /\ pc' = "node" /\ frames # <<>> /\ calls' = calls
        /\ frames' = [frames EXCEPT ![k] = f]
    BY <1>6 DEF NodeDone
  <2>2. n = k + 1 /\ k # 0 /\ frames[k] = Top /\ Comes(steps, e, n) = Result(TRUE, payload, calls)
    <3>1. k # 0
      BY <1>1, <2>1
    <3>2. n = k + 1 /\ Now(e)
      BY <2>1 DEF Tracks
    <3>3. Comes(steps, e, n) = Result(TRUE, payload, calls)
      BY <2>1, <3>2 DEF Now
    <3> QED
      BY <3>1, <3>2, <3>3 DEF Top
  <2>3. /\ q \in Asked /\ Top \in Frame /\ Good(Under(steps, k))
        /\ FrameOK(steps, q, Top, Under(steps, k))
    BY <1>1, <2>2, PathLoop
  <2>4. LinkOK(steps, q, Top, Under(steps, k), c)
    <3>1. k \in 1..(Len(e) - 1) /\ k + 1 = n
      BY <1>1, <2>2
    <3> QED
      BY <1>1, <2>2, <3>1 DEF Path
  <2>5. Under(steps, k)[c] = Result(TRUE, payload, calls)
    <3>1. n - 1 = k
      BY <1>1, <2>2
    <3> QED
      BY <2>2, <3>1 DEF Comes, Under
  <2>6. f \in Frame
    <3>1. frames' \in Seq(Frame)
      BY <1>6, ProgressTypes DEF Execution, TypeInv, TypeOK
    <3>2. frames'[k] = f /\ k \in 1..Len(frames')
      BY <1>1, <2>1, <2>2
    <3> QED
      BY <3>1, <3>2
  <2>7. /\ f.of = Top.of /\ f.at = Top.at + 1 /\ f.last = payload
        /\ f.outputs = [Top.outputs EXCEPT ![ThisNode.id] = payload]
    BY <2>3 DEF Filed, Frame
  <2>8. ThisNode = steps[q.of][Top.at]
    BY <2>3 DEF ThisNode, FrameOK
  <2> HIDE DEF f, q
  <2>9. FrameOK(steps, q, f, Under(steps, k)) /\ LeftTo(steps, q, f, Under(steps, k)).made = calls
    <3>1. Files(steps, q, Top, payload, f)
      BY <2>3, <2>7, <2>8 DEF Frame, Files
    <3> DEFINE below == Under(steps, k)
    <3>2. steps \in [Pipelines -> Seq(Node)] /\ q \in Asked /\ Top \in Frame /\ payload \in Payload
      BY <1>1, <2>3
    <3>3. /\ Good(below) /\ FrameOK(steps, q, Top, below) /\ LinkOK(steps, q, Top, below, c)
          /\ below[c].ok = TRUE /\ below[c].value = payload /\ below[c].made = calls
      BY <2>3, <2>4, <2>5 DEF Result
    <3> HIDE DEF k, c, below
    <3>4. FrameOK(steps, q, f, below) /\ LeftTo(steps, q, f, below).made = below[c].made
      <4>1. FrameOK(steps, q, f, below)
        BY <2>6, <3>1, <3>2, <3>3, NodeFiled
      <4>2. LeftTo(steps, q, f, below).made = below[c].made
        BY <2>7, <3>2, <3>3, NodeLeaves
      <4> QED
        BY <4>1, <4>2
    <3> QED
      BY <3>3, <3>4 DEF below
  <2>g. PICK g : g = SubSeq(e, 1, k)
    OBVIOUS
  <2>10. Path(steps, frames', g) /\ Len(g) = k /\ g[k] = q
    BY <1>1, <2>1, <2>2, <2>6, <2>9, <2>g, PathFiled DEF q
  <2>11. frames'[k] = f /\ Len(frames') = k
    BY <1>1, <2>1, <2>2
  <2>12. Now(g)'
    BY <1>u, <2>1, <2>9, <2>10, <2>11 DEF Now
  <2>13. Tracks(g)'
    BY <1>u, <2>1, <2>10, <2>11, <2>12 DEF Tracks
  <2> QED
    BY <2>13
<1>7. ASSUME PipelineDone PROVE Tracks(e)'
  <2>1. /\ pc = "node" /\ pc' = "return" /\ Top.at > Len(steps[Top.of]) /\ payload' = Top.last
        /\ frames' = SubSeq(frames, 1, k - 1) /\ calls' = calls
    BY <1>7 DEF PipelineDone, Below
  <2>2. n = k /\ k # 0 /\ frames[n] = Top
        /\ calls = LeftTo(steps, c, Top, Under(steps, n)).made
    BY <1>1, <2>1 DEF Tracks, Now, Path, Top
  <2>3. Top.of = c.of
    <3>1. FrameOK(steps, e[k], frames[k], Under(steps, k))
      BY <1>1, <2>2, PathLoop
    <3> QED
      BY <2>2, <3>1 DEF FrameOK
  <2>4. Comes(steps, e, n) = Result(TRUE, payload', calls')
    <3>1. frames[k].at > Len(steps[e[k].of]) =>
             Comes(steps, e, k) = Result(TRUE, frames[k].last,
                                         LeftTo(steps, e[k], frames[k], Under(steps, k)).made)
      BY <1>1, <2>2, PathLoop
    <3> QED
      BY <2>1, <2>2, <2>3, <3>1
  <2>5. Path(steps, frames', e) /\ Len(frames') = k - 1
    BY <1>1, <2>1, <2>2, PathLeave
  <2>6. Now(e)'
    BY <1>u, <2>1, <2>4 DEF Now
  <2>7. n = Len(frames') + 1
    BY <1>1, <2>2, <2>5
  <2> QED
    BY <1>u, <2>1, <2>5, <2>6, <2>7 DEF Tracks
<1>8. CASE CancelBefore \/ TooDeep \/ CancelBetween \/ BadNode \/ RunDone
  BY <1>8 DEF CancelBefore, TooDeep, CancelBetween, BadNode, RunDone, Finish
<1> QED
  BY <1>2, <1>3, <1>4, <1>5, <1>6, <1>7, <1>8 DEF Execution, Progress

\* Every step that ends the run ends it as the manifests say, unless it was asked to.
LEMMA StepEnds ==
    ASSUME TypeInv, NEW e, Tracks(e), Execution, pc' = "done"
    PROVE  EndFollowsManifests' /\ calls' = calls
<1> DEFINE n == Len(e)
           c == e[n]
           k == Len(frames)
<1>1. /\ steps \in [Pipelines -> Seq(Node)] /\ frames \in Seq(Frame)
      /\ k <= MaxDepth /\ k \in Nat /\ calls \in Seq(Call) /\ payload \in Payload
      /\ Path(steps, frames, e) /\ c \in Asked
  BY TracksTyped
<1>2. Within(Comes(steps, e, n), Whole(steps))
  BY <1>1, PathCalls
<1>u. steps' = steps /\ TheMeaning' = Whole(steps)
  BY WholeIsMeaning DEF Execution, TheMeaning, Whole
<1>3. CASE CancelBefore \/ CancelBetween \/ AfterCall
  BY <1>3 DEF CancelBefore, CancelBetween, AfterCall, Finish, Goto, EndFollowsManifests
<1>4. CASE TooDeep
  <2>1. /\ pc = "execute" /\ callee \in Pipelines /\ steps[callee] # <<>> /\ k = MaxDepth
        /\ outcome' = "failed" /\ calls' = calls
    BY <1>4 DEF TooDeep, MayStart, Finish
  <2>2. n = k + 1 /\ callee = c.of /\ calls = c.made
    BY <2>1 DEF Tracks, Now
  <2>3. MaxDepth - (n - 1) = 0
    BY <1>1, <2>1, <2>2
  <2>4. HasNodes(steps, c)
    BY <2>1, <2>2 DEF HasNodes
  <2>5. Comes(steps, e, n) = Result(FALSE, c.with, c.made)
    BY <1>1, <2>3, <2>4, ShallowMeans DEF Comes
  <2>6. ~Whole(steps).ok /\ Whole(steps).made = calls
    BY <1>2, <2>2, <2>5 DEF Within, Result
  <2> QED
    BY <1>u, <2>1, <2>6 DEF EndFollowsManifests
<1>5. CASE BadNode
  <2> DEFINE s == LeftTo(steps, e[k], frames[k], Under(steps, k))
             t == After(steps, e[k].of, frames[k].at, s, Under(steps, k))
  <2>1. /\ pc = "node" /\ Top.at <= Len(steps[Top.of]) /\ ~Usable(ThisNode)
        /\ outcome' = "failed" /\ calls' = calls
    BY <1>5 DEF BadNode, AtNode, Finish
  <2>2. n = k /\ k # 0 /\ frames[k] = Top /\ calls = s.made
    BY <1>1, <2>1 DEF Tracks, Now, Path, Top
  <2>3. /\ e[k] \in Asked /\ Top \in Frame /\ Good(Under(steps, k))
        /\ FrameOK(steps, e[k], Top, Under(steps, k))
        /\ Top.at <= Len(steps[e[k].of]) => Within(t, Whole(steps))
    BY <1>1, <2>2, PathLoop
  <2>4. Top.of = e[k].of /\ ThisNode = steps[e[k].of][Top.at] /\ Top.at <= Len(steps[e[k].of])
    BY <2>1, <2>3 DEF FrameOK, ThisNode
  <2>5. ~Runnable(steps, e[k].of, Top.at)
    BY <1>1, <2>1, <2>3, <2>4, NodeMeans DEF Usable
  <2>6. t = [s EXCEPT !.ok = FALSE] /\ s \in Between
    BY <1>1, <2>2, <2>3, <2>5, LeftFits DEF After, Fits
  <2> HIDE DEF s
  <2>7. ~t.ok /\ t.made = s.made
    BY <2>6 DEF Between
  <2>8. ~Whole(steps).ok /\ Whole(steps).made = calls
    BY <2>2, <2>3, <2>4, <2>7 DEF Within
  <2> QED
    BY <1>u, <2>1, <2>8 DEF EndFollowsManifests
<1>6. CASE RunDone
  <2>1. /\ pc = "return" /\ frames = <<>> /\ outcome' = "returned"
        /\ calls' = calls /\ payload' = payload
    BY <1>6 DEF RunDone, Finish
  <2>2. n = 1 /\ Comes(steps, e, 1) = Result(TRUE, payload, calls)
    <3>1. n = 1 /\ Now(e)
      BY <2>1 DEF Tracks
    <3> QED
      BY <2>1, <3>1 DEF Now
  <2>3. Comes(steps, e, 1) = Whole(steps)
    BY <1>1, Catalog DEF Path, Comes, Whole
  <2> QED
    BY <1>u, <2>1, <2>2, <2>3 DEF EndFollowsManifests, Result
<1>7. CASE EnterEmpty \/ EnterPipeline \/ AnswerMock \/ PrepareCall \/ Dial \/ Answer
           \/ StartNode \/ NodeDone \/ PipelineDone
  BY <1>7 DEF EnterEmpty, EnterPipeline, AnswerMock, PrepareCall, Dial, Answer, StartNode,
     NodeDone, PipelineDone, Goto
<1> QED
  BY <1>3, <1>4, <1>5, <1>6, <1>7 DEF Execution, Progress

\* The run begins on the track.
LEMMA InitMeaning == Init => MeaningInv
<1> SUFFICES ASSUME Init PROVE MeaningInv
  OBVIOUS
<1>1. TypeInv
  BY InitTypeInv
<1>2. Tracks(<<TheRun>>)
  <2> DEFINE e == <<TheRun>>
  <2>1. Path(steps, frames, e)
    BY <1>1, PathBegins DEF Init, TypeInv, TypeOK
  <2>2. Len(e) = 1 /\ e[1] = TheRun
    OBVIOUS
  <2> HIDE DEF e
  <2>3. Now(e) /\ Len(e) = Len(frames) + 1
    BY <2>2 DEF Init, Now, TheRun
  <2> QED
    BY <2>1, <2>3 DEF Tracks, Init, e
<1> QED
  BY <1>2 DEF MeaningInv, Init, EndFollowsManifests

\* It stays there to its end.
LEMMA StepMeaning == TypeInv /\ MeaningInv /\ [Next]_vars => MeaningInv'
<1> SUFFICES ASSUME TypeInv, MeaningInv, [Next]_vars PROVE MeaningInv'
  OBVIOUS
<1>1. TypeInv'
  BY StepTypes
<1>2. CASE Execution
  <2>1. pc # "done"
    BY <1>2 DEF Execution, Progress, CancelBefore, MayStart, EnterEmpty, EnterPipeline, TooDeep,
       AnswerMock, PrepareCall, Dial, Answer, AfterCall, AtNode, CancelBetween, BadNode,
       StartNode, NodeDone, PipelineDone, RunDone
  <2>2. PICK e : Tracks(e)
    BY <2>1 DEF MeaningInv
  <2>3. CASE pc' # "done"
    <3>1. PICK g : Tracks(g)'
      BY <1>2, <2>2, <2>3, StepTracks
    <3>2. EndFollowsManifests'
      BY <1>1, <2>3 DEF EndFollowsManifests, TypeInv, TypeOK
    <3> QED
      BY <2>3, <3>1, <3>2 DEF MeaningInv
  <2>4. CASE pc' = "done"
    <3>1. EndFollowsManifests' /\ calls' = calls
      BY <1>2, <2>2, <2>4, StepEnds
    <3>2. TheMeaning' = TheMeaning
      BY <1>2 DEF Execution, TheMeaning
    <3> QED
      BY <2>1, <2>2, <2>4, <3>1, <3>2, CallsBegin DEF MeaningInv
  <2> QED
    BY <2>3, <2>4
<1>3. CASE RequestCancel \/ UNCHANGED vars
  <2>1. UNCHANGED <<steps, flow, broken>>
    BY <1>3 DEF RequestCancel, vars, flow
  <2>2. TheMeaning' = TheMeaning /\ UNCHANGED <<frames, pc, callee, payload, calls, outcome>>
    BY <2>1 DEF TheMeaning, flow
  <2>3. \A e : Tracks(e) => Tracks(e)'
    BY <2>1, <2>2 DEF Tracks, Now
  <2> QED
    BY <2>1, <2>2, <2>3 DEF MeaningInv, EndFollowsManifests
<1>4. CASE Break
  <2>1. pc' = "done" /\ outcome' = "failed" /\ broken' /\ UNCHANGED <<steps, calls>>
    BY <1>4 DEF Break, Finish
  <2>2. TheMeaning' = TheMeaning
    BY <2>1 DEF TheMeaning
  <2>3. Begins(calls, TheMeaning.made)
    BY CallsBegin DEF MeaningInv
  <2> QED
    BY <2>1, <2>2, <2>3 DEF MeaningInv, EndFollowsManifests
<1> QED
  BY <1>2, <1>3, <1>4 DEF Next

\* At every moment the calls made are the first ones that the manifests ask for, and the
\* run ends with what they mean, unless it is canceled or something breaks.
THEOREM ExecutionsFollowManifests == Spec => []ExecutionFollowsManifests
<1>1. TypeInv /\ MeaningInv => ExecutionFollowsManifests
  <2> SUFFICES ASSUME TypeInv, MeaningInv PROVE CallsFollowManifests
    BY DEF MeaningInv, ExecutionFollowsManifests
  <2> DEFINE made == TheMeaning.made
             first == SubSeq(made, 1, Len(calls))
  <2>1. calls \in Seq(Call) /\ made \in Seq(Call) /\ Begins(calls, made)
    BY WholeIsMeaning, WholeTyped, CallsBegin DEF TypeInv, TypeOK, Call, MeaningInv
  <2> HIDE DEF made
  <2>2. Len(calls) \in Nat /\ Len(made) \in Nat /\ Len(calls) <= Len(made)
    BY <2>1 DEF Begins
  <2>3. /\ first \in Seq(Call) /\ Len(first) = Len(calls)
        /\ \A i \in 1..Len(calls) : first[i] = calls[i]
    BY <2>1, <2>2, SubSeqProperties DEF Begins
  <2>4. calls = first
    <3> HIDE DEF first
    <3> QED
      BY <2>1, <2>3, SeqEqual
  <2> QED
    BY <2>2, <2>4 DEF CallsFollowManifests, made
<1> QED
  BY <1>1, InitMeaning, StepMeaning, TypeInvAlways, PTL DEF Spec

=============================================================================
