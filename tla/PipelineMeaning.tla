--------------------------- MODULE PipelineMeaning ---------------------------
(***************************************************************************)
(* What a manifest means, whatever the executors do: a definition by       *)
(* recursion on the nesting and on the nodes of a pipeline, to compare     *)
(* PipelineExecution with.                                                 *)
(***************************************************************************)
EXTENDS PipelineExecution

Call == [of : Services, with : Payload]

\* A workload is asked for with a payload, when some calls were made already; it succeeds
\* or not, with a payload, when more calls were made.
Asked == [of : Workloads, with : Payload, made : Seq(Call)]

Result(ok, value, made) == [ok |-> ok, value |-> value, made |-> made]

\* A workload that has no nodes.
Alone(q) ==
    IF q.of \in Services
      THEN Result(TRUE, Append(q.with, q.of), Append(q.made, [of |-> q.of, with |-> q.with]))
    ELSE IF q.of \in Mocks THEN Result(TRUE, Append(q.with, q.of), q.made)
    ELSE Result(TRUE, q.with, q.made)

-----------------------------------------------------------------------------
(* In the manifests m, node i of pipeline p.                               *)

\* The nodes before it whose id it takes its input from, and the last of them.
Sources(m, p, i) == {j \in 1..(i - 1) : m[p][j].id = m[p][i].from}
Latest(nodes) == CHOOSE j \in nodes : \A k \in nodes : k <= j

Runnable(m, p, i) ==
    /\ m[p][i].uses \notin Strangers
    /\ m[p][i].from # None => Sources(m, p, i) # {}

\* Between two nodes: the output last made, those of all the nodes, and the calls.
Start(q) == [ok |-> TRUE, last |-> q.with, values |-> <<>>, made |-> q.made]

\* What it asks for after the nodes that left s.
Asks(m, p, i, s) ==
    LET input == IF m[p][i].from = None THEN s.last ELSE s.values[Latest(Sources(m, p, i))]
    IN  [of |-> m[p][i].uses, with |-> Append(input, <<p, i>>), made |-> s.made]

\* What it leaves, where workloads mean what below says.
After(m, p, i, s, below) ==
    IF s.ok /\ Runnable(m, p, i)
      THEN LET result == below[Asks(m, p, i, s)]
           IN  [ok     |-> result.ok,
                last   |-> result.value,
                values |-> Append(s.values, result.value),
                made   |-> result.made]
      ELSE [s EXCEPT !.ok = FALSE]

NodesOf(m, q, below) ==
    LET after[i \in 0..Len(m[q.of])] ==
            IF i = 0 THEN Start(q) ELSE After(m, q.of, i, after[i - 1], below)
    IN  after

-----------------------------------------------------------------------------
HasNodes(m, q) == q.of \in Pipelines /\ m[q.of] # <<>>

\* What workloads mean where no pipeline may be entered any more.
Shallow(m) ==
    [q \in Asked |-> IF HasNodes(m, q) THEN Result(FALSE, q.with, q.made) ELSE Alone(q)]

\* What they mean where the workloads of their nodes mean what below says.
Deep(m, below) ==
    [q \in Asked |->
        IF HasNodes(m, q)
          THEN LET end == NodesOf(m, q, below)[Len(m[q.of])]
               IN  Result(end.ok, end.last, end.made)
          ELSE Alone(q)]

\* What they mean where as many more pipelines may be entered within one another.
Meaning(m) ==
    LET level[k \in 0..MaxDepth] == IF k = 0 THEN Shallow(m) ELSE Deep(m, level[k - 1])
    IN  level

TheRun == [of |-> Root, with |-> <<>>, made |-> <<>>]
TheMeaning == Meaning(steps)[MaxDepth][TheRun]

-----------------------------------------------------------------------------
\* At every moment the calls made are the first ones that the manifests ask for: in
\* their order, none twice, each with the payload the manifests route to it.
CallsFollowManifests ==
    LET made == TheMeaning.made
    IN  /\ Len(calls) <= Len(made)
        /\ calls = SubSeq(made, 1, Len(calls))

\* A run that returns has made all the calls and returns what the manifests compose; a
\* run that fails although nothing broke was asked for the impossible.
EndFollowsManifests ==
    LET meaning == TheMeaning
    IN  /\ outcome = "returned" => /\ meaning.ok
                                   /\ payload = meaning.value
                                   /\ calls = meaning.made
        /\ outcome = "failed" /\ ~broken => ~meaning.ok /\ calls = meaning.made

\* The executors' loops compute what the manifests mean.
ExecutionFollowsManifests == CallsFollowManifests /\ EndFollowsManifests

=============================================================================
