------------------------ MODULE MCPipelineExecution ------------------------
(***************************************************************************)
(* PipelineExecution for TLC: a family of manifests.                       *)
(***************************************************************************)
EXTENDS PipelineMeaning, TLC

CONSTANTS outer, inner, model, mock, stranger, a, b

Nodes(uses, from) == [id : {a, b}, uses : uses, from : from]

Lists(nodes, n) == UNION {[1..k -> nodes] : k \in 0..n}

\* The outer pipeline has up to two nodes of any kind, or a third one after two that
\* differ; the inner one is small and may call the outer one back.
OuterSteps ==
    LET any   == Nodes({outer, inner, model, mock, stranger}, {None, a, b})
        first == [id : {a}, uses : {inner, model}, from : {None}]
        next  == [id : {a, b}, uses : {inner, mock}, from : {None, a}]
        last  == [id : {b}, uses : {inner, model}, from : {None, a, b}]
    IN  Lists(any, 2) \cup {<<f, n, l>> : f \in first, n \in next, l \in last}

InnerSteps == Lists([id : {a}, uses : {model, outer}, from : {None}]
                    \cup [id : {b}, uses : {mock}, from : {None, a}], 2)

MCManifests == {[p \in {outer, inner} |-> IF p = outer THEN o ELSE i] :
                   o \in OuterSteps, i \in InnerSteps}

=============================================================================
