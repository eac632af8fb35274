--------------------------- MODULE MCAgentSession ---------------------------
(***************************************************************************)
(* AgentSession for TLC.                                                   *)
(***************************************************************************)
EXTENDS AgentSession, TLC

CONSTANTS s1, p1, p2, t1, t2, ui, telegram, c1, x1, reply

Symmetry == Permutations({p1, p2}) \cup Permutations({t1, t2})

\* No step and no property of the run looks at the order in which the inserts drew their
\* ids, nor at the channel of a request that has ended and how it did: states that differ in
\* nothing else are one.
Ended == {"done", "refused", "gone"}
Rest(p) ==
    IF pc[p] \notin Ended THEN <<pc[p], ask[p]>>
    ELSE IF ask[p] = None THEN None ELSE <<ask[p].session, ask[p].text>>

Unordered ==
    <<sessions, runs, created, {<<messages[i], i \in committed>> : i \in DOMAIN messages},
      artifacts, channel_messages, clock, [p \in Posts |-> Rest(p)], working, reading>>

==============================================================================
