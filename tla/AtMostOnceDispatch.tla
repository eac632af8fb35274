------------------------- MODULE AtMostOnceDispatch -------------------------
(***************************************************************************)
(* What the dispatch stream and its consumer group promise: messages are   *)
(* handed out in the order they were sent, each to one worker and once.    *)
(* The worker that took a message either settles it (acknowledges it) or   *)
(* ends with the message in hand; a message stranded that way, or lost on  *)
(* its way to the worker, is never taken again.                            *)
(***************************************************************************)
EXTENDS Sequences

CONSTANTS Messages,  \* everything that may be sent
          Workers,   \* the consumers of the group
          Nobody     \* the holder of a message no worker holds

VARIABLES queue,     \* the messages sent and not yet taken, oldest first
          phase,     \* where each message is in its life
          holder     \* the worker that holds a message

Phase == {"unsent", "queued", "held", "settled", "stranded"}

vars == <<queue, phase, holder>>

Init ==
    /\ queue = <<>>
    /\ phase = [m \in Messages |-> "unsent"]
    /\ holder = [m \in Messages |-> Nobody]

Send(m) ==
    /\ phase[m] = "unsent"
    /\ queue' = Append(queue, m)
    /\ phase' = [phase EXCEPT ![m] = "queued"]
    /\ UNCHANGED holder

\* An idle worker takes the oldest message.
Take(w) ==
    /\ queue # <<>>
    /\ \A m \in Messages : holder[m] # w
    /\ queue' = Tail(queue)
    /\ phase' = [phase EXCEPT ![Head(queue)] = "held"]
    /\ holder' = [holder EXCEPT ![Head(queue)] = w]

\* The oldest message is handed out and lost on the way.
Lose ==
    /\ queue # <<>>
    /\ queue' = Tail(queue)
    /\ phase' = [phase EXCEPT ![Head(queue)] = "stranded"]
    /\ UNCHANGED holder

\* The holder lets go of m, settled or not.
Release(m) ==
    /\ phase[m] = "held"
    /\ \E p \in {"settled", "stranded"} : phase' = [phase EXCEPT ![m] = p]
    /\ holder' = [holder EXCEPT ![m] = Nobody]
    /\ UNCHANGED queue

Next ==
    \/ \E m \in Messages : Send(m) \/ Release(m)
    \/ \E w \in Workers : Take(w)
    \/ Lose

Spec == Init /\ [][Next]_vars

=============================================================================
