----------------------------- MODULE EventFeed -----------------------------
(***************************************************************************)
(* What a client that follows the events of a run may rely on as long as   *)
(* it stays connected: it gets published events only, and each of them     *)
(* once.                                                                   *)
(***************************************************************************)
EXTENDS Sequences, Functions

CONSTANTS Events, Clients

VARIABLES
    published,   \* the events that readers see
    received     \* what each client got since it connected, in order

vars == <<published, received>>

Init ==
    /\ published = {}
    /\ received = [c \in Clients |-> <<>>]

Publish ==
    /\ \E e \in Events \ published : published' = published \cup {e}
    /\ UNCHANGED received

Deliver(c) ==
    /\ \E e \in published \ Range(received[c]) :
          received' = [received EXCEPT ![c] = Append(@, e)]
    /\ UNCHANGED published

\* A client that connects again gets everything again.
Restart(c) ==
    /\ received' = [received EXCEPT ![c] = <<>>]
    /\ UNCHANGED published

Next == Publish \/ \E c \in Clients : Deliver(c) \/ Restart(c)

Spec == Init /\ [][Next]_vars

=============================================================================
