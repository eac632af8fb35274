-------------------------- MODULE ExecutorContract --------------------------
(***************************************************************************)
(* What the run consumer relies on when it awaits an executor: the         *)
(* execution ends once, by returning, by raising RunCancelledError or by   *)
(* raising something else, and it only says "cancelled" after somebody     *)
(* asked. RunLifecycle!Execute offers the consumer exactly these endings.  *)
(***************************************************************************)

VARIABLES
    requested,   \* the run's owner has asked to cancel it
    outcome      \* how the execution ended, "none" while it has not

vars == <<requested, outcome>>

Init ==
    /\ requested \in BOOLEAN
    /\ outcome = "none"

Request ==
    /\ ~requested
    /\ requested' = TRUE
    /\ UNCHANGED outcome

End ==
    /\ outcome = "none"
    /\ outcome' \in {"returned", "failed"} \cup (IF requested THEN {"cancelled"} ELSE {})
    /\ UNCHANGED requested

Next == Request \/ End

Spec == Init /\ [][Next]_vars /\ WF_vars(End)

=============================================================================
