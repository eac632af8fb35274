----------------------------- MODULE ManagedRun -----------------------------
(***************************************************************************)
(* What the control plane promises an API client about the status of a     *)
(* run: it appears as "queued" and from then on moves only along the       *)
(* transition policy, whoever moves it, so a terminal status stays.        *)
(***************************************************************************)
EXTENDS RunStatuses

CONSTANT Runs      \* the runs that clients submit

VARIABLE status    \* the status column of each run, "none" before its row exists

Init == status = [r \in Runs |-> "none"]

\* The row of r is inserted.
Create(r) ==
    /\ status[r] = "none"
    /\ status' = [status EXCEPT ![r] = "queued"]

\* Somebody moves r along the policy.
Move(r) ==
    /\ status[r] # "none"
    /\ \E target \in VALID_RUN_TRANSITIONS[status[r]] :
          status' = [status EXCEPT ![r] = target]

Next == \E r \in Runs : Create(r) \/ Move(r)

Spec == Init /\ [][Next]_status

=============================================================================
