---------------------------- MODULE RunStatuses ----------------------------
(***************************************************************************)
(* The vocabulary of a run: its statuses, the sets the gateway and the     *)
(* worker test membership in, and the transition policy both of them       *)
(* consult before they write a status                                      *)
(* (services/shared/moiraweave_shared/workloads.py, control_plane.py).     *)
(***************************************************************************)

RunStatus == {"queued", "starting", "running", "cancel_requested", "cancelling",
              "succeeded", "failed", "canceled", "lost"}

TERMINAL_RUN_STATUSES == {"succeeded", "failed", "canceled", "lost"}

\* Fault variant: a sweeper that also looks at the runs still waiting in the stream.
SweepsQueuedRuns == {"queued", "starting", "running", "cancelling"}

\* Fault variant: a sweeper that forgets the runs a worker is about to start.
SkipsStartingRuns == {"running", "cancelling"}

\* The statuses find_stale_runs looks at: a worker in one of them heartbeats.
HEARTBEAT_RUN_STATUSES == {"starting", "running", "cancelling"}

VALID_RUN_TRANSITIONS ==
    [queued           |-> {"starting", "cancel_requested", "failed", "lost"},
     starting         |-> {"running", "cancel_requested", "cancelling"}
                            \cup TERMINAL_RUN_STATUSES,
     running          |-> {"cancel_requested", "cancelling"}
                            \cup TERMINAL_RUN_STATUSES,
     cancel_requested |-> {"cancelling", "canceled", "failed", "lost"},
     cancelling       |-> {"canceled", "failed", "lost"},
     succeeded        |-> {},
     failed           |-> {},
     canceled         |-> {},
     lost             |-> {}]

\* is_valid_run_transition: writing the current status again is always allowed.
IsValidTransition(current, target) ==
    current = target \/ target \in VALID_RUN_TRANSITIONS[current]

=============================================================================
