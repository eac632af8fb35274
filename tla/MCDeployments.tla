--------------------------- MODULE MCDeployments ----------------------------
(***************************************************************************)
(* Deployments for TLC: a manifest for each way of planning.               *)
(***************************************************************************)
EXTENDS Deployments

CONSTANTS g1, w1, r1, r2

Managed == [mode |-> "managed", targets |-> {"kubernetes"}]
External == [mode |-> "external", targets |-> {"local", "kubernetes"}]
TheManifests == {Managed, External}

TheBodies ==
    [action : {"sync", "preflight"}, target : {"k8s"}] \cup
    [action : {"sync", "apply", "health"}, target : {"local"}] \cup
    [action : {"record"}, target : {"k8s"}]

=============================================================================
