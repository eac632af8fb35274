--------------------------- MODULE MCRunLifecycle ---------------------------
(***************************************************************************)
(* RunLifecycle on small instances; the cfg files choose the environment.  *)
(***************************************************************************)
EXTENDS RunLifecycle, TLC

CONSTANTS r1, r2, s1, w1, w2, w3

\* Sound where the environment treats the workers alike, and for safety only.
WorkersAlike == Permutations(Workers)

=============================================================================
