--------------------------- MODULE MCEventStream ---------------------------
(***************************************************************************)
(* EventStream for TLC: the cfg file bounds the number of events.          *)
(***************************************************************************)
EXTENDS EventStream

CONSTANTS w1, w2, w3, c1

=============================================================================
