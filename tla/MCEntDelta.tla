---------------------------- MODULE MCEntDelta ----------------------------
(* A small instance of EntDelta. *)
EXTENDS EntDelta
=============================================================================
