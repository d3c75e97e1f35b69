----------------------------- MODULE MCSvDelay -----------------------------
(* A small instance of SvDelay. *)
EXTENDS SvDelay
=============================================================================
