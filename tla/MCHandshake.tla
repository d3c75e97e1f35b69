---------------------------- MODULE MCHandshake ----------------------------
(* A small instance of Handshake. *)
EXTENDS Handshake
=============================================================================
