---------------------------- MODULE MCUserMove ----------------------------
(* A small instance of UserMove. *)
EXTENDS UserMove, TLC

(* No action tells one key from another.                                   *)
KeySymmetry == Permutations(Keys)
=============================================================================
