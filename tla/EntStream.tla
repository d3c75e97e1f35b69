----------------------------- MODULE EntStream -----------------------------
(***************************************************************************)
(* What entity updates are to the client, whatever they are made of: the   *)
(* server makes snapshots one after the other, the client shows one of     *)
(* them or none, and never an earlier one than it has shown.               *)
(***************************************************************************)
EXTENDS Integers

VARIABLES
  made,    \* the newest snapshot
  newest,  \* the newest packet the client has read
  shown    \* the snapshot it shows, 0 for none

vars == <<made, newest, shown>>

Init == made = 0 /\ newest = 0 /\ shown = 0

Make ==
  /\ made' \in Nat /\ made' > made
  /\ UNCHANGED <<newest, shown>>

(* The client reads a newer packet, and shows the snapshot in it, or goes  *)
(* on as it was, or shows none.                                            *)
Read ==
  /\ newest' \in Nat /\ newest < newest' /\ newest' <= made
  /\ shown' \in {shown, newest', 0}
  /\ UNCHANGED made

Hide == shown' = 0 /\ UNCHANGED <<made, newest>>

Next == Make \/ Read \/ Hide

Spec == Init /\ [][Next]_vars
=============================================================================
