---------------------------- MODULE ReliableLink ----------------------------
(***************************************************************************)
(* What a network channel promises one of its ends: a stop-and-wait stream *)
(* of whole messages.  The writer stages commands; when everything it sent *)
(* has been read it may send all it staged as one message; the reader gets *)
(* that message whole, once.  Staged commands may be thrown away, sent     *)
(* ones never.  Nothing here knows of packets, numbers or bits.            *)
(***************************************************************************)
EXTENDS Sequences

CONSTANTS Data, Disconnect

VARIABLES
  staged,   \* written, not yet sent
  sent,     \* everything sent so far
  read      \* everything the peer has read so far

lvars == <<staged, sent, read>>

Init == staged = <<>> /\ sent = <<>> /\ read = <<>>

(* A command is appended; if it does not fit, it replaces what was staged. *)
Stage(d) == /\ staged' \in {Append(staged, d), <<d>>}
            /\ UNCHANGED <<sent, read>>

(* What was staged is thrown away, the notice of disconnection replaces it.*)
Discard == /\ staged' \in {<<>>, <<Disconnect>>}
           /\ UNCHANGED <<sent, read>>

(* One message at a time: the next leaves when the last has been read.     *)
Send(msg) == /\ msg # <<>>
             /\ read = sent
             /\ sent' = sent \o msg
             /\ staged' = <<>>
             /\ UNCHANGED read

Deliver == /\ read # sent
           /\ read' = sent
           /\ UNCHANGED <<staged, sent>>

Next == \/ \E d \in Data : Stage(d)
        \/ Discard
        \/ Send(staged)
        \/ Send(<<Disconnect>>)
        \/ Deliver

Spec == Init /\ [][Next]_lvars
=============================================================================
