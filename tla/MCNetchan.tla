----------------------------- MODULE MCNetchan -----------------------------
(* A small instance of Netchan.  Every sequence number a behaviour uses is *)
(* below MaxSequence; the constraint bounds what is written and how many   *)
(* packets of one end are under way at a time.                             *)
EXTENDS Netchan, FiniteSets

CONSTANTS
  d1, d2,
  MaxWritten,  \* items an end writes in one behaviour
  MaxLive,     \* packets of one end its peer would still accept
  Writers      \* ends that write

Written(e) == committed[e] \o message[e]

(* Items are written in turn, so that a swap or a repetition shows and     *)
(* behaviours that differ only in the names of the items are not repeated. *)
InTurn(e) == \A i \in DOMAIN Written(e) :
               Written(e)[i] \in {Disconnect, IF i % 2 = 1 THEN d1 ELSE d2}

LivePackets(e) == {m \in packets[e] : Live(e, m)}

Few == \A e \in End : /\ Len(Written(e)) <= IF e \in Writers THEN MaxWritten ELSE 0
                      /\ InTurn(e)
                      /\ Cardinality(LivePackets(e)) <= MaxLive

(* A packet nobody accepts any more makes no difference to the future.     *)
LiveView == <<chanVars, send_message, [e \in End |-> LivePackets(e)],
              committed, delivered>>
=============================================================================
