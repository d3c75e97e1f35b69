---------------------------- MODULE MCSvClients ----------------------------
(* Small instances of SvClients. *)
EXTENDS SvClients

(* One host, and two behind one address translator.                        *)
OneRemote  == {[base |-> 1, port |-> 1, qport |-> 1]}
NatRemotes == {[base |-> 1, port |-> p, qport |-> q] : p, q \in {1, 2}}

(* Nobody gets past "new": the signon has no part in how slots are found.  *)
NoSignon == \A s \in Slot : clients[s].prompted \in {<<>>, <<Ask("new")>>}

(* Nothing reads a free slot before it is wiped for a new client.          *)
UsedView == <<[s \in Slot |-> IF InUse(clients[s]) THEN clients[s] ELSE Blank],
              lastuserid, spawncount, paused, realtime, connects>>
=============================================================================
