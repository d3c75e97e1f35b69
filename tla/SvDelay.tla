------------------------------- MODULE SvDelay -------------------------------
(***************************************************************************)
(* Packets held back on the server (sv_minping): SV_ReadPackets takes      *)
(* packets off the socket and either executes them or links them into the  *)
(* queue of their client, whose nodes come from one pool, svs.free_packets.*)
(* The lists are modelled as the pointers they are.                        *)
(*                                                                         *)
(* Of a client the model keeps its address, its delay and its queue; times *)
(* are ages in steps of the delay, up to the longest delay, and 0 in a     *)
(* node that no packet waits in.                                           *)
(***************************************************************************)
EXTENDS Integers, Sequences, FiniteSetsExt

CONSTANTS
  MaxSlots,     \* MAX_CLIENTS
  PoolSize,     \* MAX_DELAYED_PACKETS
  MaxDelay,     \* one second, in steps of 0.001
  Remotes,      \* where packets come from
  SocketSize,   \* packets the socket holds
  MaxArrivals   \* bound on packets

Slot == 0 .. MaxSlots - 1
Node == 1 .. PoolSize
NULL == 0
Idle == -1      \* turn: between two calls of SV_ReadPackets
Pool == -1      \* home of a node: in svs.free_packets
Lost == -2      \* or in no list

ASSUME SlotsAreNat    == MaxSlots \in Nat
ASSUME PoolIsThere    == PoolSize \in Nat \ {0}
ASSUME DelayIsNat     == MaxDelay \in Nat
ASSUME NobodyIsRemote == "nobody" \notin Remotes /\ Remotes # {}

VARIABLES
  free_packets,   \* svs.free_packets
  next,           \* next of every node
  packets,        \* cl->packets
  last_packet,    \* cl->last_packet
  age,            \* realtime - time of every node
  remote,         \* cl->netchan.remote_address, "nobody" if cs_free
  delay,          \* cl->delay
  paused,         \* sv.paused
  socket,         \* packets that have come in
  turn,           \* where SV_ReadPackets is: a slot, MaxSlots for the socket
  arrivals,       \* history: packets that have come in so far
  home,           \* history: the slot a node is queued at, Pool or Lost
  number,         \* history: the place of a node's packet in the connection
  arrived,        \* history: packets of the connection taken off the socket
  executed        \* history: and executed

lists == <<free_packets, next, packets, last_packet, age, home, number>>
vars  == <<lists, remote, delay, paused, socket, turn, arrivals, arrived, executed>>

Packet == [from : Remotes, connect : BOOLEAN]

Init ==
  /\ free_packets = 1
  /\ next         = [n \in Node |-> IF n < PoolSize THEN n + 1 ELSE NULL]
  /\ packets      = [s \in Slot |-> NULL]
  /\ last_packet  = [s \in Slot |-> NULL]
  /\ age          = [n \in Node |-> 0]
  /\ remote       = [s \in Slot |-> "nobody"]
  /\ delay        = [s \in Slot |-> 0]
  /\ paused       = FALSE
  /\ socket       = <<>>
  /\ turn         = Idle
  /\ arrivals     = 0
  /\ home         = [n \in Node |-> Pool]
  /\ number       = [n \in Node |-> 0]
  /\ arrived      = [s \in Slot |-> 0]
  /\ executed     = [s \in Slot |-> 0]

InUse(s) == remote[s] # "nobody"

-----------------------------------------------------------------------------
(* SV_FreeHeadDelayedPacket.  Variants named ...Bug are the definition     *)
(* after them with a slip in it.                                           *)
FreeHeadBug(s) ==
  LET head == packets[s] IN
  /\ next'         = [next EXCEPT ![head] = free_packets]
  /\ packets'      = [packets EXCEPT ![s] = free_packets]
  /\ free_packets' = head
  /\ home'         = [home EXCEPT ![head] = Pool]
  /\ age'          = [age EXCEPT ![head] = 0]
  /\ number'       = [number EXCEPT ![head] = 0]
  /\ UNCHANGED last_packet
FreeHead(s) ==
  LET head == packets[s] IN
  /\ next'         = [next EXCEPT ![head] = free_packets]
  /\ packets'      = [packets EXCEPT ![s] = next[head]]
  /\ free_packets' = head
  /\ home'         = [home EXCEPT ![head] = Pool]
  /\ age'          = [age EXCEPT ![head] = 0]
  /\ number'       = [number EXCEPT ![head] = 0]
  /\ UNCHANGED last_packet

(* "insert at end of list": the head of the pool becomes the last packet.  *)
(* What it points to is read before it is cleared.                         *)
InsertAtEnd(s) ==
  LET node == free_packets IN
  /\ packets'      = [packets EXCEPT ![s] = IF @ = NULL THEN node ELSE @]
  /\ last_packet'  = [last_packet EXCEPT ![s] = node]
  /\ next'         = [n \in Node |-> IF n = node THEN NULL
                                     ELSE IF packets[s] # NULL /\ n = last_packet[s] THEN node
                                     ELSE next[n]]
  /\ free_packets' = next[node]
  /\ age'          = [age EXCEPT ![node] = 0]
  /\ home'         = [home EXCEPT ![node] = s]
  /\ number'       = [number EXCEPT ![node] = arrived[s] + 1]

(* SV_ExecuteClientMessage: the delay follows the ping, not of a spectator *)
(* and not in a pause, and a command may pause the game or end the pause.  *)
NearbyBug(d) == {d - 1, d, d + 1}
Nearby(d) == {e \in {d - 1, d, d + 1} : e \in 0 .. MaxDelay}

Execute(s) ==
  /\ \E d \in IF paused THEN {delay[s]} ELSE Nearby(delay[s]) :
       delay' = [delay EXCEPT ![s] = d]
  /\ paused' \in BOOLEAN
  /\ executed' = [executed EXCEPT ![s] = @ + 1]

-----------------------------------------------------------------------------
(* First the queues: "first deal with delayed packets from connected       *)
(* clients".                                                               *)
DueBug(s) == packets[s] # NULL /\ (age[packets[s]] > delay[s] \/ paused)
Due(s)    == packets[s] # NULL /\ (age[packets[s]] >= delay[s] \/ paused)

Drain(s) ==
  /\ turn = s
  /\ InUse(s)
  /\ Due(s)
  /\ Execute(s)
  /\ FreeHead(s)
  /\ UNCHANGED <<remote, socket, turn, arrivals, arrived>>

NextQueueBug(s) ==
  /\ turn = s
  /\ turn' = s + 1
  /\ UNCHANGED <<lists, remote, delay, paused, socket, arrivals, arrived, executed>>
NextQueue(s) ==
  /\ turn = s
  /\ ~(InUse(s) /\ Due(s))
  /\ turn' = s + 1
  /\ UNCHANGED <<lists, remote, delay, paused, socket, arrivals, arrived, executed>>

(* Then the socket. *)
Reading == turn = MaxSlots /\ socket # <<>>
Taken   == socket' = Tail(socket)

Matches(r) == {s \in Slot : remote[s] = r}

(* The packet of a client without a delay.                                 *)
ExecuteNow(s) ==
  /\ Reading /\ Taken
  /\ ~Head(socket).connect /\ remote[s] = Head(socket).from
  /\ delay[s] = 0
  /\ Execute(s)
  /\ arrived' = [arrived EXCEPT ![s] = @ + 1]
  /\ UNCHANGED <<lists, remote, turn, arrivals>>

Delay(s) ==
  /\ Reading /\ Taken
  /\ ~Head(socket).connect /\ remote[s] = Head(socket).from
  /\ delay[s] > 0
  /\ free_packets # NULL
  /\ InsertAtEnd(s)
  /\ arrived' = [arrived EXCEPT ![s] = @ + 1]
  /\ UNCHANGED <<remote, delay, paused, turn, arrivals, executed>>

(* "packet has to be dropped..", and the rest of the socket waits for the  *)
(* next frame.                                                             *)
PoolEmptyBug(s) ==
  /\ Reading
  /\ ~Head(socket).connect /\ remote[s] = Head(socket).from
  /\ delay[s] > 0
  /\ free_packets = NULL
  /\ turn' = Idle
  /\ UNCHANGED <<lists, remote, delay, paused, socket, arrivals, arrived, executed>>
PoolEmpty(s) ==
  /\ Reading /\ Taken
  /\ ~Head(socket).connect /\ remote[s] = Head(socket).from
  /\ delay[s] > 0
  /\ free_packets = NULL
  /\ turn' = Idle
  /\ UNCHANGED <<lists, remote, delay, paused, arrivals, arrived, executed>>

(* A packet of nobody we know. *)
Unknown ==
  /\ Reading /\ Taken
  /\ ~Head(socket).connect /\ Matches(Head(socket).from) = {}
  /\ UNCHANGED <<lists, remote, delay, paused, turn, arrivals, arrived, executed>>

(* SVC_DirectConnect: CheckReConnect frees the slot of the address; the    *)
(* first free slot is wiped by memset, with the queue it may still have.   *)
AfterReconnect(r) == [s \in Slot |-> IF remote[s] = r THEN "nobody" ELSE remote[s]]

Wipe(s) ==
  /\ packets'     = [packets EXCEPT ![s] = NULL]
  /\ last_packet' = [last_packet EXCEPT ![s] = NULL]
  /\ home'        = [n \in Node |-> IF home[n] = s THEN Lost ELSE home[n]]
  /\ age'         = [n \in Node |-> IF home[n] = s THEN 0 ELSE age[n]]
  /\ number'      = [n \in Node |-> IF home[n] = s THEN 0 ELSE number[n]]
  /\ delay'       = [delay EXCEPT ![s] = 0]
  /\ arrived'     = [arrived EXCEPT ![s] = 0]
  /\ executed'    = [executed EXCEPT ![s] = 0]
  /\ UNCHANGED <<free_packets, next>>

Connect ==
  /\ Reading /\ Taken
  /\ Head(socket).connect
  /\ LET r    == Head(socket).from
         free == {s \in Slot : AfterReconnect(r)[s] = "nobody"}
     IN  IF free = {}
         THEN /\ remote' = AfterReconnect(r)
              /\ UNCHANGED <<lists, delay, arrived, executed>>
         ELSE /\ remote' = [AfterReconnect(r) EXCEPT ![Min(free)] = r]
              /\ Wipe(Min(free))
  /\ UNCHANGED <<paused, turn, arrivals>>

SocketEmpty ==
  /\ turn = MaxSlots
  /\ socket = <<>>
  /\ turn' = Idle
  /\ UNCHANGED <<lists, remote, delay, paused, socket, arrivals, arrived, executed>>

-----------------------------------------------------------------------------
(* The rest of SV_Frame: time passes unless the game is paused, and        *)
(* SV_CheckTimeouts may free slots, as they are.                           *)
Older(n) == IF n < MaxDelay THEN n + 1 ELSE n

Frame(gone) ==
  /\ turn = Idle
  /\ turn' = 0
  /\ age' = [n \in Node |-> IF home[n] \in Slot /\ ~paused THEN Older(age[n]) ELSE age[n]]
  /\ remote' = [s \in Slot |-> IF s \in gone THEN "nobody" ELSE remote[s]]
  /\ UNCHANGED <<free_packets, next, packets, last_packet, home, number,
                 delay, paused, socket, arrivals, arrived, executed>>

Arrive(p) ==
  /\ arrivals < MaxArrivals
  /\ Len(socket) < SocketSize
  /\ arrivals' = arrivals + 1
  /\ socket' = Append(socket, p)
  /\ UNCHANGED <<lists, remote, delay, paused, turn, arrived, executed>>

ReadPackets ==
  \/ \E s \in Slot : Drain(s)
  \/ \E s \in Slot : NextQueue(s)
  \/ \E s \in Slot : ExecuteNow(s)
  \/ \E s \in Slot : Delay(s)
  \/ \E s \in Slot : PoolEmpty(s)
  \/ Unknown
  \/ Connect
  \/ SocketEmpty

Next ==
  \/ ReadPackets
  \/ \E gone \in SUBSET Slot : Frame(gone)
  \/ \E p \in Packet : Arrive(p)

Spec == Init /\ [][Next]_vars

(* SV_Frame runs for ever and SV_ReadPackets comes to its end; what the    *)
(* network brings, and who times out, is under no fairness.                *)
FairSpec == Spec /\ WF_vars(ReadPackets) /\ WF_vars(\E gone \in SUBSET Slot : Frame(gone))

-----------------------------------------------------------------------------
TypeOK ==
  /\ free_packets \in Node \cup {NULL}
  /\ next \in [Node -> Node \cup {NULL}]
  /\ packets \in [Slot -> Node \cup {NULL}]
  /\ last_packet \in [Slot -> Node \cup {NULL}]
  /\ age \in [Node -> 0 .. MaxDelay]
  /\ remote \in [Slot -> Remotes \cup {"nobody"}]
  /\ delay \in [Slot -> 0 .. MaxDelay]
  /\ paused \in BOOLEAN
  /\ socket \in Seq(Packet)
  /\ turn \in Slot \cup {MaxSlots, Idle}
  /\ arrivals \in Nat
  /\ home \in [Node -> Slot \cup {Pool, Lost}]
  /\ number \in [Node -> Nat]
  /\ arrived \in [Slot -> Nat]
  /\ executed \in [Slot -> Nat]

(* The places that point to a node. *)
Place == {<<"pool", 0>>} \cup ({"slot"} \X Slot) \cup ({"node"} \X Node)

At(p) == CASE p[1] = "pool" -> free_packets
           [] p[1] = "slot" -> packets[p[2]]
           [] p[1] = "node" -> next[p[2]]

(* Two lists never share a node, for no node is pointed to from two        *)
(* places; and every node is in some list unless its slot was wiped by     *)
(* memset with packets still queued (sv_main.c:1244).                      *)
LinkedOnce ==
  \A n \in Node :
    /\ \A p, q \in Place : At(p) = n /\ At(q) = n => p = q
    /\ home[n] # Lost => \E p \in Place : At(p) = n

(* The packets of a connection are executed in the order they came in:     *)
(* the next to be executed is at the head of the queue, and when the queue *)
(* is empty nothing is held back.  In particular a packet that need not    *)
(* wait never overtakes one that does.                                     *)
InTurn ==
  \A s \in Slot :
    IF packets[s] = NULL THEN executed[s] = arrived[s]
    ELSE number[packets[s]] = executed[s] + 1

(* A packet that was put into a queue is executed in the end, whatever     *)
(* becomes of the delay, unless its slot is freed.                         *)
QueuedIsExecuted ==
  \A n \in Node, s \in Slot : home[n] = s ~> home[n] # s \/ ~InUse(s)

(* However many nodes are lost, and though one packet that finds the pool  *)
(* empty ends the reading of a frame, every packet is taken off the socket.*)
SocketIsRead ==
  \A k \in 1 .. MaxArrivals :
    arrivals >= k ~> arrivals - Len(socket) >= k
=============================================================================
