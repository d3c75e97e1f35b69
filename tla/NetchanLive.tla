---------------------------- MODULE NetchanLive ----------------------------
(***************************************************************************)
(* The channel over a network that loses a bounded number of packets: does *)
(* every command written arrive?  Netchan keeps every packet for ever so   *)
(* that any may be late; here one packet is under way at a time, then read *)
(* or lost, and the server may find its channel choked.  Nothing is        *)
(* cleared and the staging buffer is large enough for all that is written. *)
(***************************************************************************)
EXTENDS Netchan

CONSTANTS
  Writers,     \* ends that write
  MaxWritten,  \* commands an end writes
  LastWrite,   \* packet number after which it writes no more
  MaxLoss      \* packets lost and replies choked, in all

ASSUME RoomForAll == MaxWritten <= MaxMessage

VARIABLES
  flight,      \* <<m>> when packet m of that end is under way, else <<>>
  losses       \* how many the network lost so far

liveVars == <<vars, flight, losses>>

LiveInit == Init /\ flight = [e \in End |-> <<>>] /\ losses = 0

(* Nothing is under way and the server owes no reply. *)
Quiet == ~send_message /\ \A e \in End : flight[e] = <<>>

Launch(e) == flight' = [flight EXCEPT ![e] = Append(@, PacketOut(e, message[e]))]
Land(e)   == flight' = [flight EXCEPT ![e] = Tail(@)]

WriteOne(e, d) ==
  /\ outgoing_sequence[e] <= LastWrite
  /\ Len(committed[e]) + Len(message[e]) < MaxWritten
  /\ Write(e, d)
  /\ UNCHANGED <<flight, losses>>

(* CL_SendCmd runs every client frame.                                     *)
ClientFrame == Quiet /\ ClientSend /\ Launch(Client) /\ UNCHANGED losses

(* SV_SendClientMessages at the end of a frame that read a packet.         *)
ServerReply == ServerSend(FALSE) /\ Launch(Server) /\ UNCHANGED losses

ServerChoked ==
  /\ losses < MaxLoss
  /\ ServerChoke
  /\ losses' = losses + 1
  /\ UNCHANGED flight

Lose(e) ==
  /\ losses < MaxLoss
  /\ flight[e] # <<>>
  /\ Land(e)
  /\ losses' = losses + 1
  /\ UNCHANGED vars

(* A packet lands: read if it is new, ignored if it is not.                *)
ClientLand ==
  /\ flight[Server] # <<>>
  /\ LET m == Head(flight[Server])
     IN  IF Newer(Client, m) THEN ClientRead(m) ELSE UNCHANGED vars
  /\ Land(Server)
  /\ UNCHANGED losses

ServerLand ==
  /\ flight[Client] # <<>>
  /\ LET m == Head(flight[Client])
     IN  IF Newer(Server, m) THEN ServerRead(m) ELSE UNCHANGED vars
  /\ Land(Client)
  /\ UNCHANGED losses

LiveNext ==
  \/ \E e \in Writers, d \in Data : WriteOne(e, d)
  \/ ClientFrame
  \/ ServerReply
  \/ ServerChoked
  \/ \E e \in End : Lose(e)
  \/ ClientLand
  \/ ServerLand

(* Both main loops keep running, and what is under way lands or is lost.   *)
Fairness ==
  /\ WF_liveVars(ClientFrame)
  /\ WF_liveVars(ServerReply)
  /\ WF_liveVars(ClientLand)
  /\ WF_liveVars(ServerLand)

LiveSpec == LiveInit /\ [][LiveNext]_liveVars /\ Fairness

-----------------------------------------------------------------------------
(* Every command written with MSG_Write* on netchan.message is read by the *)
(* other end, however the losses fall: Netchan_Transmit does retransmit.   *)
EverythingArrives ==
  \A e \in End : \A n \in 1 .. MaxWritten :
    Len(committed[e]) + Len(message[e]) >= n ~> Len(delivered[Peer(e)]) >= n

(* The buffer of a message that was read is freed, so that the next one    *)
(* can leave: the acknowledging bit is repeated in every packet.           *)
BufferIsFreed ==
  \A e \in End : reliable_buf[e] # <<>> ~> reliable_buf[e] = <<>>
=============================================================================
