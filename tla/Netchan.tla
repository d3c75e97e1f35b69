------------------------------ MODULE Netchan ------------------------------
(***************************************************************************)
(* The network channel of net_chan.c between one client and its slot on    *)
(* the server: sequenced datagrams that carry a piggybacked reliable       *)
(* message with an even/odd acknowledgement bit, over a network that       *)
(* loses, delays, duplicates and reorders packets.                         *)
(*                                                                         *)
(* The variables are the fields of netchan_t (net.h), one value per end.   *)
(* A reliable message is a sequence of items, an item standing for one     *)
(* svc_/clc_ command written with MSG_Write*; capacity is counted in       *)
(* items.  The packet carries the two sequence words of the header and the *)
(* reliable payload; the unreliable part is identified by its sequence     *)
(* number, so it has no field of its own.                                  *)
(***************************************************************************)
EXTENDS Integers, Sequences

CONSTANTS
  Data,         \* commands an end may write on the reliable stream
  Disconnect,   \* svc_disconnect, written by SV_DropClient
  MaxMessage,   \* capacity of netchan.message, in items (MAX_MSGLEN)
  MaxSequence   \* bound on sequence numbers (2^31 - 1 in the code)

ASSUME DisconnectNotData == Disconnect \notin Data
ASSUME MaxMessageIsPos   == MaxMessage \in Nat \ {0}
ASSUME MaxSequenceIsNat  == MaxSequence \in Nat

Client  == "NS_CLIENT"
Server  == "NS_SERVER"
End     == {Client, Server}
Peer(e) == IF e = Client THEN Server ELSE Client

Bit     == {0, 1}
Item    == Data \cup {Disconnect}
Message == Seq(Item)

Packet == [sequence     : Nat,
           reliable     : BOOLEAN,
           ack          : Nat,
           reliable_ack : Bit,
           data         : Message]

VARIABLES
  outgoing_sequence,
  incoming_sequence,
  incoming_acknowledged,
  incoming_reliable_acknowledged,
  incoming_reliable_sequence,
  reliable_sequence,
  last_reliable_sequence,
  message,        \* netchan.message: written, not yet handed to the reliable buffer
  overflowed,     \* netchan.message.overflowed
  reliable_buf,   \* the unacknowledged reliable message; <<>> is reliable_length = 0
  send_message,   \* client_t.send_message: the slot replies at the end of the frame
  packets,        \* every packet an end ever sent: any of them may still arrive
  committed,      \* history: items an end moved into its reliable buffer
  delivered       \* history: items an end read from reliable payloads

chanVars == <<outgoing_sequence, incoming_sequence, incoming_acknowledged,
              incoming_reliable_acknowledged, incoming_reliable_sequence,
              reliable_sequence, last_reliable_sequence, message, overflowed,
              reliable_buf>>
vars == <<chanVars, send_message, packets, committed, delivered>>

(***************************************************************************)
(* Netchan_Setup at both ends: memset to zero, then an empty message.      *)
(***************************************************************************)
Init ==
  /\ outgoing_sequence              = [e \in End |-> 0]
  /\ incoming_sequence              = [e \in End |-> 0]
  /\ incoming_acknowledged          = [e \in End |-> 0]
  /\ incoming_reliable_acknowledged = [e \in End |-> 0]
  /\ incoming_reliable_sequence     = [e \in End |-> 0]
  /\ reliable_sequence              = [e \in End |-> 0]
  /\ last_reliable_sequence         = [e \in End |-> 0]
  /\ message                        = [e \in End |-> <<>>]
  /\ overflowed                     = [e \in End |-> FALSE]
  /\ reliable_buf                   = [e \in End |-> <<>>]
  /\ send_message                   = FALSE
  /\ packets                        = [e \in End |-> {}]
  /\ committed                      = [e \in End |-> <<>>]
  /\ delivered                      = [e \in End |-> <<>>]

-----------------------------------------------------------------------------
(* The staging buffer. *)

(* SZ_GetSpace with allowoverflow: a write that does not fit empties the   *)
(* buffer, marks it overflowed and is then stored in the emptied buffer.   *)
FitsBug(e) == Len(message[e]) <= MaxMessage
Fits(e)    == Len(message[e]) < MaxMessage

Write(e, d) ==
  /\ message'    = [message EXCEPT ![e] = IF Fits(e) THEN Append(@, d) ELSE <<d>>]
  /\ overflowed' = [overflowed EXCEPT ![e] = @ \/ ~Fits(e)]
  /\ UNCHANGED <<outgoing_sequence, incoming_sequence, incoming_acknowledged,
                 incoming_reliable_acknowledged, incoming_reliable_sequence,
                 reliable_sequence, last_reliable_sequence, reliable_buf,
                 send_message, packets, committed, delivered>>

(* SZ_Clear of netchan.message: CL_ClearState when the client meets        *)
(* svc_serverdata, SV_ClearReliable and Cmd_Spawn_f on the server.         *)
Clear(e) ==
  /\ message'    = [message EXCEPT ![e] = <<>>]
  /\ overflowed' = [overflowed EXCEPT ![e] = FALSE]
  /\ UNCHANGED <<outgoing_sequence, incoming_sequence, incoming_acknowledged,
                 incoming_reliable_acknowledged, incoming_reliable_sequence,
                 reliable_sequence, last_reliable_sequence, reliable_buf,
                 send_message, packets, committed, delivered>>

-----------------------------------------------------------------------------
(* Netchan_Transmit, when the staging buffer holds msg. *)

(* the remote side dropped the last reliable message *)
DroppedBug(e)      == incoming_reliable_acknowledged[e] # reliable_sequence[e]
DroppedNeverBug(e) == FALSE
Dropped(e) ==
  /\ incoming_acknowledged[e] > last_reliable_sequence[e]
  /\ incoming_reliable_acknowledged[e] # reliable_sequence[e]

(* the reliable buffer is free and something waits to be sent *)
FreshBug(e, msg) == msg # <<>>
Fresh(e, msg)    == reliable_buf[e] = <<>> /\ msg # <<>>

SendReliable(e, msg) == Dropped(e) \/ Fresh(e, msg)

Payload(e, msg) == IF Fresh(e, msg) THEN msg ELSE reliable_buf[e]

PacketOut(e, msg) ==
  [sequence     |-> outgoing_sequence[e],
   reliable     |-> SendReliable(e, msg),
   ack          |-> incoming_sequence[e],
   reliable_ack |-> incoming_reliable_sequence[e],
   data         |-> IF SendReliable(e, msg) THEN Payload(e, msg) ELSE <<>>]

Transmit(e, msg) ==
  /\ outgoing_sequence[e] < MaxSequence
  /\ reliable_buf'      = [reliable_buf EXCEPT ![e] = Payload(e, msg)]
  /\ message'           = [message EXCEPT ![e] = IF Fresh(e, msg) THEN <<>> ELSE msg]
  /\ reliable_sequence' = [reliable_sequence EXCEPT
                             ![e] = IF Fresh(e, msg) THEN 1 - @ ELSE @]
  /\ outgoing_sequence' = [outgoing_sequence EXCEPT ![e] = @ + 1]
  /\ last_reliable_sequence' =
       [last_reliable_sequence EXCEPT
          ![e] = IF SendReliable(e, msg) THEN outgoing_sequence[e] + 1 ELSE @]
  /\ packets'   = [packets EXCEPT ![e] = @ \cup {PacketOut(e, msg)}]
  /\ committed' = [committed EXCEPT ![e] = IF Fresh(e, msg) THEN @ \o msg ELSE @]
  /\ UNCHANGED <<incoming_sequence, incoming_acknowledged,
                 incoming_reliable_acknowledged, incoming_reliable_sequence,
                 delivered>>

(* CL_SendCmd: one packet per client frame, whether or not anything is     *)
(* reliable.  An overflowed channel returns early and sends nothing.       *)
ClientSend ==
  /\ ~overflowed[Client]
  /\ Transmit(Client, message[Client])
  /\ UNCHANGED <<overflowed, send_message>>

(* CL_SendCmd when cl_c2spps drops the packet: the number is used up.      *)
ClientSkip ==
  /\ outgoing_sequence[Client] < MaxSequence
  /\ outgoing_sequence' = [outgoing_sequence EXCEPT ![Client] = @ + 1]
  /\ UNCHANGED <<incoming_sequence, incoming_acknowledged,
                 incoming_reliable_acknowledged, incoming_reliable_sequence,
                 reliable_sequence, last_reliable_sequence, message, overflowed,
                 reliable_buf, send_message, packets, committed, delivered>>

(* SV_SendClientMessages for the slot: it answers a frame in which a       *)
(* packet was read.  SV_SendMessagesToAll runs it with send_message forced *)
(* on.  The unforced call may find the channel choked and skip the reply.  *)
ServerSend(forced) ==
  /\ ~overflowed[Server]
  /\ send_message \/ forced
  /\ send_message' = FALSE
  /\ Transmit(Server, message[Server])
  /\ UNCHANGED overflowed

ServerChoke ==
  /\ ~overflowed[Server]
  /\ send_message
  /\ send_message' = FALSE
  /\ UNCHANGED <<chanVars, packets, committed, delivered>>

(* The same call when the reliable buffer overflowed: the buffer is        *)
(* cleared, SV_DropClient writes the disconnect, and it is sent at once.   *)
ServerOverflow ==
  /\ overflowed[Server]
  /\ overflowed'   = [overflowed EXCEPT ![Server] = FALSE]
  /\ send_message' = FALSE
  /\ Transmit(Server, <<Disconnect>>)

-----------------------------------------------------------------------------
(* Netchan_Process.  Variants named ...Bug are the definition that follows *)
(* them with a slip in it; no behaviour uses them.                         *)

(* A packet the channel accepts: neither stale nor a duplicate.            *)
NewerBug(e, m) == m.sequence >= incoming_sequence[e]
Newer(e, m)    == m.sequence > incoming_sequence[e]

(* the current outgoing reliable message has been acknowledged *)
AckedBug(e, m) == m.ack + 1 >= last_reliable_sequence[e]
Acked(e, m)    == m.reliable_ack = reliable_sequence[e]

Process(e, m) ==
  /\ Newer(e, m)
  /\ reliable_buf' = [reliable_buf EXCEPT ![e] = IF Acked(e, m) THEN <<>> ELSE @]
  /\ incoming_sequence'     = [incoming_sequence EXCEPT ![e] = m.sequence]
  /\ incoming_acknowledged' = [incoming_acknowledged EXCEPT ![e] = m.ack]
  /\ incoming_reliable_acknowledged' =
       [incoming_reliable_acknowledged EXCEPT ![e] = m.reliable_ack]
  /\ incoming_reliable_sequence' =
       [incoming_reliable_sequence EXCEPT ![e] = IF m.reliable THEN 1 - @ ELSE @]
  /\ delivered' = [delivered EXCEPT ![e] = @ \o m.data]
  /\ UNCHANGED <<reliable_sequence, last_reliable_sequence, message, overflowed,
                 packets, committed>>

(* CL_ReadPackets *)
ClientRead(m) ==
  /\ Process(Client, m)
  /\ UNCHANGED <<outgoing_sequence, send_message>>

(* SV_ExecuteClientMessage: the reply takes the number of the packet it    *)
(* answers, unless the server is already ahead and must not reply.         *)
InSync(m) == m.sequence >= outgoing_sequence[Server]

ReplySequenceBug(m) == outgoing_sequence[Server]
ReplySequence(m)    == IF InSync(m) THEN m.sequence ELSE outgoing_sequence[Server]

ServerRead(m) ==
  /\ Process(Server, m)
  /\ outgoing_sequence' = [outgoing_sequence EXCEPT ![Server] = ReplySequence(m)]
  /\ send_message' = InSync(m)

Next ==
  \/ \E e \in End, d \in Data : Write(e, d)
  \/ \E e \in End : Clear(e)
  \/ ClientSend
  \/ ClientSkip
  \/ \E forced \in BOOLEAN : ServerSend(forced)
  \/ ServerChoke
  \/ ServerOverflow
  \/ \E m \in packets[Server] : ClientRead(m)
  \/ \E m \in packets[Client] : ServerRead(m)

Spec == Init /\ [][Next]_vars

-----------------------------------------------------------------------------
(* Types: bits are bits, sequence numbers are naturals, the reliable       *)
(* buffer never holds more than a whole staging buffer (net_chan.c copies  *)
(* one into the other).                                                    *)
TypeOK ==
  /\ outgoing_sequence              \in [End -> Nat]
  /\ incoming_sequence              \in [End -> Nat]
  /\ incoming_acknowledged          \in [End -> Nat]
  /\ incoming_reliable_acknowledged \in [End -> Bit]
  /\ incoming_reliable_sequence     \in [End -> Bit]
  /\ reliable_sequence              \in [End -> Bit]
  /\ last_reliable_sequence         \in [End -> Nat]
  /\ message                        \in [End -> Message]
  /\ overflowed                     \in [End -> BOOLEAN]
  /\ reliable_buf                   \in [End -> Message]
  /\ send_message                   \in BOOLEAN
  /\ packets                        \in [End -> SUBSET Packet]
  /\ committed                      \in [End -> Message]
  /\ delivered                      \in [End -> Message]
  /\ \A e \in End : Len(message[e]) <= MaxMessage /\ Len(reliable_buf[e]) <= MaxMessage

(* A packet its receiver would still accept. *)
Live(e, m) == m.sequence > incoming_sequence[Peer(e)]

(* The peer has read the message that e last moved to its reliable buffer. *)
Received(e) == incoming_reliable_sequence[Peer(e)] = reliable_sequence[e]

(* The part of the reliable buffer the peer has yet to read. *)
Outstanding(e) == IF Received(e) THEN <<>> ELSE reliable_buf[e]

(* Exactly once and in order: what one end handed to the reliable buffer   *)
(* is what the other has read followed by the message still outstanding,   *)
(* however packets were lost, delayed, duplicated or reordered.            *)
ReliableStream ==
  \A e \in End : committed[e] = delivered[Peer(e)] \o Outstanding(e)

(* Netchan_Process frees the reliable buffer on a matching even/odd bit    *)
(* alone, without looking at the acknowledged sequence: it never frees a   *)
(* message the peer has not read, so nothing is lost by reusing the bit.   *)
FreedOnlyIfRead ==
  \A e \in End : reliable_buf[e] = <<>> => delivered[Peer(e)] = committed[e]

(* At most one packet the peer would accept carries reliable data, however *)
(* often it was retransmitted, and it carries what is in the buffer now:   *)
(* the receiver flips its bit once per message, never twice.               *)
OneLive(e) ==
  \A m \in packets[e] :
    m.reliable /\ Live(e, m) =>
      /\ m.sequence + 1 = last_reliable_sequence[e]
      /\ m.data = reliable_buf[e]
      /\ ~Received(e)
OneLiveCopy == \A e \in End : OneLive(e)

(* "It will not be retransmitted again until a message after the           *)
(* retransmit has been acknowledged and the reliable still failed to get   *)
(* there" (net_chan.c:41): a retransmission is sent only when the peer     *)
(* does not have the message and no earlier copy can still reach it.       *)
RetransmitOnlyIfLost ==
  [][\A e \in End :
       LET sent == packets'[e] \ packets[e]
       IN  (\E m \in sent : m.reliable /\ reliable_buf[e] # <<>>) =>
             /\ ~Received(e)
             /\ \A m \in packets[e] : m.reliable => ~Live(e, m)]_vars

(* "make sure the reply sequence number matches the incoming sequence      *)
(* number" (sv_user.c:3702): the server answers only when its next number  *)
(* is the one it acknowledges, and no packet of the server is numbered     *)
(* below the client packet it acknowledges.                                *)
ReplyMatches ==
  /\ send_message => outgoing_sequence[Server] = incoming_sequence[Server]
  /\ \A m \in packets[Server] : m.sequence >= m.ack

-----------------------------------------------------------------------------
(* The inductive invariant behind ReliableStream.  For one direction, from *)
(* e to its peer: the numbers are consistent, and the even/odd bits in     *)
(* flight tell e the truth whatever order they are read in.                *)

NumbersAgree(e) ==
  /\ \A m \in packets[e] : m.sequence < outgoing_sequence[e]
  /\ \A m, n \in packets[e] : m.sequence = n.sequence => m = n
  /\ \A m \in packets[e] : m.ack <= incoming_sequence[e]
  /\ \A m \in packets[e] : ~m.reliable => m.data = <<>>
  /\ incoming_sequence[Peer(e)] <= outgoing_sequence[e]
  /\ incoming_acknowledged[e] <= incoming_sequence[Peer(e)]
  /\ last_reliable_sequence[e] <= outgoing_sequence[e]

(* Until the peer reads the message no bit says that it did.               *)
NoFalseAck(e) ==
  ~Received(e) =>
    /\ reliable_buf[e] # <<>>
    /\ incoming_reliable_acknowledged[e] # reliable_sequence[e]
    /\ \A m \in packets[Peer(e)] : Live(Peer(e), m) => m.reliable_ack # reliable_sequence[e]

(* Once the buffer is free every bit still to come says so.                *)
NoLateDenial(e) ==
  reliable_buf[e] = <<>> =>
    /\ Received(e)
    /\ incoming_reliable_acknowledged[e] = reliable_sequence[e]
    /\ \A m \in packets[Peer(e)] : Live(Peer(e), m) => m.reliable_ack = reliable_sequence[e]

(* An acknowledgement is not taken back by a later packet.                 *)
AcksStay(e) ==
  \A m, n \in packets[Peer(e)] :
    /\ Live(Peer(e), m) /\ Live(Peer(e), n)
    /\ m.sequence < n.sequence
    /\ m.reliable_ack = reliable_sequence[e]
    => n.reliable_ack = reliable_sequence[e]

(* The wrong bit from beyond the last copy sent means that copy is lost.   *)
DenialIsLoss(e) ==
  /\ /\ incoming_acknowledged[e] >= last_reliable_sequence[e]
     /\ incoming_reliable_acknowledged[e] # reliable_sequence[e]
     => ~Received(e)
  /\ \A m \in packets[Peer(e)] :
       /\ Live(Peer(e), m)
       /\ m.ack >= last_reliable_sequence[e]
       /\ m.reliable_ack # reliable_sequence[e]
       => ~Received(e)

DirectionInv(e) ==
  /\ NumbersAgree(e)
  /\ OneLive(e)
  /\ NoFalseAck(e)
  /\ NoLateDenial(e)
  /\ AcksStay(e)
  /\ DenialIsLoss(e)
  /\ committed[e] = delivered[Peer(e)] \o Outstanding(e)

(* ReliableStream strengthened until every step preserves it.              *)
ChannelInv == TypeOK /\ \A e \in End : DirectionInv(e)

(* ReplyMatches likewise: the server is never behind the client packet it  *)
(* read last.                                                              *)
ReplyInv == ReplyMatches /\ outgoing_sequence[Server] >= incoming_sequence[Server]

-----------------------------------------------------------------------------
(* Each direction of the channel is a ReliableLink.                        *)
ClientLink == INSTANCE ReliableLink WITH
  staged <- message[Client], sent <- committed[Client], read <- delivered[Server]
ServerLink == INSTANCE ReliableLink WITH
  staged <- message[Server], sent <- committed[Server], read <- delivered[Client]

(* The header comment of net_chan.c promises a stream of reliable messages *)
(* over packets: seen from either end the channel is a ReliableLink.       *)
ImplementsLink == ClientLink!Spec /\ ServerLink!Spec
=============================================================================
