--------------------------- MODULE NetchanProofs ---------------------------
(***************************************************************************)
(* Proofs about Netchan, for every Data, MaxMessage and MaxSequence:       *)
(* types, the reliable stream, and that each direction is a ReliableLink.  *)
(***************************************************************************)
EXTENDS Netchan, SequenceTheorems, TLAPS

(* The two ends are each other's peer.                                     *)
LEMMA PeerFacts ==
  /\ \A e \in End : Peer(e) \in End /\ Peer(e) # e /\ Peer(Peer(e)) = e
  /\ \A e, f \in End : f # e => f = Peer(e)
BY DEF End, Peer, Client, Server

(* A packet is well formed when the channel that sends it is.              *)
LEMMA PacketOutType ==
  ASSUME TypeOK, NEW e \in End, NEW msg \in Message
  PROVE  PacketOut(e, msg) \in Packet /\ Payload(e, msg) \in Message
<1>1. Payload(e, msg) \in Message
  BY DEF Payload, TypeOK
<1>2. <<>> \in Message
  BY DEF Message
<1>3. SendReliable(e, msg) \in BOOLEAN
  BY DEF SendReliable, Dropped, Fresh
<1>4. (IF SendReliable(e, msg) THEN Payload(e, msg) ELSE <<>>) \in Message
  BY <1>1, <1>2
<1>5. PacketOut(e, msg) \in Packet
  BY <1>3, <1>4 DEF PacketOut, Packet, TypeOK
<1> QED BY <1>1, <1>5

(* Sending preserves the types.                                            *)
LEMMA TransmitType ==
  ASSUME TypeOK, NEW e \in End, NEW msg \in Message, Len(msg) <= MaxMessage,
         Transmit(e, msg),
         overflowed' \in [End -> BOOLEAN], send_message' \in BOOLEAN
  PROVE  TypeOK'
<1>1. PacketOut(e, msg) \in Packet /\ Payload(e, msg) \in Message
  BY PacketOutType
<1>2. reliable_buf' \in [End -> Message] /\ message' \in [End -> Message]
  BY <1>1, EmptySeq DEF Transmit, TypeOK, Message
<1>3. \A f \in End : Len(message'[f]) <= MaxMessage /\ Len(reliable_buf'[f]) <= MaxMessage
  BY MaxMessageIsPos DEF Transmit, Payload, TypeOK, Message
<1>4. packets' \in [End -> SUBSET Packet]
  BY <1>1 DEF Transmit, TypeOK
<1>5. committed[e] \o msg \in Message
  BY ConcatProperties DEF TypeOK, Message
<1>6. committed' \in [End -> Message]
  BY <1>5 DEF Transmit, TypeOK
<1>7. /\ outgoing_sequence' \in [End -> Nat]
      /\ reliable_sequence' \in [End -> Bit]
      /\ last_reliable_sequence' \in [End -> Nat]
  BY DEF Transmit, TypeOK, Bit
<1> QED BY <1>2, <1>3, <1>4, <1>6, <1>7 DEF Transmit, TypeOK

(* Reading preserves the types.                                            *)
LEMMA ProcessType ==
  ASSUME TypeOK, NEW e \in End, NEW m \in Packet, Process(e, m),
         outgoing_sequence' \in [End -> Nat], send_message' \in BOOLEAN
  PROVE  TypeOK'
<1>1. reliable_buf' \in [End -> Message]
  BY EmptySeq DEF Process, TypeOK, Message
<1>2. \A f \in End : Len(message'[f]) <= MaxMessage /\ Len(reliable_buf'[f]) <= MaxMessage
  BY MaxMessageIsPos DEF Process, TypeOK, Message
<1>3. delivered[e] \o m.data \in Message
  BY ConcatProperties DEF TypeOK, Message, Packet
<1>4. delivered' \in [End -> Message]
  BY <1>3 DEF Process, TypeOK
<1>5. /\ incoming_sequence' \in [End -> Nat]
      /\ incoming_acknowledged' \in [End -> Nat]
      /\ incoming_reliable_acknowledged' \in [End -> Bit]
      /\ incoming_reliable_sequence' \in [End -> Bit]
  BY DEF Process, TypeOK, Bit, Packet
<1> QED BY <1>1, <1>2, <1>4, <1>5 DEF Process, TypeOK

(* The channels start out well typed.                                      *)
LEMMA InitType == Init => TypeOK
<1>1. <<>> \in Message /\ Len(<<>>) = 0
  BY EmptySeq DEF Message
<1>2. 0 <= MaxMessage /\ 0 \in Bit /\ 0 \in Nat
  BY MaxMessageIsPos DEF Bit
<1>3. SUFFICES ASSUME Init PROVE TypeOK
  OBVIOUS
<1>4. \A e \in End : Len(message[e]) <= MaxMessage /\ Len(reliable_buf[e]) <= MaxMessage
  BY <1>1, <1>2, <1>3 DEF Init
<1> QED BY <1>1, <1>2, <1>3, <1>4 DEF Init, TypeOK

(* Every step preserves the types.                                         *)
LEMMA NextType ==
  ASSUME TypeOK, [Next]_vars
  PROVE  TypeOK'
<1>1. ASSUME NEW e \in End, NEW d \in Data, Write(e, d)
      PROVE  TypeOK'
  <2>1. d \in Item /\ message[e] \in Seq(Item)
    BY DEF Item, TypeOK, Message
  <2>2. /\ Append(message[e], d) \in Seq(Item)
        /\ Len(Append(message[e], d)) = Len(message[e]) + 1
    BY <2>1, AppendProperties
  <2>3. <<d>> \in Seq(Item) /\ Len(<<d>>) = 1
    BY <2>1
  <2>4. message'[e] \in Seq(Item) /\ Len(message'[e]) <= MaxMessage
    BY <1>1, <2>1, <2>2, <2>3, MaxMessageIsPos DEF Write, Fits, TypeOK
  <2>5. message' \in [End -> Message]
    BY <1>1, <2>4 DEF Write, TypeOK, Message
  <2>6. overflowed' \in [End -> BOOLEAN]
    BY <1>1 DEF Write, TypeOK
  <2> QED BY <1>1, <2>4, <2>5, <2>6 DEF Write, TypeOK
<1>2. ASSUME NEW e \in End, Clear(e)
      PROVE  TypeOK'
  <2>1. <<>> \in Message /\ Len(<<>>) = 0
    BY EmptySeq DEF Message
  <2>2. message' \in [End -> Message] /\ overflowed' \in [End -> BOOLEAN]
    BY <1>2, <2>1 DEF Clear, TypeOK
  <2>3. \A f \in End : Len(message'[f]) <= MaxMessage
    BY <1>2, <2>1, MaxMessageIsPos DEF Clear, TypeOK
  <2> QED BY <1>2, <2>2, <2>3 DEF Clear, TypeOK
<1>3. ASSUME NEW e \in End, Transmit(e, message[e]),
             UNCHANGED overflowed, send_message' \in BOOLEAN
      PROVE  TypeOK'
  BY <1>3, TransmitType DEF TypeOK
<1>4. CASE ClientSend
  BY <1>3, <1>4 DEF ClientSend, End, TypeOK
<1>5. CASE ClientSkip
  BY <1>5 DEF ClientSkip, TypeOK, End
<1>6. ASSUME NEW forced \in BOOLEAN, ServerSend(forced)
      PROVE  TypeOK'
  BY <1>3, <1>6 DEF ServerSend, End
<1>7. CASE ServerChoke
  BY <1>7 DEF ServerChoke, chanVars, TypeOK
<1>8. CASE ServerOverflow
  <2>1. <<Disconnect>> \in Message /\ Len(<<Disconnect>>) = 1
    BY DEF Message, Item
  <2>2. overflowed' \in [End -> BOOLEAN] /\ send_message' \in BOOLEAN
    BY <1>8 DEF ServerOverflow, TypeOK
  <2>3. Server \in End /\ Len(<<Disconnect>>) <= MaxMessage
    BY <2>1, MaxMessageIsPos DEF End
  <2>4. Transmit(Server, <<Disconnect>>)
    BY <1>8 DEF ServerOverflow
  <2> QED BY <2>1, <2>2, <2>3, <2>4, TransmitType
<1>9. ASSUME NEW m \in packets[Server], ClientRead(m)
      PROVE  TypeOK'
  <2>1. m \in Packet /\ Client \in End
    BY DEF TypeOK, End
  <2> QED BY <1>9, <2>1, ProcessType DEF ClientRead, TypeOK
<1>10. ASSUME NEW m \in packets[Client], ServerRead(m)
       PROVE  TypeOK'
  <2>1. m \in Packet /\ Server \in End
    BY DEF TypeOK, End
  <2>2. outgoing_sequence' \in [End -> Nat] /\ send_message' \in BOOLEAN
    BY <1>10, <2>1 DEF ServerRead, ReplySequence, InSync, TypeOK, Packet
  <2> QED BY <1>10, <2>1, <2>2, ProcessType DEF ServerRead
<1>11. CASE UNCHANGED vars
  BY <1>11 DEF vars, chanVars, TypeOK
<1> QED BY <1>1, <1>2, <1>4, <1>5, <1>6, <1>7, <1>8, <1>9, <1>10, <1>11 DEF Next

(* Types hold in every reachable state of the channel, whatever the network*)
(* does: net_chan.c never holds more than a staging buffer in reliable_buf.*)
THEOREM TypeCorrect == Spec => []TypeOK
<1>1. TypeOK /\ [Next]_vars => TypeOK'
  BY NextType
<1> QED BY InitType, <1>1, PTL DEF Spec

-----------------------------------------------------------------------------
(* The reliable stream. *)

(* What the sender's own direction knows just before a message leaves.     *)
LEMMA BeforeSend ==
  ASSUME ChannelInv, NEW e \in End, NEW msg \in Message
  PROVE  /\ Fresh(e, msg) => Received(e)
         /\ SendReliable(e, msg) =>
              \A m \in packets[e] : ~(m.reliable /\ Live(e, m))
         /\ Dropped(e) => ~Received(e) /\ reliable_buf[e] # <<>>
<1>0. TypeOK /\ DirectionInv(e) /\ Peer(e) \in End
  BY PeerFacts DEF ChannelInv
<1>1. Fresh(e, msg) => Received(e)
  BY <1>0 DEF Fresh, DirectionInv, NoLateDenial
<1>2. Dropped(e) => ~Received(e)
  BY <1>0 DEF Dropped, DirectionInv, DenialIsLoss, TypeOK
<1>3. Dropped(e) => reliable_buf[e] # <<>>
  BY <1>0 DEF Dropped, DirectionInv, NoLateDenial
<1>4. ASSUME Fresh(e, msg), NEW m \in packets[e], m.reliable, Live(e, m)
      PROVE  FALSE
  BY <1>0, <1>1, <1>4 DEF DirectionInv, OneLive
<1>5. ASSUME Dropped(e), NEW m \in packets[e], m.reliable, Live(e, m)
      PROVE  FALSE
  <2>1. m.sequence + 1 = last_reliable_sequence[e]
    BY <1>0, <1>5 DEF DirectionInv, OneLive
  <2>2. incoming_acknowledged[e] <= incoming_sequence[Peer(e)]
    BY <1>0 DEF DirectionInv, NumbersAgree
  <2>3. m.sequence > incoming_sequence[Peer(e)]
    BY <1>5 DEF Live
  <2>4. /\ m.sequence \in Nat /\ last_reliable_sequence[e] \in Nat
        /\ incoming_acknowledged[e] \in Nat /\ incoming_sequence[Peer(e)] \in Nat
    BY <1>0 DEF TypeOK, Packet
  <2> QED BY <1>5, <2>1, <2>2, <2>3, <2>4 DEF Dropped
<1> QED BY <1>1, <1>2, <1>3, <1>4, <1>5 DEF SendReliable

(* Sending preserves the invariant of the direction that sends.            *)
LEMMA TransmitOwn ==
  ASSUME ChannelInv, NEW e \in End, NEW msg \in Message, Transmit(e, msg)
  PROVE  DirectionInv(e)'
<1> DEFINE p == PacketOut(e, msg)
           r == Peer(e)
<1>0. /\ TypeOK /\ DirectionInv(e) /\ DirectionInv(r)
      /\ r \in End /\ r # e /\ Peer(r) = e
  BY PeerFacts DEF ChannelInv
<1>1. /\ p \in Packet
      /\ p.sequence = outgoing_sequence[e]
      /\ p.reliable = SendReliable(e, msg)
      /\ p.ack = incoming_sequence[e]
      /\ p.data = IF SendReliable(e, msg) THEN Payload(e, msg) ELSE <<>>
  BY <1>0, PacketOutType DEF PacketOut
<1>2. /\ packets'[e] = packets[e] \cup {p}
      /\ packets'[r] = packets[r]
      /\ outgoing_sequence'[e] = outgoing_sequence[e] + 1
      /\ last_reliable_sequence'[e] = IF SendReliable(e, msg)
                                      THEN outgoing_sequence[e] + 1
                                      ELSE last_reliable_sequence[e]
      /\ reliable_sequence'[e] = IF Fresh(e, msg) THEN 1 - reliable_sequence[e]
                                 ELSE reliable_sequence[e]
      /\ reliable_buf'[e] = Payload(e, msg)
      /\ committed'[e] = IF Fresh(e, msg) THEN committed[e] \o msg ELSE committed[e]
      /\ UNCHANGED <<incoming_sequence, incoming_acknowledged,
                 incoming_reliable_acknowledged, incoming_reliable_sequence,
                 delivered>>
  BY <1>0 DEF Transmit, TypeOK
<1>3. /\ outgoing_sequence[e] \in Nat /\ last_reliable_sequence[e] \in Nat
      /\ incoming_sequence \in [End -> Nat] /\ incoming_acknowledged \in [End -> Nat]
      /\ packets[e] \subseteq Packet /\ packets[r] \subseteq Packet
      /\ reliable_sequence[e] \in {0, 1}
      /\ incoming_reliable_sequence[r] \in {0, 1}
      /\ incoming_reliable_acknowledged[e] \in {0, 1}
      /\ \A m \in Packet : m.sequence \in Nat /\ m.ack \in Nat /\ m.reliable_ack \in {0, 1}
  BY <1>0 DEF TypeOK, Packet, Bit
<1>4. NumbersAgree(e)'
  <2>1. NumbersAgree(e)
    BY <1>0 DEF DirectionInv
  <2> QED BY <1>0, <1>1, <1>2, <1>3, <2>1 DEF NumbersAgree
<1>5. Fresh(e, msg) => Received(e) /\ ~Received(e)'
  <2>1. Fresh(e, msg) => Received(e)
    BY BeforeSend
  <2> QED BY <1>2, <1>3, <2>1 DEF Received
<1>6. ~Fresh(e, msg) => /\ Received(e)' = Received(e)
                        /\ reliable_sequence'[e] = reliable_sequence[e]
                        /\ reliable_buf'[e] = reliable_buf[e]
  BY <1>2 DEF Received, Payload
<1>7. \A m \in packets[e] : Live(e, m)' = Live(e, m)
  BY <1>2 DEF Live
<1>8. OneLive(e)'
  <2>1. CASE SendReliable(e, msg)
    <3>1. \A m \in packets[e] : ~(m.reliable /\ Live(e, m)')
      BY <1>7, <2>1, BeforeSend
    <3>2. p.sequence + 1 = last_reliable_sequence'[e] /\ p.data = reliable_buf'[e]
      BY <1>1, <1>2, <2>1
    <3>3. ~Received(e)'
      BY <1>5, <1>6, <2>1, BeforeSend DEF SendReliable
    <3> QED BY <1>2, <3>1, <3>2, <3>3 DEF OneLive
  <2>2. CASE ~SendReliable(e, msg)
    <3>1. ~Fresh(e, msg) /\ ~p.reliable
      BY <1>1, <2>2 DEF SendReliable
    <3> QED BY <1>0, <1>2, <1>6, <1>7, <2>2, <3>1 DEF OneLive, DirectionInv
  <2> QED BY <2>1, <2>2
<1>9. \A m \in packets[r] : Live(r, m)' = Live(r, m)
  BY <1>2 DEF Live
<1>10. Fresh(e, msg) =>
         /\ incoming_reliable_acknowledged'[e] # reliable_sequence'[e]
         /\ \A m \in packets[r] : Live(r, m)' => m.reliable_ack # reliable_sequence'[e]
         /\ reliable_buf'[e] # <<>>
  <2>1. NoLateDenial(e)
    BY <1>0 DEF DirectionInv
  <2> QED BY <1>0, <1>2, <1>3, <1>9, <2>1 DEF Fresh, NoLateDenial, Payload
<1>11. NoFalseAck(e)'
  <2>1. NoFalseAck(e)
    BY <1>0 DEF DirectionInv
  <2> QED BY <1>0, <1>2, <1>6, <1>9, <1>10, <2>1 DEF NoFalseAck
<1>12. NoLateDenial(e)'
  <2>1. NoLateDenial(e)
    BY <1>0 DEF DirectionInv
  <2> QED BY <1>0, <1>2, <1>6, <1>9, <1>10, <2>1 DEF NoLateDenial
<1>13. AcksStay(e)'
  <2>1. AcksStay(e)
    BY <1>0 DEF DirectionInv
  <2> QED BY <1>0, <1>2, <1>6, <1>9, <1>10, <2>1 DEF AcksStay
<1>14. DenialIsLoss(e)'
  <2>1. DenialIsLoss(e)
    BY <1>0 DEF DirectionInv
  <2>2. last_reliable_sequence[e] <= last_reliable_sequence'[e]
    BY <1>0, <1>2, <1>3 DEF DirectionInv, NumbersAgree
  <2> QED BY <1>0, <1>2, <1>3, <1>5, <1>6, <1>9, <2>1, <2>2 DEF DenialIsLoss
<1>15. (committed[e] = delivered[Peer(e)] \o Outstanding(e))'
  <2>1. CASE Fresh(e, msg)
    <3>1. Outstanding(e) = <<>> /\ Outstanding(e)' = msg
      BY <1>2, <1>5, <2>1 DEF Outstanding, Payload
    <3>2. delivered[r] \in Seq(Item)
      BY <1>0 DEF TypeOK, Message
    <3>3. committed[e] = delivered[r]
      BY <1>0, <3>1, <3>2, ConcatEmptySeq DEF DirectionInv
    <3> QED BY <1>2, <2>1, <3>1, <3>3
  <2>2. CASE ~Fresh(e, msg)
    <3>1. Outstanding(e)' = Outstanding(e)
      BY <1>6, <2>2 DEF Outstanding
    <3> QED BY <1>0, <1>2, <2>2, <3>1 DEF DirectionInv
  <2> QED BY <2>1, <2>2
<1> QED BY <1>4, <1>8, <1>11, <1>12, <1>13, <1>14, <1>15 DEF DirectionInv

(* Sending preserves the invariant of the other direction, whose           *)
(* acknowledgements the packet carries.                                    *)
LEMMA TransmitOther ==
  ASSUME ChannelInv, NEW r \in End, NEW msg \in Message, Transmit(r, msg)
  PROVE  DirectionInv(Peer(r))'
<1> DEFINE p == PacketOut(r, msg)
           e == Peer(r)
<1>0. /\ TypeOK /\ DirectionInv(e) /\ DirectionInv(r)
      /\ e \in End /\ r # e /\ Peer(e) = r
  BY PeerFacts DEF ChannelInv
<1>1. /\ p \in Packet
      /\ p.sequence = outgoing_sequence[r]
      /\ p.ack = incoming_sequence[r]
      /\ p.reliable_ack = incoming_reliable_sequence[r]
  BY <1>0, PacketOutType DEF PacketOut
<1>2. /\ packets'[r] = packets[r] \cup {p}
      /\ packets'[e] = packets[e]
      /\ outgoing_sequence'[e] = outgoing_sequence[e]
      /\ last_reliable_sequence'[e] = last_reliable_sequence[e]
      /\ reliable_sequence'[e] = reliable_sequence[e]
      /\ reliable_buf'[e] = reliable_buf[e]
      /\ committed'[e] = committed[e]
      /\ UNCHANGED <<incoming_sequence, incoming_acknowledged,
                 incoming_reliable_acknowledged, incoming_reliable_sequence,
                 delivered>>
  BY <1>0 DEF Transmit, TypeOK
<1>3. /\ outgoing_sequence[r] \in Nat /\ last_reliable_sequence[e] \in Nat
      /\ incoming_sequence \in [End -> Nat] /\ incoming_acknowledged \in [End -> Nat]
      /\ packets[e] \subseteq Packet /\ packets[r] \subseteq Packet
      /\ \A m \in Packet : m.sequence \in Nat /\ m.ack \in Nat
  BY <1>0 DEF TypeOK, Packet
<1>4. Received(e)' = Received(e) /\ \A m : Live(e, m)' = Live(e, m) /\ Live(r, m)' = Live(r, m)
  BY <1>0, <1>2 DEF Received, Live
<1>5. NumbersAgree(e)' /\ OneLive(e)'
  BY <1>0, <1>2, <1>4 DEF DirectionInv, NumbersAgree, OneLive
<1>6. (p.reliable_ack = reliable_sequence[e]) = Received(e)
  BY <1>0, <1>1 DEF Received
<1>7. NoFalseAck(e)'
  <2>1. NoFalseAck(e)
    BY <1>0 DEF DirectionInv
  <2> QED BY <1>0, <1>2, <1>4, <1>6, <2>1 DEF NoFalseAck
<1>8. NoLateDenial(e)'
  <2>1. NoLateDenial(e)
    BY <1>0 DEF DirectionInv
  <2> QED BY <1>0, <1>2, <1>4, <1>6, <2>1 DEF NoLateDenial
<1>9. AcksStay(e)'
  <2> SUFFICES ASSUME NEW m \in packets'[r], NEW n \in packets'[r],
                      Live(r, m), Live(r, n), m.sequence < n.sequence,
                      m.reliable_ack = reliable_sequence[e]
               PROVE  n.reliable_ack = reliable_sequence[e]
    BY <1>0, <1>2, <1>4 DEF AcksStay
  <2>1. \A k \in packets[r] : k.sequence < outgoing_sequence[r]
    BY <1>0 DEF DirectionInv, NumbersAgree
  <2>2. m \in packets[r]
    BY <1>1, <1>2, <1>3, <2>1
  <2>3. CASE n \in packets[r]
    BY <1>0, <2>2, <2>3 DEF DirectionInv, AcksStay
  <2>4. CASE n = p
    <3>1. Received(e)
      BY <1>0, <2>2 DEF DirectionInv, NoFalseAck
    <3> QED BY <1>6, <2>4, <3>1
  <2> QED BY <1>2, <2>3, <2>4
<1>10. DenialIsLoss(e)'
  <2>1. DenialIsLoss(e)
    BY <1>0 DEF DirectionInv
  <2> QED BY <1>0, <1>2, <1>4, <1>6, <2>1 DEF DenialIsLoss
<1>11. (committed[e] = delivered[Peer(e)] \o Outstanding(e))'
  BY <1>0, <1>2, <1>4 DEF DirectionInv, Outstanding
<1> QED BY <1>5, <1>7, <1>8, <1>9, <1>10, <1>11 DEF DirectionInv

(* Reading a packet preserves the invariant of the direction it belongs to.*)
LEMMA ProcessData ==
  ASSUME ChannelInv, NEW e \in End, NEW m \in packets[e], Process(Peer(e), m),
         outgoing_sequence' \in [End -> Nat],
         \A f \in End : outgoing_sequence[f] <= outgoing_sequence'[f]
  PROVE  DirectionInv(e)'
<1> DEFINE r == Peer(e)
<1>0. /\ TypeOK /\ DirectionInv(e) /\ DirectionInv(r)
      /\ r \in End /\ r # e /\ Peer(r) = e
  BY PeerFacts DEF ChannelInv
<1>1. /\ m.sequence > incoming_sequence[r]
      /\ reliable_buf'[e] = reliable_buf[e]
      /\ incoming_sequence'[r] = m.sequence
      /\ incoming_sequence'[e] = incoming_sequence[e]
      /\ incoming_acknowledged'[e] = incoming_acknowledged[e]
      /\ incoming_reliable_acknowledged'[e] = incoming_reliable_acknowledged[e]
      /\ incoming_reliable_sequence'[r] = IF m.reliable THEN 1 - incoming_reliable_sequence[r]
                                          ELSE incoming_reliable_sequence[r]
      /\ delivered'[r] = delivered[r] \o m.data
      /\ UNCHANGED <<reliable_sequence, last_reliable_sequence, packets, committed>>
  BY <1>0 DEF Process, Newer, TypeOK
<1>2. /\ outgoing_sequence \in [End -> Nat] /\ last_reliable_sequence[e] \in Nat
      /\ incoming_sequence \in [End -> Nat] /\ incoming_acknowledged \in [End -> Nat]
      /\ packets[e] \subseteq Packet /\ packets[r] \subseteq Packet
      /\ \A n \in Packet : n.sequence \in Nat /\ n.ack \in Nat /\ n.reliable \in BOOLEAN
      /\ reliable_sequence[e] \in {0, 1} /\ incoming_reliable_sequence[r] \in {0, 1}
      /\ delivered[r] \in Seq(Item) /\ reliable_buf[e] \in Seq(Item)
  BY <1>0 DEF TypeOK, Packet, Bit, Message
<1>3. Live(e, m) /\ \A n \in packets[e] : Live(e, n)' => Live(e, n) /\ n.sequence > m.sequence
  BY <1>0, <1>1, <1>2 DEF Live
<1>4. \A n \in packets[r] : Live(r, n)' = Live(r, n)
  BY <1>0, <1>1 DEF Live
<1>5. NumbersAgree(e)'
  <2>1. NumbersAgree(e)
    BY <1>0 DEF DirectionInv
  <2> QED BY <1>0, <1>1, <1>2, <2>1 DEF NumbersAgree
<1>6. ~m.reliable => Received(e)' = Received(e)
  BY <1>1 DEF Received
<1>7. m.reliable => /\ ~Received(e) /\ Received(e)'
                    /\ m.sequence + 1 = last_reliable_sequence[e]
                    /\ m.data = reliable_buf[e]
                    /\ reliable_buf[e] # <<>>
  <2>1. m.reliable => /\ ~Received(e)
                      /\ m.sequence + 1 = last_reliable_sequence[e]
                      /\ m.data = reliable_buf[e]
    BY <1>0, <1>3 DEF DirectionInv, OneLive
  <2>2. m.reliable => reliable_buf[e] # <<>>
    BY <1>0, <2>1 DEF DirectionInv, NoLateDenial
  <2> QED BY <1>1, <1>2, <2>1, <2>2 DEF Received
<1>8. OneLive(e)'
  <2>1. OneLive(e)
    BY <1>0 DEF DirectionInv
  <2> QED BY <1>1, <1>2, <1>3, <1>6, <1>7, <2>1 DEF OneLive
<1>9. NoFalseAck(e)'
  <2>1. NoFalseAck(e)
    BY <1>0 DEF DirectionInv
  <2> QED BY <1>1, <1>4, <1>6, <1>7, <2>1 DEF NoFalseAck
<1>10. NoLateDenial(e)'
  <2>1. NoLateDenial(e)
    BY <1>0 DEF DirectionInv
  <2> QED BY <1>1, <1>4, <1>6, <1>7, <2>1 DEF NoLateDenial
<1>11. AcksStay(e)'
  <2>1. AcksStay(e)
    BY <1>0 DEF DirectionInv
  <2> QED BY <1>1, <1>4, <2>1 DEF AcksStay
<1>12. DenialIsLoss(e)'
  <2>1. DenialIsLoss(e)
    BY <1>0 DEF DirectionInv
  <2>2. m.reliable => /\ incoming_acknowledged[e] < last_reliable_sequence[e]
                      /\ \A n \in packets[r] : n.ack < last_reliable_sequence[e]
    <3>1. incoming_acknowledged[e] <= incoming_sequence[r]
      BY <1>0 DEF DirectionInv, NumbersAgree
    <3>2. \A n \in packets[r] : n.ack <= incoming_sequence[r]
      BY <1>0 DEF DirectionInv, NumbersAgree
    <3> QED BY <1>0, <1>1, <1>2, <1>7, <3>1, <3>2
  <2>3. CASE m.reliable
    BY <1>0, <1>1, <1>2, <2>2, <2>3 DEF DenialIsLoss
  <2>4. CASE ~m.reliable
    BY <1>1, <1>4, <1>6, <2>1, <2>4 DEF DenialIsLoss
  <2> QED BY <2>3, <2>4
<1>13. (committed[e] = delivered[Peer(e)] \o Outstanding(e))'
  <2>1. CASE m.reliable
    <3>1. Outstanding(e) = m.data /\ Outstanding(e)' = <<>>
      BY <1>1, <1>7, <2>1 DEF Outstanding
    <3>2. delivered[r] \o m.data \in Seq(Item)
      BY <1>2, <1>7, <2>1, ConcatProperties
    <3> QED BY <1>0, <1>1, <3>1, <3>2, ConcatEmptySeq DEF DirectionInv
  <2>2. CASE ~m.reliable
    <3>1. m.data = <<>>
      BY <1>0, <2>2 DEF DirectionInv, NumbersAgree
    <3>2. delivered'[r] = delivered[r]
      BY <1>1, <1>2, <3>1, ConcatEmptySeq
    <3>3. Outstanding(e)' = Outstanding(e)
      BY <1>1, <1>6, <2>2 DEF Outstanding
    <3> QED BY <1>0, <1>1, <3>2, <3>3 DEF DirectionInv
  <2> QED BY <2>1, <2>2
<1> QED BY <1>5, <1>8, <1>9, <1>10, <1>11, <1>12, <1>13 DEF DirectionInv

(* Reading a packet preserves the invariant of the direction whose         *)
(* acknowledgement it carries: the buffer is freed only if it was read.    *)
LEMMA ProcessAck ==
  ASSUME ChannelInv, NEW e \in End, NEW m \in packets[Peer(e)], Process(e, m),
         outgoing_sequence' \in [End -> Nat],
         \A f \in End : outgoing_sequence[f] <= outgoing_sequence'[f]
  PROVE  DirectionInv(e)'
<1> DEFINE r == Peer(e)
<1>0. /\ TypeOK /\ DirectionInv(e) /\ DirectionInv(r)
      /\ r \in End /\ r # e /\ Peer(r) = e
  BY PeerFacts DEF ChannelInv
<1>1. /\ m.sequence > incoming_sequence[e]
      /\ reliable_buf'[e] = IF m.reliable_ack = reliable_sequence[e] THEN <<>>
                            ELSE reliable_buf[e]
      /\ incoming_sequence'[e] = m.sequence
      /\ incoming_sequence'[r] = incoming_sequence[r]
      /\ incoming_acknowledged'[e] = m.ack
      /\ incoming_reliable_acknowledged'[e] = m.reliable_ack
      /\ incoming_reliable_sequence'[r] = incoming_reliable_sequence[r]
      /\ delivered'[r] = delivered[r]
      /\ UNCHANGED <<reliable_sequence, last_reliable_sequence, packets, committed>>
  BY <1>0 DEF Process, Newer, Acked, TypeOK
<1>2. /\ outgoing_sequence \in [End -> Nat] /\ last_reliable_sequence[e] \in Nat
      /\ incoming_sequence \in [End -> Nat]
      /\ packets[e] \subseteq Packet /\ packets[r] \subseteq Packet
      /\ \A n \in Packet : n.sequence \in Nat /\ n.ack \in Nat
  BY <1>0 DEF TypeOK, Packet
<1>3. Received(e)' = Received(e) /\ \A n : Live(e, n)' = Live(e, n)
  BY <1>0, <1>1 DEF Received, Live
<1>4. Live(r, m) /\ \A n \in packets[r] : Live(r, n)' => Live(r, n) /\ m.sequence < n.sequence
  BY <1>0, <1>1, <1>2 DEF Live
<1>5. m.reliable_ack = reliable_sequence[e] => Received(e)
  BY <1>0, <1>4 DEF DirectionInv, NoFalseAck
<1>6. NumbersAgree(e)'
  <2>1. NumbersAgree(e)
    BY <1>0 DEF DirectionInv
  <2>2. m.sequence \in Nat /\ incoming_sequence[e] \in Nat /\ m.ack <= incoming_sequence[r]
    BY <1>0, <1>2 DEF DirectionInv, NumbersAgree
  <2> QED BY <1>0, <1>1, <1>2, <2>1, <2>2 DEF NumbersAgree
<1>7. OneLive(e)'
  <2>1. OneLive(e)
    BY <1>0 DEF DirectionInv
  <2> QED BY <1>1, <1>3, <1>5, <2>1 DEF OneLive
<1>8. NoFalseAck(e)'
  <2>1. NoFalseAck(e)
    BY <1>0 DEF DirectionInv
  <2> QED BY <1>0, <1>1, <1>3, <1>4, <1>5, <2>1 DEF NoFalseAck
<1>9. NoLateDenial(e)'
  <2>1. NoLateDenial(e) /\ AcksStay(e)
    BY <1>0 DEF DirectionInv
  <2>2. CASE m.reliable_ack = reliable_sequence[e]
    BY <1>0, <1>1, <1>3, <1>4, <1>5, <2>1, <2>2 DEF NoLateDenial, AcksStay
  <2>3. CASE m.reliable_ack # reliable_sequence[e]
    BY <1>0, <1>1, <1>3, <1>4, <2>1, <2>3 DEF NoLateDenial
  <2> QED BY <2>2, <2>3
<1>10. AcksStay(e)'
  <2>1. AcksStay(e)
    BY <1>0 DEF DirectionInv
  <2> QED BY <1>0, <1>1, <1>4, <2>1 DEF AcksStay
<1>11. DenialIsLoss(e)'
  <2>1. DenialIsLoss(e)
    BY <1>0 DEF DirectionInv
  <2> QED BY <1>0, <1>1, <1>3, <1>4, <2>1 DEF DenialIsLoss
<1>12. (committed[e] = delivered[Peer(e)] \o Outstanding(e))'
  <2>1. Outstanding(e)' = Outstanding(e)
    BY <1>1, <1>3, <1>5 DEF Outstanding
  <2> QED BY <1>0, <1>1, <2>1 DEF DirectionInv
<1> QED BY <1>6, <1>7, <1>8, <1>9, <1>10, <1>11, <1>12 DEF DirectionInv

(* The invariant holds of two fresh channels.                              *)
LEMMA InitInv == Init => ChannelInv
<1> SUFFICES ASSUME Init PROVE ChannelInv
  OBVIOUS
<1>1. TypeOK
  BY InitType
<1>2. \A e \in End : DirectionInv(e)
  <2> SUFFICES ASSUME NEW e \in End PROVE DirectionInv(e)
    OBVIOUS
  <2>1. Peer(e) \in End
    BY PeerFacts
  <2>2. NumbersAgree(e) /\ OneLive(e) /\ Received(e)
    BY <2>1 DEF Init, NumbersAgree, OneLive, Received
  <2>3. NoFalseAck(e) /\ NoLateDenial(e) /\ AcksStay(e) /\ DenialIsLoss(e)
    BY <2>1, <2>2 DEF Init, NoFalseAck, NoLateDenial, AcksStay, DenialIsLoss
  <2>4. committed[e] = delivered[Peer(e)] \o Outstanding(e)
    <3>1. <<>> \in Seq(Item)
      BY EmptySeq
    <3> QED BY <2>1, <2>2, <3>1, ConcatEmptySeq DEF Init, Outstanding
  <2> QED BY <2>2, <2>3, <2>4 DEF DirectionInv
<1> QED BY <1>1, <1>2 DEF ChannelInv

(* Steps that touch neither packets nor the reliable buffers.              *)
LEMMA QuietStep ==
  ASSUME ChannelInv, outgoing_sequence' \in [End -> Nat],
         \A f \in End : outgoing_sequence[f] <= outgoing_sequence'[f],
         UNCHANGED <<incoming_sequence, incoming_acknowledged,
                 incoming_reliable_acknowledged, incoming_reliable_sequence,
                 reliable_sequence, last_reliable_sequence, reliable_buf,
                 packets, committed, delivered>>
  PROVE  \A e \in End : DirectionInv(e)'
<1> SUFFICES ASSUME NEW e \in End PROVE DirectionInv(e)'
  OBVIOUS
<1>0. TypeOK /\ DirectionInv(e) /\ Peer(e) \in End
  BY PeerFacts DEF ChannelInv
<1>1. Received(e)' = Received(e) /\ Outstanding(e)' = Outstanding(e)
  BY DEF Received, Outstanding
<1>2. \A m : Live(e, m)' = Live(e, m) /\ Live(Peer(e), m)' = Live(Peer(e), m)
  BY DEF Live
<1>3. /\ outgoing_sequence[e] \in Nat /\ outgoing_sequence'[e] \in Nat
      /\ outgoing_sequence[e] <= outgoing_sequence'[e]
      /\ incoming_sequence[Peer(e)] \in Nat /\ last_reliable_sequence[e] \in Nat
      /\ \A m \in packets[e] : m.sequence \in Nat
  BY <1>0 DEF TypeOK, Packet
<1>4. NumbersAgree(e)'
  BY <1>0, <1>3 DEF DirectionInv, NumbersAgree
<1>5. OneLive(e)' /\ NoFalseAck(e)'
  BY <1>0, <1>1, <1>2 DEF DirectionInv, OneLive, NoFalseAck
<1>6. NoLateDenial(e)' /\ AcksStay(e)' /\ DenialIsLoss(e)'
  BY <1>0, <1>1, <1>2 DEF DirectionInv, NoLateDenial, AcksStay, DenialIsLoss
<1> QED BY <1>0, <1>1, <1>4, <1>5, <1>6 DEF DirectionInv

(* Every step preserves the strengthened invariant.                        *)
LEMMA NextInv ==
  ASSUME ChannelInv, [Next]_vars
  PROVE  ChannelInv'
<1>0. TypeOK /\ TypeOK'
  BY NextType DEF ChannelInv
<1>1. \A f \in End : outgoing_sequence[f] \in Nat /\ outgoing_sequence[f] <= outgoing_sequence[f]
  BY <1>0 DEF TypeOK
<1>2. Client \in End /\ Server \in End /\ Peer(Client) = Server /\ Peer(Server) = Client
  BY DEF Client, Server, End, Peer
<1> SUFFICES \A e \in End : DirectionInv(e)'
  BY <1>0 DEF ChannelInv
<1>3. ASSUME NEW e \in End, NEW msg \in Message, Transmit(e, msg)
      PROVE  \A f \in End : DirectionInv(f)'
  BY <1>3, TransmitOwn, TransmitOther, PeerFacts
<1>4. ASSUME NEW e \in End, NEW m \in packets[Peer(e)], Process(e, m),
             \A f \in End : outgoing_sequence[f] <= outgoing_sequence'[f]
      PROVE  \A f \in End : DirectionInv(f)'
  <2>1. outgoing_sequence' \in [End -> Nat]
    BY <1>0 DEF TypeOK
  <2>2. DirectionInv(e)'
    BY <1>4, <2>1, ProcessAck
  <2>3. Peer(e) \in End /\ Peer(Peer(e)) = e
    BY PeerFacts
  <2>4. DirectionInv(Peer(e))'
    BY <1>4, <2>1, <2>3, ProcessData
  <2> QED BY <2>2, <2>4, PeerFacts
<1>5. ASSUME NEW e \in End, NEW d \in Data, Write(e, d)
      PROVE  \A f \in End : DirectionInv(f)'
  BY <1>0, <1>1, <1>5, QuietStep DEF Write, TypeOK
<1>6. ASSUME NEW e \in End, Clear(e)
      PROVE  \A f \in End : DirectionInv(f)'
  BY <1>0, <1>1, <1>6, QuietStep DEF Clear, TypeOK
<1>7. CASE ClientSend
  BY <1>0, <1>2, <1>3, <1>7 DEF ClientSend, TypeOK
<1>8. CASE ClientSkip
  <2>1. \A f \in End : outgoing_sequence[f] <= outgoing_sequence'[f]
    BY <1>0, <1>8 DEF ClientSkip, TypeOK
  <2> QED BY <1>0, <1>8, <2>1, QuietStep DEF ClientSkip, TypeOK
<1>9. ASSUME NEW forced \in BOOLEAN, ServerSend(forced)
      PROVE  \A f \in End : DirectionInv(f)'
  BY <1>0, <1>2, <1>3, <1>9 DEF ServerSend, TypeOK
<1>10. CASE ServerChoke
  BY <1>0, <1>1, <1>10, QuietStep DEF ServerChoke, chanVars, TypeOK
<1>11. CASE ServerOverflow
  <2>1. <<Disconnect>> \in Message
    BY DEF Message, Item
  <2> QED BY <1>2, <1>3, <1>11, <2>1 DEF ServerOverflow
<1>12. ASSUME NEW m \in packets[Server], ClientRead(m)
       PROVE  \A f \in End : DirectionInv(f)'
  BY <1>1, <1>2, <1>4, <1>12 DEF ClientRead
<1>13. ASSUME NEW m \in packets[Client], ServerRead(m)
       PROVE  \A f \in End : DirectionInv(f)'
  <2>1. m.sequence \in Nat
    BY <1>0, <1>2 DEF TypeOK, Packet
  <2>2. \A f \in End : outgoing_sequence[f] <= outgoing_sequence'[f]
    BY <1>0, <1>1, <1>13, <2>1 DEF ServerRead, ReplySequence, InSync, TypeOK
  <2> QED BY <1>2, <1>4, <1>13, <2>2 DEF ServerRead
<1>14. CASE UNCHANGED vars
  BY <1>0, <1>1, <1>14, QuietStep DEF vars, chanVars, TypeOK
<1> QED BY <1>5, <1>6, <1>7, <1>8, <1>9, <1>10, <1>11, <1>12, <1>13, <1>14 DEF Next

(* The strengthened invariant holds of the channel over any network.       *)
THEOREM ChannelInvariant == Spec => []ChannelInv
<1>1. ChannelInv /\ [Next]_vars => ChannelInv'
  BY NextInv
<1> QED BY InitInv, <1>1, PTL DEF Spec

(* What was sent is what was read, then what is outstanding: Netchan_*     *)
(* loses, repeats and reorders nothing that reached the reliable buffer.   *)
THEOREM StreamReliable == Spec => []ReliableStream
<1>1. ChannelInv => ReliableStream
  BY DEF ChannelInv, DirectionInv, ReliableStream
<1> QED BY <1>1, ChannelInvariant, PTL

(* When the buffer is free everything sent has been read.                  *)
LEMMA FreeMeansRead == ChannelInv => FreedOnlyIfRead
<1> SUFFICES ASSUME ChannelInv, NEW e \in End, reliable_buf[e] = <<>>
             PROVE  delivered[Peer(e)] = committed[e]
  BY DEF FreedOnlyIfRead
<1>1. DirectionInv(e) /\ delivered[Peer(e)] \in Seq(Item)
  BY PeerFacts DEF ChannelInv, TypeOK, Message
<1>2. Outstanding(e) = <<>>
  BY DEF Outstanding
<1> QED BY <1>1, <1>2, ConcatEmptySeq DEF DirectionInv

(* Freeing the reliable buffer on the even/odd bit alone is safe, for any  *)
(* number of packets delayed and duplicated: Netchan_Process needs no      *)
(* window on the acknowledged sequence.                                    *)
THEOREM FreedSafely == Spec => []FreedOnlyIfRead
BY FreeMeansRead, ChannelInvariant, PTL

(* The receiver can meet at most one copy of the message on its way.       *)
THEOREM LiveCopyUnique == Spec => []OneLiveCopy
<1>1. ChannelInv => OneLiveCopy
  BY DEF ChannelInv, DirectionInv, OneLiveCopy
<1> QED BY <1>1, ChannelInvariant, PTL

-----------------------------------------------------------------------------
(* When a reliable message is repeated. *)

(* A repeated message is one the peer has not read and will not read.      *)
LEMMA RetransmitStep ==
  ASSUME ChannelInv, [Next]_vars, NEW e \in End,
         NEW m \in packets'[e] \ packets[e], m.reliable, reliable_buf[e] # <<>>
  PROVE  ~Received(e) /\ \A n \in packets[e] : n.reliable => ~Live(e, n)
<1>0. TypeOK
  BY DEF ChannelInv
<1>1. ASSUME NEW f \in End, NEW msg \in Message, Transmit(f, msg)
      PROVE  ~Received(e) /\ \A n \in packets[e] : n.reliable => ~Live(e, n)
  <2>1. e = f /\ m = PacketOut(e, msg)
    BY <1>0, <1>1 DEF Transmit, TypeOK
  <2>2. Dropped(e)
    BY <2>1 DEF PacketOut, SendReliable, Fresh
  <2> QED BY <2>2, BeforeSend DEF SendReliable
<1>2. CASE ClientSend
  BY <1>0, <1>1, <1>2 DEF ClientSend, TypeOK, End
<1>3. ASSUME NEW forced \in BOOLEAN, ServerSend(forced)
      PROVE  ~Received(e) /\ \A n \in packets[e] : n.reliable => ~Live(e, n)
  BY <1>0, <1>1, <1>3 DEF ServerSend, TypeOK, End
<1>4. CASE ServerOverflow
  <2>1. <<Disconnect>> \in Message /\ Server \in End
    BY DEF Message, Item, End
  <2> QED BY <1>1, <1>4, <2>1 DEF ServerOverflow
<1>5. CASE UNCHANGED packets
  BY <1>5
<1>6. ASSUME NEW f \in End, NEW d \in Data, Write(f, d)
      PROVE  UNCHANGED packets
  BY <1>6 DEF Write
<1>7. ASSUME NEW f \in End, Clear(f)
      PROVE  UNCHANGED packets
  BY <1>7 DEF Clear
<1>8. ClientSkip \/ ServerChoke => UNCHANGED packets
  BY DEF ClientSkip, ServerChoke
<1>9. ASSUME NEW k, ClientRead(k) \/ ServerRead(k)
      PROVE  UNCHANGED packets
  BY <1>9 DEF ClientRead, ServerRead, Process
<1>10. UNCHANGED vars => UNCHANGED packets
  BY DEF vars
<1> QED BY <1>2, <1>3, <1>4, <1>5, <1>6, <1>7, <1>8, <1>9, <1>10 DEF Next

(* A reliable message is repeated only when the peer does not have it and  *)
(* no earlier copy can still reach it, as the header of net_chan.c says.   *)
THEOREM RetransmitsOnlyLost == Spec => RetransmitOnlyIfLost
<1>1. ChannelInv /\ [Next]_vars =>
        [\A e \in End :
           LET sent == packets'[e] \ packets[e]
           IN  (\E m \in sent : m.reliable /\ reliable_buf[e] # <<>>) =>
                 /\ ~Received(e)
                 /\ \A m \in packets[e] : m.reliable => ~Live(e, m)]_vars
  BY RetransmitStep
<1> QED BY <1>1, ChannelInvariant, PTL DEF Spec, RetransmitOnlyIfLost

-----------------------------------------------------------------------------
(* The channel implements the abstract link. *)

(* What a step of the channel is to the link from e to its peer.           *)
LinkStep(e) ==
  LET staged == message[e]
      sent   == committed[e]
      read   == delivered[Peer(e)]
  IN  \/ /\ \/ message'[e] \in {<<>>, <<Disconnect>>, staged}
            \/ \E d \in Data : message'[e] \in {Append(staged, d), <<d>>}
         /\ committed'[e] = sent
         /\ delivered'[Peer(e)] = read
      \/ \E msg \in {staged, <<Disconnect>>} :
           /\ msg # <<>>
           /\ read = sent
           /\ committed'[e] = sent \o msg
           /\ message'[e] = <<>>
           /\ delivered'[Peer(e)] = read
      \/ /\ read # sent
         /\ delivered'[Peer(e)] = sent
         /\ message'[e] = staged
         /\ committed'[e] = sent

(* Sending a packet is Send or a stutter of the link.                      *)
LEMMA TransmitLink ==
  ASSUME ChannelInv, NEW e \in End, NEW f \in End, NEW msg \in Message, Transmit(f, msg),
         msg \in {message[f], <<Disconnect>>}
  PROVE  LinkStep(e)
<1>0. TypeOK /\ FreedOnlyIfRead
  BY FreeMeansRead DEF ChannelInv
<1>1. CASE e # f
  BY <1>0, <1>1 DEF Transmit, LinkStep, TypeOK
<1>2. CASE e = f /\ Fresh(e, msg)
  <2>1. /\ message'[e] = <<>>
        /\ committed'[e] = committed[e] \o msg
        /\ delivered' = delivered
    BY <1>0, <1>2 DEF Transmit, TypeOK
  <2>2. msg # <<>> /\ delivered[Peer(e)] = committed[e]
    BY <1>0, <1>2 DEF Fresh, FreedOnlyIfRead
  <2> QED BY <1>2, <2>1, <2>2 DEF LinkStep
<1>3. CASE e = f /\ ~Fresh(e, msg)
  <2>1. message'[e] = msg /\ committed'[e] = committed[e] /\ delivered' = delivered
    BY <1>0, <1>3 DEF Transmit, TypeOK
  <2> QED BY <1>3, <2>1 DEF LinkStep
<1> QED BY <1>1, <1>2, <1>3

(* Reading a packet is Deliver or a stutter of the link.                   *)
LEMMA ProcessLink ==
  ASSUME ChannelInv, NEW e \in End, NEW f \in End, NEW m \in packets[Peer(f)], Process(f, m)
  PROVE  LinkStep(e)
<1>0. TypeOK /\ DirectionInv(e) /\ Peer(e) \in End /\ Peer(e) # e /\ Peer(Peer(e)) = e
  BY PeerFacts DEF ChannelInv
<1>1. message'[e] = message[e] /\ committed'[e] = committed[e]
  BY DEF Process
<1>2. CASE f = e
  <2>1. delivered'[Peer(e)] = delivered[Peer(e)]
    BY <1>0, <1>2 DEF Process, TypeOK
  <2> QED BY <1>1, <2>1 DEF LinkStep
<1>3. CASE f = Peer(e)
  <2>1. m \in packets[e] /\ Live(e, m) /\ m \in Packet
    BY <1>0, <1>3 DEF Process, Newer, Live, TypeOK
  <2>2. delivered'[Peer(e)] = delivered[Peer(e)] \o m.data
    BY <1>0, <1>3 DEF Process, TypeOK
  <2>3. delivered[Peer(e)] \in Seq(Item) /\ m.data \in Seq(Item)
    BY <1>0, <2>1 DEF TypeOK, Message, Packet
  <2>4. CASE m.reliable
    <3>1. ~Received(e) /\ m.data = reliable_buf[e] /\ reliable_buf[e] # <<>>
      BY <1>0, <2>1, <2>4 DEF DirectionInv, OneLive, NoLateDenial
    <3>2. committed[e] = delivered[Peer(e)] \o m.data
      BY <1>0, <3>1 DEF DirectionInv, Outstanding
    <3>3. m.data # <<>>
      BY <3>1
    <3>4. \A s, t \in Seq(Item) : t # <<>> => s \o t # s
      BY ConcatEqualIffEmpty
    <3>5. delivered[Peer(e)] # committed[e]
      BY <2>3, <3>2, <3>3, <3>4
    <3> QED BY <1>1, <2>2, <3>2, <3>5 DEF LinkStep
  <2>5. CASE ~m.reliable
    <3>1. m.data = <<>>
      BY <1>0, <2>1, <2>5 DEF DirectionInv, NumbersAgree
    <3>2. delivered'[Peer(e)] = delivered[Peer(e)]
      BY <2>2, <2>3, <3>1, ConcatEmptySeq
    <3> QED BY <1>1, <3>2 DEF LinkStep
  <2> QED BY <2>1, <2>4, <2>5
<1> QED BY <1>2, <1>3, PeerFacts

(* Every step of the channel is a step of both links or a stutter.         *)
LEMMA NextLink ==
  ASSUME ChannelInv, [Next]_vars, NEW e \in End
  PROVE  LinkStep(e)
<1>0. TypeOK /\ Client \in End /\ Server \in End /\ Peer(Client) = Server /\ Peer(Server) = Client
  BY DEF ChannelInv, Client, Server, End, Peer
<1>1. ASSUME NEW f \in End, NEW d \in Data, Write(f, d)
      PROVE  LinkStep(e)
  <2>1. message'[e] \in {message[e], Append(message[e], d), <<d>>}
    BY <1>0, <1>1 DEF Write, TypeOK
  <2> QED BY <1>1, <2>1 DEF Write, LinkStep
<1>2. ASSUME NEW f \in End, Clear(f)
      PROVE  LinkStep(e)
  BY <1>0, <1>2 DEF Clear, LinkStep, TypeOK
<1>3. CASE ClientSend
  BY <1>0, <1>3, TransmitLink DEF ClientSend, TypeOK
<1>4. ASSUME NEW forced \in BOOLEAN, ServerSend(forced)
      PROVE  LinkStep(e)
  BY <1>0, <1>4, TransmitLink DEF ServerSend, TypeOK
<1>5. CASE ServerOverflow
  <2>1. <<Disconnect>> \in Message
    BY DEF Message, Item
  <2> QED BY <1>0, <1>5, <2>1, TransmitLink DEF ServerOverflow
<1>6. ASSUME NEW m \in packets[Server], ClientRead(m)
      PROVE  LinkStep(e)
  BY <1>0, <1>6, ProcessLink DEF ClientRead
<1>7. ASSUME NEW m \in packets[Client], ServerRead(m)
      PROVE  LinkStep(e)
  BY <1>0, <1>7, ProcessLink DEF ServerRead
<1>8. ASSUME UNCHANGED <<message, committed, delivered>>
      PROVE  LinkStep(e)
  BY <1>8 DEF LinkStep
<1>9. ClientSkip \/ ServerChoke \/ UNCHANGED vars => UNCHANGED <<message, committed, delivered>>
  BY DEF ClientSkip, ServerChoke, vars, chanVars
<1> QED BY <1>1, <1>2, <1>3, <1>4, <1>5, <1>6, <1>7, <1>8, <1>9 DEF Next

(* Seen from either end the channel is a stop-and-wait stream of whole     *)
(* messages: packets, numbers and bits of net_chan.c implement it.         *)
THEOREM ImplementsReliableLink == Spec => ImplementsLink
<1>0. Client \in End /\ Server \in End /\ Peer(Client) = Server /\ Peer(Server) = Client
  BY DEF Client, Server, End, Peer
<1>1. Init => ClientLink!Init /\ ServerLink!Init
  BY <1>0 DEF Init, ClientLink!Init, ServerLink!Init
<1>2. ChannelInv /\ [Next]_vars => [ClientLink!Next]_(ClientLink!lvars)
  <2> SUFFICES ASSUME LinkStep(Client) PROVE [ClientLink!Next]_(ClientLink!lvars)
    BY <1>0, NextLink
  <2> QED BY <1>0 DEF LinkStep, ClientLink!Next, ClientLink!lvars, ClientLink!Stage,
                      ClientLink!Discard, ClientLink!Send, ClientLink!Deliver
<1>3. ChannelInv /\ [Next]_vars => [ServerLink!Next]_(ServerLink!lvars)
  <2> SUFFICES ASSUME LinkStep(Server) PROVE [ServerLink!Next]_(ServerLink!lvars)
    BY <1>0, NextLink
  <2> QED BY <1>0 DEF LinkStep, ServerLink!Next, ServerLink!lvars, ServerLink!Stage,
                      ServerLink!Discard, ServerLink!Send, ServerLink!Deliver
<1> QED BY <1>1, <1>2, <1>3, ChannelInvariant, PTL
        DEF Spec, ImplementsLink, ClientLink!Spec, ServerLink!Spec

-----------------------------------------------------------------------------
(* The numbers of the server's replies. *)

(* Every step keeps the server level with the packet it answers.           *)
LEMMA ReplyStep ==
  ASSUME TypeOK, TypeOK', ReplyInv, [Next]_vars
  PROVE  ReplyInv'
<1>0. /\ Client \in End /\ Server \in End /\ Client # Server
      /\ outgoing_sequence[Server] \in Nat /\ incoming_sequence[Server] \in Nat
  BY DEF TypeOK, Client, Server, End
<1>1. ASSUME UNCHANGED packets[Server], UNCHANGED outgoing_sequence[Server],
             UNCHANGED incoming_sequence[Server], send_message' => send_message
      PROVE  ReplyInv'
  BY <1>1 DEF ReplyInv, ReplyMatches
<1>2. ASSUME NEW msg, Transmit(Server, msg), send_message' = FALSE
      PROVE  ReplyInv'
  <2>1. /\ packets'[Server] = packets[Server] \cup {PacketOut(Server, msg)}
        /\ outgoing_sequence'[Server] = outgoing_sequence[Server] + 1
        /\ incoming_sequence' = incoming_sequence
    BY <1>0, <1>2 DEF Transmit, TypeOK
  <2>2. /\ PacketOut(Server, msg).sequence = outgoing_sequence[Server]
        /\ PacketOut(Server, msg).ack = incoming_sequence[Server]
    BY DEF PacketOut
  <2> QED BY <1>0, <1>2, <2>1, <2>2 DEF ReplyInv, ReplyMatches
<1>3. ASSUME NEW e \in End, NEW d \in Data, Write(e, d)
      PROVE  ReplyInv'
  BY <1>1, <1>3 DEF Write
<1>4. ASSUME NEW e \in End, Clear(e)
      PROVE  ReplyInv'
  BY <1>1, <1>4 DEF Clear
<1>5. CASE ClientSend
  BY <1>0, <1>1, <1>5 DEF ClientSend, Transmit, TypeOK
<1>6. CASE ClientSkip
  BY <1>0, <1>1, <1>6 DEF ClientSkip, TypeOK
<1>7. ASSUME NEW forced \in BOOLEAN, ServerSend(forced)
      PROVE  ReplyInv'
  BY <1>2, <1>7 DEF ServerSend
<1>8. CASE ServerChoke
  BY <1>1, <1>8 DEF ServerChoke, chanVars
<1>9. CASE ServerOverflow
  BY <1>2, <1>9 DEF ServerOverflow
<1>10. ASSUME NEW m \in packets[Server], ClientRead(m)
       PROVE  ReplyInv'
  BY <1>0, <1>1, <1>10 DEF ClientRead, Process, TypeOK
<1>11. ASSUME NEW m \in packets[Client], ServerRead(m)
       PROVE  ReplyInv'
  <2>1. m.sequence \in Nat
    BY <1>0 DEF TypeOK, Packet
  <2>2. /\ incoming_sequence'[Server] = m.sequence
        /\ outgoing_sequence'[Server] = ReplySequence(m)
        /\ send_message' = InSync(m)
        /\ packets' = packets
    BY <1>0, <1>11 DEF ServerRead, Process, TypeOK
  <2>3. ReplySequence(m) >= m.sequence /\ (InSync(m) => ReplySequence(m) = m.sequence)
    BY <1>0, <2>1 DEF ReplySequence, InSync
  <2> QED BY <2>2, <2>3 DEF ReplyInv, ReplyMatches
<1>12. CASE UNCHANGED vars
  BY <1>1, <1>12 DEF vars, chanVars
<1> QED BY <1>3, <1>4, <1>5, <1>6, <1>7, <1>8, <1>9, <1>10, <1>11, <1>12 DEF Next

(* The synchronisation in SV_ExecuteClientMessage: a reply bears the number*)
(* of the packet it answers, even after packets the server sent unasked.   *)
THEOREM RepliesMatch == Spec => []ReplyMatches
<1>1. Init => ReplyInv
  BY DEF Init, ReplyInv, ReplyMatches, End, Client, Server
<1>2. TypeOK /\ TypeOK' /\ ReplyInv /\ [Next]_vars => ReplyInv'
  BY ReplyStep
<1>3. ReplyInv => ReplyMatches
  BY DEF ReplyInv
<1> QED BY <1>1, <1>2, <1>3, TypeCorrect, PTL DEF Spec
=============================================================================
