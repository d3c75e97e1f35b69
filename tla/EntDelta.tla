------------------------------ MODULE EntDelta ------------------------------
(***************************************************************************)
(* Delta compression of the entities a client sees: the rings of frames at *)
(* both ends (sv_ents.c, cl_ents.c), what the client asks to have deltas   *)
(* from (CL_SendCmd), and what it makes of them.                           *)
(*                                                                         *)
(* A snapshot is named by the number of the packet it is sent in.  A delta *)
(* applied to the snapshot it was made from gives the snapshot it was made *)
(* for; applied to any other it gives Garbage.  Any packet may be read     *)
(* next, or never, but none once a newer one was read (Netchan).           *)
(***************************************************************************)
EXTENDS Integers

CONSTANTS
  UPDATE_BACKUP,  \* frames in a ring
  Bytes,          \* 256: a byte carries a number modulo this
  MaxNumber,      \* bound on the numbers of the client's packets
  MaxLevel        \* bound on level changes

ASSUME RingIsThere == UPDATE_BACKUP \in Nat /\ UPDATE_BACKUP >= 3
ASSUME BoundsAreNat == {MaxNumber, MaxLevel} \subseteq Nat
ASSUME RingDivides == Bytes \in Nat \ {0} /\ Bytes % UPDATE_BACKUP = 0

VARIABLES
  cl_outgoing,     \* cls.netchan.outgoing_sequence
  cl_incoming,     \* cls.netchan.incoming_sequence
  validsequence,   \* cl.validsequence
  delta_sequence,  \* cl.delta_sequence
  cl_delta,        \* cl.frames[].delta_sequence
  cl_entities,     \* cl.frames[].packet_entities
  cl_level,        \* cl.servercount
  active,          \* cls.state = ca_active
  sv_outgoing,     \* cl->netchan.outgoing_sequence
  sv_incoming,     \* cl->netchan.incoming_sequence
  sv_delta,        \* cl->delta_sequence
  sv_entities,     \* cl->frames[].entities
  send_message,    \* cl->send_message
  spawned,         \* cl->state = cs_spawned
  level,           \* svs.spawncount
  up, down         \* packets under way to the server, to the client

client == <<cl_outgoing, cl_incoming, validsequence, delta_sequence, cl_delta,
            cl_entities, cl_level, active>>
server == <<sv_outgoing, sv_incoming, sv_delta, sv_entities, send_message, spawned, level>>
vars   == <<client, server, up, down>>

Ring    == 0 .. UPDATE_BACKUP - 1
At(n)   == n % UPDATE_BACKUP    \* n & UPDATE_MASK
NoDelta == -1
Garbage == -1
Nothing == [i \in Ring |-> 0]

Init ==
  /\ cl_outgoing = 1 /\ cl_incoming = 0
  /\ validsequence = 0 /\ delta_sequence = 0
  /\ cl_delta = Nothing /\ cl_entities = Nothing
  /\ cl_level = 0 /\ active = FALSE
  /\ sv_outgoing = 1 /\ sv_incoming = 0
  /\ sv_delta = NoDelta /\ sv_entities = Nothing
  /\ send_message = FALSE /\ spawned = FALSE /\ level = 0
  /\ up = {} /\ down = {}

(* The frame n packets back is about to be reused.  Variants named ...Bug  *)
(* are the definition after them with a slip in it.                        *)
TooOldBug(now, then) == now - then > UPDATE_BACKUP + 1
TooOld(now, then) == now - then >= UPDATE_BACKUP - 1

-----------------------------------------------------------------------------
(* CL_SendCmd: "request delta compression of entities".                    *)
Expired == TooOld(cl_outgoing, validsequence)
Request == IF delta_sequence # 0 /\ ~Expired /\ active THEN delta_sequence ELSE NoDelta

AsByteBug(n) == n
AsByte(n) == n % Bytes

ClientSend ==
  /\ cl_outgoing <= MaxNumber
  /\ validsequence'  = IF Expired THEN 0 ELSE validsequence
  /\ delta_sequence' = IF Expired THEN 0 ELSE delta_sequence
  /\ cl_delta'       = [cl_delta EXCEPT ![At(cl_outgoing)] = Request]
  /\ up' = up \cup {[number |-> cl_outgoing, level |-> cl_level,
                     delta |-> IF Request = NoDelta THEN NoDelta ELSE AsByte(Request)]}
  /\ cl_outgoing' = cl_outgoing + 1
  /\ UNCHANGED <<cl_incoming, cl_entities, cl_level, active, server, down>>

-----------------------------------------------------------------------------
(* SV_ExecuteClientMessage.  "no delta unless requested"; a client that    *)
(* has been through the signon of this level is in the game.               *)
Later(a, b) == IF a >= b THEN a ELSE b

Requested(p) == p.delta

ServerRead(p) ==
  /\ p.number > sv_incoming
  /\ sv_incoming'  = p.number
  /\ sv_outgoing'  = Later(p.number, sv_outgoing)
  /\ send_message' = (p.number >= sv_outgoing)
  /\ sv_delta'     = Requested(p)
  /\ spawned'      = (spawned \/ p.level = level)
  /\ up' = {q \in up : q.number > p.number}
  /\ UNCHANGED <<sv_entities, level, client, down>>

(* SV_WriteEntitiesToClient and SV_EmitPacketEntities, or a packet without *)
(* entities to a client that is not in the game.  The frame that is        *)
(* written is that of the client's packet.                                 *)
Written == [sv_entities EXCEPT ![At(sv_incoming)] = sv_outgoing]

Entities ==
  IF sv_delta = NoDelta
  THEN [full |-> TRUE, from |-> 0, base |-> 0]
  ELSE [full |-> FALSE, from |-> sv_delta, base |-> Written[At(sv_delta)]]

Packet(spawn, what) ==
  [number |-> sv_outgoing, level |-> level, spawned |-> spawn, entities |-> what]

Transmit ==
  /\ sv_entities' = IF spawned THEN Written ELSE sv_entities
  /\ down' = down \cup {Packet(spawned, Entities)}
  /\ sv_outgoing' = sv_outgoing + 1

ServerSend ==
  /\ send_message
  /\ Transmit
  /\ send_message' = FALSE
  /\ UNCHANGED <<sv_incoming, sv_delta, spawned, level, client, up>>

Choke ==
  /\ send_message
  /\ send_message' = FALSE
  /\ UNCHANGED <<sv_outgoing, sv_incoming, sv_delta, sv_entities, spawned, level, client,
                 up, down>>

(* SV_Map: SV_SendMessagesToAll sends although no packet was read, unless  *)
(* the bandwidth forbids it; then the level changes and everybody has to   *)
(* go through the signon again.                                            *)
Map ==
  /\ level < MaxLevel
  /\ Transmit \/ UNCHANGED <<sv_entities, sv_outgoing, down>>
  /\ send_message' = FALSE
  /\ spawned' = FALSE
  /\ level' = level + 1
  /\ UNCHANGED <<sv_incoming, sv_delta, client, up>>

-----------------------------------------------------------------------------
(* CL_ParsePacketEntities. *)

Heard(p) ==
  /\ p.number > cl_incoming
  /\ cl_incoming' = p.number
  /\ down' = {q \in down : q.number > p.number}

(* The frame the client asked deltas from when it sent that packet.        *)
OldPacket(p) == cl_delta[At(p.number)]

MismatchBug(p) == FALSE
Mismatch(p) == At(p.entities.from) # At(OldPacket(p))

(* FlushEntityPacket: the next packet asks for a full update.              *)
NoFrames(p) == TooOld(cl_outgoing, p.number) \/ Mismatch(p)
TooLate(p)  == TooOld(cl_outgoing, OldPacket(p))

Flush(p) ==
  /\ Heard(p)
  /\ p.level = cl_level /\ p.spawned /\ ~p.entities.full
  /\ NoFrames(p) \/ TooLate(p)
  /\ delta_sequence' = 0
  /\ validsequence' = IF NoFrames(p) THEN 0 ELSE validsequence
  /\ UNCHANGED <<cl_outgoing, cl_delta, cl_entities, cl_level, active, server, up>>

Decoded(p) ==
  IF p.entities.full \/ cl_entities[At(OldPacket(p))] = p.entities.base
  THEN p.number ELSE Garbage

Accept(p) ==
  /\ Heard(p)
  /\ p.level = cl_level /\ p.spawned
  /\ p.entities.full \/ ~(NoFrames(p) \/ TooLate(p))
  /\ validsequence'  = p.number
  /\ delta_sequence' = p.number
  /\ cl_entities'    = [cl_entities EXCEPT ![At(p.number)] = Decoded(p)]
  /\ active' = TRUE
  /\ UNCHANGED <<cl_outgoing, cl_delta, cl_level, server, up>>

(* A packet without entities, or the svc_serverdata of another level:      *)
(* CL_ClearState wipes the frames.                                         *)
Other(p) ==
  /\ Heard(p)
  /\ p.level # cl_level \/ ~p.spawned
  /\ IF p.level = cl_level
     THEN UNCHANGED <<validsequence, delta_sequence, cl_delta, cl_entities, cl_level, active>>
     ELSE /\ validsequence' = 0 /\ delta_sequence' = 0
          /\ cl_delta' = Nothing /\ cl_entities' = Nothing
          /\ cl_level' = p.level
          /\ active' = FALSE
  /\ UNCHANGED <<cl_outgoing, server, up>>

Next ==
  \/ ClientSend
  \/ \E p \in up : ServerRead(p)
  \/ ServerSend
  \/ Choke
  \/ Map
  \/ \E p \in down : Flush(p)
  \/ \E p \in down : Accept(p)
  \/ \E p \in down : Other(p)

Spec == Init /\ [][Next]_vars

-----------------------------------------------------------------------------
UpPacket   == [number : Nat, level : Nat, delta : {NoDelta} \cup 0 .. Bytes - 1]
DownPacket == [number : Nat, level : Nat, spawned : BOOLEAN,
               entities : [full : BOOLEAN, from : 0 .. Bytes - 1, base : Nat]]

TypeOK ==
  /\ {cl_outgoing, cl_incoming, validsequence, delta_sequence} \subseteq Nat
  /\ cl_delta \in [Ring -> Nat \cup {NoDelta}]
  /\ cl_entities \in [Ring -> Nat \cup {Garbage}]
  /\ {cl_level, level} \subseteq 0 .. MaxLevel
  /\ {active, send_message, spawned} \subseteq BOOLEAN
  /\ {sv_outgoing, sv_incoming} \subseteq Nat
  /\ sv_delta \in {NoDelta} \cup 0 .. Bytes - 1
  /\ sv_entities \in [Ring -> Nat]
  /\ up \subseteq UpPacket
  /\ down \subseteq DownPacket

(* What the client shows is a snapshot the server made, whole: every delta *)
(* it accepts is applied to the snapshot the server made it from, although *)
(* both name it by a byte and look it up in a ring that goes round.        *)
ShowsSnapshot ==
  validsequence # 0 => cl_entities[At(validsequence)] = validsequence

(* The client shows some of the server's snapshots, in the order they were *)
(* made, and never goes back to an earlier one.                            *)
Stream == INSTANCE EntStream WITH
            made   <- sv_outgoing - 1,
            newest <- cl_incoming,
            shown  <- IF validsequence = 0 THEN 0 ELSE cl_entities[At(validsequence)]

StreamOfSnapshots == Stream!Spec
=============================================================================
