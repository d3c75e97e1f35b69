--------------------------- MODULE EntDeltaProofs ---------------------------
(***************************************************************************)
(* Proofs about EntDelta, for every size of the rings and any bounds: what *)
(* the client shows is a snapshot the server made, and the two ends with   *)
(* their rings implement the stream of snapshots of EntStream.             *)
(***************************************************************************)
EXTENDS EntDelta, TLAPS

-----------------------------------------------------------------------------
(* Places in a ring: both ends of a connection look a number up at its     *)
(* remainder, and send it as the remainder by a multiple of the ring.      *)

(* No multiple of m is strictly between 0 and m.                           *)
LEMMA NoMultipleBetween ==
  ASSUME NEW m \in Nat, NEW k \in Int, 0 < m * k, m * k < m
  PROVE  FALSE
<1>1. CASE k <= 0
  BY <1>1, m * k <= 0
<1>2. CASE k >= 1
  BY <1>2, m * k >= m
<1> QED BY <1>1, <1>2

(* Division with remainder.                                                *)
LEMMA Division ==
  ASSUME NEW size \in Nat \ {0}, NEW n \in Int
  PROVE  /\ n % size \in 0 .. size - 1 /\ n \div size \in Int
         /\ n = size * (n \div size) + (n % size)
  OBVIOUS

(* Numbers less than the size of the ring apart have places of their own.  *)
LEMMA PlacesApart ==
  ASSUME NEW size \in Nat \ {0}, NEW a \in Int, NEW b \in Int, a < b, b < a + size
  PROVE  a % size # b % size
<1> DEFINE d == b \div size
           c == a \div size
<1> SUFFICES ASSUME a % size = b % size PROVE FALSE
  OBVIOUS
<1>1. /\ a = size * c + (a % size) /\ b = size * d + (b % size)
      /\ c \in Int /\ d \in Int /\ a % size \in Int
  BY Division
<1> HIDE DEF c, d
<1>2. b - a = size * (d - c) /\ d - c \in Int
  BY <1>1
<1> QED BY <1>2, NoMultipleBetween

(* There is one remainder.                                                 *)
LEMMA Remainder ==
  ASSUME NEW size \in Nat \ {0}, NEW q \in Int, NEW m \in 0 .. size - 1
  PROVE  (size * q + m) % size = m
<1> DEFINE n == size * q + m
           d == n \div size
           e == n % size
<1>1. n \in Int
  OBVIOUS
<1>2. n = size * d + e /\ d \in Int /\ e \in 0 .. size - 1
  BY <1>1, Division
<1>3. n = size * q + m
  OBVIOUS
<1> HIDE DEF n, d, e
<1>4. e - m = size * (q - d) /\ m - e = size * (d - q)
  BY <1>1, <1>2, <1>3
<1>5. q - d \in Int /\ d - q \in Int /\ size \in Nat
  BY <1>2
<1>6. ~(e > m)
  <2>1. ASSUME e > m PROVE FALSE
    <3>1. 0 < size * (q - d) /\ size * (q - d) < size
      BY <2>1, <1>2, <1>4
    <3> QED BY <3>1, <1>5, NoMultipleBetween
  <2> QED BY <2>1
<1>7. ~(m > e)
  <2>1. ASSUME m > e PROVE FALSE
    <3>1. 0 < size * (d - q) /\ size * (d - q) < size
      BY <2>1, <1>2, <1>4
    <3> QED BY <3>1, <1>5, NoMultipleBetween
  <2> QED BY <2>1
<1>8. e = m
  BY <1>2, <1>6, <1>7
<1> QED BY <1>8 DEF n, e

(* A number and its byte have the same place, if the ring divides a byte.  *)
LEMMA SamePlace ==
  ASSUME NEW size \in Nat \ {0}, NEW bytes \in Nat \ {0}, bytes % size = 0, NEW r \in Int
  PROVE  (r % bytes) % size = r % size
<1> DEFINE k == bytes \div size
           q == r \div bytes
           b == r % bytes
           c == b \div size
           m == b % size
<1>1. bytes = size * k /\ k \in Int
  BY Division
<1>2. r = bytes * q + b /\ q \in Int /\ b \in Int
  BY Division
<1>3. b = size * c + m /\ c \in Int /\ m \in 0 .. size - 1
  BY <1>2, Division
<1>4. b = r % bytes /\ m = b % size
  OBVIOUS
<1> HIDE DEF k, q, b, c, m
<1>5. bytes * q = size * (k * q)
  BY <1>1, <1>2
<1>6. k * q \in Int
  BY <1>1, <1>2
<1>7. r = size * (k * q + c) + m /\ k * q + c \in Int
  BY <1>2, <1>3, <1>5, <1>6
<1>8. r % size = m
  BY <1>3, <1>7, Remainder
<1> QED BY <1>4, <1>8

-----------------------------------------------------------------------------
(* The invariant.  A snapshot r the client has shown is still in the ring  *)
(* of the client, or of the server, unless it is too old to be asked for.  *)
Kept(r) ==
  /\ r <= cl_incoming
  /\ cl_outgoing - r < UPDATE_BACKUP - 1 => cl_entities[At(r)] = r

Held(r) ==
  /\ r <= sv_incoming
  /\ sv_incoming - r < UPDATE_BACKUP => sv_entities[At(r)] = r

(* What packet n of the client may ask for deltas from.                    *)
From(d, n, r) ==
  d = r % Bytes /\ r < n /\ n - r < UPDATE_BACKUP - 1 /\ Kept(r) /\ Held(r)

Asks(d, n) == d = NoDelta \/ \E r \in Nat \ {0} : From(d, n, r)

Order ==
  /\ \A i \in Ring : cl_delta[i] <= cl_incoming
  /\ sv_incoming < cl_outgoing /\ sv_incoming <= sv_outgoing
  /\ send_message => sv_outgoing = sv_incoming
  /\ cl_incoming < sv_outgoing
  /\ validsequence <= cl_incoming
  /\ delta_sequence = 0 \/ delta_sequence = validsequence
  /\ \A p \in up : sv_incoming < p.number /\ p.number < cl_outgoing
  /\ \A p \in down : cl_incoming < p.number /\ p.number < sv_outgoing

LevelsOf(packets) ==
  /\ \A p \in packets : /\ cl_level <= p.level /\ p.level <= level
                        /\ p.spawned => p.level = cl_level
  /\ \A p, q \in packets : p.number < q.number => p.level <= q.level

(* Levels only go up, and whoever is in the game has the client's level.   *)
Levels ==
  /\ cl_level <= level
  /\ \A p \in up : p.level <= cl_level
  /\ \A p, q \in up : p.number < q.number => p.level <= q.level
  /\ spawned => cl_level = level /\ \A p \in up : p.level = level
  /\ LevelsOf(down)

(* The server's numbers have not run ahead of the client's.                *)
Close == sv_outgoing <= sv_incoming + 1

Requests ==
  \A p \in up : p.level = level =>
    Asks(p.delta, p.number) /\ (p.delta # NoDelta => Close)

Server == spawned => Asks(sv_delta, sv_incoming) /\ (sv_delta # NoDelta => Close)

Client ==
  cl_level = level /\ validsequence # 0 =>
    Held(validsequence) /\ validsequence < cl_outgoing /\ Close

(* A delta was made from a snapshot the client has; and only the last      *)
(* snapshot of a level may be numbered ahead of the client.                *)
Delta(p, r) ==
  /\ r < p.number /\ p.number - r < UPDATE_BACKUP /\ Kept(r)
  /\ p.entities.from = r % Bytes /\ p.entities.base = r

Deltas ==
  \A p \in down : p.spawned =>
    /\ p.level = level => Held(p.number) /\ Close
    /\ \A q \in down : q.spawned /\ q.level = p.level /\ p.number < q.number =>
                         p.number < cl_outgoing
    /\ ~p.entities.full => /\ p.number <= cl_outgoing
                           /\ \E r \in Nat \ {0} : Delta(p, r)

-----------------------------------------------------------------------------
(* Types. *)
LEMMA Unpacked ==
  TypeOK => /\ cl_outgoing \in Nat /\ cl_incoming \in Nat
            /\ validsequence \in Nat /\ delta_sequence \in Nat
            /\ cl_level \in 0 .. MaxLevel /\ level \in 0 .. MaxLevel
            /\ cl_level \in Nat /\ level \in Nat
            /\ active \in BOOLEAN /\ send_message \in BOOLEAN /\ spawned \in BOOLEAN
            /\ sv_outgoing \in Nat /\ sv_incoming \in Nat
  BY BoundsAreNat DEF TypeOK

LEMMA Constants ==
  /\ UPDATE_BACKUP \in Nat \ {0} /\ UPDATE_BACKUP >= 3
  /\ Bytes \in Nat \ {0} /\ Bytes % UPDATE_BACKUP = 0
  /\ NoDelta = -1 /\ NoDelta \notin Nat
  BY RingIsThere, RingDivides DEF NoDelta

LEMMA Place == \A n \in Int : At(n) \in Ring
  BY Constants, Division DEF At, Ring

LEMMA BytePlace ==
  \A r \in Int : r % Bytes \in 0 .. Bytes - 1 /\ r % Bytes \in Nat /\ At(r % Bytes) = At(r)
<1> SUFFICES ASSUME NEW r \in Int
             PROVE  r % Bytes \in 0 .. Bytes - 1 /\ r % Bytes \in Nat /\ At(r % Bytes) = At(r)
  OBVIOUS
<1>1. r % Bytes \in 0 .. Bytes - 1
  BY Constants, Division
<1>2. (r % Bytes) % UPDATE_BACKUP = r % UPDATE_BACKUP
  BY Constants, SamePlace
<1> QED BY <1>1, <1>2, Constants DEF At

LEMMA UpTyped ==
  TypeOK => \A p \in up : /\ p.number \in Nat /\ p.level \in Nat
                          /\ p.delta \in {NoDelta} \cup 0 .. Bytes - 1
  BY DEF TypeOK, UpPacket

LEMMA DownTyped ==
  TypeOK => \A p \in down : /\ p.number \in Nat /\ p.level \in Nat /\ p.spawned \in BOOLEAN
                            /\ p.entities \in [full : BOOLEAN, from : 0 .. Bytes - 1, base : Nat]
  BY DEF TypeOK, DownPacket

LEMMA ClientSendTyped ==
  ASSUME TypeOK, ClientSend
  PROVE  TypeOK'
<1>1. Request \in Nat \cup {NoDelta}
  BY Unpacked DEF Request
<1>2. (IF Request = NoDelta THEN NoDelta ELSE AsByte(Request)) \in {NoDelta} \cup 0 .. Bytes - 1
  BY <1>1, BytePlace DEF AsByte
<1>3. up' \subseteq UpPacket
  BY <1>2, Unpacked DEF ClientSend, TypeOK, UpPacket
<1>4. cl_delta' \in [Ring -> Nat \cup {NoDelta}]
  BY <1>1 DEF ClientSend, TypeOK
<1>5. validsequence' \in Nat /\ delta_sequence' \in Nat /\ cl_outgoing' \in Nat
  BY Unpacked DEF ClientSend
<1> QED BY <1>3, <1>4, <1>5, Unpacked DEF ClientSend, TypeOK, server

LEMMA ServerReadTyped ==
  ASSUME TypeOK, NEW p \in up, ServerRead(p)
  PROVE  TypeOK'
<1>1. /\ p.number \in Nat /\ p.delta \in {NoDelta} \cup 0 .. Bytes - 1
  BY UpTyped
<1>2. sv_incoming' \in Nat /\ sv_outgoing' \in Nat
  BY <1>1, Unpacked DEF ServerRead, Later
<1>3. send_message' \in BOOLEAN /\ spawned' \in BOOLEAN
  BY DEF ServerRead
<1>4. sv_delta' \in {NoDelta} \cup 0 .. Bytes - 1 /\ up' \subseteq UpPacket
  BY <1>1 DEF ServerRead, Requested, TypeOK
<1> QED BY <1>2, <1>3, <1>4, Unpacked DEF ServerRead, TypeOK, client

LEMMA TransmitTyped ==
  ASSUME TypeOK, Transmit
  PROVE  /\ sv_entities' \in [Ring -> Nat] /\ down' \subseteq DownPacket
         /\ sv_outgoing' \in Nat
<1>1. Written \in [Ring -> Nat]
  BY Unpacked, Place DEF Written, TypeOK
<1>2. Entities \in [full : BOOLEAN, from : 0 .. Bytes - 1, base : Nat]
  <2>1. CASE sv_delta = NoDelta
    BY <2>1, Constants DEF Entities
  <2>2. CASE sv_delta # NoDelta
    <3>1. sv_delta \in 0 .. Bytes - 1 /\ sv_delta \in Int
      BY <2>2 DEF TypeOK
    <3>2. Written[At(sv_delta)] \in Nat
      BY <3>1, <1>1, Place
    <3> QED BY <3>1, <3>2, <2>2 DEF Entities
  <2> QED BY <2>1, <2>2
<1>3. Packet(spawned, Entities) \in DownPacket
  BY <1>2, Unpacked DEF Packet, DownPacket
<1> QED BY <1>1, <1>3, Unpacked DEF Transmit, TypeOK

LEMMA MapTyped ==
  ASSUME TypeOK, Map
  PROVE  TypeOK'
<1>1. /\ sv_entities' \in [Ring -> Nat] /\ down' \subseteq DownPacket
      /\ sv_outgoing' \in Nat
  BY TransmitTyped, Unpacked DEF Map, TypeOK
<1>2. level' \in 0 .. MaxLevel
  BY Unpacked, BoundsAreNat DEF Map
<1>3. /\ {cl_level', level'} \subseteq 0 .. MaxLevel
      /\ {active', send_message', spawned'} \subseteq BOOLEAN
      /\ {cl_outgoing', cl_incoming', validsequence', delta_sequence'} \subseteq Nat
      /\ {sv_outgoing', sv_incoming'} \subseteq Nat
  BY <1>1, <1>2, Unpacked DEF Map, client
<1>4. /\ cl_delta' = cl_delta /\ cl_entities' = cl_entities /\ sv_delta' = sv_delta /\ up' = up
  BY DEF Map, client
<1> QED BY <1>1, <1>3, <1>4 DEF TypeOK

LEMMA HeardTyped ==
  ASSUME TypeOK, NEW p \in down, Heard(p)
  PROVE  cl_incoming' \in Nat /\ down' \subseteq DownPacket
<1>1. p.number \in Nat
  BY DownTyped
<1>2. cl_incoming' = p.number /\ down' \subseteq down
  BY DEF Heard
<1> QED BY <1>1, <1>2 DEF TypeOK

LEMMA AcceptTyped ==
  ASSUME TypeOK, NEW p \in down, Accept(p)
  PROVE  TypeOK'
<1>1. p.number \in Nat
  BY DownTyped
<1>2. Decoded(p) \in Nat \cup {Garbage}
  BY <1>1 DEF Decoded
<1>3. cl_entities' \in [Ring -> Nat \cup {Garbage}]
  BY <1>2 DEF Accept, TypeOK
<1>4. cl_incoming' \in Nat /\ down' \subseteq DownPacket
  BY HeardTyped DEF Accept
<1> QED BY <1>1, <1>3, <1>4, Unpacked DEF Accept, TypeOK, server

LEMMA OtherTyped ==
  ASSUME TypeOK, Levels, NEW p \in down, Other(p)
  PROVE  TypeOK'
<1>1. cl_incoming' \in Nat /\ down' \subseteq DownPacket
  BY HeardTyped DEF Other
<1>2. p.level \in 0 .. MaxLevel
  <2>1. p.level <= level
    BY DEF Levels, LevelsOf
  <2>2. p.level \in Nat
    BY DownTyped
  <2> QED BY <2>1, <2>2, Unpacked, BoundsAreNat
<1>3. Nothing \in [Ring -> Nat \cup {NoDelta}] /\ Nothing \in [Ring -> Nat \cup {Garbage}]
  BY DEF Nothing
<1>4. /\ cl_delta' \in [Ring -> Nat \cup {NoDelta}] /\ cl_entities' \in [Ring -> Nat \cup {Garbage}]
      /\ validsequence' \in Nat /\ delta_sequence' \in Nat
      /\ cl_level' \in 0 .. MaxLevel /\ active' \in BOOLEAN
  <2>1. CASE p.level = cl_level
    BY <2>1, Unpacked DEF Other, TypeOK
  <2>2. CASE p.level # cl_level
    <3>1. /\ validsequence' = 0 /\ delta_sequence' = 0 /\ cl_level' = p.level
          /\ cl_delta' = Nothing /\ cl_entities' = Nothing /\ active' = FALSE
      BY <2>2 DEF Other
    <3> QED BY <3>1, <1>2, <1>3
  <2> QED BY <2>1, <2>2
<1> QED BY <1>1, <1>4, Unpacked DEF Other, TypeOK, server

LEMMA NextTyped ==
  ASSUME TypeOK, Levels, [Next]_vars
  PROVE  TypeOK'
<1>1. CASE ServerSend
  BY <1>1, TransmitTyped, Unpacked DEF ServerSend, TypeOK, client
<1>2. CASE Choke
  BY <1>2, Unpacked DEF Choke, TypeOK, client
<1>3. ASSUME NEW p \in down, Flush(p) PROVE TypeOK'
  <2>1. cl_incoming' \in Nat /\ down' \subseteq DownPacket
    BY <1>3, HeardTyped DEF Flush
  <2>2. validsequence' \in Nat /\ delta_sequence' \in Nat
    BY <1>3, Unpacked DEF Flush
  <2> QED BY <1>3, <2>1, <2>2, Unpacked DEF Flush, TypeOK, server
<1>4. CASE UNCHANGED vars
  BY <1>4, Unpacked DEF vars, client, server, TypeOK
<1> QED BY <1>1, <1>2, <1>3, <1>4, ClientSendTyped, ServerReadTyped, MapTyped, AcceptTyped,
           OtherTyped DEF Next

-----------------------------------------------------------------------------
(* Order. *)
LEMMA Numbers ==
  TypeOK => \A i \in Ring : cl_delta[i] \in Int
  BY Constants DEF TypeOK

LEMMA HeardOrder ==
  ASSUME TypeOK, Order, NEW p \in down, Heard(p), UNCHANGED <<cl_outgoing, server, up>>,
         cl_delta' = cl_delta \/ cl_delta' = Nothing,
         validsequence' \in {0, validsequence, p.number},
         delta_sequence' \in {0, delta_sequence, p.number},
         delta_sequence' = 0 \/ delta_sequence' = validsequence'
  PROVE  Order'
<1>1. /\ p.number \in Nat /\ cl_incoming < p.number /\ p.number < sv_outgoing
      /\ cl_incoming' = p.number /\ down' = {q \in down : q.number > p.number}
  BY DownTyped DEF Heard, Order
<1>2. ASSUME NEW i \in Ring PROVE cl_delta'[i] <= cl_incoming'
  <2>1. CASE cl_delta' = Nothing
    BY <2>1, <1>1 DEF Nothing
  <2>2. CASE cl_delta' = cl_delta
    <3>1. cl_delta[i] <= cl_incoming /\ cl_delta[i] \in Int
      BY Numbers DEF Order
    <3> QED BY <3>1, <2>2, <1>1, Unpacked
  <2> QED BY <2>1, <2>2
<1>3. validsequence' <= cl_incoming'
  BY <1>1, Unpacked DEF Order
<1>4. \A q \in down' : cl_incoming' < q.number /\ q.number < sv_outgoing'
  BY <1>1, DownTyped DEF Order, server
<1>5. \A q \in up' : sv_incoming' < q.number /\ q.number < cl_outgoing'
  BY DEF Order, server
<1>6. /\ sv_incoming' < cl_outgoing' /\ sv_incoming' <= sv_outgoing'
      /\ send_message' => sv_outgoing' = sv_incoming'
      /\ cl_incoming' < sv_outgoing'
  BY <1>1 DEF Order, server
<1> QED BY <1>2, <1>3, <1>4, <1>5, <1>6 DEF Order

LEMMA ClientSendOrder ==
  ASSUME TypeOK, Order, ClientSend
  PROVE  Order'
<1>1. Request \in Int /\ Request <= cl_incoming
  BY Unpacked, Constants DEF Request, Order
<1>2. ASSUME NEW i \in Ring PROVE cl_delta'[i] <= cl_incoming'
  <2>1. cl_delta'[i] = Request \/ cl_delta'[i] = cl_delta[i]
    BY DEF ClientSend, TypeOK
  <2> QED BY <1>1, <2>1 DEF ClientSend, Order
<1>3. \A q \in up' : sv_incoming' < q.number /\ q.number < cl_outgoing'
  <2>1. ASSUME NEW q \in up' PROVE q \in up \/ q.number = cl_outgoing
    BY <2>1 DEF ClientSend
  <2>2. cl_outgoing' = cl_outgoing + 1 /\ sv_incoming' = sv_incoming
    BY DEF ClientSend, server
  <2> QED BY <2>1, <2>2, UpTyped, Unpacked DEF Order
<1>4. /\ sv_incoming' < cl_outgoing' /\ sv_incoming' <= sv_outgoing'
      /\ send_message' => sv_outgoing' = sv_incoming'
      /\ cl_incoming' < sv_outgoing'
      /\ \A p \in down' : cl_incoming' < p.number /\ p.number < sv_outgoing'
  BY Unpacked DEF ClientSend, Order, server
<1>5. /\ validsequence' <= cl_incoming'
      /\ delta_sequence' = 0 \/ delta_sequence' = validsequence'
  BY Unpacked DEF ClientSend, Order
<1> QED BY <1>2, <1>3, <1>4, <1>5 DEF Order

LEMMA ServerReadOrder ==
  ASSUME TypeOK, Order, NEW p \in up, ServerRead(p)
  PROVE  Order'
<1>1. /\ p.number \in Nat /\ sv_incoming < p.number /\ p.number < cl_outgoing
      /\ sv_incoming' = p.number /\ sv_outgoing' = Later(p.number, sv_outgoing)
      /\ send_message' <=> p.number >= sv_outgoing
      /\ up' = {q \in up : q.number > p.number}
      /\ UNCHANGED <<client, down>>
  BY UpTyped DEF ServerRead, Order
<1>2. /\ sv_incoming' < cl_outgoing' /\ sv_incoming' <= sv_outgoing'
      /\ send_message' => sv_outgoing' = sv_incoming'
      /\ sv_outgoing <= sv_outgoing' /\ sv_outgoing' \in Nat
  BY <1>1, Unpacked DEF Later, client
<1>3. \A q \in up' : sv_incoming' < q.number /\ q.number < cl_outgoing'
  BY <1>1, UpTyped DEF Order, client
<1>4. /\ cl_incoming' < sv_outgoing'
      /\ \A q \in down' : cl_incoming' < q.number /\ q.number < sv_outgoing'
  BY <1>1, <1>2, DownTyped, Unpacked DEF Order, client
<1> QED BY <1>1, <1>2, <1>3, <1>4 DEF Order, client

LEMMA ServerOrder ==
  ASSUME TypeOK, Order, UNCHANGED <<client, sv_incoming, up>>,
         \/ sv_outgoing' = sv_outgoing + 1 /\ down' = down \cup {Packet(spawned, Entities)}
         \/ sv_outgoing' = sv_outgoing /\ down' = down,
         ~send_message'
  PROVE  Order'
<1>1. /\ sv_incoming' <= sv_outgoing' /\ cl_incoming' < sv_outgoing'
      /\ sv_outgoing <= sv_outgoing'
  BY Unpacked DEF Order, client
<1>2. ASSUME NEW q \in down' PROVE cl_incoming' < q.number /\ q.number < sv_outgoing'
  <2>1. CASE q \in down
    <3>1. cl_incoming < q.number /\ q.number < sv_outgoing /\ q.number \in Nat
      BY <2>1, DownTyped DEF Order
    <3> QED BY <3>1, Unpacked DEF client
  <2>2. CASE q \notin down
    <3>1. q.number = sv_outgoing /\ sv_outgoing' = sv_outgoing + 1
      BY <1>2, <2>2 DEF Packet
    <3> QED BY <3>1, Unpacked DEF Order, client
  <2> QED BY <2>1, <2>2
<1> QED BY <1>1, <1>2 DEF Order, client

LEMMA NextOrder ==
  ASSUME TypeOK, Order, [Next]_vars
  PROVE  Order'
<1>1. CASE ServerSend
  <2>1. UNCHANGED <<client, sv_incoming, up>> /\ ~send_message'
    BY <1>1 DEF ServerSend
  <2>2. sv_outgoing' = sv_outgoing + 1 /\ down' = down \cup {Packet(spawned, Entities)}
    BY <1>1 DEF ServerSend, Transmit
  <2> QED BY <2>1, <2>2, ServerOrder
<1>2. CASE Map
  <2>1. UNCHANGED <<client, sv_incoming, up>> /\ ~send_message'
    BY <1>2 DEF Map
  <2>2. \/ sv_outgoing' = sv_outgoing + 1 /\ down' = down \cup {Packet(spawned, Entities)}
        \/ sv_outgoing' = sv_outgoing /\ down' = down
    BY <1>2 DEF Map, Transmit
  <2> QED BY <2>1, <2>2, ServerOrder
<1>3. CASE Choke
  <2>1. UNCHANGED <<client, sv_incoming, sv_outgoing, up, down>> /\ ~send_message'
    BY <1>3 DEF Choke
  <2> QED BY <2>1, ServerOrder
<1>4. ASSUME NEW p \in down, Flush(p) PROVE Order'
  <2>1. /\ Heard(p) /\ UNCHANGED <<cl_outgoing, server, up>> /\ cl_delta' = cl_delta
        /\ delta_sequence' = 0 /\ validsequence' \in {0, validsequence}
    BY <1>4 DEF Flush
  <2> QED BY <1>4, <2>1, HeardOrder
<1>5. ASSUME NEW p \in down, Accept(p) PROVE Order'
  <2>1. /\ Heard(p) /\ UNCHANGED <<cl_outgoing, server, up>> /\ cl_delta' = cl_delta
        /\ delta_sequence' = p.number /\ validsequence' = p.number
    BY <1>5 DEF Accept
  <2> QED BY <1>5, <2>1, HeardOrder
<1>6. ASSUME NEW p \in down, Other(p) PROVE Order'
  <2>1. Heard(p) /\ UNCHANGED <<cl_outgoing, server, up>>
    BY <1>6 DEF Other
  <2>2. CASE p.level = cl_level
    <3>1. UNCHANGED <<validsequence, delta_sequence, cl_delta>>
      BY <1>6, <2>2 DEF Other
    <3>2. delta_sequence' = 0 \/ delta_sequence' = validsequence'
      BY <3>1 DEF Order
    <3> QED BY <1>6, <2>1, <3>1, <3>2, HeardOrder
  <2>3. CASE p.level # cl_level
    <3>1. validsequence' = 0 /\ delta_sequence' = 0 /\ cl_delta' = Nothing
      BY <1>6, <2>3 DEF Other
    <3> QED BY <1>6, <2>1, <3>1, HeardOrder
  <2> QED BY <2>2, <2>3
<1>7. CASE UNCHANGED vars
  BY <1>7 DEF vars, client, server, Order
<1> QED BY <1>1, <1>2, <1>3, <1>4, <1>5, <1>6, <1>7, ClientSendOrder, ServerReadOrder DEF Next

-----------------------------------------------------------------------------
(* Levels. *)
LEMMA ClientSendLevels ==
  ASSUME TypeOK, Order, Levels, ClientSend
  PROVE  Levels'
<1>1. ASSUME NEW q \in up'
      PROVE  q \in up \/ (q.number = cl_outgoing /\ q.level = cl_level)
  BY <1>1 DEF ClientSend
<1>2. UNCHANGED <<cl_level, level, spawned, down>>
  BY DEF ClientSend, server
<1>3. \A q \in up : q.number < cl_outgoing /\ q.number \in Nat /\ q.level <= cl_level
  BY UpTyped DEF Order, Levels, LevelsOf
<1>4. \A q \in up' : q.level <= cl_level
  BY <1>1, <1>3, Unpacked
<1>5. ASSUME NEW p \in up', NEW q \in up', p.number < q.number PROVE p.level <= q.level
  <2>1. CASE q \in up
    <3>1. p \in up
      BY <2>1, <1>1, <1>3, <1>5, Unpacked
    <3> QED BY <2>1, <3>1, <1>5 DEF Levels, LevelsOf
  <2>2. CASE q.level = cl_level
    BY <2>2, <1>4
  <2> QED BY <2>1, <2>2, <1>1
<1>6. spawned => \A q \in up' : q.level = level
  BY <1>1 DEF Levels, LevelsOf
<1> QED BY <1>2, <1>4, <1>5, <1>6 DEF Levels, LevelsOf

LEMMA ServerReadLevels ==
  ASSUME TypeOK, Order, Levels, NEW p \in up, ServerRead(p)
  PROVE  Levels'
<1>1. /\ spawned' <=> spawned \/ p.level = level
      /\ up' = {q \in up : q.number > p.number}
      /\ UNCHANGED <<cl_level, level, down>>
  BY DEF ServerRead, client
<1>2. spawned' => cl_level = level /\ \A q \in up' : q.level = level
  <2>1. CASE spawned
    BY <2>1, <1>1 DEF Levels, LevelsOf
  <2>2. CASE p.level = level
    <3>1. cl_level = level
      BY <2>2, Unpacked, UpTyped DEF Levels, LevelsOf
    <3>2. ASSUME NEW q \in up' PROVE q.level = level
      <4>1. p.level <= q.level /\ q.level <= cl_level /\ q.level \in Nat
        BY <3>2, <1>1, UpTyped DEF Levels, LevelsOf
      <4> QED BY <4>1, <3>1, <2>2, Unpacked
    <3> QED BY <3>1, <3>2
  <2> QED BY <2>1, <2>2, <1>1
<1> QED BY <1>1, <1>2 DEF Levels, LevelsOf

LEMMA TransmitLevels ==
  ASSUME TypeOK, Order, Levels,
         \/ down' = down \/ down' = down \cup {Packet(spawned, Entities)}
  PROVE  LevelsOf(down')
<1>1. ASSUME NEW q \in down'
      PROVE  q \in down \/ (q.number = sv_outgoing /\ q.level = level /\ q.spawned = spawned)
  BY <1>1 DEF Packet
<1>2. ASSUME NEW p \in down'
      PROVE  cl_level <= p.level /\ p.level <= level /\ (p.spawned => p.level = cl_level)
  BY <1>1, <1>2, Unpacked DEF Levels, LevelsOf
<1>3. ASSUME NEW p \in down', NEW q \in down', p.number < q.number PROVE p.level <= q.level
  <2>1. CASE q \in down
    <3>1. q.number < sv_outgoing /\ q.number \in Nat
      BY <2>1, DownTyped DEF Order
    <3>2. p \in down
      BY <3>1, <1>1, <1>3, Unpacked
    <3> QED BY <2>1, <3>2, <1>3 DEF Levels, LevelsOf
  <2>2. CASE q.level = level
    BY <2>2, <1>2
  <2> QED BY <2>1, <2>2, <1>1
<1> QED BY <1>2, <1>3 DEF LevelsOf

LEMMA HeardLevels ==
  ASSUME TypeOK, Levels, NEW p \in down, Heard(p), UNCHANGED <<server, up>>,
         cl_level' = p.level
  PROVE  Levels'
<1>1. /\ cl_level <= p.level /\ p.level <= level /\ p.level \in Nat
      /\ down' = {q \in down : q.number > p.number} /\ p.number \in Nat
  BY DownTyped DEF Heard, Levels, LevelsOf
<1>2. ASSUME NEW q \in down' PROVE cl_level' <= q.level /\ q.level <= level
  BY <1>1, <1>2, DownTyped DEF Levels, LevelsOf
<1>3. ASSUME NEW q \in down', q.spawned PROVE q.level = cl_level'
  <2>1. q.level = cl_level /\ p.level <= q.level /\ q.level \in Nat
    BY <1>1, <1>3, DownTyped DEF Levels, LevelsOf
  <2> QED BY <2>1, <1>1, Unpacked
<1>4. ASSUME NEW q \in up PROVE q.level <= cl_level'
  BY <1>1, <1>4, UpTyped, Unpacked DEF Levels, LevelsOf
<1>5. ASSUME spawned PROVE cl_level' = level
  <2>1. cl_level = level
    BY <1>5 DEF Levels, LevelsOf
  <2> QED BY <2>1, <1>1, Unpacked
<1>6. \A q, s \in down' : q.number < s.number => q.level <= s.level
  BY <1>1 DEF Levels, LevelsOf
<1> QED BY <1>1, <1>2, <1>3, <1>4, <1>5, <1>6 DEF Levels, LevelsOf, server

LEMMA NextLevels ==
  ASSUME TypeOK, Order, Levels, [Next]_vars
  PROVE  Levels'
<1>1. CASE ServerSend
  <2>1. down' = down \cup {Packet(spawned, Entities)} /\ UNCHANGED <<cl_level, level, up, spawned>>
    BY <1>1 DEF ServerSend, Transmit, client
  <2>2. LevelsOf(down')
    BY <2>1, TransmitLevels
  <2> QED BY <2>1, <2>2 DEF Levels, LevelsOf
<1>2. CASE Map
  <2>1. /\ down' = down \/ down' = down \cup {Packet(spawned, Entities)}
        /\ UNCHANGED <<cl_level, up>> /\ level' = level + 1 /\ ~spawned'
    BY <1>2 DEF Map, Transmit, client
  <2>2. down' \subseteq DownPacket
    BY <1>2, TransmitTyped DEF Map, TypeOK
  <2>6. LevelsOf(down')
    BY <2>1, TransmitLevels
  <2>3. ASSUME NEW p \in down'
        PROVE  /\ cl_level' <= p.level /\ p.level <= level'
               /\ p.spawned => p.level = cl_level'
    <3>1. p.level \in Nat
      BY <2>2, <2>3 DEF DownPacket
    <3> QED BY <3>1, <2>1, <2>3, <2>6, Unpacked DEF LevelsOf
  <2>4. \A p, q \in down' : p.number < q.number => p.level <= q.level
    BY <2>6 DEF LevelsOf
  <2>5. cl_level' <= level'
    BY <2>1, Unpacked DEF Levels, LevelsOf
  <2> QED BY <2>1, <2>3, <2>4, <2>5 DEF Levels, LevelsOf
<1>3. CASE Choke
  BY <1>3 DEF Choke, Levels, LevelsOf, client
<1>4. ASSUME NEW p \in down, Flush(p) PROVE Levels'
  BY <1>4, HeardLevels DEF Flush
<1>5. ASSUME NEW p \in down, Accept(p) PROVE Levels'
  BY <1>5, HeardLevels DEF Accept
<1>6. ASSUME NEW p \in down, Other(p) PROVE Levels'
  BY <1>6, HeardLevels DEF Other
<1>7. CASE UNCHANGED vars
  BY <1>7 DEF vars, client, server, Levels, LevelsOf
<1> QED BY <1>1, <1>2, <1>3, <1>4, <1>5, <1>6, <1>7, ClientSendLevels, ServerReadLevels DEF Next

-----------------------------------------------------------------------------
(* Snapshots that are kept and held. *)
LEMMA KeptOn ==
  ASSUME TypeOK, TypeOK', cl_incoming <= cl_incoming', cl_outgoing <= cl_outgoing',
         UNCHANGED cl_entities, NEW r \in Nat, Kept(r)
  PROVE  Kept(r)'
<1>1. /\ cl_incoming \in Nat /\ cl_incoming' \in Nat
      /\ cl_outgoing \in Nat /\ cl_outgoing' \in Nat
  BY Unpacked DEF TypeOK
<1>2. r <= cl_incoming' /\ r <= cl_incoming
  BY <1>1 DEF Kept
<1>3. ASSUME cl_outgoing' - r < UPDATE_BACKUP - 1 PROVE cl_outgoing - r < UPDATE_BACKUP - 1
  <2>1. PICK n \in Nat : n = cl_outgoing'
    BY <1>1
  <2>2. cl_outgoing <= n
    BY <2>1
  <2>3. n - r < UPDATE_BACKUP - 1
    BY <2>1, <1>3, Zenon
  <2> QED BY <1>1, <2>2, <2>3, RingIsThere
<1> QED BY <1>2, <1>3 DEF Kept

LEMMA HeldOn ==
  ASSUME TypeOK, TypeOK', sv_incoming <= sv_incoming',
         UNCHANGED sv_entities, NEW r \in Nat, Held(r)
  PROVE  Held(r)'
<1>1. sv_incoming \in Nat /\ sv_incoming' \in Nat
  BY Unpacked DEF TypeOK
<1>2. r <= sv_incoming' /\ r <= sv_incoming
  BY <1>1 DEF Held
<1>3. ASSUME sv_incoming' - r < UPDATE_BACKUP PROVE sv_incoming - r < UPDATE_BACKUP
  <2>1. PICK n \in Nat : n = sv_incoming'
    BY <1>1
  <2>2. sv_incoming <= n
    BY <2>1
  <2>3. n - r < UPDATE_BACKUP
    BY <2>1, <1>3, Zenon
  <2> QED BY <1>1, <2>2, <2>3, RingIsThere
<1> QED BY <1>2, <1>3 DEF Held

LEMMA AsksOn ==
  ASSUME NEW d, NEW n, Asks(d, n),
         \A r \in Nat \ {0} : Kept(r) /\ Held(r) => Kept(r)' /\ Held(r)'
  PROVE  Asks(d, n)'
<1>1. CASE d = NoDelta
  BY <1>1 DEF Asks
<1>2. CASE d # NoDelta
  <2>1. PICK r \in Nat \ {0} : From(d, n, r)
    BY <1>2 DEF Asks
  <2>2. From(d, n, r)'
    BY <2>1 DEF From
  <2> QED BY <2>2 DEF Asks
<1> QED BY <1>1, <1>2

(* The snapshot that is sent takes the place of none that is held.         *)
LEMMA HeldSent ==
  ASSUME TypeOK, sv_outgoing = sv_incoming, UNCHANGED sv_incoming,
         sv_entities' = Written \/ UNCHANGED sv_entities, NEW r \in Nat, Held(r)
  PROVE  Held(r)'
<1>1. CASE UNCHANGED sv_entities
  BY <1>1 DEF Held
<1>2. CASE sv_entities' = Written
  <2>1. /\ sv_incoming \in Nat /\ r <= sv_incoming
        /\ At(r) \in Ring /\ At(sv_incoming) \in Ring
    BY Unpacked, Place DEF Held
  <2>2. CASE r = sv_incoming
    <3>1. sv_entities'[At(r)] = r
      BY <1>2, <2>1, <2>2 DEF Written, TypeOK
    <3> QED BY <2>1, <3>1 DEF Held
  <2>3. CASE r < sv_incoming /\ sv_incoming - r < UPDATE_BACKUP
    <3>1. At(r) # At(sv_incoming)
      <4>1. r \in Int /\ sv_incoming \in Int /\ sv_incoming < r + UPDATE_BACKUP
        BY <2>1, <2>3, Constants
      <4> QED BY <4>1, <2>3, Constants, PlacesApart DEF At
    <3>2. sv_entities'[At(r)] = sv_entities[At(r)]
      BY <1>2, <2>1, <3>1 DEF Written, TypeOK
    <3> QED BY <2>3, <3>2 DEF Held
  <2>4. CASE ~(sv_incoming - r < UPDATE_BACKUP)
    BY <2>4, <2>1 DEF Held
  <2> QED BY <2>1, <2>2, <2>3, <2>4
<1> QED BY <1>1, <1>2

(* A snapshot the client accepts takes the place of none that is kept.     *)
LEMMA KeptAccepted ==
  ASSUME TypeOK, Order, NEW p \in down, Accept(p), p.number <= cl_outgoing,
         NEW r \in Nat, Kept(r)
  PROVE  Kept(r)'
<1>1. /\ p.number \in Nat /\ cl_incoming < p.number /\ cl_incoming' = p.number
      /\ cl_outgoing' = cl_outgoing /\ cl_outgoing \in Nat /\ cl_incoming \in Nat
      /\ cl_entities' = [cl_entities EXCEPT ![At(p.number)] = Decoded(p)]
      /\ r <= cl_incoming
  BY DownTyped, Unpacked DEF Accept, Heard, Order, Kept
<1>2. CASE cl_outgoing - r < UPDATE_BACKUP - 1
  <2>1. /\ r \in Int /\ p.number \in Int /\ r < p.number /\ p.number < r + UPDATE_BACKUP
    BY <1>1, <1>2, Constants
  <2>2. At(r) # At(p.number)
    BY <2>1, Constants, PlacesApart DEF At
  <2>3. cl_entities'[At(r)] = cl_entities[At(r)]
    BY <1>1, <2>1, <2>2, Place DEF TypeOK
  <2> QED BY <1>1, <1>2, <2>3 DEF Kept
<1>3. CASE ~(cl_outgoing - r < UPDATE_BACKUP - 1)
  BY <1>1, <1>3 DEF Kept
<1> QED BY <1>2, <1>3

LEMMA AsksKept ==
  ASSUME Asks(sv_delta, sv_incoming), UNCHANGED <<sv_delta, sv_incoming>>,
         \A r \in Nat \ {0} : Kept(r) /\ Held(r) => Kept(r)' /\ Held(r)'
  PROVE  Asks(sv_delta, sv_incoming)'
<1>1. CASE sv_delta = NoDelta
  BY <1>1 DEF Asks
<1>2. CASE sv_delta # NoDelta
  <2>1. PICK r \in Nat \ {0} : From(sv_delta, sv_incoming, r)
    BY <1>2 DEF Asks
  <2>2. From(sv_delta, sv_incoming, r)'
    BY <2>1 DEF From
  <2> QED BY <2>2 DEF Asks
<1> QED BY <1>1, <1>2

-----------------------------------------------------------------------------
(* What the two ends ask for and send. *)
Data == Requests /\ Server /\ Client /\ Deltas /\ ShowsSnapshot

LEMMA DeltasOn ==
  ASSUME Deltas, down' \subseteq down, UNCHANGED level, cl_outgoing <= cl_outgoing',
         TypeOK, TypeOK',
         \A r \in Nat : Kept(r) => Kept(r)',
         \A r \in Nat : Held(r) => Held(r)',
         Close => Close'
  PROVE  Deltas'
<1> SUFFICES ASSUME NEW p \in down', p.spawned
             PROVE  /\ p.level = level => Held(p.number)' /\ Close'
                    /\ \A q \in down' : q.spawned /\ q.level = p.level /\ p.number < q.number =>
                                          p.number < cl_outgoing'
                    /\ ~p.entities.full => /\ p.number <= cl_outgoing'
                                           /\ \E r \in Nat \ {0} : Delta(p, r)'
  BY DEF Deltas
<1>1. p \in down /\ p.number \in Nat /\ cl_outgoing \in Nat /\ cl_outgoing' \in Nat
  BY DownTyped, Unpacked DEF TypeOK
<1>2. /\ p.level = level => Held(p.number) /\ Close
      /\ \A q \in down : q.spawned /\ q.level = p.level /\ p.number < q.number =>
                           p.number < cl_outgoing
      /\ ~p.entities.full => /\ p.number <= cl_outgoing
                             /\ \E r \in Nat \ {0} : Delta(p, r)
  BY <1>1 DEF Deltas
<1>3. ASSUME ~p.entities.full PROVE \E r \in Nat \ {0} : Delta(p, r)'
  <2>1. PICK r \in Nat \ {0} : Delta(p, r)
    BY <1>2, <1>3
  <2>2. Delta(p, r)'
    BY <2>1 DEF Delta
  <2> QED BY <2>2
<1> QED BY <1>1, <1>2, <1>3

LEMMA ClientSendData ==
  ASSUME TypeOK, TypeOK', Order, Levels, Data, ClientSend
  PROVE  Data'
<1>1. /\ cl_outgoing' = cl_outgoing + 1 /\ cl_outgoing \in Nat
      /\ UNCHANGED <<cl_incoming, cl_entities, cl_level, server, down>>
      /\ UNCHANGED <<sv_outgoing, sv_incoming, sv_delta, sv_entities, send_message, spawned, level>>
  BY Unpacked DEF ClientSend, server
<1>2. ASSUME NEW r \in Nat, Kept(r) PROVE Kept(r)'
  BY <1>1, <1>2, KeptOn, Unpacked
<1>3. ASSUME NEW r \in Nat, Held(r) PROVE Held(r)'
  BY <1>1, <1>3 DEF Held
<1>4. Close => Close'
  BY <1>1 DEF Close
<1>5. Deltas'
  BY <1>1, <1>2, <1>3, <1>4, DeltasOn DEF Data
<1>6. ShowsSnapshot'
  BY <1>1 DEF ClientSend, ShowsSnapshot, Data
<1>7. Server'
  BY <1>1, <1>2, <1>3, <1>4, AsksKept DEF Server, Data
<1>8. Client'
  <2> SUFFICES ASSUME cl_level' = level', validsequence' # 0
               PROVE  (Held(validsequence) /\ validsequence < cl_outgoing /\ Close)'
    BY DEF Client
  <2>1. validsequence' = validsequence /\ validsequence \in Nat
    BY Unpacked DEF ClientSend
  <2>2. Held(validsequence) /\ validsequence < cl_outgoing /\ Close
    BY <1>1, <2>1 DEF Client, Data
  <2>3. Held(validsequence)'
    BY <1>1, <2>1, <2>2 DEF Held
  <2> QED BY <2>1, <2>2, <2>3, <1>1, <1>4
<1>9. Requests'
  <2> SUFFICES ASSUME NEW q \in up', q.level = level
               PROVE  Asks(q.delta, q.number)' /\ (q.delta # NoDelta => Close')
    BY <1>1 DEF Requests
  <2>1. CASE q \in up
    BY <2>1, <1>2, <1>3, <1>4, AsksOn DEF Requests, Data
  <2>2. CASE q \notin up
    <3>1. /\ q.number = cl_outgoing /\ q.level = cl_level
          /\ q.delta = IF Request = NoDelta THEN NoDelta ELSE AsByte(Request)
      BY <2>2 DEF ClientSend
    <3>2. CASE Request = NoDelta
      BY <3>1, <3>2 DEF Asks
    <3>3. CASE Request # NoDelta
      <4>1. PICK r \in Nat \ {0} : r = delta_sequence /\ r = validsequence
        BY <3>3, Unpacked DEF Request, Order
      <4>2. q.delta = r % Bytes /\ ~Expired
        BY <3>1, <3>3, <4>1 DEF Request, AsByte
      <4>3. Held(r) /\ r < cl_outgoing /\ Close
        BY <3>1, <4>1 DEF Client, Data
      <4>4. cl_outgoing - r < UPDATE_BACKUP - 1
        BY <4>1, <4>2, <1>1, Constants DEF Expired, TooOld
      <4>5. Kept(r)
        BY <4>1 DEF Kept, Order, ShowsSnapshot, Data
      <4>6. From(q.delta, q.number, r)'
        BY <3>1, <4>2, <4>3, <4>4, <4>5, <1>2, <1>3 DEF From
      <4> QED BY <4>3, <4>6, <1>4 DEF Asks
    <3> QED BY <3>2, <3>3
  <2> QED BY <2>1, <2>2
<1> QED BY <1>5, <1>6, <1>7, <1>8, <1>9 DEF Data

LEMMA ServerReadData ==
  ASSUME TypeOK, TypeOK', Order, Levels, Data, NEW p \in up, ServerRead(p)
  PROVE  Data'
<1>1. /\ p.number \in Nat /\ sv_incoming < p.number /\ sv_incoming' = p.number
      /\ sv_incoming \in Nat /\ sv_outgoing \in Nat
      /\ sv_outgoing' = Later(p.number, sv_outgoing)
      /\ sv_delta' = p.delta /\ (spawned' <=> spawned \/ p.level = level)
      /\ up' \subseteq up
      /\ UNCHANGED <<sv_entities, level, down>>
      /\ UNCHANGED <<cl_outgoing, cl_incoming, validsequence, cl_entities, cl_level>>
  BY UpTyped, Unpacked DEF ServerRead, Requested, Order, client
<1>2. ASSUME NEW r \in Nat, Kept(r) PROVE Kept(r)'
  BY <1>1, <1>2 DEF Kept
<1>3. ASSUME NEW r \in Nat, Held(r) PROVE Held(r)'
  BY <1>1, <1>3, HeldOn
<1>4. Close => Close'
  BY <1>1 DEF Close, Later
<1>5. Deltas'
  BY <1>1, <1>2, <1>3, <1>4, Unpacked, DeltasOn DEF Data
<1>6. ShowsSnapshot'
  BY <1>1 DEF ShowsSnapshot, Data
<1>7. Server'
  <2> SUFFICES ASSUME spawned'
               PROVE  Asks(p.delta, p.number)' /\ (p.delta # NoDelta => Close')
    BY <1>1 DEF Server, Asks, From
  <2>1. p.level = level
    BY <1>1 DEF Levels
  <2> QED BY <2>1, <1>2, <1>3, <1>4, AsksOn DEF Requests, Data
<1>8. Client'
  <2> SUFFICES ASSUME cl_level = level, validsequence # 0
               PROVE  Held(validsequence)' /\ validsequence < cl_outgoing /\ Close'
    BY <1>1 DEF Client
  <2>1. PICK r \in Nat : r = validsequence
    BY Unpacked
  <2>2. Held(r) /\ r < cl_outgoing /\ Close
    BY <2>1 DEF Client, Data
  <2>3. Held(r)'
    BY <2>2, <1>3
  <2> QED BY <2>1, <2>2, <2>3, <1>1, <1>4 DEF Held
<1>9. Requests'
  <2> SUFFICES ASSUME NEW q \in up, q.level = level
               PROVE  Asks(q.delta, q.number)' /\ (q.delta # NoDelta => Close')
    BY <1>1 DEF Requests
  <2> QED BY <1>2, <1>3, <1>4, AsksOn DEF Requests, Data
<1> QED BY <1>5, <1>6, <1>7, <1>8, <1>9 DEF Data

(* The delta that is sent to a client that asked for one.                  *)
LEMMA DeltaSent ==
  ASSUME TypeOK, Order, Data, spawned, NEW q, q = Packet(spawned, Entities),
         ~q.entities.full
  PROVE  /\ q.number <= cl_outgoing
         /\ \E r \in Nat \ {0} : Delta(q, r)
<1>1. /\ sv_delta # NoDelta /\ q.number = sv_outgoing
      /\ q.entities.from = sv_delta /\ q.entities.base = Written[At(sv_delta)]
  BY DEF Packet, Entities
<1>2. PICK r \in Nat \ {0} : From(sv_delta, sv_incoming, r)
  BY <1>1 DEF Asks, Server, Data
<1>3. Close
  BY <1>1 DEF Server, Data
<1>4. /\ sv_delta = r % Bytes /\ r < sv_incoming /\ sv_incoming - r < UPDATE_BACKUP - 1
      /\ Kept(r) /\ Held(r) /\ sv_incoming \in Nat /\ sv_outgoing \in Nat /\ cl_outgoing \in Nat
  BY <1>2, Unpacked DEF From
<1>5. sv_outgoing <= sv_incoming + 1 /\ sv_incoming <= sv_outgoing /\ sv_incoming < cl_outgoing
  BY <1>3 DEF Close, Order
<1>6. Written[At(sv_delta)] = r
  <2>1. At(sv_delta) = At(r) /\ At(r) \in Ring /\ At(sv_incoming) \in Ring
    BY <1>4, BytePlace, Place
  <2>2. At(r) # At(sv_incoming)
    <3>1. r \in Int /\ sv_incoming \in Int /\ sv_incoming < r + UPDATE_BACKUP
      BY <1>4, Constants
    <3> QED BY <3>1, <1>4, Constants, PlacesApart DEF At
  <2>3. sv_entities[At(r)] = r
    BY <1>4, Constants DEF Held
  <2> QED BY <2>1, <2>2, <2>3 DEF Written, TypeOK
<1>7. Delta(q, r)
  <2>1. r < sv_outgoing /\ sv_outgoing - r < UPDATE_BACKUP
    BY <1>4, <1>5, RingIsThere
  <2> QED BY <2>1, <1>1, <1>4, <1>6 DEF Delta
<1>8. sv_outgoing <= cl_outgoing
  BY <1>4, <1>5
<1> QED BY <1>1, <1>7, <1>8

(* The packets under way when one more is sent.                            *)
LEMMA DeltasSent ==
  ASSUME TypeOK, TypeOK', Order, Levels, Data, UNCHANGED <<client, sv_incoming>>,
         down' = down \cup {Packet(spawned, Entities)},
         \A p \in down' : p.spawned /\ p.level = level' => Held(p.number)' /\ Close'
  PROVE  Deltas'
<1> DEFINE new == Packet(spawned, Entities)
<1>1. /\ new.number = sv_outgoing /\ new.level = level /\ (new.spawned <=> spawned)
      /\ sv_outgoing \in Nat /\ sv_incoming \in Nat /\ cl_outgoing \in Nat
      /\ UNCHANGED <<cl_outgoing, cl_incoming, cl_entities>>
      /\ sv_incoming < cl_outgoing
  BY Unpacked DEF Packet, client, Order
<1>2. ASSUME NEW r \in Nat, Kept(r) PROVE Kept(r)'
  BY <1>1, <1>2 DEF Kept
<1>3. ASSUME NEW p \in down', ~p.entities.full, p.spawned
      PROVE  p.number <= cl_outgoing /\ \E r \in Nat \ {0} : Delta(p, r)
  <2>1. CASE p \in down
    BY <2>1, <1>3 DEF Deltas, Data
  <2>2. CASE p = new
    BY <2>2, <1>1, <1>3, DeltaSent
  <2> QED BY <2>1, <2>2
<1>4. ASSUME NEW p \in down', ~p.entities.full, p.spawned
      PROVE  p.number <= cl_outgoing' /\ \E r \in Nat \ {0} : Delta(p, r)'
  <2>1. PICK r \in Nat \ {0} : Delta(p, r)
    BY <1>3, <1>4
  <2>2. Delta(p, r)'
    BY <2>1, <1>2 DEF Delta
  <2> QED BY <2>2, <1>1, <1>3, <1>4
<1>5. ASSUME NEW p \in down', NEW q \in down', p.spawned, q.spawned, q.level = p.level,
             p.number < q.number
      PROVE  p.number < cl_outgoing
  <2>1. CASE p \in down /\ q \in down
    BY <2>1, <1>5 DEF Deltas, Data
  <2>2. CASE p \in down /\ q = new
    <3>1. Held(p.number)
      BY <2>2, <1>1, <1>5 DEF Deltas, Data
    <3> QED BY <3>1, <2>2, <1>1, DownTyped DEF Held
  <2>3. CASE p = new /\ q \in down
    <3>1. q.number < sv_outgoing /\ q.number \in Nat
      BY <2>3, DownTyped DEF Order
    <3> QED BY <3>1, <2>3, <1>1, <1>5
  <2>4. CASE p = new /\ q = new
    BY <2>4, <1>1, <1>5
  <2> QED BY <2>1, <2>2, <2>3, <2>4
<1> HIDE DEF new
<1> QED BY <1>1, <1>4, <1>5 DEF Deltas

LEMMA ServerSendData ==
  ASSUME TypeOK, TypeOK', Order, Levels, Data, ServerSend
  PROVE  Data'
<1>1. /\ sv_outgoing = sv_incoming /\ sv_outgoing' = sv_outgoing + 1
      /\ sv_incoming \in Nat /\ sv_outgoing \in Nat
      /\ sv_entities' = Written \/ UNCHANGED sv_entities
      /\ spawned => sv_entities' = Written
      /\ down' = down \cup {Packet(spawned, Entities)}
      /\ UNCHANGED <<sv_incoming, sv_delta, spawned, level, client, up>>
      /\ UNCHANGED <<cl_outgoing, cl_incoming, validsequence, cl_entities, cl_level>>
  BY Unpacked DEF ServerSend, Transmit, Order, client
<1>2. ASSUME NEW r \in Nat, Kept(r) PROVE Kept(r)'
  BY <1>1, <1>2 DEF Kept
<1>3. ASSUME NEW r \in Nat, Held(r) PROVE Held(r)'
  BY <1>1, <1>3, HeldSent
<1>4. Close'
  BY <1>1 DEF Close
<1>5. Deltas'
  <2>1. ASSUME NEW p \in down', p.spawned, p.level = level PROVE Held(p.number)'
    <3>1. CASE p \in down
      <4>1. Held(p.number) /\ p.number \in Nat
        BY <3>1, <2>1, DownTyped DEF Deltas, Data
      <4> QED BY <4>1, <1>3
    <3>2. CASE p = Packet(spawned, Entities)
      <4>1. p.number = sv_incoming /\ sv_entities' = Written
        BY <3>2, <2>1, <1>1 DEF Packet
      <4>2. At(sv_incoming) \in Ring
        BY <1>1, Place
      <4>3. sv_entities'[At(sv_incoming)] = sv_incoming
        BY <4>1, <4>2, <1>1 DEF Written, TypeOK
      <4> QED BY <4>1, <4>3, <1>1 DEF Held
    <3> QED BY <3>1, <3>2, <1>1
  <2> QED BY <2>1, <1>1, <1>4, DeltasSent
<1>6. ShowsSnapshot'
  BY <1>1 DEF ShowsSnapshot, Data
<1>7. Server'
  BY <1>1, <1>2, <1>3, <1>4, AsksKept DEF Server, Data
<1>8. Client'
  <2> SUFFICES ASSUME cl_level = level, validsequence # 0
               PROVE  Held(validsequence)' /\ validsequence < cl_outgoing
    BY <1>1, <1>4 DEF Client
  <2>1. PICK r \in Nat : r = validsequence
    BY Unpacked
  <2>2. Held(r) /\ r < cl_outgoing
    BY <2>1 DEF Client, Data
  <2>3. Held(r)'
    BY <2>2, <1>3
  <2> QED BY <2>1, <2>2, <2>3, <1>1 DEF Held
<1>9. Requests'
  <2> SUFFICES ASSUME NEW q \in up, q.level = level
               PROVE  Asks(q.delta, q.number)'
    BY <1>1, <1>4 DEF Requests
  <2> QED BY <1>2, <1>3, AsksOn DEF Requests, Data
<1> QED BY <1>5, <1>6, <1>7, <1>8, <1>9 DEF Data

LEMMA MapData ==
  ASSUME TypeOK, TypeOK', Order, Levels, Data, Map
  PROVE  Data'
<1>1. /\ level' = level + 1 /\ level \in Nat /\ cl_level <= level /\ cl_level \in Nat
      /\ ~spawned'
      /\ UNCHANGED <<sv_incoming, client, up>>
      /\ UNCHANGED <<cl_outgoing, cl_incoming, validsequence, cl_entities, cl_level>>
  BY Unpacked DEF Map, client, Levels
<1>2. Requests'
  <2> SUFFICES ASSUME NEW q \in up, q.level = level' PROVE FALSE
    BY <1>1 DEF Requests
  <2>1. q.level <= cl_level /\ q.level \in Nat
    BY UpTyped DEF Levels
  <2> QED BY <2>1, <1>1
<1>3. Server' /\ Client'
  BY <1>1 DEF Server, Client
<1>4. ShowsSnapshot'
  BY <1>1 DEF ShowsSnapshot, Data
<1>5. \A q \in down : q.level # level'
  BY <1>1, DownTyped DEF Levels, LevelsOf
<1>6. Deltas'
  <2>1. CASE down' = down
    <3> SUFFICES ASSUME NEW p \in down, p.spawned
                 PROVE  /\ \A q \in down : q.spawned /\ q.level = p.level /\ p.number < q.number =>
                                             p.number < cl_outgoing
                        /\ ~p.entities.full => /\ p.number <= cl_outgoing
                                               /\ \E r \in Nat \ {0} : Delta(p, r)'
      BY <2>1, <1>1, <1>5 DEF Deltas
    <3>2. ASSUME ~p.entities.full PROVE \E r \in Nat \ {0} : Delta(p, r)'
      <4>1. PICK r \in Nat \ {0} : Delta(p, r)
        BY <3>2 DEF Deltas, Data
      <4>2. Delta(p, r)'
        BY <4>1, <1>1 DEF Delta, Kept
      <4> QED BY <4>2
    <3> QED BY <3>2 DEF Deltas, Data
  <2>2. CASE down' = down \cup {Packet(spawned, Entities)}
    <3>1. \A p \in down' : p.level # level'
      BY <2>2, <1>1, <1>5 DEF Packet
    <3> QED BY <2>2, <3>1, <1>1, DeltasSent
  <2> QED BY <2>1, <2>2 DEF Map, Transmit
<1> QED BY <1>2, <1>3, <1>4, <1>6 DEF Data

(* A packet is read that changes nothing the client shows, or hides it.    *)
LEMMA QuietData ==
  ASSUME TypeOK, TypeOK', Order, Levels, Data, NEW p \in down, Heard(p),
         UNCHANGED <<cl_outgoing, cl_entities, cl_level, server, up>>,
         validsequence' \in {0, validsequence}
  PROVE  Data'
<1>1. /\ p.number \in Nat /\ cl_incoming < p.number /\ cl_incoming' = p.number
      /\ cl_incoming \in Nat /\ cl_outgoing \in Nat /\ down' \subseteq down
      /\ UNCHANGED <<sv_outgoing, sv_incoming, sv_delta, sv_entities, spawned, level>>
  BY DownTyped, Unpacked DEF Heard, server
<1>2. ASSUME NEW r \in Nat, Kept(r) PROVE Kept(r)'
  BY <1>1, <1>2 DEF Kept
<1>3. ASSUME NEW r \in Nat, Held(r) PROVE Held(r)'
  BY <1>1, <1>3 DEF Held
<1>4. Close' <=> Close
  BY <1>1 DEF Close
<1>5. Deltas'
  BY <1>1, <1>2, <1>3, <1>4, DeltasOn DEF Data
<1>6. ShowsSnapshot'
  BY DEF ShowsSnapshot, Data
<1>7. Server'
  BY <1>1, <1>2, <1>3, <1>4, AsksKept DEF Server, Data
<1>8. Client'
  BY <1>1, <1>4 DEF Client, Held, Data
<1>9. Requests'
  BY <1>1, <1>2, <1>3, <1>4, AsksOn DEF Requests, Data
<1> QED BY <1>5, <1>6, <1>7, <1>8, <1>9 DEF Data

(* Another level: the client's frames are wiped, and nothing of the old    *)
(* level is left to be applied to them.                                    *)
LEMMA WipedData ==
  ASSUME TypeOK, TypeOK', Order, Levels, Levels', Data, NEW p \in down, Other(p),
         p.level # cl_level
  PROVE  Data'
<1>1. /\ Heard(p) /\ validsequence' = 0 /\ cl_level' = p.level
      /\ UNCHANGED <<level, spawned, up>>
  BY DEF Other, server
<1>2. /\ cl_level \in Nat /\ level \in Nat /\ p.level \in Nat
      /\ cl_level < p.level /\ p.level <= level
  BY DownTyped, Unpacked DEF Levels, LevelsOf
<1>3. Requests'
  <2> SUFFICES ASSUME NEW q \in up, q.level = level PROVE FALSE
    BY <1>1 DEF Requests
  <2>1. q.level <= cl_level /\ q.level \in Nat
    BY UpTyped DEF Levels
  <2> QED BY <2>1, <1>2
<1>4. Server'
  <2>1. ~spawned
    BY <1>2 DEF Levels
  <2> QED BY <2>1, <1>1 DEF Server
<1>5. Client' /\ ShowsSnapshot'
  BY <1>1 DEF Client, ShowsSnapshot
<1>6. Deltas'
  <2> SUFFICES ASSUME NEW q \in down', q.spawned PROVE FALSE
    BY DEF Deltas
  <2>1. q \in down
    BY <1>1 DEF Heard
  <2>2. q.level = cl_level
    BY <2>1 DEF Levels, LevelsOf
  <2>3. cl_level' <= q.level
    BY DEF Levels, LevelsOf
  <2> QED BY <2>2, <2>3, <1>1, <1>2
<1> QED BY <1>3, <1>4, <1>5, <1>6 DEF Data

(* The client has the snapshot a delta it accepts was made from.           *)
LEMMA AcceptedWhole ==
  ASSUME TypeOK, Order, Data, NEW p \in down, Accept(p)
  PROVE  Decoded(p) = p.number
<1>1. CASE p.entities.full
  BY <1>1 DEF Decoded
<1>2. CASE ~p.entities.full
  <2> DEFINE d == OldPacket(p)
  <2>1. /\ p.spawned /\ ~NoFrames(p) /\ ~TooLate(p)
        /\ p.number \in Nat /\ cl_incoming < p.number /\ cl_incoming \in Nat
    BY <1>2, DownTyped, Unpacked DEF Accept, Order
  <2>2. p.number <= cl_outgoing /\ cl_outgoing \in Nat
    BY <2>1, <1>2, Unpacked DEF Deltas, Data
  <2>3. PICK r \in Nat \ {0} : Delta(p, r)
    BY <2>1, <1>2 DEF Deltas, Data
  <2>4. /\ r < p.number /\ p.number - r < UPDATE_BACKUP /\ Kept(r)
        /\ p.entities.from = r % Bytes /\ p.entities.base = r
    BY <2>3 DEF Delta
  <2>5. d \in Int /\ d <= cl_incoming
    BY <2>1, Place, Numbers DEF OldPacket, Order
  <2>6. cl_outgoing - d < UPDATE_BACKUP - 1
    BY <2>1, <2>2, <2>5, RingIsThere DEF TooLate, TooOld
  <2>7. At(d) = At(r)
    BY <2>1, <2>4, BytePlace DEF NoFrames, Mismatch
  <2> HIDE DEF d
  <2>8. d < p.number /\ p.number - d < UPDATE_BACKUP
    BY <2>1, <2>2, <2>5, <2>6, RingIsThere
  <2>9. ~(d < r) /\ ~(r < d)
    <3>1. /\ r \in Int /\ r < d + UPDATE_BACKUP /\ d < r + UPDATE_BACKUP
      BY <2>1, <2>4, <2>5, <2>8, RingIsThere
    <3> QED BY <3>1, <2>5, <2>7, Constants, PlacesApart DEF At
  <2>10. d = r
    BY <2>5, <2>9
  <2>11. cl_entities[At(r)] = r
    BY <2>4, <2>6, <2>10 DEF Kept
  <2> QED BY <2>4, <2>10, <2>11 DEF Decoded, d
<1> QED BY <1>1, <1>2

LEMMA AcceptData ==
  ASSUME TypeOK, TypeOK', Order, Levels, Data, NEW p \in down, Accept(p)
  PROVE  Data'
<1>1. /\ p.number \in Nat /\ p.level \in Nat /\ p.level = cl_level /\ p.spawned
      /\ cl_level <= level /\ level \in Nat /\ cl_outgoing \in Nat
      /\ validsequence' = p.number
      /\ cl_entities' = [cl_entities EXCEPT ![At(p.number)] = Decoded(p)]
      /\ down' = {q \in down : q.number > p.number}
      /\ UNCHANGED <<cl_outgoing, cl_level, up>>
      /\ UNCHANGED <<sv_outgoing, sv_incoming, sv_delta, sv_entities, spawned, level>>
  BY DownTyped, Unpacked DEF Accept, Heard, server, Levels
<1>2. ASSUME NEW r \in Nat, Held(r) PROVE Held(r)'
  BY <1>1, <1>2 DEF Held
<1>3. Close' <=> Close
  BY <1>1 DEF Close
<1>4. ASSUME cl_level = level
      PROVE  /\ Held(p.number) /\ Close /\ p.number < cl_outgoing
  <2>1. Held(p.number) /\ Close
    BY <1>1, <1>4 DEF Deltas, Data
  <2>2. p.number <= sv_incoming /\ sv_incoming < cl_outgoing /\ sv_incoming \in Nat
    BY <2>1, Unpacked DEF Held, Order
  <2> QED BY <2>1, <2>2, <1>1
<1>5. ASSUME NEW r \in Nat, Kept(r), p.number < cl_outgoing PROVE Kept(r)'
  <2>1. p.number <= cl_outgoing
    BY <1>1, <1>5
  <2> QED BY <2>1, <1>5, KeptAccepted
<1>6. Requests'
  <2> SUFFICES ASSUME NEW q \in up, q.level = level
               PROVE  Asks(q.delta, q.number)' /\ (q.delta # NoDelta => Close')
    BY <1>1 DEF Requests
  <2>1. cl_level = level
    <3>1. q.level <= cl_level /\ q.level \in Nat
      BY UpTyped DEF Levels
    <3> QED BY <3>1, <1>1
  <2> QED BY <2>1, <1>2, <1>3, <1>4, <1>5, AsksOn DEF Requests, Data
<1>7. Server'
  <2> SUFFICES ASSUME spawned
               PROVE  Asks(sv_delta, sv_incoming)' /\ (sv_delta # NoDelta => Close')
    BY <1>1 DEF Server
  <2>1. cl_level = level
    BY DEF Levels
  <2> QED BY <2>1, <1>1, <1>2, <1>3, <1>4, <1>5, AsksKept DEF Server, Data
<1>8. Client'
  <2> SUFFICES ASSUME cl_level = level
               PROVE  Held(p.number)' /\ p.number < cl_outgoing /\ Close'
    BY <1>1 DEF Client, Held
  <2> QED BY <1>1, <1>2, <1>3, <1>4
<1>9. ShowsSnapshot'
  <2>1. cl_entities'[At(p.number)] = p.number
    BY <1>1, AcceptedWhole, Place DEF TypeOK
  <2> QED BY <2>1, <1>1 DEF ShowsSnapshot
<1>10. Deltas'
  <2>1. CASE p.number < cl_outgoing
    BY <2>1, <1>1, <1>2, <1>3, <1>5, DeltasOn DEF Data
  <2>2. CASE ~(p.number < cl_outgoing)
    <3> SUFFICES ASSUME NEW q \in down', q.spawned PROVE FALSE
      BY DEF Deltas
    <3>1. q \in down /\ p.number < q.number
      BY <1>1, DownTyped
    <3>2. q.level = p.level
      BY <3>1, <1>1 DEF Levels, LevelsOf
    <3> QED BY <3>1, <3>2, <1>1, <2>2 DEF Deltas, Data
  <2> QED BY <2>1, <2>2
<1> QED BY <1>6, <1>7, <1>8, <1>9, <1>10 DEF Data

LEMMA NextData ==
  ASSUME TypeOK, TypeOK', Order, Levels, Levels', Data, [Next]_vars
  PROVE  Data'
<1>1. ASSUME UNCHANGED <<client, up, down, sv_outgoing, sv_incoming, sv_delta, sv_entities,
                         spawned, level>>
      PROVE  Data'
  BY <1>1 DEF Data, Requests, Server, Client, Deltas, ShowsSnapshot, Asks, From, Delta, Kept,
              Held, Close, client
<1>2. CASE Choke
  BY <1>1, <1>2 DEF Choke
<1>3. ASSUME NEW p \in down, Flush(p) PROVE Data'
  BY <1>3, QuietData DEF Flush
<1>4. ASSUME NEW p \in down, Other(p) PROVE Data'
  <2>1. CASE p.level = cl_level
    BY <1>4, <2>1, QuietData DEF Other
  <2>2. CASE p.level # cl_level
    BY <1>4, <2>2, WipedData
  <2> QED BY <2>1, <2>2
<1>5. CASE UNCHANGED vars
  BY <1>1, <1>5 DEF vars, server
<1> QED BY <1>2, <1>3, <1>4, <1>5, ClientSendData, ServerReadData, ServerSendData, MapData,
           AcceptData DEF Next

-----------------------------------------------------------------------------
(* The theorems. *)
Inv == TypeOK /\ Order /\ Levels /\ Data

LEMMA InitInv == Init => Inv
<1> SUFFICES ASSUME Init PROVE Inv
  OBVIOUS
<1>1. TypeOK
  <2>1. /\ Nothing \in [Ring -> Nat \cup {NoDelta}] /\ Nothing \in [Ring -> Nat \cup {Garbage}]
        /\ Nothing \in [Ring -> Nat]
    BY DEF Nothing
  <2>2. 0 \in 0 .. MaxLevel
    BY BoundsAreNat
  <2>3. /\ {cl_level, level} \subseteq 0 .. MaxLevel
        /\ {cl_outgoing, cl_incoming, validsequence, delta_sequence} \subseteq Nat
        /\ {active, send_message, spawned} \subseteq BOOLEAN
        /\ {sv_outgoing, sv_incoming} \subseteq Nat
        /\ up \subseteq UpPacket /\ down \subseteq DownPacket
    <3>1. {cl_level, level} \subseteq 0 .. MaxLevel
      BY <2>2, Zenon DEF Init
    <3>2. {cl_outgoing, cl_incoming, validsequence, delta_sequence} \subseteq Nat
      BY DEF Init
    <3>3. {active, send_message, spawned} \subseteq BOOLEAN
      BY Zenon DEF Init
    <3>4. {sv_outgoing, sv_incoming} \subseteq Nat
      BY DEF Init
    <3>5. up \subseteq UpPacket /\ down \subseteq DownPacket
      BY DEF Init
    <3> QED BY <3>1, <3>2, <3>3, <3>4, <3>5
  <2>4. /\ cl_delta = Nothing /\ cl_entities = Nothing /\ sv_entities = Nothing
        /\ sv_delta = NoDelta
    BY DEF Init
  <2> QED BY <2>1, <2>3, <2>4 DEF TypeOK
<1>2. Order
  BY DEF Init, Order, Nothing
<1>3. Levels
  BY DEF Init, Levels, LevelsOf
<1>4. Data
  BY DEF Init, Data, Requests, Server, Client, Deltas, ShowsSnapshot
<1> QED BY <1>1, <1>2, <1>3, <1>4 DEF Inv

LEMMA NextInv == Inv /\ [Next]_vars => Inv'
<1> SUFFICES ASSUME Inv, [Next]_vars PROVE Inv'
  OBVIOUS
<1>1. TypeOK'
  BY NextTyped DEF Inv
<1>2. Order'
  BY NextOrder DEF Inv
<1>3. Levels'
  BY NextLevels DEF Inv
<1>4. Data'
  BY <1>1, <1>3, NextData DEF Inv
<1> QED BY <1>1, <1>2, <1>3, <1>4 DEF Inv

LEMMA Invariance == Spec => []Inv
<1> QED BY InitInv, NextInv, PTL DEF Spec

(* What travels, and what the rings of sv_ents.c and cl_ents.c hold, has   *)
(* the types of EntDelta.                                                  *)
THEOREM EntDeltaTypeCorrect == Spec => []TypeOK
<1>1. Inv => TypeOK
  BY DEF Inv
<1> QED BY <1>1, Invariance, PTL

(* The frame the client shows is a whole snapshot of the server, never a   *)
(* delta applied to another than it was made from: the tests of            *)
(* CL_ParsePacketEntities and of CL_SendCmd are enough, in rings of any    *)
(* size that divides what a byte counts.                                   *)
THEOREM WhatIsShownIsWhole == Spec => []ShowsSnapshot
<1>1. Inv => ShowsSnapshot
  BY DEF Inv, Data
<1> QED BY <1>1, Invariance, PTL

-----------------------------------------------------------------------------
(* The rings implement the stream. *)
Shown == IF validsequence = 0 THEN 0 ELSE cl_entities[At(validsequence)]

LEMMA InitStream == Init => Stream!Init
  BY DEF Init, Stream!Init

LEMMA NextStream == Inv /\ Inv' /\ [Next]_vars => [Stream!Next]_(Stream!vars)
<1> SUFFICES ASSUME Inv, Inv', [Next]_vars
             PROVE  \/ Stream!Next
                    \/ UNCHANGED <<sv_outgoing - 1, cl_incoming, Shown>>
  BY DEF Stream!vars, Shown
<1>1. /\ sv_outgoing \in Nat /\ sv_outgoing' \in Nat /\ cl_incoming \in Nat
      /\ cl_incoming < sv_outgoing /\ Shown = validsequence /\ Shown' = validsequence'
  <2>1. sv_outgoing \in Nat /\ cl_incoming \in Nat /\ cl_incoming < sv_outgoing
    BY Unpacked DEF Inv, Order
  <2>2. sv_outgoing' \in Nat
    BY DEF Inv, TypeOK
  <2>3. Shown = validsequence /\ Shown' = validsequence'
    BY DEF Inv, Data, ShowsSnapshot, Shown
  <2> QED BY <2>1, <2>2, <2>3
<1>2. ASSUME UNCHANGED <<cl_incoming, validsequence>>, sv_outgoing < sv_outgoing'
      PROVE  Stream!Make
  <2>1. PICK n \in Nat : n = sv_outgoing' /\ sv_outgoing < n
    BY <1>1, <1>2
  <2>2. n - 1 \in Nat /\ n - 1 > sv_outgoing - 1
    <3>1. sv_outgoing < n /\ sv_outgoing \in Nat
      BY <2>1, <1>1
    <3> QED BY <3>1
  <2>3. (sv_outgoing - 1)' = n - 1
    BY <2>1, Zenon
  <2>4. (sv_outgoing - 1)' \in Nat /\ (sv_outgoing - 1)' > sv_outgoing - 1
    BY <2>2, <2>3, Zenon
  <2>5. UNCHANGED <<cl_incoming, Shown>>
    BY <1>1, <1>2
  <2> QED BY <2>4, <2>5, Zenon DEF Stream!Make, Shown
<1>3. ASSUME UNCHANGED <<cl_incoming, validsequence, sv_outgoing>>
      PROVE  UNCHANGED <<sv_outgoing - 1, cl_incoming, Shown>>
  BY <1>1, <1>3
<1>4. ASSUME NEW p \in down, Heard(p), UNCHANGED sv_outgoing,
             validsequence' \in {0, validsequence, p.number}
      PROVE  Stream!Read
  <2>1. /\ p.number \in Nat /\ cl_incoming < p.number /\ p.number < sv_outgoing
        /\ cl_incoming' = p.number
    BY <1>4, DownTyped DEF Heard, Inv, Order
  <2>2. Shown' \in {Shown, cl_incoming', 0}
    BY <1>1, <1>4, <2>1
  <2> QED BY <1>1, <1>4, <2>1, <2>2 DEF Stream!Read, Shown
<1>5. CASE ClientSend
  <2>1. UNCHANGED <<cl_incoming, sv_outgoing>> /\ validsequence' \in {0, validsequence}
    BY <1>5 DEF ClientSend, server
  <2>2. CASE validsequence' = 0
    BY <2>1, <2>2, <1>1 DEF Stream!Next, Stream!Hide, Shown
  <2> QED BY <2>1, <2>2, <1>3
<1>6. ASSUME NEW p \in up, ServerRead(p)
      PROVE  Stream!Make \/ UNCHANGED <<sv_outgoing - 1, cl_incoming, Shown>>
  <2>1. p.number \in Nat
    BY UpTyped DEF Inv
  <2>2. /\ UNCHANGED <<cl_incoming, validsequence>>
        /\ sv_outgoing < sv_outgoing' \/ sv_outgoing' = sv_outgoing
    BY <1>1, <1>6, <2>1 DEF ServerRead, Later, client
  <2> QED BY <2>2, <1>2, <1>3
<1>7. CASE ServerSend \/ Choke \/ Map
  <2>1. /\ UNCHANGED <<cl_incoming, validsequence>>
        /\ sv_outgoing < sv_outgoing' \/ sv_outgoing' = sv_outgoing
    BY <1>1, <1>7 DEF ServerSend, Choke, Map, Transmit, client
  <2> QED BY <2>1, <1>2, <1>3 DEF Stream!Next
<1>8. ASSUME NEW p \in down, Flush(p) \/ Accept(p) \/ Other(p) PROVE Stream!Read
  <2>1. Heard(p) /\ UNCHANGED sv_outgoing
    BY <1>8 DEF Flush, Accept, Other, server
  <2>2. validsequence' \in {0, validsequence, p.number}
    BY <1>8 DEF Flush, Accept, Other
  <2> QED BY <2>1, <2>2, <1>4
<1>9. CASE UNCHANGED vars
  BY <1>9, <1>3 DEF vars, client, server
<1> QED BY <1>5, <1>6, <1>7, <1>8, <1>9 DEF Next, Stream!Next

(* The two ends with their rings, bytes and flushes are the stream of      *)
(* EntStream: the client shows the server's snapshots in the order they    *)
(* were made and never goes back to an earlier one.                        *)
THEOREM RingsImplementStream == Spec => StreamOfSnapshots
<1>1. Inv /\ Inv' /\ [Next]_vars => [Stream!Next]_(Stream!vars)
  BY NextStream
<1>2. Init => Stream!Init
  BY InitStream
<1> QED BY <1>1, <1>2, Invariance, PTL DEF Spec, StreamOfSnapshots, Stream!Spec

=============================================================================
