-------------------------- MODULE HandshakeProofs --------------------------
(***************************************************************************)
(* Proofs about Handshake, for any number of clients, any size of the      *)
(* table of challenges and any bounds on what the network does: an address *)
(* has one challenge, and "new" is freed only if it was executed, unless   *)
(* the channels of the two ends are torn apart.                            *)
(***************************************************************************)
EXTENDS Handshake, FiniteSetTheorems, TLAPS

-----------------------------------------------------------------------------
(* What the operators of a frame return. *)

LEMMA TimesAreNat ==
  /\ ResendTime \in Nat /\ ResendTime > 0 /\ ClTimeout \in Nat /\ ClTimeout > 0
  /\ SvTimeout \in Nat /\ SvTimeout > 0 /\ ZombieTime \in Nat /\ ZombieTime > 0
<1>1. /\ ResendTime \in Nat \ {0} /\ ClTimeout \in Nat \ {0}
      /\ SvTimeout \in Nat \ {0} /\ ZombieTime \in Nat \ {0}
  BY TimesArePos
<1> QED BY <1>1

LEMMA TransmittedTyped ==
  ASSUME NEW k \in ClientState
  PROVE  /\ Transmitted(k) \in ClientState
         /\ Transmitted(k).connected = k.connected /\ Transmitted(k).idle = k.idle
         /\ ~Transmitted(k).staged /\ Transmitted(k).out > 0
         /\ Transmitted(k).outstanding = (k.outstanding \/ k.staged)
         /\ Transmitted(k).bit = IF k.staged THEN 1 - k.bit ELSE k.bit
<1> DEFINE bit == IF k.staged THEN 1 - k.bit ELSE k.bit
           outstanding == k.outstanding \/ k.staged
           since == IF Carries(k) THEN 0 ELSE UpTo(k.since + 1, 2)
           out == UpTo(k.out + 1, MaxNumber)
           k1 == [k  EXCEPT !.bit = bit]
           k2 == [k1 EXCEPT !.outstanding = outstanding]
           k3 == [k2 EXCEPT !.staged = FALSE]
           k4 == [k3 EXCEPT !.resend = FALSE]
           k5 == [k4 EXCEPT !.since = since]
           k6 == [k5 EXCEPT !.out = out]
<1>1. bit \in {0, 1} /\ outstanding \in BOOLEAN
  BY DEF ClientState
<1>2. since \in 0 .. 2
  BY DEF ClientState, UpTo
<1>3. out \in 1 .. MaxNumber
  BY BoundsArePos DEF ClientState, UpTo
<1>4. Transmitted(k) = k6
  BY DEF Transmitted
<1>5. k6.outstanding = outstanding /\ k6.bit = bit
  BY <1>1 DEF ClientState
<1> HIDE DEF bit, outstanding, since, out
<1>6. k1 \in ClientState
  BY <1>1 DEF ClientState
<1>7. k2 \in ClientState
  <2> HIDE DEF k1
  <2> QED BY <1>1, <1>6 DEF ClientState
<1>8. k3 \in ClientState
  <2> HIDE DEF k2
  <2> QED BY <1>7 DEF ClientState
<1>9. k4 \in ClientState
  <2> HIDE DEF k3
  <2> QED BY <1>8 DEF ClientState
<1>10. k5 \in ClientState
  <2> HIDE DEF k4
  <2> QED BY <1>2, <1>9 DEF ClientState
<1>11. k6 \in ClientState
  <2> HIDE DEF k5
  <2> QED BY <1>3, <1>10, BoundsArePos DEF ClientState
<1>12. k6.connected = k.connected /\ k6.idle = k.idle /\ ~k6.staged /\ k6.out > 0
  BY <1>1, <1>2, <1>3 DEF ClientState
<1> HIDE DEF k6
<1> QED BY <1>4, <1>5, <1>11, <1>12 DEF bit, outstanding

LEMMA ExecutedTyped ==
  ASSUME NEW s \in ServerState, NEW k \in ClientState, NEW number \in 0 .. MaxNumber,
         NEW carries \in BOOLEAN
  PROVE  /\ Executed(s, k, number, carries) \in ServerState
         /\ Executed(s, k, number, carries).state = s.state
         /\ Executed(s, k, number, carries).in = number
         /\ Executed(s, k, number, carries).bit = IF carries THEN 1 - s.bit ELSE s.bit
         /\ Executed(s, k, number, carries).heard = (s.heard \/ (carries /\ k.outstanding))
<1> DEFINE bit == IF carries THEN 1 - s.bit ELSE s.bit
           heard == s.heard \/ (carries /\ k.outstanding)
           reply == IF (carries /\ k.outstanding) /\ s.reply = "nothing"
                    THEN "serverdata" ELSE s.reply
           s1 == [s  EXCEPT !.in = number]
           s2 == [s1 EXCEPT !.bit = bit]
           s3 == [s2 EXCEPT !.idle = 0]
           s4 == [s3 EXCEPT !.heard = heard]
           s5 == [s4 EXCEPT !.reply = reply]
<1>1. /\ bit \in {0, 1} /\ heard \in BOOLEAN
      /\ reply \in {"nothing", "serverdata", "disconnect"}
  BY DEF ServerState, ClientState
<1>2. Executed(s, k, number, carries) = s5
  BY DEF Executed
<1>3. s5.bit = bit /\ s5.heard = heard
  BY <1>1 DEF ServerState
<1> HIDE DEF bit, heard, reply
<1>4. s1 \in ServerState
  BY DEF ServerState
<1>5. s2 \in ServerState
  <2> HIDE DEF s1
  <2> QED BY <1>1, <1>4 DEF ServerState
<1>6. s3 \in ServerState
  <2> HIDE DEF s2
  <2> QED BY <1>5, TimesAreNat DEF ServerState
<1>7. s4 \in ServerState
  <2> HIDE DEF s3
  <2> QED BY <1>1, <1>6 DEF ServerState
<1>8. s5 \in ServerState
  <2> HIDE DEF s4
  <2> QED BY <1>1, <1>7 DEF ServerState
<1>9. s5.state = s.state /\ s5.in = number
  BY DEF ServerState
<1> HIDE DEF s5
<1> QED BY <1>2, <1>3, <1>8, <1>9 DEF bit, heard

LEMMA ProcessedTyped ==
  ASSUME NEW k \in ClientState, NEW s \in ServerState
  PROVE  /\ Processed(k, s) \in ClientState
         /\ Processed(k, s).connected = k.connected /\ Processed(k, s).staged = k.staged
         /\ Processed(k, s).bit = k.bit /\ Processed(k, s).out = k.out
         /\ Processed(k, s).outstanding = (k.outstanding /\ k.bit # s.bit)
<1> DEFINE outstanding == k.outstanding /\ ~Acked(k, s)
           resend == ~Acked(k, s) /\ k.since >= 2
           told == k.told \/ s.reply = "serverdata"
           k1 == [k  EXCEPT !.outstanding = outstanding]
           k2 == [k1 EXCEPT !.resend = resend]
           k3 == [k2 EXCEPT !.idle = 0]
           k4 == [k3 EXCEPT !.told = told]
<1>1. outstanding \in BOOLEAN /\ resend \in BOOLEAN /\ told \in BOOLEAN
  BY DEF ClientState
<1>2. Processed(k, s) = k4
  BY DEF Processed
<1>3. k4.outstanding = outstanding
  BY <1>1 DEF ClientState
<1> HIDE DEF outstanding, resend, told
<1>4. k1 \in ClientState
  BY <1>1 DEF ClientState
<1>5. k2 \in ClientState
  <2> HIDE DEF k1
  <2> QED BY <1>1, <1>4 DEF ClientState
<1>6. k3 \in ClientState
  <2> HIDE DEF k2
  <2> QED BY <1>5, TimesAreNat DEF ClientState
<1>7. k4 \in ClientState
  <2> HIDE DEF k3
  <2> QED BY <1>1, <1>6 DEF ClientState
<1>8. /\ k4.connected = k.connected /\ k4.staged = k.staged
      /\ k4.bit = k.bit /\ k4.out = k.out
  BY DEF ClientState
<1> HIDE DEF k4
<1> QED BY <1>2, <1>3, <1>7, <1>8 DEF outstanding, Acked

LEMMA WaitingTyped ==
  ASSUME NEW k \in ClientState, ~k.connected
  PROVE  Waiting(k) \in ClientState /\ ~Waiting(k).connected
<1>1. CASE Due(k)
  <2>1. Waiting(k) = [k EXCEPT !.connect_time = 0]
    BY <1>1 DEF Waiting
  <2> QED BY <2>1, TimesAreNat DEF ClientState, Off
<1>2. CASE ~Due(k) /\ k.connect_time # Off
  <2>1. Waiting(k) = [k EXCEPT !.connect_time = k.connect_time + 1]
    BY <1>2 DEF Waiting
  <2>2. k.connect_time + 1 \in Off .. ResendTime - 1
    BY <1>2, TimesAreNat DEF Due, ClientState, Off
  <2> QED BY <2>1, <2>2 DEF ClientState
<1>3. CASE k.connect_time = Off
  BY <1>3 DEF Waiting, Due
<1> QED BY <1>1, <1>2, <1>3

LEMMA FreshTyped ==
  /\ FreshClient \in ClientState /\ ~FreshClient.connected
  /\ FreshServer \in ServerState
  BY TimesAreNat, BoundsArePos DEF FreshClient, FreshServer, ClientState, ServerState, Off

(* The client of Connection. *)
StagedClient == [FreshClient EXCEPT !.connected = TRUE, !.staged = TRUE, !.connect_time = 0]

LEMMA StagedTyped ==
  /\ StagedClient \in ClientState
  /\ StagedClient.connected /\ StagedClient.staged /\ ~StagedClient.outstanding
  /\ StagedClient.bit = 0 /\ StagedClient.out = 0
<1> DEFINE k1 == [FreshClient EXCEPT !.connected = TRUE]
           k2 == [k1 EXCEPT !.staged = TRUE]
           k3 == [k2 EXCEPT !.connect_time = 0]
<1>1. k1 \in ClientState /\ k1.connected /\ ~k1.outstanding /\ k1.bit = 0 /\ k1.out = 0
  BY FreshTyped DEF FreshClient, ClientState
<1> HIDE DEF k1
<1>2. /\ k2 \in ClientState /\ k2.connected /\ k2.staged /\ ~k2.outstanding
      /\ k2.bit = 0 /\ k2.out = 0
  BY <1>1 DEF ClientState
<1> HIDE DEF k2
<1>3. /\ k3 \in ClientState /\ k3.connected /\ k3.staged /\ ~k3.outstanding
      /\ k3.bit = 0 /\ k3.out = 0
  BY <1>2, TimesAreNat DEF ClientState, Off
<1>4. StagedClient = k3
  BY DEF StagedClient, k2, k1
<1> HIDE DEF k3
<1> QED BY <1>3, <1>4

LEMMA DroppedTyped ==
  ASSUME NEW s \in ServerState
  PROVE  /\ DroppedSlot(s) \in ServerState
         /\ DroppedSlot(s).in = s.in /\ DroppedSlot(s).bit = s.bit
         /\ DroppedSlot(s).heard = s.heard /\ DroppedSlot(s).state = "cs_zombie"
<1> DEFINE s1 == [s  EXCEPT !.state = "cs_zombie"]
           s2 == [s1 EXCEPT !.age = 0]
           s3 == [s2 EXCEPT !.reply = "disconnect"]
<1>1. s1 \in ServerState
  BY DEF ServerState
<1>2. s2 \in ServerState
  <2> HIDE DEF s1
  <2> QED BY <1>1, TimesAreNat DEF ServerState
<1>3. s3 \in ServerState
  <2> HIDE DEF s2
  <2> QED BY <1>2 DEF ServerState
<1>4. DroppedSlot(s) = s3
  BY DEF DroppedSlot
<1>5. s3.in = s.in /\ s3.bit = s.bit /\ s3.heard = s.heard /\ s3.state = "cs_zombie"
  BY DEF ServerState
<1> HIDE DEF s3
<1> QED BY <1>3, <1>4, <1>5

-----------------------------------------------------------------------------
(* One client in a frame. *)

Held(s) == s.state # "cs_free"

(* What the slot has seen when the frame is over.                          *)
Served(c, how) ==
  IF Accepted(c, how)
  THEN Executed(sv[c], Transmitted(cl[c]), cl[c].out, Carries(cl[c]))
  ELSE sv[c]

LEMMA ServedTyped ==
  ASSUME TypeOK, NEW c \in Clients, NEW how \in Outcome
  PROVE  /\ Served(c, how) \in ServerState
         /\ Served(c, how).state = sv[c].state
         /\ Accepted(c, how) =>
              LET carries == cl[c].staged \/ cl[c].resend IN
              /\ Served(c, how).in = cl[c].out
              /\ Served(c, how).bit = IF carries THEN 1 - sv[c].bit ELSE sv[c].bit
              /\ Served(c, how).heard =
                   (sv[c].heard \/ (carries /\ (cl[c].outstanding \/ cl[c].staged)))
         /\ ~Accepted(c, how) => Served(c, how) = sv[c]
<1>1. cl[c] \in ClientState /\ sv[c] \in ServerState
  BY DEF TypeOK
<1>2. /\ Transmitted(cl[c]) \in ClientState
      /\ Transmitted(cl[c]).outstanding = (cl[c].outstanding \/ cl[c].staged)
  BY <1>1, TransmittedTyped
<1>3. cl[c].out \in 0 .. MaxNumber /\ Carries(cl[c]) \in BOOLEAN
  BY <1>1 DEF ClientState, Carries
<1>4. Carries(cl[c]) = (cl[c].staged \/ cl[c].resend)
  BY DEF Carries
<1>5. CASE Accepted(c, how)
  <2> DEFINE e == Executed(sv[c], Transmitted(cl[c]), cl[c].out, Carries(cl[c]))
  <2>1. Served(c, how) = e
    BY <1>5 DEF Served
  <2>2. /\ e \in ServerState /\ e.state = sv[c].state /\ e.in = cl[c].out
        /\ e.bit = IF Carries(cl[c]) THEN 1 - sv[c].bit ELSE sv[c].bit
        /\ e.heard = (sv[c].heard \/ (Carries(cl[c]) /\ Transmitted(cl[c]).outstanding))
    BY <1>1, <1>2, <1>3, ExecutedTyped
  <2> HIDE DEF e
  <2> QED BY <1>2, <1>4, <1>5, <2>1, <2>2
<1>6. CASE ~Accepted(c, how)
  BY <1>1, <1>6 DEF Served
<1> QED BY <1>5, <1>6

LEMMA ServerStep ==
  ASSUME TypeOK, NEW c \in Clients, NEW how \in Outcome
  PROVE  LET s == Told(c, how, NextServer(c, how)) IN
         /\ s \in ServerState
         /\ Held(s) => Held(sv[c])
         /\ s.in = Served(c, how).in
         /\ s.bit = Served(c, how).bit
         /\ s.heard = Served(c, how).heard
<1> DEFINE idled == [sv[c] EXCEPT !.idle = UpTo(sv[c].idle + 1, SvTimeout + 1)]
           s     == IF Accepted(c, how) THEN Served(c, how) ELSE idled
           n     == NextServer(c, how)
<1>1. sv[c] \in ServerState
  BY DEF TypeOK
<1>2. UpTo(sv[c].idle + 1, SvTimeout + 1) \in 0 .. SvTimeout + 1
  BY <1>1, TimesAreNat DEF UpTo, ServerState
<1>3. /\ idled \in ServerState /\ idled.state = sv[c].state
      /\ idled.in = sv[c].in /\ idled.bit = sv[c].bit /\ idled.heard = sv[c].heard
  BY <1>1, <1>2 DEF ServerState
<1>4. /\ s \in ServerState /\ s.state = sv[c].state
      /\ s.in = Served(c, how).in /\ s.bit = Served(c, how).bit
      /\ s.heard = Served(c, how).heard
  <2> HIDE DEF idled
  <2> QED BY <1>3, ServedTyped
<1>5. s.state = "cs_free" => Served(c, how) = sv[c]
  BY <1>4 DEF Served, Accepted
<1>6. n = CASE s.state = "cs_free" -> sv[c]
            [] s.state = "cs_preconnected" /\ s.idle > SvTimeout ->
                 [DroppedSlot(s) EXCEPT !.state = "cs_free"]
            [] s.state = "cs_zombie" /\ s.age + 1 > ZombieTime -> [s EXCEPT !.state = "cs_free"]
            [] s.state = "cs_zombie" /\ s.age + 1 <= ZombieTime -> [s EXCEPT !.age = s.age + 1]
            [] OTHER -> s
  BY DEF NextServer, Served
<1> HIDE DEF s, n, idled
<1>7. /\ n \in ServerState /\ (Held(n) => Held(sv[c]))
      /\ n.in = Served(c, how).in /\ n.bit = Served(c, how).bit
      /\ n.heard = Served(c, how).heard
  <2>1. CASE s.state = "cs_free"
    BY <2>1, <1>1, <1>4, <1>5, <1>6 DEF Held
  <2>2. CASE s.state = "cs_preconnected" /\ s.idle > SvTimeout
    <3>1. n = [DroppedSlot(s) EXCEPT !.state = "cs_free"]
      BY <2>2, <1>6
    <3>2. /\ DroppedSlot(s) \in ServerState /\ DroppedSlot(s).in = s.in
          /\ DroppedSlot(s).bit = s.bit /\ DroppedSlot(s).heard = s.heard
      BY <1>4, DroppedTyped
    <3>3. n \in ServerState /\ n.state = "cs_free"
      BY <3>1, <3>2 DEF ServerState
    <3>4. n.in = s.in /\ n.bit = s.bit /\ n.heard = s.heard
      BY <3>1, <3>2 DEF ServerState
    <3> QED BY <3>3, <3>4, <1>4 DEF Held
  <2>3. CASE s.state = "cs_zombie" /\ s.age + 1 > ZombieTime
    <3>4. ~(s.age + 1 <= ZombieTime)
      BY <2>3, <1>4, TimesAreNat DEF ServerState
    <3>1. n = [s EXCEPT !.state = "cs_free"]
      BY <2>3, <3>4, <1>6
    <3>2. n \in ServerState /\ n.state = "cs_free"
      BY <3>1, <1>4 DEF ServerState
    <3>3. n.in = s.in /\ n.bit = s.bit /\ n.heard = s.heard
      BY <3>1, <1>4 DEF ServerState
    <3> QED BY <3>2, <3>3, <1>4 DEF Held
  <2>4. CASE s.state = "cs_zombie" /\ s.age + 1 <= ZombieTime
    <3>1. ~(s.age + 1 > ZombieTime)
      BY <2>4, <1>4, TimesAreNat DEF ServerState
    <3>5. n = [s EXCEPT !.age = s.age + 1]
      BY <2>4, <3>1, <1>6
    <3>2. s.age + 1 \in 0 .. ZombieTime
      BY <2>4, <1>4, TimesAreNat DEF ServerState
    <3>3. n \in ServerState /\ n.state = s.state
      BY <3>5, <3>2, <1>4 DEF ServerState
    <3>4. n.in = s.in /\ n.bit = s.bit /\ n.heard = s.heard
      BY <3>5, <1>4 DEF ServerState
    <3> QED BY <3>3, <3>4, <1>4 DEF Held
  <2>5. CASE s.state = "cs_preconnected" /\ ~(s.idle > SvTimeout)
    BY <2>5, <1>4, <1>6 DEF Held
  <2>6. /\ s.state \in {"cs_free", "cs_zombie", "cs_preconnected"}
        /\ s.age + 1 \in Nat
    BY <1>4 DEF ServerState
  <2> QED BY <2>1, <2>2, <2>3, <2>4, <2>5, <2>6, TimesAreNat
<1>8. CASE Heard(c, how)
  <2>1. Told(c, how, n) = [n EXCEPT !.reply = "nothing"]
    BY <1>8 DEF Told
  <2>2. Told(c, how, n) \in ServerState /\ Told(c, how, n).state = n.state
    BY <2>1, <1>7 DEF ServerState
  <2>3. /\ Told(c, how, n).in = n.in /\ Told(c, how, n).bit = n.bit
        /\ Told(c, how, n).heard = n.heard
    BY <2>1, <1>7 DEF ServerState
  <2> QED BY <2>2, <2>3, <1>7 DEF Held, n
<1>9. CASE ~Heard(c, how)
  BY <1>7, <1>9 DEF Told, n
<1> QED BY <1>8, <1>9

LEMMA ClientStep ==
  ASSUME TypeOK, NEW c \in Clients, NEW how \in Outcome
  PROVE  LET k == NextClient(c, how) IN
         /\ k \in ClientState
         /\ (k.connected <=> cl[c].connected /\ ~Leaves(c, how))
         /\ k.connected =>
              LET outstanding == cl[c].outstanding \/ cl[c].staged
                  bit         == IF cl[c].staged THEN 1 - cl[c].bit ELSE cl[c].bit
              IN  /\ k.out > 0 /\ ~k.staged /\ k.bit = bit
                  /\ IF Heard(c, how)
                     THEN k.outstanding <=> outstanding /\ bit # Served(c, how).bit
                     ELSE k.outstanding <=> outstanding
<1> DEFINE k == NextClient(c, how)
           t == Transmitted(cl[c])
           outstanding == cl[c].outstanding \/ cl[c].staged
           bit == IF cl[c].staged THEN 1 - cl[c].bit ELSE cl[c].bit
<1>1. cl[c] \in ClientState /\ cl[c].connected \in BOOLEAN
  BY DEF TypeOK, ClientState
<1>2. /\ t \in ClientState /\ t.connected = cl[c].connected /\ t.idle = cl[c].idle
      /\ ~t.staged /\ t.out > 0 /\ t.outstanding = outstanding /\ t.bit = bit
  BY <1>1, TransmittedTyped
<1> HIDE DEF t, outstanding, bit
<1>3. CASE Leaves(c, how)
  <2>1. k = FreshClient
    BY <1>3 DEF NextClient
  <2> HIDE DEF k
  <2> QED BY <1>3, <2>1, FreshTyped DEF k
<1>4. CASE ~Leaves(c, how) /\ ~cl[c].connected
  <2>1. k = Waiting(cl[c])
    BY <1>4 DEF NextClient
  <2>2. k \in ClientState /\ ~k.connected
    BY <2>1, <1>1, <1>4, WaitingTyped
  <2> HIDE DEF k
  <2> QED BY <1>4, <2>2 DEF k
<1>5. CASE ~Leaves(c, how) /\ cl[c].connected /\ Heard(c, how)
  <2>1. k = Processed(t, Served(c, how))
    BY <1>5 DEF NextClient, Served, Heard, t
  <2>2. Served(c, how) \in ServerState
    BY ServedTyped
  <2>3. /\ k \in ClientState /\ k.connected = t.connected /\ k.staged = t.staged
        /\ k.bit = t.bit /\ k.out = t.out
        /\ k.outstanding = (t.outstanding /\ t.bit # Served(c, how).bit)
    BY <1>2, <2>1, <2>2, ProcessedTyped
  <2> HIDE DEF k
  <2> QED BY <1>1, <1>2, <1>5, <2>3 DEF k, outstanding, bit
<1>6. CASE ~Leaves(c, how) /\ cl[c].connected /\ ~Heard(c, how)
  <2>1. k = [t EXCEPT !.idle = t.idle + 1]
    BY <1>6 DEF NextClient, t
  <2>2. t.idle + 1 \in 0 .. ClTimeout
    BY <1>1, <1>2, <1>6, TimesAreNat DEF Leaves, ClientState
  <2>3. k \in ClientState
    BY <2>1, <2>2, <1>2 DEF ClientState
  <2>4. /\ k.connected = t.connected /\ k.out = t.out /\ k.staged = t.staged
        /\ k.bit = t.bit /\ k.outstanding = t.outstanding
    BY <2>1, <1>2 DEF ClientState
  <2> HIDE DEF k
  <2> QED BY <1>1, <1>2, <1>6, <2>3, <2>4 DEF k, outstanding, bit
<1> QED BY <1>1, <1>3, <1>4, <1>5, <1>6

-----------------------------------------------------------------------------
(* The strengthening of AckedIsRead.  A slot that has seen nothing has bit *)
(* 0; a message that is staged has not left; and unless the channels are   *)
(* torn apart, a slot with bit 1 has executed "new".                       *)
EndsOf(k, s, b, t) ==
  /\ Held(s) /\ s.in = 0 => s.bit = 0
  /\ k.connected =>
       /\ k.out = 0 => b > 0
       /\ k.staged => k.out = 0 /\ k.bit = 0 /\ ~k.outstanding
       /\ ~k.staged => k.bit = 1
       /\ k.staged /\ ~t /\ Held(s) => s.in = 0
       /\ ~t /\ Held(s) /\ s.bit = 1 => s.heard
       /\ ~t /\ ~k.staged /\ ~k.outstanding => s.heard

Ends == \A c \in Clients : EndsOf(cl[c], sv[c], behind[c], torn[c])

LEMMA FrameEnds ==
  ASSUME TypeOK, Ends, NEW how \in [Clients -> Outcome], Frame(how), NEW c \in Clients
  PROVE  EndsOf(cl'[c], sv'[c], behind'[c], torn'[c])
<1> DEFINE h == how[c]
           k == NextClient(c, h)
           s == Told(c, h, NextServer(c, h))
           v == Served(c, h)
<1>1. h \in Outcome
  OBVIOUS
<1>2. /\ cl'[c] = k /\ sv'[c] = s
      /\ torn'[c] = (torn[c] /\ ~Leaves(c, h))
  BY DEF Frame
<1>3. /\ cl[c] \in ClientState /\ sv[c] \in ServerState /\ torn[c] \in BOOLEAN
      /\ EndsOf(cl[c], sv[c], behind[c], torn[c])
  BY DEF TypeOK, Ends
<1>4. /\ s \in ServerState /\ (Held(s) => Held(sv[c]))
      /\ s.in = v.in /\ s.bit = v.bit /\ s.heard = v.heard
  BY <1>1, ServerStep
<1>5. v \in ServerState /\ (~Accepted(c, h) => v = sv[c])
  BY <1>1, ServedTyped
<1>6. Accepted(c, h) =>
        LET carries == cl[c].staged \/ cl[c].resend IN
        /\ v.in = cl[c].out
        /\ v.bit = IF carries THEN 1 - sv[c].bit ELSE sv[c].bit
        /\ v.heard = (sv[c].heard \/ (carries /\ (cl[c].outstanding \/ cl[c].staged)))
  BY <1>1, ServedTyped
<1>7. /\ k \in ClientState
      /\ k.connected <=> cl[c].connected /\ ~Leaves(c, h)
      /\ k.connected =>
           LET outstanding == cl[c].outstanding \/ cl[c].staged
               bit         == IF cl[c].staged THEN 1 - cl[c].bit ELSE cl[c].bit
           IN  /\ k.out > 0 /\ ~k.staged /\ k.bit = bit
               /\ IF Heard(c, h)
                  THEN k.outstanding <=> outstanding /\ bit # v.bit
                  ELSE k.outstanding <=> outstanding
  BY <1>1, ClientStep
<1>8. Accepted(c, h) => cl[c].connected /\ behind[c] = 0 /\ Held(sv[c])
  BY DEF Accepted, Held
<1>9. Heard(c, h) => Accepted(c, h)
  BY DEF Heard
<1> HIDE DEF k, s, v, h
<1>10. Accepted(c, h) => cl[c].out > 0 /\ ~cl[c].staged
  BY <1>3, <1>8 DEF EndsOf, ClientState
<1>11. Held(s) /\ s.in = 0 => s.bit = 0
  <2>1. CASE Accepted(c, h)
    BY <2>1, <1>3, <1>4, <1>6, <1>10 DEF ClientState
  <2>2. CASE ~Accepted(c, h)
    BY <2>2, <1>3, <1>4, <1>5 DEF EndsOf
  <2> QED BY <2>1, <2>2
<1>12. ASSUME k.connected
       PROVE  /\ k.out > 0 /\ ~k.staged /\ k.bit = 1
              /\ ~torn'[c] => ~torn[c]
  BY <1>2, <1>3, <1>7, <1>12 DEF EndsOf
<1>13. ASSUME k.connected, ~torn'[c], Held(s), s.bit = 1
       PROVE  s.heard
  <2>1. Held(sv[c]) /\ v.bit = 1 /\ ~torn[c] /\ cl[c].connected
    BY <1>4, <1>7, <1>12, <1>13
  <2>2. CASE Accepted(c, h)
    <3>1. sv[c].bit \in {0, 1} /\ cl[c].outstanding \in BOOLEAN /\ cl[c].resend \in BOOLEAN
      BY <1>3 DEF ServerState, ClientState
    <3>2. CASE sv[c].bit = 1
      BY <2>1, <2>2, <3>2, <1>3, <1>4, <1>6 DEF EndsOf
    <3>3. CASE sv[c].bit = 0
      <4>1. cl[c].resend
        BY <2>1, <2>2, <3>1, <3>3, <1>6, <1>10
      <4>2. cl[c].outstanding \/ sv[c].heard
        BY <2>1, <2>2, <1>3, <1>10 DEF EndsOf
      <4> QED BY <4>1, <4>2, <2>2, <1>4, <1>6
    <3> QED BY <3>1, <3>2, <3>3
  <2>3. CASE ~Accepted(c, h)
    BY <2>1, <2>3, <1>3, <1>4, <1>5 DEF EndsOf
  <2> QED BY <2>2, <2>3
<1>14. ASSUME k.connected, ~torn'[c], ~k.outstanding
       PROVE  s.heard
  <2>1. ~torn[c] /\ cl[c].connected /\ k.bit = 1
    BY <1>7, <1>12, <1>14
  <2>2. CASE Heard(c, h)
    <3>1. CASE cl[c].outstanding
      <4>1. Accepted(c, h) /\ v.bit = 1 /\ Held(sv[c])
        BY <2>1, <2>2, <3>1, <1>7, <1>8, <1>9, <1>14
      <4>2. CASE sv[c].bit = 1
        BY <4>1, <4>2, <2>1, <1>3, <1>4, <1>6 DEF EndsOf
      <4>3. CASE sv[c].bit # 1
        <5>1. cl[c].resend
          BY <4>1, <4>3, <1>3, <1>6, <1>10 DEF ClientState
        <5> QED BY <5>1, <4>1, <3>1, <1>4, <1>6
      <4> QED BY <4>2, <4>3
    <3>2. CASE ~cl[c].outstanding
      BY <2>1, <2>2, <3>2, <1>3, <1>4, <1>6, <1>9, <1>10 DEF EndsOf
    <3> QED BY <3>1, <3>2
  <2>3. CASE ~Heard(c, h)
    <3>1. ~cl[c].outstanding /\ ~cl[c].staged
      BY <2>3, <1>7, <1>14
    <3>2. sv[c].heard
      BY <3>1, <2>1, <1>3 DEF EndsOf
    <3>3. CASE Accepted(c, h)
      BY <3>2, <3>3, <1>4, <1>6
    <3>4. CASE ~Accepted(c, h)
      BY <3>2, <3>4, <1>4, <1>5
    <3> QED BY <3>3, <3>4
  <2> QED BY <2>2, <2>3
<1> QED BY <1>2, <1>11, <1>12, <1>13, <1>14 DEF EndsOf

-----------------------------------------------------------------------------
(* Every step keeps the types. *)

LEMMA PacketTyped ==
  ASSUME NEW type \in Type, NEW c \in Clients, NEW n \in Nat
  PROVE  Packet(type, c, n) \in Packets
  BY DEF Packet, Packets

LEMMA RenewedTyped ==
  ASSUME TypeOK, NEW adr \in Clients \cup {"nobody"}
  PROVE  Renewed(adr) \in [Entry -> Challenges]
<1>1. [adr |-> adr, challenge |-> issued + 1, age |-> 0] \in Challenges
  BY BoundsArePos DEF TypeOK, Challenges
<1> QED BY <1>1 DEF TypeOK, Renewed

LEMMA AnsweredTyped ==
  ASSUME TypeOK, NEW p \in net \cup late, NEW answers \in SUBSET Packets, Answered(p, answers)
  PROVE  net' \subseteq Packets /\ late' \subseteq Packets
  BY DEF TypeOK, Answered

LEMMA DroppingTyped ==
  ASSUME TypeOK, NEW c \in Clients
  PROVE  Dropping(c) \subseteq Packets
<1>1. cl[c].out \in Nat
  BY BoundsArePos DEF TypeOK, ClientState
<1> QED BY <1>1, PacketTyped DEF Dropping, Type

LEMMA FrameTyped ==
  ASSUME TypeOK, NEW how \in [Clients -> Outcome], Frame(how)
  PROVE  TypeOK'
<1>1. cl' \in [Clients -> ClientState]
  <2>1. \A c \in Clients : NextClient(c, how[c]) \in ClientState
    BY ClientStep
  <2> QED BY <2>1 DEF Frame
<1>2. sv' \in [Clients -> ServerState]
  <2>1. \A c \in Clients : Told(c, how[c], NextServer(c, how[c])) \in ServerState
    BY ServerStep
  <2> QED BY <2>1 DEF Frame
<1>3. behind' \in [Clients -> 0 .. MaxNumber + 1]
  BY BoundsArePos DEF Frame, TypeOK
<1>4. challenges' \in [Entry -> Challenges]
  <2>1. \A i \in Entry : [challenges[i] EXCEPT !.age = Older(challenges[i].age)] \in Challenges
    <3> SUFFICES ASSUME NEW i \in Entry
                 PROVE  [challenges[i] EXCEPT !.age = Older(challenges[i].age)] \in Challenges
      OBVIOUS
    <3>1. challenges[i] \in Challenges
      BY DEF TypeOK
    <3>2. Older(challenges[i].age) \in 0 .. MaxAge
      BY <3>1, BoundsArePos DEF Older, Challenges
    <3> QED BY <3>1, <3>2 DEF Challenges
  <2> QED BY <2>1 DEF Frame
<1>5. net' \subseteq Packets
  <2>1. \A c \in Clients : Packet("getchallenge", c, 0) \in Packets
    BY PacketTyped DEF Type
  <2>2. \A c \in Clients : Dropping(c) \subseteq Packets
    BY DroppingTyped
  <2> QED BY <2>1, <2>2 DEF Frame
<1>6. faults' \in Nat
  <2>1. Bad(how) \subseteq Clients
    BY DEF Bad
  <2>2. IsFiniteSet(Bad(how))
    BY <2>1, ClientsFinite, FS_Subset
  <2>3. Cardinality(Bad(how)) \in Nat
    BY <2>2, FS_CardinalityType
  <2> QED BY <2>3 DEF Frame, TypeOK
<1>7. torn' \in [Clients -> BOOLEAN]
  BY DEF Frame, TypeOK
<1>8. UNCHANGED <<issued, late, strangers, attempts>>
  BY DEF Frame
<1> QED BY <1>1, <1>2, <1>3, <1>4, <1>5, <1>6, <1>7, <1>8 DEF TypeOK

(* What a handler of a packet p does to the ends of its client.            *)
LEMMA ReceiveTyped ==
  ASSUME TypeOK, NEW p \in net \cup late, Receive(p)
  PROVE  TypeOK'
<1>1. /\ p \in Packets /\ p.client \in Clients /\ p.n \in Nat
  BY DEF TypeOK, Packets
<1>2. {} \in SUBSET Packets
  OBVIOUS
<1>3. CASE GetChallenge(p)
  <2>1. challenges' \in [Entry -> Challenges] /\ issued' \in Nat
    BY <1>1, <1>3, RenewedTyped DEF GetChallenge, TypeOK
  <2>2. PICK i \in Entry : Answered(p, {Packet("challenge", p.client, challenges'[i].challenge)})
    BY <1>3 DEF GetChallenge
  <2>3. challenges'[i].challenge \in Nat
    BY <2>1 DEF Challenges
  <2>4. {Packet("challenge", p.client, challenges'[i].challenge)} \in SUBSET Packets
    BY <1>1, <2>3, PacketTyped DEF Type
  <2>5. net' \subseteq Packets /\ late' \subseteq Packets
    BY <2>2, <2>4, AnsweredTyped
  <2> QED BY <1>3, <2>1, <2>5 DEF GetChallenge, TypeOK
<1>4. CASE Challenge(p)
  <2>1. {Packet("connect", p.client, p.n)} \in SUBSET Packets
    BY <1>1, PacketTyped DEF Type
  <2>2. net' \subseteq Packets /\ late' \subseteq Packets
    BY <1>2, <1>4, <2>1, AnsweredTyped DEF Challenge, Taken
  <2>3. [cl[p.client] EXCEPT !.connect_time = 0] \in ClientState
    <3>1. cl[p.client] \in ClientState /\ 0 \in Nat
      BY <1>1 DEF TypeOK
    <3> QED BY <3>1, TimesAreNat DEF ClientState, Off
  <2>4. cl' \in [Clients -> ClientState]
    BY <1>4, <2>3 DEF Challenge, TypeOK
  <2> QED BY <1>4, <2>2, <2>4 DEF Challenge, TypeOK
<1>5. CASE DirectConnect(p)
  <2>1. {Packet("connection", p.client, 0)} \in SUBSET Packets
    BY <1>1, PacketTyped DEF Type
  <2>2. net' \subseteq Packets /\ late' \subseteq Packets
    BY <1>2, <1>5, <2>1, AnsweredTyped DEF DirectConnect, Taken
  <2>3. Setup(p.client) \in ServerState
    BY FreshTyped DEF Setup, ServerState
  <2>4. sv' \in [Clients -> ServerState]
    BY <1>5, <2>3 DEF DirectConnect, TypeOK
  <2>5. behind' \in [Clients -> 0 .. MaxNumber + 1]
    BY <1>1, <1>5, BoundsArePos DEF DirectConnect, TypeOK
  <2>6. torn' \in [Clients -> BOOLEAN]
    BY <1>1, <1>5 DEF DirectConnect, TypeOK
  <2>7. UNCHANGED <<cl, challenges, issued, strangers, attempts, faults>>
    BY <1>5 DEF DirectConnect
  <2> QED BY <2>2, <2>4, <2>5, <2>6, <2>7 DEF TypeOK
<1>6. CASE Connection(p)
  <2>1. net' \subseteq Packets /\ late' \subseteq Packets
    BY <1>2, <1>6, AnsweredTyped DEF Connection, Taken
  <2>2. StagedClient \in ClientState
    BY StagedTyped
  <2>3. cl' \in [Clients -> ClientState]
    BY <1>6, <2>2 DEF Connection, TypeOK, StagedClient
  <2>4. sv[p.client].in + 1 \in 0 .. MaxNumber + 1
    BY <1>1, BoundsArePos DEF TypeOK, ServerState
  <2>5. behind' \in [Clients -> 0 .. MaxNumber + 1] /\ torn' \in [Clients -> BOOLEAN]
    BY <1>6, <2>4 DEF Connection, TypeOK
  <2> QED BY <1>6, <2>1, <2>3, <2>5 DEF Connection, TypeOK
<1>7. CASE Drop(p)
  <2>1. net' \subseteq Packets /\ late' \subseteq Packets
    BY <1>2, <1>7, AnsweredTyped DEF Drop, Taken
  <2>2. DroppedSlot(sv[p.client]) \in ServerState
    BY <1>1, DroppedTyped DEF TypeOK
  <2>3. sv' \in [Clients -> ServerState]
    BY <1>7, <2>2 DEF Drop, TypeOK
  <2> QED BY <1>7, <2>1, <2>3 DEF Drop, TypeOK
<1> QED BY <1>3, <1>4, <1>5, <1>6, <1>7 DEF Receive

LEMMA NextTyped ==
  ASSUME TypeOK, [Next]_vars
  PROVE  TypeOK'
<1>1. ASSUME NEW c \in Clients, Connect(c) PROVE TypeOK'
  <2>1. [cl[c] EXCEPT !.connect_time = 0] \in ClientState
    BY TimesAreNat DEF TypeOK, ClientState, Off
  <2>2. cl' \in [Clients -> ClientState]
    BY <1>1, <2>1 DEF Connect, TypeOK
  <2>3. net' \subseteq Packets
    BY <1>1, PacketTyped DEF Connect, TypeOK, Type
  <2>4. attempts' \in [Clients -> Nat]
    BY <1>1 DEF Connect, TypeOK
  <2> QED BY <1>1, <2>2, <2>3, <2>4 DEF Connect, TypeOK
<1>2. ASSUME NEW c \in Clients, Disconnect(c) PROVE TypeOK'
  <2>1. cl' \in [Clients -> ClientState]
    BY <1>2, FreshTyped DEF Disconnect, TypeOK
  <2>2. net' \subseteq Packets
    BY <1>2, DroppingTyped DEF Disconnect, TypeOK
  <2> QED BY <1>2, <2>1, <2>2 DEF Disconnect, TypeOK
<1>3. CASE Stranger
  BY <1>3, RenewedTyped DEF Stranger, TypeOK
<1>4. ASSUME NEW p \in net \cup late, Receive(p) PROVE TypeOK'
  BY <1>4, ReceiveTyped
<1>5. ASSUME NEW p \in net, Delay(p) PROVE TypeOK'
  BY <1>5 DEF Delay, TypeOK
<1>6. ASSUME NEW how \in [Clients -> Outcome], Frame(how) PROVE TypeOK'
  BY <1>6, FrameTyped
<1>7. CASE UNCHANGED vars
  BY <1>7 DEF vars, TypeOK
<1> QED BY <1>1, <1>2, <1>3, <1>4, <1>5, <1>6, <1>7 DEF Next

(* The model's variables keep their types.                                 *)
THEOREM HandshakeTypeCorrect == Spec => []TypeOK
<1>1. Init => TypeOK
  BY FreshTyped, BoundsArePos DEF Init, TypeOK, Challenges
<1>2. TypeOK /\ [Next]_vars => TypeOK'
  BY NextTyped
<1> QED BY <1>1, <1>2, PTL DEF Spec

-----------------------------------------------------------------------------
(* Every step keeps the two ends together. *)

LEMMA ReceiveEnds ==
  ASSUME TypeOK, Ends, NEW p \in net \cup late, Receive(p), NEW d \in Clients
  PROVE  EndsOf(cl'[d], sv'[d], behind'[d], torn'[d])
<1>1. p.client \in Clients
  BY DEF TypeOK, Packets
<1>2. EndsOf(cl[d], sv[d], behind[d], torn[d])
  BY DEF Ends
<1>3. cl[d] \in ClientState /\ sv[d] \in ServerState
  BY DEF TypeOK
<1>4. CASE GetChallenge(p)
  BY <1>2, <1>4 DEF GetChallenge
<1>5. CASE Challenge(p)
  <2>1. CASE d = p.client /\ cl' # cl
    <3>1. cl'[d] = [cl[d] EXCEPT !.connect_time = 0] /\ ~cl[d].connected
      BY <1>5, <2>1 DEF Challenge, TypeOK
    <3>2. ~cl'[d].connected
      BY <1>3, <3>1 DEF ClientState
    <3> QED BY <1>2, <1>5, <3>2 DEF Challenge, EndsOf
  <2>2. CASE ~(d = p.client /\ cl' # cl)
    <3>1. cl'[d] = cl[d]
      BY <1>5, <2>2 DEF Challenge, TypeOK
    <3> QED BY <1>2, <1>5, <3>1 DEF Challenge
  <2> QED BY <2>1, <2>2
<1>6. CASE DirectConnect(p)
  <2>1. CASE d = p.client /\ Valid(p)
    <3>1. /\ cl' = cl /\ sv'[d] = Setup(d)
          /\ behind'[d] = IF cl[d].out = 0 THEN 1 ELSE 0
          /\ torn'[d] = (cl[d].connected /\ ~cl[d].staged /\ ~cl[d].outstanding)
      BY <1>6, <2>1 DEF DirectConnect, TypeOK
    <3>2. Setup(d).in = 0 /\ Setup(d).bit = 0
      BY DEF Setup, FreshServer
    <3> QED BY <1>2, <1>3, <3>1, <3>2 DEF EndsOf, ClientState
  <2>2. CASE ~(d = p.client /\ Valid(p))
    <3>1. /\ cl' = cl /\ sv'[d] = sv[d] /\ behind'[d] = behind[d] /\ torn'[d] = torn[d]
      BY <1>6, <2>2 DEF DirectConnect, TypeOK
    <3> QED BY <1>2, <3>1
  <2> QED BY <2>1, <2>2
<1>7. CASE Connection(p)
  <2>1. CASE d = p.client /\ ~(cl[d].connected \/ cl[d].connect_time = Off)
    <3>4. /\ cl' = [cl EXCEPT ![d] = StagedClient] /\ sv' = sv
          /\ behind' = [behind EXCEPT ![d] = sv[d].in + 1]
          /\ torn' = [torn EXCEPT ![d] = sv[d].state # "cs_free" /\ sv[d].in > 0]
      BY <1>7, <2>1, Zenon DEF Connection, StagedClient
    <3>1. /\ cl'[d] = StagedClient /\ sv' = sv
          /\ behind'[d] = sv[d].in + 1
          /\ torn'[d] <=> Held(sv[d]) /\ sv[d].in > 0
      BY <3>4 DEF TypeOK, Held
    <3>2. sv[d].in \in Nat /\ sv[d].bit \in {0, 1}
      BY <1>3, BoundsArePos DEF ServerState
    <3>3. Held(sv'[d]) /\ sv'[d].in = 0 => sv'[d].bit = 0
      BY <1>2, <3>1 DEF EndsOf
    <3>5. behind'[d] > 0
      BY <3>1, <3>2
    <3>6. ~torn'[d] /\ Held(sv'[d]) => sv'[d].in = 0
      BY <3>1, <3>2
    <3> QED BY <3>1, <3>3, <3>5, <3>6, StagedTyped DEF EndsOf
  <2>2. CASE ~(d = p.client /\ ~(cl[d].connected \/ cl[d].connect_time = Off))
    <3>1. /\ cl'[d] = cl[d] /\ sv' = sv /\ behind'[d] = behind[d] /\ torn'[d] = torn[d]
      BY <1>7, <2>2 DEF Connection, TypeOK
    <3> QED BY <1>2, <3>1
  <2> QED BY <2>1, <2>2
<1>8. CASE Drop(p)
  <2>1. sv'[d] = sv[d] \/ (sv'[d] = DroppedSlot(sv[d]) /\ sv[d].state = "cs_preconnected")
    BY <1>8 DEF Drop, TypeOK
  <2>2. CASE sv'[d] = sv[d]
    BY <1>2, <1>8, <2>2 DEF Drop
  <2>3. CASE sv'[d] = DroppedSlot(sv[d]) /\ sv[d].state = "cs_preconnected"
    <3>1. /\ sv'[d].in = sv[d].in /\ sv'[d].bit = sv[d].bit /\ sv'[d].heard = sv[d].heard
          /\ Held(sv[d])
      BY <1>3, <2>3, DroppedTyped DEF Held
    <3> QED BY <1>2, <1>8, <3>1 DEF Drop, EndsOf
  <2> QED BY <2>1, <2>2, <2>3
<1> QED BY <1>4, <1>5, <1>6, <1>7, <1>8 DEF Receive

LEMMA NextEnds ==
  ASSUME TypeOK, Ends, [Next]_vars
  PROVE  Ends'
<1> SUFFICES ASSUME NEW d \in Clients
             PROVE  EndsOf(cl'[d], sv'[d], behind'[d], torn'[d])
  BY DEF Ends
<1>1. EndsOf(cl[d], sv[d], behind[d], torn[d])
  BY DEF Ends
<1>2. cl[d] \in ClientState
  BY DEF TypeOK
<1>3. ASSUME NEW c \in Clients, Connect(c)
      PROVE  EndsOf(cl'[d], sv'[d], behind'[d], torn'[d])
  <2>1. CASE c = d
    <3>1. cl'[d] = [cl[d] EXCEPT !.connect_time = 0] /\ ~cl[d].connected
      BY <1>3, <2>1 DEF Connect, TypeOK
    <3>2. ~cl'[d].connected
      BY <1>2, <3>1 DEF ClientState
    <3> QED BY <1>1, <1>3, <3>2 DEF Connect, EndsOf
  <2>2. CASE c # d
    <3>1. cl'[d] = cl[d]
      BY <1>3, <2>2 DEF Connect, TypeOK
    <3> QED BY <1>1, <1>3, <3>1 DEF Connect
  <2> QED BY <2>1, <2>2
<1>4. ASSUME NEW c \in Clients, Disconnect(c)
      PROVE  EndsOf(cl'[d], sv'[d], behind'[d], torn'[d])
  <2>1. CASE c = d
    <3>1. ~cl'[d].connected
      BY <1>4, <2>1, FreshTyped DEF Disconnect, TypeOK
    <3> QED BY <1>1, <1>4, <3>1 DEF Disconnect, EndsOf
  <2>2. CASE c # d
    <3>1. cl'[d] = cl[d] /\ torn'[d] = torn[d]
      BY <1>4, <2>2 DEF Disconnect, TypeOK
    <3> QED BY <1>1, <1>4, <3>1 DEF Disconnect
  <2> QED BY <2>1, <2>2
<1>5. CASE Stranger
  BY <1>1, <1>5 DEF Stranger
<1>6. ASSUME NEW p \in net \cup late, Receive(p)
      PROVE  EndsOf(cl'[d], sv'[d], behind'[d], torn'[d])
  BY <1>6, ReceiveEnds
<1>7. ASSUME NEW p \in net, Delay(p)
      PROVE  EndsOf(cl'[d], sv'[d], behind'[d], torn'[d])
  BY <1>1, <1>7 DEF Delay
<1>8. ASSUME NEW how \in [Clients -> Outcome], Frame(how)
      PROVE  EndsOf(cl'[d], sv'[d], behind'[d], torn'[d])
  BY <1>8, FrameEnds
<1>9. CASE UNCHANGED vars
  BY <1>1, <1>9 DEF vars
<1> QED BY <1>3, <1>4, <1>5, <1>6, <1>7, <1>8, <1>9 DEF Next

(* "new" is freed only if the server executed it on the channel it has,    *)
(* unless a repeated connect or a late connection has torn the channels    *)
(* apart.                                                                  *)
THEOREM AckedMeansRead == Spec => []AckedIsRead
<1>1. Init => Ends
  BY FreshTyped DEF Init, Ends, EndsOf, Held, FreshServer
<1>2. TypeOK /\ Ends /\ [Next]_vars => Ends'
  BY NextEnds
<1>3. Ends => AckedIsRead
  BY DEF Ends, EndsOf, AckedIsRead
<1> QED BY <1>1, <1>2, <1>3, HandshakeTypeCorrect, PTL DEF Spec

-----------------------------------------------------------------------------
(* A new entry is made for an address that has none, so that no address    *)
(* gets a second one.                                                      *)
LEMMA NextOneEntry ==
  ASSUME TypeOK, OneEntry, [Next]_vars
  PROVE  OneEntry'
<1>1. ASSUME NEW adr \in Clients \cup {"nobody"}, challenges' = Renewed(adr),
             adr \in Clients => Known(adr) = {}
      PROVE  OneEntry'
  <2> SUFFICES ASSUME NEW i \in Entry, NEW j \in Entry, challenges'[i].adr \in Clients,
                      challenges'[i].adr = challenges'[j].adr
               PROVE  i = j
    BY DEF OneEntry
  <2>1. \A n \in Entry : \/ challenges'[n] = challenges[n]
                         \/ n = Oldest /\ challenges'[n].adr = adr
    BY <1>1 DEF Renewed, TypeOK
  <2>2. adr \in Clients => \A n \in Entry : challenges[n].adr # adr
    BY <1>1 DEF Known
  <2> QED BY <2>1, <2>2 DEF OneEntry
<1>2. ASSUME \A n \in Entry : challenges'[n].adr = challenges[n].adr
      PROVE  OneEntry'
  BY <1>2 DEF OneEntry
<1>3. ASSUME NEW p \in net \cup late, Receive(p) PROVE OneEntry'
  <2>1. p.client \in Clients
    BY DEF TypeOK, Packets
  <2>2. CASE GetChallenge(p) /\ Known(p.client) = {}
    BY <1>1, <2>1, <2>2 DEF GetChallenge
  <2>3. CASE ~(GetChallenge(p) /\ Known(p.client) = {})
    <3>1. challenges' = challenges
      BY <1>3, <2>3 DEF Receive, GetChallenge, Challenge, DirectConnect, Connection, Drop
    <3> QED BY <1>2, <3>1
  <2> QED BY <2>2, <2>3
<1>4. CASE Stranger
  BY <1>1, <1>4, NobodyIsClient DEF Stranger
<1>5. ASSUME NEW how \in [Clients -> Outcome], Frame(how) PROVE OneEntry'
  <2>1. \A n \in Entry : challenges'[n].adr = challenges[n].adr
    BY <1>5 DEF Frame, TypeOK, Challenges
  <2> QED BY <1>2, <2>1
<1>6. CASE \/ \E c \in Clients : Connect(c) \/ Disconnect(c)
           \/ \E p \in net : Delay(p)
           \/ UNCHANGED vars
  <2>1. challenges' = challenges
    BY <1>6 DEF Connect, Disconnect, Delay, vars
  <2> QED BY <1>2, <2>1
<1> QED BY <1>3, <1>4, <1>5, <1>6 DEF Next

(* An address has one challenge at most, however the table goes round.     *)
THEOREM OneEntryEach == Spec => []OneEntry
<1>1. Init => OneEntry
  BY NobodyIsClient DEF Init, OneEntry
<1>2. TypeOK /\ OneEntry /\ [Next]_vars => OneEntry'
  BY NextOneEntry
<1> QED BY <1>1, <1>2, HandshakeTypeCorrect, PTL DEF Spec
=============================================================================
