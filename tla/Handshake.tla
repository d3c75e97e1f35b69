------------------------------ MODULE Handshake ------------------------------
(***************************************************************************)
(* How a client gets into a game: getchallenge, challenge, connect,        *)
(* connection (packets outside the channel: nothing repeats or orders      *)
(* them), and then the first reliable message of the new channel, "new",   *)
(* which the server answers with svc_serverdata.                           *)
(*                                                                         *)
(* Clients have one address each.  Numbers and bits of the channel are     *)
(* those of net_chan.c, as far as the first message needs them.  A packet  *)
(* comes at once (net), or any time later or never (late); time is counted *)
(* in frames, in each of which a client that is connected sends one packet *)
(* of the channel.                                                         *)
(***************************************************************************)
EXTENDS Integers, FiniteSets

CONSTANTS
  Clients,
  MaxChallenges,  \* MAX_CHALLENGES
  ResendTime,     \* 5 in CL_CheckForResend
  ClTimeout,      \* the cvar cl_timeout
  SvTimeout,      \* the cvar timeout
  ZombieTime,     \* the cvar zombietime
  MaxAge,         \* bound on the age of a challenge
  MaxNumber,      \* bound on packet numbers
  MaxStrangers,   \* bound on other addresses that ask for a challenge
  MaxAttempts,    \* bound on attempts of a client to connect
  MaxFaults       \* bound on packets lost, delayed or repeated

Entry == 0 .. MaxChallenges - 1
Off   == -1       \* connect_time = 0

ASSUME TimesArePos    == {ResendTime, ClTimeout, SvTimeout, ZombieTime} \subseteq Nat \ {0}
ASSUME TableIsThere   == MaxChallenges \in Nat \ {0}
ASSUME BoundsArePos   == {MaxAge, MaxNumber} \subseteq Nat \ {0}
ASSUME ClientsFinite  == IsFiniteSet(Clients)
ASSUME NobodyIsClient == "nobody" \notin Clients

VARIABLES
  cl,          \* the client: cls.state, connect_time, its channel
  sv,          \* the slot of the client and the channel of the slot
  behind,      \* packets the client sends before their numbers are above the server's
  challenges,  \* svs.challenges
  issued,      \* challenges made so far, the random numbers
  net,         \* packets outside the channel that come before the next frame
  late,        \* and those that come any time, or never
  strangers, attempts, faults,   \* history: how often that happened
  torn         \* history: the channels of the two ends were not set up for each other

vars == <<cl, sv, behind, challenges, issued, net, late, strangers, attempts, faults, torn>>

(* Netchan_Setup at the client, which writes "new": the message is staged, *)
(* then outstanding; since counts the packets after the one that carried   *)
(* it, and resend tells that the server has answered one without it.       *)
FreshClient == [connected |-> FALSE, connect_time |-> Off,
                staged |-> FALSE, outstanding |-> FALSE, bit |-> 0, since |-> 0,
                resend |-> FALSE, out |-> 0, idle |-> 0, told |-> FALSE]

(* Netchan_Setup at the server.  heard is history: "new" was executed.     *)
FreshServer == [state |-> "cs_free", in |-> 0, bit |-> 0, idle |-> 0, age |-> 0,
                reply |-> "nothing", heard |-> FALSE]

Init ==
  /\ cl = [c \in Clients |-> FreshClient]
  /\ sv = [c \in Clients |-> FreshServer]
  /\ behind = [c \in Clients |-> 1]
  /\ challenges = [i \in Entry |-> [adr |-> "nobody", challenge |-> 0, age |-> MaxAge]]
  /\ issued = 0
  /\ net = {} /\ late = {}
  /\ strangers = 0 /\ faults = 0
  /\ attempts = [c \in Clients |-> 0]
  /\ torn = [c \in Clients |-> FALSE]

UpTo(n, bound) == IF n < bound THEN n ELSE bound

Packet(type, c, n) == [type |-> type, client |-> c, n |-> n]

-----------------------------------------------------------------------------
(* The client's user. *)

(* CL_BeginServerConnect: CL_CheckForResend fires at once.                 *)
Connect(c) ==
  /\ attempts[c] < MaxAttempts
  /\ ~cl[c].connected /\ cl[c].connect_time = Off
  /\ attempts' = [attempts EXCEPT ![c] = @ + 1]
  /\ cl' = [cl EXCEPT ![c].connect_time = 0]
  /\ net' = net \cup {Packet("getchallenge", c, 0)}
  /\ UNCHANGED <<sv, behind, challenges, issued, late, strangers, faults, torn>>

(* CL_Disconnect: "drop" is sent three times, one after the other.         *)
Dropping(c) == IF cl[c].connected THEN {Packet("drop", c, cl[c].out)} ELSE {}

Disconnect(c) ==
  /\ cl[c].connected \/ cl[c].connect_time # Off
  /\ net' = net \cup Dropping(c)
  /\ cl' = [cl EXCEPT ![c] = FreshClient]
  /\ torn' = [torn EXCEPT ![c] = FALSE]
  /\ UNCHANGED <<sv, behind, challenges, issued, late, strangers, attempts, faults>>

-----------------------------------------------------------------------------
(* Packets outside the channel.  A handler takes the packet p.             *)

Answered(p, answers) ==
  \/ p \in net  /\ net' = (net \ {p}) \cup answers /\ UNCHANGED late
  \/ p \in late /\ net' = net \cup answers /\ late' = late \ {p}

Taken(p) == Answered(p, {})

(* SVC_GetChallenge: the entry of the address, as it is, or a new one in   *)
(* place of the first of the oldest.  Variants named ...Bug are the        *)
(* definition after them with a slip in it.                                *)
KnownBug(adr) == {i \in Entry : i < MaxChallenges - 1 /\ challenges[i].adr = adr}
Known(adr) == {i \in Entry : challenges[i].adr = adr}

Oldest == CHOOSE i \in Entry : \A j \in Entry :
            \/ challenges[i].age > challenges[j].age
            \/ challenges[i].age = challenges[j].age /\ i <= j

Renewed(adr) ==
  [challenges EXCEPT ![Oldest] = [adr |-> adr, challenge |-> issued + 1, age |-> 0]]

GetChallenge(p) ==
  /\ p.type = "getchallenge"
  /\ IF Known(p.client) = {}
     THEN /\ challenges' = Renewed(p.client)
          /\ issued' = issued + 1
     ELSE UNCHANGED <<challenges, issued>>
  /\ \E i \in Entry :
       /\ challenges'[i].adr = p.client
       /\ Answered(p, {Packet("challenge", p.client, challenges'[i].challenge)})
  /\ UNCHANGED <<cl, sv, behind, strangers, attempts, faults, torn>>

Stranger ==
  /\ strangers < MaxStrangers
  /\ strangers' = strangers + 1
  /\ challenges' = Renewed("nobody")
  /\ issued' = issued + 1
  /\ UNCHANGED <<cl, sv, behind, net, late, attempts, faults, torn>>

(* S2C_CHALLENGE and CL_SendConnectPacket.  An address that is not being   *)
(* connected to is rejected.                                               *)
Challenge(p) ==
  /\ p.type = "challenge"
  /\ IF cl[p.client].connected \/ cl[p.client].connect_time = Off
     THEN Taken(p) /\ UNCHANGED cl
     ELSE /\ Answered(p, {Packet("connect", p.client, p.n)})
          /\ cl' = [cl EXCEPT ![p.client].connect_time = 0]
  /\ UNCHANGED <<sv, behind, challenges, issued, strangers, attempts, faults, torn>>

(* CheckChallange: the first entry of the address decides.                 *)
Valid(p) == \E i \in Known(p.client) : challenges[i].challenge = p.n

(* Netchan_Setup at the server, for a client that may have sent packets.   *)
SetupBug(c) == [FreshServer EXCEPT !.state = "cs_preconnected", !.bit = sv[c].bit]
Setup(c) == [FreshServer EXCEPT !.state = "cs_preconnected"]

(* SVC_DirectConnect: CheckReConnect frees the slot the client has.        *)
DirectConnect(p) ==
  LET c == p.client IN
  /\ p.type = "connect"
  /\ IF Valid(p)
     THEN /\ sv' = [sv EXCEPT ![c] = Setup(c)]
          /\ behind' = [behind EXCEPT ![c] = IF cl[c].out = 0 THEN 1 ELSE 0]
          /\ torn' = [torn EXCEPT ![c] = /\ cl[c].connected
                                         /\ ~cl[c].staged /\ ~cl[c].outstanding]
          /\ Answered(p, {Packet("connection", c, 0)})
     ELSE Taken(p) /\ UNCHANGED <<sv, behind, torn>>
  /\ UNCHANGED <<cl, challenges, issued, strangers, attempts, faults>>

(* S2C_CONNECTION: "Dup connect received.  Ignored."                       *)
Connection(p) ==
  LET c == p.client IN
  /\ p.type = "connection"
  /\ Taken(p)
  /\ IF cl[c].connected \/ cl[c].connect_time = Off
     THEN UNCHANGED <<cl, behind, torn>>
     ELSE /\ cl' = [cl EXCEPT ![c] = [FreshClient EXCEPT
                       !.connected = TRUE, !.staged = TRUE, !.connect_time = 0]]
          /\ behind' = [behind EXCEPT ![c] = sv[c].in + 1]
          /\ torn' = [torn EXCEPT ![c] = sv[c].state # "cs_free" /\ sv[c].in > 0]
  /\ UNCHANGED <<sv, challenges, issued, strangers, attempts, faults>>

(* SV_DropClient; what still waits to be sent comes before svc_disconnect, *)
(* which makes no difference to the client.                                *)
DroppedSlot(s) == [s EXCEPT !.state = "cs_zombie", !.age = 0, !.reply = "disconnect"]

(* A "drop" of this connection or of an earlier one, which the channel     *)
(* takes if its number is above those it has seen; MaxNumber stands for    *)
(* any number from there on.                                               *)
Drop(p) ==
  LET c == p.client IN
  /\ p.type = "drop"
  /\ Taken(p)
  /\ sv' = [sv EXCEPT ![c] = IF @.state = "cs_preconnected" /\ (p.n > @.in \/ p.n = MaxNumber)
                             THEN DroppedSlot(@) ELSE @]
  /\ UNCHANGED <<cl, behind, challenges, issued, strangers, attempts, faults, torn>>

Receive(p) ==
  \/ GetChallenge(p)
  \/ Challenge(p)
  \/ DirectConnect(p)
  \/ Connection(p)
  \/ Drop(p)

(* The network: a packet does not come in time, or comes again.            *)
Delay(p) ==
  /\ faults < MaxFaults
  /\ faults' = faults + 1
  /\ late' = late \cup {p}
  /\ net' \in {net, net \ {p}}
  /\ UNCHANGED <<cl, sv, behind, challenges, issued, strangers, attempts, torn>>

-----------------------------------------------------------------------------
(* A frame.  What becomes of the client's packet of the channel and of the *)
(* server's answer: "both" get through, the packet only, or not even that. *)
Outcome == {"both", "up", "lost"}

(* CL_CheckForResend, in a frame of a client that is not connected.        *)
DueBug(k) == ~k.connected /\ k.connect_time # Off /\ k.connect_time >= ResendTime
Due(k) == ~k.connected /\ k.connect_time # Off /\ k.connect_time + 1 >= ResendTime

Waiting(k) == IF Due(k) THEN [k EXCEPT !.connect_time = 0]
              ELSE IF k.connect_time # Off THEN [k EXCEPT !.connect_time = @ + 1]
              ELSE k

(* Netchan_Transmit at the client: a message that is staged goes out, the  *)
(* one before it goes out again, or whatever is in the buffer once more.   *)
CarriesBug(k) == k.staged
Carries(k) == k.staged \/ k.resend

Transmitted(k) ==
  [k EXCEPT !.bit = IF k.staged THEN 1 - @ ELSE @,
            !.outstanding = @ \/ k.staged,
            !.staged = FALSE,
            !.resend = FALSE,
            !.since = IF Carries(k) THEN 0 ELSE UpTo(@ + 1, 2),
            !.out = UpTo(@ + 1, MaxNumber)]

(* The packet finds the slot of its address, and is not older than what    *)
(* the slot has seen.                                                      *)
Accepted(c, how) == cl[c].connected /\ how # "lost" /\ sv[c].state # "cs_free" /\ behind[c] = 0

(* Netchan_Process at the server and Cmd_New_f; k is the client now.       *)
Executed(s, k, number, carries) ==
  LET new == carries /\ k.outstanding IN
  [s EXCEPT !.in = number,
            !.bit = IF carries THEN 1 - @ ELSE @,
            !.idle = 0,
            !.heard = @ \/ new,
            !.reply = IF new /\ @ = "nothing" THEN "serverdata" ELSE @]

(* Netchan_Process at the client, of an answer of the slot s: the buffer   *)
(* is freed if the bits agree; if not, and if the answer is to a packet    *)
(* behind the one that carried the message, it is sent again.              *)
Acked(k, s) == k.bit = s.bit

Processed(k, s) ==
  [k EXCEPT !.outstanding = @ /\ ~Acked(k, s),
            !.resend = ~Acked(k, s) /\ k.since >= 2,
            !.idle = 0,
            !.told = @ \/ s.reply = "serverdata"]

(* A client at the end of the frame: told to disconnect, timed out, or     *)
(* neither.                                                                *)
Heard(c, how) == Accepted(c, how) /\ how = "both"

NextServer(c, how) ==
  LET s == IF Accepted(c, how)
           THEN Executed(sv[c], Transmitted(cl[c]), cl[c].out, Carries(cl[c]))
           ELSE [sv[c] EXCEPT !.idle = UpTo(@ + 1, SvTimeout + 1)]
  IN  CASE s.state = "cs_free" -> sv[c]
        [] s.state = "cs_preconnected" /\ s.idle > SvTimeout ->
             [DroppedSlot(s) EXCEPT !.state = "cs_free"]
        [] s.state = "cs_zombie" /\ s.age + 1 > ZombieTime -> [s EXCEPT !.state = "cs_free"]
        [] s.state = "cs_zombie" /\ s.age + 1 <= ZombieTime -> [s EXCEPT !.age = @ + 1]
        [] OTHER -> s

Leaves(c, how) ==
  /\ cl[c].connected
  /\ IF Heard(c, how) THEN sv[c].reply = "disconnect" ELSE cl[c].idle + 1 > ClTimeout

NextClient(c, how) ==
  IF Leaves(c, how) THEN FreshClient
  ELSE IF ~cl[c].connected THEN Waiting(cl[c])
  ELSE IF Heard(c, how)
  THEN Processed(Transmitted(cl[c]), Executed(sv[c], Transmitted(cl[c]), cl[c].out, Carries(cl[c])))
  ELSE [Transmitted(cl[c]) EXCEPT !.idle = @ + 1]

(* What the server's answer carried need not be sent again.                *)
Told(c, how, s) == IF Heard(c, how) THEN [s EXCEPT !.reply = "nothing"] ELSE s

(* An entry never used is older than any other.                            *)
Older(age) == IF age < MaxAge - 1 THEN age + 1 ELSE age

Bad(how) == {c \in Clients : cl[c].connected /\ how[c] # "both"}

Frame(how) ==
  /\ net = {}
  /\ faults' = faults + Cardinality(Bad(how))
  /\ faults' <= MaxFaults
  /\ cl' = [c \in Clients |-> NextClient(c, how[c])]
  /\ sv' = [c \in Clients |-> Told(c, how[c], NextServer(c, how[c]))]
  /\ behind' = [c \in Clients |-> IF cl[c].connected /\ behind[c] > 0 THEN behind[c] - 1
                                   ELSE behind[c]]
  /\ net' = {Packet("getchallenge", c, 0) : c \in {d \in Clients : Due(cl[d])}}
             \cup UNION {Dropping(c) : c \in {d \in Clients : Leaves(d, how[d])}}
  /\ challenges' = [i \in Entry |-> [challenges[i] EXCEPT !.age = Older(@)]]
  /\ torn' = [c \in Clients |-> torn[c] /\ ~Leaves(c, how[c])]
  /\ UNCHANGED <<issued, late, strangers, attempts>>

Next ==
  \/ \E c \in Clients : Connect(c)
  \/ \E c \in Clients : Disconnect(c)
  \/ Stranger
  \/ \E p \in net \cup late : Receive(p)
  \/ \E p \in net : Delay(p)
  \/ \E how \in [Clients -> Outcome] : Frame(how)

Spec == Init /\ [][Next]_vars

(* Frames run at both ends, and what comes in time comes.                  *)
FairSpec ==
  /\ Spec
  /\ WF_vars(\E how \in [Clients -> Outcome] : Frame(how))
  /\ WF_vars(\E p \in net : Receive(p))

-----------------------------------------------------------------------------
Type == {"getchallenge", "challenge", "connect", "connection", "drop"}
Packets == [type : Type, client : Clients, n : Nat]

ClientState == [connected : BOOLEAN, connect_time : Off .. ResendTime - 1,
                staged : BOOLEAN, outstanding : BOOLEAN, bit : {0, 1},
                since : 0 .. 2, resend : BOOLEAN, out : 0 .. MaxNumber,
                idle : 0 .. ClTimeout, told : BOOLEAN]

ServerState == [state : {"cs_free", "cs_zombie", "cs_preconnected"},
                in : 0 .. MaxNumber, bit : {0, 1}, idle : 0 .. SvTimeout + 1,
                age : 0 .. ZombieTime, heard : BOOLEAN,
                reply : {"nothing", "serverdata", "disconnect"}]

Challenges == [adr : Clients \cup {"nobody"}, challenge : Nat, age : 0 .. MaxAge]

TypeOK ==
  /\ cl \in [Clients -> ClientState]
  /\ sv \in [Clients -> ServerState]
  /\ behind \in [Clients -> 0 .. MaxNumber + 1]
  /\ challenges \in [Entry -> Challenges]
  /\ issued \in Nat
  /\ net \subseteq Packets /\ late \subseteq Packets
  /\ strangers \in Nat /\ faults \in Nat
  /\ attempts \in [Clients -> Nat]
  /\ torn \in [Clients -> BOOLEAN]

(* An address has one entry at most, for CheckChallange looks no further   *)
(* than the first.                                                         *)
OneEntry == \A i, j \in Entry :
              challenges[i].adr \in Clients /\ challenges[i].adr = challenges[j].adr => i = j

(* "new" is freed only if the server executed it on the channel it has     *)
(* now, whatever was lost, repeated or left over from an earlier           *)
(* connection - unless the two ends' channels are torn apart, for which    *)
(* there are two ways only: a repeated connect sets up the server's        *)
(* channel when the client has been answered, or a late connection sets up *)
(* the client's when the server's slot is still that of an earlier one.    *)
AckedIsRead ==
  \A c \in Clients :
    cl[c].connected /\ ~cl[c].staged /\ ~cl[c].outstanding /\ ~torn[c] => sv[c].heard

Trying(c) == cl[c].connected \/ cl[c].connect_time # Off

(* A client that wants to get in is told to go on or gives up, and never   *)
(* hangs in between: the request for a challenge is repeated, so that it   *)
(* makes no difference which packet was lost or who took its entry of the  *)
(* table, and "new" is repeated, the first packet of a channel being       *)
(* ignored always.  Torn apart, the client may have its "new" freed by the *)
(* bit of an earlier one, and both ends then answer each other for ever.   *)
GetsIn == \A c \in Clients : Trying(c) ~> ~Trying(c) \/ cl[c].told \/ torn[c]
=============================================================================
