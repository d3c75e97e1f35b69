------------------------------ MODULE UserMove ------------------------------
(***************************************************************************)
(* From a key to a move in the game: the buttons of the client             *)
(* (cl_input.c), the command CL_SendCmd makes every frame and sends        *)
(* together with the two before it, and SV_ExecuteClientMove, which makes  *)
(* up for the packets that were lost.                                      *)
(*                                                                         *)
(* One button stands for all and an impulse is there or not.  Numbers      *)
(* count from the first packet that finds the client in the game.  Any     *)
(* packet may be read next, or never, which is loss, delay and reordering; *)
(* the server ignores one that is not newer than the last it read          *)
(* (Netchan), so such a packet is forgotten.                               *)
(***************************************************************************)
EXTENDS Integers, Sequences, FiniteSets

CONSTANTS
  Keys,           \* keys bound to the button
  VOID_KEY,       \* a command typed at the console
  Ring,           \* UPDATE_BACKUP
  ImpulseBackup,  \* the cvar cl_c2sImpulseBackup
  Pps,            \* the cvar cl_c2spps is set
  MaxRepeatGap,   \* 20 in SV_ExecuteClientMove
  MaxCommands,    \* bound on commands
  MaxEvents,      \* bound on what the user does
  MaxPauses       \* bound on pauses

ASSUME RingHoldsThree == Ring \in Nat /\ Ring >= 3
ASSUME BackupIsNat    == ImpulseBackup \in Nat
ASSUME GapIsNat       == MaxRepeatGap \in Nat /\ MaxRepeatGap >= 3
ASSUME BoundsAreNat   == {MaxCommands, MaxEvents, MaxPauses} \subseteq Nat
ASSUME VoidIsNoKey    == VOID_KEY \notin Keys /\ 0 \notin Keys \cup {VOID_KEY}

VARIABLES
  down,       \* in_attack.down[2], 0 if empty
  held,       \* in_attack.state & 1
  tapped,     \* in_attack.state & 2
  impulse,    \* in_impulse # 0
  frames,     \* cl.frames[].cmd
  outgoing,   \* cls.netchan.outgoing_sequence
  dropcount,  \* static in CL_SendCmd
  packets,    \* under way
  incoming,   \* cl->netchan.incoming_sequence on the server
  lastcmd,    \* cl->lastcmd
  paused,     \* sv.paused
  events,     \* history: what the user did so far, and pauses
  keys,       \* history: the keys that hold the button down
  touched,    \* history: the first of them went down since the last command
  presses,    \* history: the numbers of commands that were to press the button
  impulses,   \* history: and of those with an impulse
  sent,       \* history: the numbers of packets that were sent
  accepted,   \* history: those the server accepted
  played,     \* history: and not in a pause
  ran,        \* history: how often each command was run
  runs,       \* history: how many it ran in all, with repetitions
  jumped      \* history: there was a gap too long to be filled

input  == <<down, held, tapped, impulse, keys, touched>>
client == <<frames, outgoing, dropcount, presses, impulses, sent>>
server == <<incoming, lastcmd, accepted, played, ran, runs, jumped>>
vars   == <<input, client, packets, server, paused, events>>

nullcmd == [number |-> 0, button |-> FALSE, impulse |-> FALSE]

Init ==
  /\ down = <<0, 0>> /\ held = FALSE /\ tapped = FALSE /\ impulse = FALSE
  /\ frames = [i \in 0 .. Ring - 1 |-> nullcmd]
  /\ outgoing = 1 /\ dropcount = 0
  /\ packets = {}
  /\ incoming = 0 /\ lastcmd = nullcmd
  /\ paused = FALSE
  /\ events = [user |-> 0, pauses |-> 0]
  /\ keys = {} /\ touched = FALSE
  /\ presses = {} /\ impulses = {} /\ sent = {} /\ accepted = {} /\ played = {}
  /\ ran = [n \in 1 .. MaxCommands |-> 0] /\ runs = 0 /\ jumped = FALSE

-----------------------------------------------------------------------------
(* The button. *)

Event == /\ events.user < MaxEvents
         /\ events' = [events EXCEPT !.user = @ + 1]
         /\ UNCHANGED <<impulse, client, packets, server, paused>>

(* KeyDown_common.  Variants named ...Bug are the definition after them    *)
(* with a slip in it.                                                      *)
Repeating(k) == k \in {down[1], down[2]}
Full         == 0 \notin {down[1], down[2]}

KeyDownBug(k) ==
  /\ Event
  /\ IF Full THEN UNCHANGED <<down, held, tapped, keys, touched>>
     ELSE /\ down' = IF down[1] = 0 THEN <<k, down[2]>> ELSE <<down[1], k>>
          /\ held' = TRUE
          /\ tapped' = (tapped \/ ~held)
          /\ keys' = keys \cup {k}
          /\ touched' = (touched \/ keys = {})
KeyDown(k) ==
  /\ Event
  /\ IF Repeating(k) \/ Full THEN UNCHANGED <<down, held, tapped, keys, touched>>
     ELSE /\ down' = IF down[1] = 0 THEN <<k, down[2]>> ELSE <<down[1], k>>
          /\ held' = TRUE
          /\ tapped' = (tapped \/ ~held)
          /\ keys' = keys \cup {k}
          /\ touched' = (touched \/ keys = {})

(* KeyUp_common: typed at the console, "assume for unsticking, so clear    *)
(* all"; a key that does not hold the button changes nothing.              *)
Without(k) == IF down[1] = k THEN <<0, down[2]>> ELSE <<down[1], 0>>

KeyUp(k) ==
  /\ Event
  /\ down' = IF k = VOID_KEY THEN <<0, 0>>
             ELSE IF Repeating(k) THEN Without(k) ELSE down
  /\ held' = (held /\ down' # <<0, 0>>)
  /\ keys' = IF k = VOID_KEY THEN {} ELSE keys \ {k}
  /\ UNCHANGED <<tapped, touched>>

(* IN_Impulse *)
Impulse ==
  /\ events.user < MaxEvents
  /\ events' = [events EXCEPT !.user = @ + 1]
  /\ impulse' = TRUE
  /\ UNCHANGED <<down, held, tapped, keys, touched, client, packets, server, paused>>

-----------------------------------------------------------------------------
(* CL_SendCmd.  CL_FinishMove makes the command and uses up what is edge   *)
(* triggered.                                                              *)
FinishMove(n) == [number |-> n, button |-> held \/ tapped, impulse |-> impulse]

Frames == [frames EXCEPT ![outgoing % Ring] = FinishMove(outgoing)]

(* "send this and the previous two cmds in the message".                   *)
Backups == <<Frames[(outgoing - 2) % Ring], Frames[(outgoing - 1) % Ring], Frames[outgoing % Ring]>>

DontDropBug == Backups[3].impulse
DontDrop == \/ ImpulseBackup >= 2 /\ Backups[1].impulse
            \/ ImpulseBackup >= 3 /\ Backups[2].impulse
            \/ ImpulseBackup >= 1 /\ Backups[3].impulse

(* "never drop more than 2 messages in a row -- that'll cause PL".         *)
MayDropBug == Pps /\ dropcount < 3 /\ ~DontDrop
MayDrop == Pps /\ dropcount < 2 /\ ~DontDrop

FinishFrame ==
  /\ outgoing <= MaxCommands
  /\ frames' = Frames
  /\ outgoing' = outgoing + 1
  /\ tapped' = FALSE
  /\ impulse' = FALSE
  /\ touched' = FALSE
  /\ presses' = IF touched \/ keys # {} THEN presses \cup {outgoing} ELSE presses
  /\ impulses' = IF impulse THEN impulses \cup {outgoing} ELSE impulses
  /\ UNCHANGED <<down, held, keys, server, paused, events>>

SendCmd ==
  /\ FinishFrame
  /\ packets' = packets \cup {[sequence |-> outgoing, cmds |-> Backups]}
  /\ sent' = sent \cup {outgoing}
  /\ dropcount' = 0

(* cl_c2spps: the message is not sent, its number is used up.              *)
DropCmd ==
  /\ MayDrop
  /\ FinishFrame
  /\ dropcount' = dropcount + 1
  /\ UNCHANGED <<packets, sent>>

-----------------------------------------------------------------------------
(* SV_ExecuteClientMessage: Netchan_Process counts the packets that are    *)
(* missing, SV_ExecuteClientMove fills the gap.                            *)
Dropped(p) == p.sequence - (incoming + 1)

(* How often the last command is run again; its buttons are up.            *)
AgainBug(p) == IF Dropped(p) < MaxRepeatGap /\ Dropped(p) >= 2 THEN Dropped(p) - 1 ELSE 0
Again(p) == IF Dropped(p) < MaxRepeatGap /\ Dropped(p) > 2 THEN Dropped(p) - 2 ELSE 0

RunListBug(p) ==
  (IF Dropped(p) > 1 THEN {1} ELSE {}) \cup {2, 3}
RunList(p) ==
  (IF Dropped(p) > 1 THEN {1} ELSE {}) \cup (IF Dropped(p) > 0 THEN {2} ELSE {}) \cup {3}

ExecuteClientMove(p) ==
  IF paused
  THEN UNCHANGED <<ran, runs, jumped, played>>
  ELSE /\ ran' = [n \in DOMAIN ran |->
                    ran[n] + Cardinality({i \in RunList(p) : p.cmds[i].number = n})]
       /\ runs' = runs + Again(p) + Cardinality(RunList(p))
       /\ jumped' = (jumped \/ Dropped(p) >= MaxRepeatGap)
       /\ played' = played \cup {p.sequence}

ServerRead(p) ==
  /\ p.sequence > incoming
  /\ ExecuteClientMove(p)
  /\ lastcmd' = [p.cmds[3] EXCEPT !.button = FALSE]
  /\ incoming' = p.sequence
  /\ accepted' = accepted \cup {p.sequence}
  /\ packets' = {q \in packets : q.sequence > p.sequence}
  /\ UNCHANGED <<input, client, paused, events>>

TogglePause ==
  /\ events.pauses < MaxPauses
  /\ events' = [events EXCEPT !.pauses = @ + 1]
  /\ paused' = ~paused
  /\ UNCHANGED <<input, client, packets, server>>

Next ==
  \/ \E k \in Keys \cup {VOID_KEY} : KeyDown(k)
  \/ \E k \in Keys \cup {VOID_KEY} : KeyUp(k)
  \/ Impulse
  \/ SendCmd
  \/ DropCmd
  \/ \E p \in packets : ServerRead(p)
  \/ TogglePause

Spec == Init /\ [][Next]_vars

-----------------------------------------------------------------------------
Command == [number : Nat, button : BOOLEAN, impulse : BOOLEAN]
Message == [sequence : Nat, cmds : Command \X Command \X Command]

TypeOK ==
  /\ down \in (Keys \cup {VOID_KEY, 0}) \X (Keys \cup {VOID_KEY, 0})
  /\ {held, tapped, impulse, touched, paused, jumped} \subseteq BOOLEAN
  /\ frames \in [0 .. Ring - 1 -> Command]
  /\ outgoing \in Nat \ {0}
  /\ dropcount \in 0 .. 2
  /\ packets \subseteq Message
  /\ incoming \in Nat
  /\ lastcmd \in Command
  /\ events \in [user : Nat, pauses : Nat]
  /\ keys \subseteq Keys \cup {VOID_KEY}
  /\ {presses, impulses, sent, accepted, played} \subseteq SUBSET Nat
  /\ ran \in [1 .. MaxCommands -> Nat]
  /\ runs \in Nat

(* "the button should only be released when both of the pressing key have  *)
(* been released" (cl_input.c:70): it is down as long as one of the first  *)
(* two keys holds it, and a tap between two frames is not forgotten: so    *)
(* says every copy of every command under way.                             *)
CommandsFollowKeys ==
  /\ held <=> keys # {}
  /\ \A p \in packets : \A i \in 1 .. 3 :
       /\ p.cmds[i].button  <=> p.cmds[i].number \in presses
       /\ p.cmds[i].impulse <=> p.cmds[i].number \in impulses

(* A command is run once if the first packet to get through of the three   *)
(* that carry it finds the game running, and never otherwise: not twice,   *)
(* however its copies arrive.                                              *)
Carriers(n) == {s \in accepted : n <= s /\ s <= n + 2}

RunOnce ==
  \A n \in 1 .. MaxCommands :
    ran[n] = IF \E s \in played : s \in Carriers(n) /\ \A t \in Carriers(n) : s <= t
             THEN 1 ELSE 0

(* The player's time neither stands still nor runs ahead: unless there was *)
(* a pause or a gap too long to be filled, the server has run as many      *)
(* commands as the client has made up to the last packet, with the last    *)
(* command repeated for those that were lost.                              *)
TimeKept == accepted = played /\ ~jumped => runs = incoming

(* "never drop more than 2 messages in a row -- that'll cause PL"          *)
(* (cl_input.c:1024): a command is repeated only if a packet that was sent *)
(* did not get through, never because of numbers the client used up.       *)
RepeatMeansLoss ==
  [][runs' > runs + 3 => \E s \in sent : incoming < s /\ s < incoming']_vars

(* With cl_c2sImpulseBackup 3 an impulse leaves in three packets, one      *)
(* after the other: by RunOnce it takes the loss of all three to lose it.  *)
ImpulsesAreBackedUp ==
  ImpulseBackup >= 3 =>
    \A n \in impulses : \A s \in n .. n + 2 : s < outgoing => s \in sent
=============================================================================
