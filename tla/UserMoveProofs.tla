--------------------------- MODULE UserMoveProofs ---------------------------
(***************************************************************************)
(* Proofs about UserMove, for any keys, any size of the ring, any settings *)
(* of the cvars and any bounds: what a command says is what the user did,  *)
(* every command is run at most once, and the time of the player is kept.  *)
(***************************************************************************)
EXTENDS UserMove, FiniteSetTheorems, TLAPS

-----------------------------------------------------------------------------
(* Places in a ring: a number is looked up at its remainder.               *)

(* No multiple of m is strictly between 0 and m.                           *)
LEMMA NoMultipleBetween ==
  ASSUME NEW m \in Nat, NEW k \in Int, 0 < m * k, m * k < m
  PROVE  FALSE
<1>1. CASE k <= 0
  BY <1>1, m * k <= 0
<1>2. CASE k >= 1
  BY <1>2, m * k >= m
<1> QED BY <1>1, <1>2

(* Division with remainder.                                                *)
LEMMA Division ==
  ASSUME NEW size \in Nat \ {0}, NEW n \in Int
  PROVE  /\ n % size \in 0 .. size - 1 /\ n \div size \in Int
         /\ n = size * (n \div size) + (n % size)
  OBVIOUS

(* Numbers less than the size of the ring apart have places of their own.  *)
LEMMA PlacesApart ==
  ASSUME NEW size \in Nat \ {0}, NEW a \in Int, NEW b \in Int, a < b, b < a + size
  PROVE  a % size # b % size
<1> DEFINE d == b \div size
           c == a \div size
<1> SUFFICES ASSUME a % size = b % size PROVE FALSE
  OBVIOUS
<1>1. /\ a = size * c + (a % size) /\ b = size * d + (b % size)
      /\ c \in Int /\ d \in Int /\ a % size \in Int
  BY Division
<1> HIDE DEF c, d
<1>2. b - a = size * (d - c) /\ d - c \in Int
  BY <1>1
<1> QED BY <1>2, NoMultipleBetween

-----------------------------------------------------------------------------
(* The invariant.  The keys of the history are those in the two places,    *)
(* and a tap is what the history calls a touch.                            *)
ButtonInv ==
  /\ keys = {down[1], down[2]} \ {0}
  /\ down[1] = down[2] => down[1] = 0
  /\ held <=> keys # {}
  /\ tapped <=> touched

(* A command that was to be the nth; those before the first are null.      *)
Nth(n) == IF n > 0 THEN n ELSE 0

Says(c, n, pressed, impulsed) ==
  /\ c.number = Nth(n)
  /\ c.button  <=> Nth(n) \in pressed
  /\ c.impulse <=> Nth(n) \in impulsed

(* The two commands that are sent again are still in the ring, and every   *)
(* packet carries its own command and the two before it.                   *)
FramesInv ==
  /\ presses  \subseteq 1 .. outgoing - 1
  /\ impulses \subseteq 1 .. outgoing - 1
  /\ Says(frames[(outgoing - 1) % Ring], outgoing - 1, presses, impulses)
  /\ Says(frames[(outgoing - 2) % Ring], outgoing - 2, presses, impulses)

Carries(p, pressed, impulsed) ==
  /\ Says(p.cmds[1], p.sequence - 2, pressed, impulsed)
  /\ Says(p.cmds[2], p.sequence - 1, pressed, impulsed)
  /\ Says(p.cmds[3], p.sequence, pressed, impulsed)

PacketsInv ==
  \A p \in packets : /\ p.sequence \in incoming + 1 .. outgoing - 1
                     /\ Carries(p, presses, impulses)

(* Of three numbers in a row one was sent.                                 *)
SentInv ==
  /\ outgoing - 1 - dropcount > 0 => outgoing - 1 - dropcount \in sent
  /\ \A n \in Nat \ {0} : n + 2 < outgoing => {n, n + 1, n + 2} \cap sent # {}

ServerInv ==
  /\ incoming > 0 => incoming \in accepted
  /\ accepted \subseteq 1 .. incoming
  /\ played \subseteq accepted
  /\ incoming < outgoing

-----------------------------------------------------------------------------
(* The sets in TypeOK, unpacked. *)
LEMMA Booleans ==
  TypeOK => /\ held \in BOOLEAN /\ tapped \in BOOLEAN /\ impulse \in BOOLEAN
            /\ touched \in BOOLEAN /\ paused \in BOOLEAN /\ jumped \in BOOLEAN
            /\ presses \subseteq Nat /\ impulses \subseteq Nat /\ sent \subseteq Nat
            /\ accepted \subseteq Nat /\ played \subseteq Nat
  BY DEF TypeOK

Holder == Keys \cup {VOID_KEY, 0}

LEMMA DownTyped ==
  TypeOK => /\ down[1] \in Holder /\ down[2] \in Holder
            /\ down = <<down[1], down[2]>>
  BY DEF TypeOK, Holder

LEMMA FinishMoveTyped ==
  ASSUME TypeOK
  PROVE  /\ FinishMove(outgoing) \in Command
         /\ FinishMove(outgoing).number = outgoing
         /\ FinishMove(outgoing).button <=> held \/ tapped
         /\ FinishMove(outgoing).impulse <=> impulse
  BY Booleans DEF TypeOK, FinishMove, Command

(* Places in the ring of three numbers in a row. *)
RingPlaces(n) ==
  /\ n % Ring \in 0 .. Ring - 1
  /\ (n - 1) % Ring \in 0 .. Ring - 1
  /\ (n - 2) % Ring \in 0 .. Ring - 1
  /\ (n - 1) % Ring # n % Ring
  /\ (n - 2) % Ring # n % Ring

LEMMA PlacesDiffer == \A n \in Int : RingPlaces(n)
<1> SUFFICES ASSUME NEW n \in Int PROVE RingPlaces(n)
  OBVIOUS
<1>1. /\ n - 1 \in Int /\ n - 2 \in Int /\ Ring \in Nat \ {0}
      /\ n - 1 < n /\ n < (n - 1) + Ring
      /\ n - 2 < n /\ n < (n - 2) + Ring
  BY RingHoldsThree
<1>2. /\ n % Ring \in 0 .. Ring - 1
      /\ (n - 1) % Ring \in 0 .. Ring - 1
      /\ (n - 2) % Ring \in 0 .. Ring - 1
  BY <1>1, Division
<1>3. (n - 1) % Ring # n % Ring
  BY <1>1, PlacesApart
<1>4. (n - 2) % Ring # n % Ring
  BY <1>1, PlacesApart
<1> QED BY <1>2, <1>3, <1>4 DEF RingPlaces

LEMMA FramesTyped ==
  ASSUME TypeOK
  PROVE  /\ Frames \in [0 .. Ring - 1 -> Command]
         /\ Frames[outgoing % Ring] = FinishMove(outgoing)
         /\ Frames[(outgoing - 1) % Ring] = frames[(outgoing - 1) % Ring]
         /\ Frames[(outgoing - 2) % Ring] = frames[(outgoing - 2) % Ring]
<1>1. RingPlaces(outgoing)
  BY PlacesDiffer DEF TypeOK
<1>2. FinishMove(outgoing) \in Command
  BY FinishMoveTyped
<1> QED BY <1>1, <1>2 DEF Frames, TypeOK, RingPlaces

LEMMA BackupsTyped ==
  ASSUME TypeOK
  PROVE  /\ Backups \in Command \X Command \X Command
         /\ Backups[1] = frames[(outgoing - 2) % Ring]
         /\ Backups[2] = frames[(outgoing - 1) % Ring]
         /\ Backups[3] = FinishMove(outgoing)
<1>1. RingPlaces(outgoing)
  BY PlacesDiffer DEF TypeOK
<1>2. /\ frames[(outgoing - 1) % Ring] \in Command /\ frames[(outgoing - 2) % Ring] \in Command
      /\ FinishMove(outgoing) \in Command
  BY <1>1, FinishMoveTyped DEF TypeOK, RingPlaces
<1> QED BY <1>2, FramesTyped DEF Backups

-----------------------------------------------------------------------------
(* Types. *)
LEMMA KeyDownTyped ==
  ASSUME TypeOK, NEW k \in Keys \cup {VOID_KEY}, KeyDown(k)
  PROVE  TypeOK'
<1>3. k \in Holder /\ 0 \in Holder
  BY DEF Holder
<1>1. /\ down' \in Holder \X Holder
      /\ held' \in BOOLEAN /\ tapped' \in BOOLEAN /\ touched' \in BOOLEAN
      /\ keys' \subseteq Keys \cup {VOID_KEY}
  <2>1. CASE Repeating(k) \/ Full
    BY <2>1, <1>3, DownTyped, Booleans DEF KeyDown, TypeOK
  <2>2. CASE ~(Repeating(k) \/ Full)
    <3>1. down' = <<k, down[2]>> \/ down' = <<down[1], k>>
      BY <2>2 DEF KeyDown
    <3>2. down' \in Holder \X Holder
      BY <3>1, <1>3, DownTyped
    <3>3. held' \in BOOLEAN /\ tapped' \in BOOLEAN /\ touched' \in BOOLEAN
      BY <2>2 DEF KeyDown
    <3>4. keys' \subseteq Keys \cup {VOID_KEY}
      BY <2>2 DEF KeyDown, TypeOK
    <3> QED BY <3>2, <3>3, <3>4
  <2> QED BY <2>1, <2>2
<1>2. /\ events' \in [user : Nat, pauses : Nat]
      /\ UNCHANGED <<impulse, client, packets, server, paused>>
  BY DEF KeyDown, Event, TypeOK
<1> QED BY <1>1, <1>2, Booleans DEF TypeOK, client, server, Holder

LEMMA KeyUpTyped ==
  ASSUME TypeOK, NEW k \in Keys \cup {VOID_KEY}, KeyUp(k)
  PROVE  TypeOK'
<1>3. k \in Holder /\ 0 \in Holder
  BY DEF Holder
<1>1. /\ down' \in Holder \X Holder
      /\ held' \in BOOLEAN /\ UNCHANGED <<tapped, touched>>
      /\ keys' \subseteq Keys \cup {VOID_KEY}
  BY <1>3, DownTyped, Booleans DEF KeyUp, Without, TypeOK
<1>2. /\ events' \in [user : Nat, pauses : Nat]
      /\ UNCHANGED <<impulse, client, packets, server, paused>>
  BY DEF KeyUp, Event, TypeOK
<1> QED BY <1>1, <1>2, Booleans DEF TypeOK, client, server, Holder

LEMMA FinishFrameTyped ==
  ASSUME TypeOK, FinishFrame
  PROVE  /\ frames' \in [0 .. Ring - 1 -> Command]
         /\ outgoing' \in Nat \ {0}
         /\ tapped' \in BOOLEAN /\ impulse' \in BOOLEAN /\ touched' \in BOOLEAN
         /\ presses' \subseteq Nat /\ impulses' \subseteq Nat
         /\ UNCHANGED <<down, held, keys, server, paused, events>>
<1>1. /\ frames' \in [0 .. Ring - 1 -> Command] /\ outgoing' \in Nat \ {0}
      /\ UNCHANGED <<down, held, keys, server, paused, events>>
  BY FramesTyped DEF FinishFrame, TypeOK
<1>2. tapped' \in BOOLEAN /\ impulse' \in BOOLEAN /\ touched' \in BOOLEAN
  BY DEF FinishFrame
<1>3. presses' \subseteq Nat /\ impulses' \subseteq Nat
  BY Booleans DEF FinishFrame, TypeOK
<1> QED BY <1>1, <1>2, <1>3

SendTyped ==
  /\ frames \in [0 .. Ring - 1 -> Command] /\ outgoing \in Nat \ {0}
  /\ tapped \in BOOLEAN /\ impulse \in BOOLEAN /\ touched \in BOOLEAN
  /\ presses \subseteq Nat /\ impulses \subseteq Nat

LEMMA SentTyped ==
  ASSUME TypeOK, SendTyped', UNCHANGED <<down, held, keys, server, paused, events>>,
         packets' \subseteq Message, sent' \subseteq Nat, dropcount' \in 0 .. 2
  PROVE  TypeOK'
<1>1. {held, tapped, impulse, touched, paused, jumped}' \subseteq BOOLEAN
  BY Booleans DEF SendTyped, server
<1>2. {presses, impulses, sent, accepted, played}' \subseteq SUBSET Nat
  BY Booleans DEF SendTyped, server
<1>3. /\ UNCHANGED <<down, events, keys>> /\ incoming' = incoming /\ lastcmd' = lastcmd
      /\ ran' = ran /\ runs' = runs
  BY DEF server
<1> QED BY <1>1, <1>2, <1>3 DEF TypeOK, SendTyped

LEMMA SendCmdTyped ==
  ASSUME TypeOK, SendCmd
  PROVE  TypeOK'
<1>1. packets' \subseteq Message
  BY BackupsTyped DEF SendCmd, Message, TypeOK
<1>2. sent' \subseteq Nat /\ dropcount' = 0
  BY Booleans DEF SendCmd, TypeOK
<1>3. SendTyped'
  BY FinishFrameTyped DEF SendCmd, SendTyped
<1>4. UNCHANGED <<down, held, keys, server, paused, events>>
  BY FinishFrameTyped DEF SendCmd
<1> QED BY <1>1, <1>2, <1>3, <1>4, SentTyped

LEMMA DropCmdTyped ==
  ASSUME TypeOK, DropCmd
  PROVE  TypeOK'
<1>1. dropcount' \in 0 .. 2 /\ UNCHANGED <<packets, sent>>
  BY DEF DropCmd, MayDrop, TypeOK
<1>2. packets' \subseteq Message /\ sent' \subseteq Nat
  BY <1>1, Booleans DEF TypeOK
<1>3. SendTyped'
  BY FinishFrameTyped DEF DropCmd, SendTyped
<1>4. UNCHANGED <<down, held, keys, server, paused, events>>
  BY FinishFrameTyped DEF DropCmd
<1> QED BY <1>1, <1>2, <1>3, <1>4, SentTyped

(* How often a packet makes the server run the nth command.                *)
Copies(p, n) == {i \in RunList(p) : p.cmds[i].number = n}

LEMMA RunListFinite ==
  ASSUME NEW p
  PROVE  IsFiniteSet(RunList(p)) /\ Cardinality(RunList(p)) \in Nat
<1>1. IsFiniteSet(1 .. 3)
  <2>1. 1 \in Int /\ 3 \in Int
    OBVIOUS
  <2> QED BY <2>1, FS_Interval
<1>2. RunList(p) \subseteq 1 .. 3
  <2>1. RunList(p) \subseteq {1, 2, 3}
    BY DEF RunList
  <2> QED BY <2>1
<1>3. IsFiniteSet(RunList(p))
  BY <1>1, <1>2, FS_Subset
<1> QED BY <1>3, FS_CardinalityType

LEMMA CopiesFinite ==
  ASSUME NEW p, NEW n
  PROVE  Cardinality(Copies(p, n)) \in Nat
<1>1. Copies(p, n) \subseteq RunList(p)
  BY DEF Copies
<1>2. IsFiniteSet(Copies(p, n))
  BY <1>1, RunListFinite, FS_Subset
<1> QED BY <1>2, FS_CardinalityType

(* What the server does with a packet when the game is not paused.         *)
LEMMA MoveRun ==
  ASSUME TypeOK, NEW p \in packets, ServerRead(p), ~paused
  PROVE  /\ ran' = [n \in 1 .. MaxCommands |-> ran[n] + Cardinality(Copies(p, n))]
         /\ runs' = runs + Again(p) + Cardinality(RunList(p))
         /\ jumped' <=> jumped \/ Dropped(p) >= MaxRepeatGap
         /\ jumped' \in BOOLEAN
         /\ played' = played \cup {p.sequence}
  BY DEF ServerRead, ExecuteClientMove, TypeOK, Copies

LEMMA ServerReadTyped ==
  ASSUME TypeOK, NEW p \in packets, ServerRead(p)
  PROVE  TypeOK'
<1>1. p \in Message
  BY DEF TypeOK
<1>2. Dropped(p) \in Nat /\ Again(p) \in Nat
  BY <1>1, GapIsNat DEF ServerRead, Dropped, Again, Message, TypeOK
<1>3. /\ ran' \in [1 .. MaxCommands -> Nat] /\ runs' \in Nat
      /\ jumped' \in BOOLEAN /\ played' \subseteq Nat
  <2>1. CASE paused
    BY <2>1, Booleans DEF ServerRead, ExecuteClientMove, TypeOK
  <2>2. CASE ~paused
    <3>2. ran' \in [1 .. MaxCommands -> Nat]
      BY <2>2, MoveRun, CopiesFinite DEF TypeOK
    <3>3. runs' \in Nat
      BY <2>2, <1>2, MoveRun, RunListFinite DEF TypeOK
    <3>4. jumped' \in BOOLEAN
      BY <2>2, MoveRun
    <3>5. played' \subseteq Nat
      BY <2>2, <1>1, MoveRun, Booleans DEF Message
    <3> QED BY <3>2, <3>3, <3>4, <3>5
  <2> QED BY <2>1, <2>2
<1>4. lastcmd' \in Command
  <2>1. p.cmds[3] \in Command
    BY <1>1 DEF Message
  <2> QED BY <2>1 DEF ServerRead, Command
<1>5. incoming' \in Nat /\ accepted' \subseteq Nat /\ packets' \subseteq Message
  BY <1>1, Booleans DEF ServerRead, Message, TypeOK
<1> QED BY <1>3, <1>4, <1>5, Booleans DEF ServerRead, TypeOK, input, client

LEMMA NextTyped ==
  ASSUME TypeOK, [Next]_vars
  PROVE  TypeOK'
<1>1. ASSUME Impulse PROVE TypeOK'
  <2>1. impulse' \in BOOLEAN /\ events' \in [user : Nat, pauses : Nat]
    BY <1>1 DEF Impulse, TypeOK
  <2> QED BY <1>1, <2>1, Booleans DEF Impulse, TypeOK, client, server
<1>2. ASSUME TogglePause PROVE TypeOK'
  <2>1. paused' \in BOOLEAN /\ events' \in [user : Nat, pauses : Nat]
    BY <1>2, Booleans DEF TogglePause, TypeOK
  <2> QED BY <1>2, <2>1, Booleans DEF TogglePause, TypeOK, input, client, server
<1>3. CASE UNCHANGED vars
  BY <1>3, Booleans DEF vars, TypeOK, input, client, server
<1> QED BY <1>1, <1>2, <1>3, KeyDownTyped, KeyUpTyped, SendCmdTyped, DropCmdTyped,
           ServerReadTyped DEF Next

LEMMA InitTyped == Init => TypeOK
<1> SUFFICES ASSUME Init PROVE TypeOK
  OBVIOUS
<1>1. nullcmd \in Command
  BY DEF nullcmd, Command
<1>2. down \in (Keys \cup {VOID_KEY, 0}) \X (Keys \cup {VOID_KEY, 0})
  BY DEF Init
<1>3. frames \in [0 .. Ring - 1 -> Command] /\ ran \in [1 .. MaxCommands -> Nat]
  BY <1>1 DEF Init
<1>4. /\ {held, tapped, impulse, touched, paused, jumped} \subseteq BOOLEAN
      /\ {presses, impulses, sent, accepted, played} \subseteq SUBSET Nat
      /\ events \in [user : Nat, pauses : Nat]
  BY DEF Init
<1>5. outgoing = 1 /\ dropcount = 0 /\ incoming = 0 /\ runs = 0 /\ packets = {} /\ keys = {}
      /\ lastcmd = nullcmd
  BY DEF Init
<1> QED BY <1>1, <1>2, <1>3, <1>4, <1>5 DEF TypeOK

(* The model's variables keep their types.                                 *)
THEOREM UserMoveTypeCorrect == Spec => []TypeOK
<1>1. Init => TypeOK
  BY InitTyped
<1>2. TypeOK /\ [Next]_vars => TypeOK'
  BY NextTyped
<1> QED BY <1>1, <1>2, PTL DEF Spec

-----------------------------------------------------------------------------
(* The button. *)
LEMMA KeyDownButton ==
  ASSUME TypeOK, ButtonInv, NEW k \in Keys \cup {VOID_KEY}, KeyDown(k)
  PROVE  ButtonInv'
<1>1. k # 0
  BY VoidIsNoKey
<1>2. CASE Repeating(k) \/ Full
  BY <1>2 DEF KeyDown, ButtonInv
<1>3. CASE ~(Repeating(k) \/ Full)
  <2>1. /\ held' /\ keys' = keys \cup {k}
        /\ tapped' <=> tapped \/ ~held
        /\ touched' <=> touched \/ keys = {}
    BY <1>3 DEF KeyDown
  <2>2. /\ k # down[1] /\ k # down[2]
        /\ \/ down[1] = 0 /\ down'[1] = k /\ down'[2] = down[2]
           \/ down[1] # 0 /\ down[2] = 0 /\ down'[1] = down[1] /\ down'[2] = k
    BY <1>3 DEF KeyDown, Repeating, Full
  <2>3. keys' = {down'[1], down'[2]} \ {0}
    BY <2>1, <2>2, <1>1 DEF ButtonInv
  <2>4. down'[1] # down'[2]
    BY <2>2, <1>1
  <2>5. keys' # {}
    BY <2>1
  <2> QED BY <2>1, <2>3, <2>4, <2>5 DEF ButtonInv
<1> QED BY <1>2, <1>3

LEMMA KeyUpButton ==
  ASSUME TypeOK, ButtonInv, NEW k \in Keys \cup {VOID_KEY}, KeyUp(k)
  PROVE  ButtonInv'
<1>1. k # 0
  BY VoidIsNoKey
<1>2. /\ keys' = {down'[1], down'[2]} \ {0}
      /\ down'[1] = down'[2] => down'[1] = 0
  <2>1. CASE k = VOID_KEY
    BY <2>1 DEF KeyUp
  <2>2. CASE k # VOID_KEY /\ ~Repeating(k)
    BY <2>2 DEF KeyUp, ButtonInv, Repeating
  <2>3. CASE k # VOID_KEY /\ down[1] = k
    <3>1. down' = <<0, down[2]>> /\ keys' = keys \ {k}
      BY <2>3 DEF KeyUp, Without, Repeating
    <3> QED BY <3>1, <2>3, <1>1 DEF ButtonInv
  <2>4. CASE k # VOID_KEY /\ down[1] # k /\ down[2] = k
    <3>1. down' = <<down[1], 0>> /\ keys' = keys \ {k}
      BY <2>4 DEF KeyUp, Without, Repeating
    <3> QED BY <3>1, <2>4, <1>1 DEF ButtonInv
  <2> QED BY <2>1, <2>2, <2>3, <2>4 DEF Repeating
<1>3. held' <=> keys' # {}
  <2>1. down' = <<down'[1], down'[2]>>
    BY DownTyped DEF KeyUp, Without
  <2>2. down' = <<0, 0>> <=> down'[1] = 0 /\ down'[2] = 0
    BY <2>1
  <2>3. held' <=> held /\ down' # <<0, 0>>
    BY DEF KeyUp
  <2>4. keys' # {} => keys # {}
    BY DEF KeyUp
  <2> QED BY <1>2, <2>2, <2>3, <2>4 DEF ButtonInv
<1> QED BY <1>2, <1>3 DEF KeyUp, ButtonInv

LEMMA NextButton ==
  ASSUME TypeOK, ButtonInv, [Next]_vars
  PROVE  ButtonInv'
<1>1. ASSUME FinishFrame PROVE ButtonInv'
  BY <1>1 DEF FinishFrame, ButtonInv
<1>2. CASE Impulse
  BY <1>2 DEF Impulse, ButtonInv
<1>3. ASSUME UNCHANGED input PROVE ButtonInv'
  BY <1>3 DEF input, ButtonInv
<1>4. ASSUME NEW p \in packets, ServerRead(p) PROVE ButtonInv'
  BY <1>3, <1>4 DEF ServerRead
<1> QED BY <1>1, <1>2, <1>3, <1>4, KeyDownButton, KeyUpButton
        DEF Next, SendCmd, DropCmd, TogglePause, vars

-----------------------------------------------------------------------------
(* The commands. *)

(* A new command leaves what earlier ones say.                             *)
LEMMA SaysKept ==
  ASSUME TypeOK, FramesInv, FinishFrame,
         NEW c, NEW n \in Int, n < outgoing, Says(c, n, presses, impulses)
  PROVE  Says(c, n, presses', impulses')
<1>1. Nth(n) # outgoing
  BY DEF Nth, TypeOK
<1>2. Nth(n) \in presses' <=> Nth(n) \in presses
  BY <1>1 DEF FinishFrame
<1>3. Nth(n) \in impulses' <=> Nth(n) \in impulses
  BY <1>1 DEF FinishFrame
<1> QED BY <1>2, <1>3 DEF Says

LEMMA NewCommandSays ==
  ASSUME TypeOK, FramesInv, ButtonInv, FinishFrame
  PROVE  Says(FinishMove(outgoing), outgoing, presses', impulses')
<1>1. Nth(outgoing) = outgoing
  BY DEF Nth, TypeOK
<1>2. outgoing \notin presses /\ outgoing \notin impulses
  BY DEF FramesInv, TypeOK
<1>3. outgoing \in presses' <=> touched \/ keys # {}
  BY <1>2 DEF FinishFrame
<1>4. outgoing \in impulses' <=> impulse
  BY <1>2 DEF FinishFrame
<1>5. held \/ tapped <=> touched \/ keys # {}
  BY DEF ButtonInv
<1> QED BY <1>1, <1>3, <1>4, <1>5, FinishMoveTyped DEF Says

LEMMA FinishFrameCommands ==
  ASSUME TypeOK, FramesInv, ButtonInv, FinishFrame
  PROVE  FramesInv'
<1>1. outgoing \in Nat \ {0} /\ outgoing' = outgoing + 1 /\ frames' = Frames
  BY DEF FinishFrame, TypeOK
<1>2. presses' \subseteq 1 .. outgoing' - 1 /\ impulses' \subseteq 1 .. outgoing' - 1
  BY <1>1 DEF FinishFrame, FramesInv
<1>3. /\ frames'[(outgoing' - 1) % Ring] = FinishMove(outgoing)
      /\ frames'[(outgoing' - 2) % Ring] = frames[(outgoing - 1) % Ring]
  <2>1. outgoing' - 1 = outgoing /\ outgoing' - 2 = outgoing - 1
    BY <1>1
  <2> QED BY <2>1, <1>1, FramesTyped
<1>4. Says(frames[(outgoing - 1) % Ring], outgoing - 1, presses', impulses')
  <2>1. outgoing - 1 \in Int /\ outgoing - 1 < outgoing
    BY <1>1
  <2> QED BY <2>1, SaysKept DEF FramesInv
<1>5. outgoing' - 1 = outgoing /\ outgoing' - 2 = outgoing - 1
  BY <1>1
<1> QED BY <1>2, <1>3, <1>4, <1>5, NewCommandSays DEF FramesInv

LEMMA CarriesKept ==
  ASSUME TypeOK, FramesInv, PacketsInv, FinishFrame, NEW p \in packets
  PROVE  Carries(p, presses', impulses')
<1>1. p.sequence \in Nat /\ p.sequence < outgoing /\ outgoing \in Nat
  BY DEF PacketsInv, TypeOK, Message
<1>2. /\ p.sequence - 2 \in Int /\ p.sequence - 2 < outgoing
      /\ p.sequence - 1 \in Int /\ p.sequence - 1 < outgoing
      /\ p.sequence \in Int
  BY <1>1
<1>3. Carries(p, presses, impulses)
  BY DEF PacketsInv
<1> QED BY <1>1, <1>2, <1>3, SaysKept DEF Carries

LEMMA SendCmdPackets ==
  ASSUME TypeOK, FramesInv, ButtonInv, PacketsInv, incoming < outgoing, SendCmd
  PROVE  PacketsInv'
<1> SUFFICES ASSUME NEW p \in packets'
             PROVE  /\ p.sequence \in incoming' + 1 .. outgoing' - 1
                    /\ Carries(p, presses', impulses')
  BY DEF PacketsInv
<1>1. /\ outgoing \in Nat \ {0} /\ outgoing' = outgoing + 1 /\ incoming' = incoming
      /\ incoming \in Nat /\ FinishFrame
  BY DEF SendCmd, FinishFrame, TypeOK, server
<1>2. CASE p \in packets
  <2>1. p.sequence \in incoming + 1 .. outgoing - 1
    BY <1>2 DEF PacketsInv
  <2>2. Carries(p, presses', impulses')
    BY <1>1, <1>2, CarriesKept
  <2> QED BY <2>1, <2>2, <1>1
<1>3. CASE p = [sequence |-> outgoing, cmds |-> Backups]
  <2>1. p.sequence = outgoing /\ p.cmds = Backups
    BY <1>3
  <2>2. /\ outgoing - 2 \in Int /\ outgoing - 2 < outgoing
        /\ outgoing - 1 \in Int /\ outgoing - 1 < outgoing
    BY <1>1
  <2>3. /\ Says(frames[(outgoing - 2) % Ring], outgoing - 2, presses', impulses')
        /\ Says(frames[(outgoing - 1) % Ring], outgoing - 1, presses', impulses')
    BY <1>1, <2>2, SaysKept DEF FramesInv
  <2>4. Carries(p, presses', impulses')
    BY <1>1, <2>1, <2>3, BackupsTyped, NewCommandSays DEF Carries
  <2> QED BY <2>1, <2>4, <1>1
<1> QED BY <1>2, <1>3 DEF SendCmd

LEMMA ServerReadPackets ==
  ASSUME TypeOK, PacketsInv, NEW p \in packets, ServerRead(p)
  PROVE  PacketsInv'
<1>1. /\ packets' = {q \in packets : q.sequence > p.sequence}
      /\ incoming' = p.sequence
      /\ outgoing' = outgoing /\ presses' = presses /\ impulses' = impulses
  BY DEF ServerRead, client
<1>2. p.sequence \in Nat /\ \A q \in packets : q.sequence \in Nat
  BY DEF TypeOK, Message
<1> QED BY <1>1, <1>2 DEF PacketsInv, TypeOK

LEMMA NextCommands ==
  ASSUME TypeOK, ButtonInv, FramesInv, PacketsInv, ServerInv, [Next]_vars
  PROVE  FramesInv' /\ PacketsInv'
<1>1. ASSUME UNCHANGED <<client, packets, incoming>> PROVE FramesInv' /\ PacketsInv'
  BY <1>1 DEF FramesInv, PacketsInv, client
<1>2. CASE SendCmd
  <2>1. incoming < outgoing
    BY DEF ServerInv
  <2> QED BY <1>2, <2>1, SendCmdPackets, FinishFrameCommands DEF SendCmd
<1>3. CASE DropCmd
  <2>1. FramesInv'
    BY <1>3, FinishFrameCommands DEF DropCmd
  <2>2. packets' = packets /\ incoming' = incoming /\ outgoing' = outgoing + 1
    BY <1>3 DEF DropCmd, FinishFrame, server
  <2>3. \A p \in packets : Carries(p, presses', impulses')
    BY <1>3, CarriesKept DEF DropCmd
  <2>4. \A p \in packets : p.sequence \in incoming' + 1 .. outgoing' - 1
    BY <2>2 DEF PacketsInv, TypeOK
  <2> QED BY <2>1, <2>2, <2>3, <2>4 DEF PacketsInv
<1>4. ASSUME NEW p \in packets, ServerRead(p) PROVE FramesInv' /\ PacketsInv'
  <2>1. FramesInv'
    BY <1>4 DEF ServerRead, FramesInv, client
  <2> QED BY <1>4, <2>1, ServerReadPackets
<1> QED BY <1>1, <1>2, <1>3, <1>4
        DEF Next, KeyDown, KeyUp, Event, Impulse, TogglePause, vars, client, server

(* The numbers in a packet. *)
LEMMA CommandNumbers ==
  ASSUME TypeOK, PacketsInv, NEW p \in packets
  PROVE  /\ p.sequence \in Nat /\ p.sequence > incoming /\ p.sequence < outgoing
         /\ p.cmds[1].number = Nth(p.sequence - 2)
         /\ p.cmds[2].number = Nth(p.sequence - 1)
         /\ p.cmds[3].number = p.sequence
<1>1. p.sequence \in Nat /\ p.sequence > incoming /\ p.sequence < outgoing
  BY DEF PacketsInv, TypeOK, Message
<1>2. Nth(p.sequence) = p.sequence
  BY <1>1 DEF Nth, TypeOK
<1> QED BY <1>1, <1>2 DEF PacketsInv, Carries, Says

LEMMA PacketsFollow == ButtonInv /\ PacketsInv /\ TypeOK => CommandsFollowKeys
<1> SUFFICES ASSUME ButtonInv, PacketsInv, TypeOK PROVE CommandsFollowKeys
  OBVIOUS
<1>1. ASSUME NEW p \in packets, NEW i \in 1 .. 3
      PROVE  /\ p.cmds[i].button  <=> p.cmds[i].number \in presses
             /\ p.cmds[i].impulse <=> p.cmds[i].number \in impulses
  <2>1. i = 1 \/ i = 2 \/ i = 3
    BY <1>1
  <2> QED BY <1>1, <2>1 DEF PacketsInv, Carries, Says
<1> QED BY <1>1 DEF CommandsFollowKeys, ButtonInv

-----------------------------------------------------------------------------
(* The server. *)
LEMMA NextServer ==
  ASSUME TypeOK, PacketsInv, ServerInv, [Next]_vars
  PROVE  ServerInv'
<1>1. ASSUME UNCHANGED server, outgoing' = outgoing \/ outgoing' = outgoing + 1
      PROVE  ServerInv'
  BY <1>1 DEF ServerInv, server, TypeOK
<1>2. ASSUME NEW p \in packets, ServerRead(p) PROVE ServerInv'
  <2>1. /\ incoming' = p.sequence /\ accepted' = accepted \cup {p.sequence}
        /\ outgoing' = outgoing
        /\ played' = played \/ played' = played \cup {p.sequence}
    BY <1>2 DEF ServerRead, ExecuteClientMove, client
  <2>2. p.sequence \in Nat /\ p.sequence > incoming /\ p.sequence < outgoing
    BY <1>2, CommandNumbers
  <2>3. ASSUME NEW a \in accepted' PROVE a \in 1 .. incoming'
    <3>1. incoming \in Nat /\ (a = p.sequence \/ a \in 1 .. incoming)
      BY <2>1, <2>3 DEF ServerInv, TypeOK
    <3> QED BY <3>1, <2>1, <2>2
  <2> QED BY <2>1, <2>2, <2>3 DEF ServerInv
<1>3. ASSUME UNCHANGED vars PROVE UNCHANGED server /\ outgoing' = outgoing
  BY <1>3 DEF vars, client
<1>4. ASSUME FinishFrame PROVE UNCHANGED server /\ outgoing' = outgoing + 1
  BY <1>4 DEF FinishFrame
<1>5. ASSUME UNCHANGED <<client, server>> PROVE UNCHANGED server /\ outgoing' = outgoing
  BY <1>5 DEF client
<1>6. ASSUME \/ \E k \in Keys \cup {VOID_KEY} : KeyDown(k) \/ KeyUp(k)
             \/ Impulse \/ TogglePause
      PROVE  UNCHANGED <<client, server>>
  BY <1>6 DEF KeyDown, KeyUp, Event, Impulse, TogglePause
<1> QED BY <1>1, <1>2, <1>3, <1>4, <1>5, <1>6 DEF Next, SendCmd, DropCmd

(* Which of its commands a packet makes the server run: those the server   *)
(* has not read a packet for.                                              *)
LEMMA CopiesOf ==
  ASSUME TypeOK, PacketsInv, NEW p \in packets, NEW n \in Nat \ {0}
  PROVE  Cardinality(Copies(p, n)) =
           IF incoming < n /\ n <= p.sequence /\ p.sequence <= n + 2 THEN 1 ELSE 0
<1> DEFINE s == p.sequence
<1>1. /\ s \in Nat /\ incoming \in Nat /\ s > incoming
      /\ p.cmds[1].number = Nth(s - 2)
      /\ p.cmds[2].number = Nth(s - 1)
      /\ p.cmds[3].number = s
  BY CommandNumbers DEF TypeOK
<1> HIDE DEF s
<1>2. /\ 3 \in RunList(p)
      /\ 2 \in RunList(p) <=> incoming < s - 1
      /\ 1 \in RunList(p) <=> incoming < s - 2
      /\ RunList(p) \subseteq {1, 2, 3}
  BY <1>1 DEF RunList, Dropped, s
<1>3. /\ p.cmds[1].number = n <=> n = s - 2
      /\ p.cmds[2].number = n <=> n = s - 1
      /\ p.cmds[3].number = n <=> n = s
  BY <1>1 DEF Nth
<1>4. Copies(p, n) \subseteq {1, 2, 3}
  BY <1>2 DEF Copies
<1>5. /\ 3 \in Copies(p, n) <=> n = s
      /\ 2 \in Copies(p, n) <=> n = s - 1 /\ incoming < s - 1
      /\ 1 \in Copies(p, n) <=> n = s - 2 /\ incoming < s - 2
  BY <1>2, <1>3 DEF Copies
<1>6. CASE incoming < n /\ n <= s /\ s <= n + 2
  <2>1. Copies(p, n) = {3} \/ Copies(p, n) = {2} \/ Copies(p, n) = {1}
    <3>1. n = s \/ n = s - 1 \/ n = s - 2
      BY <1>1, <1>6
    <3>2. CASE n = s
      <4>1. /\ 3 \in Copies(p, n) /\ 2 \notin Copies(p, n) /\ 1 \notin Copies(p, n)
        BY <3>2, <1>1, <1>5
      <4> QED BY <4>1, <1>4
    <3>3. CASE n = s - 1
      <4>1. /\ 3 \notin Copies(p, n) /\ 2 \in Copies(p, n) /\ 1 \notin Copies(p, n)
        BY <3>3, <1>1, <1>5, <1>6
      <4> QED BY <4>1, <1>4
    <3>4. CASE n = s - 2
      <4>1. /\ 3 \notin Copies(p, n) /\ 2 \notin Copies(p, n) /\ 1 \in Copies(p, n)
        BY <3>4, <1>1, <1>5, <1>6
      <4> QED BY <4>1, <1>4
    <3> QED BY <3>1, <3>2, <3>3, <3>4
  <2>2. Cardinality(Copies(p, n)) = 1
    BY <2>1, FS_Singleton
  <2> QED BY <1>6, <2>2 DEF s
<1>7. CASE ~(incoming < n /\ n <= s /\ s <= n + 2)
  <2>1. Copies(p, n) = {}
    BY <1>1, <1>4, <1>5, <1>7
  <2>2. Cardinality(Copies(p, n)) = 0
    BY <2>1, FS_EmptySet
  <2> QED BY <1>7, <2>2 DEF s
<1> QED BY <1>6, <1>7

(* What RunOnce says the server has made of the nth command.               *)
Heard(n) == \E s \in played : s \in Carriers(n) /\ \A t \in Carriers(n) : s <= t

LEMMA RunOnceKept ==
  ASSUME TypeOK, PacketsInv, ServerInv, RunOnce, NEW p \in packets, ServerRead(p)
  PROVE  RunOnce'
<1> DEFINE s == p.sequence
<1> SUFFICES ASSUME NEW n \in 1 .. MaxCommands
             PROVE  ran'[n] = IF Heard(n)' THEN 1 ELSE 0
  BY DEF RunOnce, Heard
<1>1. n \in Nat \ {0}
  BY BoundsAreNat
<1>2. ran[n] = IF Heard(n) THEN 1 ELSE 0
  BY DEF RunOnce, Heard
<1>3. /\ s \in Nat /\ incoming \in Nat /\ s > incoming
      /\ accepted' = accepted \cup {s}
      /\ accepted \subseteq 1 .. incoming /\ played \subseteq accepted
      /\ incoming > 0 => incoming \in accepted
  BY CommandNumbers DEF ServerRead, ServerInv, TypeOK
<1>4. /\ paused  => played' = played /\ ran'[n] = ran[n]
      /\ ~paused => /\ played' = played \cup {s}
                    /\ ran'[n] = ran[n] +
                         IF incoming < n /\ n <= s /\ s <= n + 2 THEN 1 ELSE 0
  <2>1. CASE paused
    BY <2>1 DEF ServerRead, ExecuteClientMove
  <2>2. CASE ~paused
    <3>1. played' = played \cup {s} /\ ran'[n] = ran[n] + Cardinality(Copies(p, n))
      BY <2>2, MoveRun
    <3>2. Cardinality(Copies(p, n)) = IF incoming < n /\ n <= s /\ s <= n + 2 THEN 1 ELSE 0
      BY <1>1, CopiesOf
    <3> QED BY <3>1, <3>2, <2>2
  <2> QED BY <2>1, <2>2
<1> HIDE DEF s
<1>5. Carriers(n)' = Carriers(n) \cup (IF n <= s /\ s <= n + 2 THEN {s} ELSE {})
  BY <1>3 DEF Carriers
<1>6. /\ Carriers(n) \subseteq accepted
      /\ \A t \in Carriers(n) : t \in Nat /\ n <= t /\ t <= n + 2 /\ t <= incoming
  BY <1>1, <1>3 DEF Carriers
<1>7. CASE incoming < n
  <2>1. Carriers(n) = {} /\ ~Heard(n)
    BY <1>1, <1>3, <1>6, <1>7 DEF Heard
  <2>2. CASE n <= s /\ s <= n + 2
    <3>1. Carriers(n)' = {s}
      BY <2>1, <2>2, <1>5
    <3>2. s \notin played
      BY <1>3
    <3>3. Heard(n)' <=> ~paused
      BY <3>1, <3>2, <1>3, <1>4 DEF Heard
    <3> QED BY <3>3, <2>1, <2>2, <1>2, <1>4, <1>7
  <2>3. CASE ~(n <= s /\ s <= n + 2)
    <3>1. ~Heard(n)'
      BY <2>1, <2>3, <1>5 DEF Heard
    <3> QED BY <3>1, <2>1, <2>3, <1>2, <1>4
  <2> QED BY <2>2, <2>3
<1>8. CASE ~(incoming < n)
  <2>1. ran'[n] = ran[n]
    BY <1>2, <1>4, <1>8
  <2>2. CASE Carriers(n) = {}
    <3>1. ~(s <= n + 2)
      BY <2>2, <1>1, <1>3, <1>8 DEF Carriers
    <3> QED BY <3>1, <2>1, <2>2, <1>2, <1>5 DEF Heard
  <2>3. CASE Carriers(n) # {}
    <3>1. PICK c \in Carriers(n) : c \in Nat /\ c <= incoming /\ c < s
      BY <2>3, <1>3, <1>6
    <3>2. Heard(n)' => Heard(n)
      <4>1. ASSUME NEW b \in played', b \in Carriers(n)', \A t \in Carriers(n)' : b <= t
            PROVE  Heard(n)
        <5>1. c \in Carriers(n)' /\ b <= c /\ b \in Nat
          BY <4>1, <3>1, <1>3, <1>5, <1>6
        <5>2. b # s
          BY <5>1, <3>1, <1>3
        <5>3. b \in played /\ b \in Carriers(n)
          BY <5>2, <4>1, <1>4, <1>5
        <5> QED BY <5>3, <4>1, <1>5 DEF Heard
      <4> QED BY <4>1 DEF Heard
    <3>3. Heard(n) => Heard(n)'
      <4>1. ASSUME NEW b \in played, b \in Carriers(n), \A t \in Carriers(n) : b <= t
            PROVE  Heard(n)'
        <5>1. b \in Nat /\ b < s
          BY <4>1, <1>3, <1>6
        <5>2. ASSUME NEW t \in Carriers(n)' PROVE b <= t
          <6>1. t \in Carriers(n) \/ t = s
            BY <5>2, <1>5
          <6>2. CASE t \in Carriers(n)
            BY <6>2, <4>1
          <6>3. CASE t = s
            BY <6>3, <5>1, <1>3
          <6> QED BY <6>1, <6>2, <6>3
        <5>3. b \in played' /\ b \in Carriers(n)'
          BY <4>1, <1>4, <1>5
        <5> QED BY <5>2, <5>3 DEF Heard
      <4> QED BY <4>1 DEF Heard
    <3> QED BY <3>2, <3>3, <2>1, <1>2
  <2> QED BY <2>2, <2>3
<1> QED BY <1>7, <1>8

LEMMA NextRunOnce ==
  ASSUME TypeOK, PacketsInv, ServerInv, RunOnce, [Next]_vars
  PROVE  RunOnce'
<1>1. ASSUME UNCHANGED server PROVE RunOnce'
  BY <1>1 DEF RunOnce, Carriers, server
<1>2. ASSUME FinishFrame PROVE UNCHANGED server
  BY <1>2 DEF FinishFrame
<1> QED BY <1>1, <1>2, RunOnceKept
        DEF Next, SendCmd, DropCmd, KeyDown, KeyUp, Event, Impulse, TogglePause, vars

-----------------------------------------------------------------------------
(* The time of the player. *)
LEMMA RunListSize ==
  ASSUME TypeOK, PacketsInv, NEW p \in packets
  PROVE  Cardinality(RunList(p)) = IF Dropped(p) > 2 THEN 3 ELSE Dropped(p) + 1
<1>1. Dropped(p) \in Nat
  BY CommandNumbers DEF Dropped, TypeOK
<1>2. CASE Dropped(p) = 0
  <2>1. RunList(p) = {3}
    BY <1>2 DEF RunList
  <2>2. Cardinality(RunList(p)) = 1
    BY <2>1, FS_Singleton
  <2> QED BY <2>2, <1>2
<1>3. CASE Dropped(p) = 1
  <2>1. RunList(p) = 2 .. 3
    BY <1>3 DEF RunList
  <2>2. 2 \in Int /\ 3 \in Int
    OBVIOUS
  <2>3. Cardinality(2 .. 3) = IF 2 > 3 THEN 0 ELSE 3 - 2 + 1
    BY <2>2, FS_Interval
  <2> QED BY <2>1, <2>3, <1>3
<1>4. CASE Dropped(p) > 1
  <2>1. RunList(p) = 1 .. 3
    BY <1>1, <1>4 DEF RunList
  <2>2. 1 \in Int /\ 3 \in Int
    OBVIOUS
  <2>3. Cardinality(1 .. 3) = IF 1 > 3 THEN 0 ELSE 3 - 1 + 1
    BY <2>2, FS_Interval
  <2>4. IF Dropped(p) > 2 THEN TRUE ELSE Dropped(p) = 2
    BY <1>1, <1>4
  <2> QED BY <2>1, <2>3, <2>4
<1> QED BY <1>1, <1>2, <1>3, <1>4

LEMMA TimeKeptKept ==
  ASSUME TypeOK, PacketsInv, ServerInv, TimeKept, NEW p \in packets, ServerRead(p)
  PROVE  TimeKept'
<1> SUFFICES ASSUME accepted' = played', ~jumped' PROVE runs' = incoming'
  BY DEF TimeKept
<1>1. /\ p.sequence \in Nat /\ p.sequence > incoming /\ incoming \in Nat /\ runs \in Nat
      /\ accepted' = accepted \cup {p.sequence} /\ incoming' = p.sequence
      /\ accepted \subseteq 1 .. incoming /\ played \subseteq accepted
  BY CommandNumbers DEF ServerRead, ServerInv, TypeOK
<1>2. p.sequence \notin accepted
  BY <1>1
<1>3. ~paused
  <2>1. ASSUME paused PROVE FALSE
    <3>1. played' = played
      BY <2>1 DEF ServerRead, ExecuteClientMove
    <3> QED BY <3>1, <1>1, <1>2
  <2> QED BY <2>1
<1>4. /\ runs' = runs + Again(p) + Cardinality(RunList(p))
      /\ ~jumped /\ ~(Dropped(p) >= MaxRepeatGap)
      /\ played' = played \cup {p.sequence}
  BY <1>3, MoveRun
<1>5. accepted = played
  BY <1>1, <1>2, <1>4
<1>6. runs = incoming
  BY <1>4, <1>5 DEF TimeKept
<1>7. Dropped(p) \in Nat /\ incoming' = incoming + Dropped(p) + 1
  BY <1>1 DEF Dropped
<1>8. Again(p) + Cardinality(RunList(p)) = Dropped(p) + 1
  <2>1. Again(p) = IF Dropped(p) > 2 THEN Dropped(p) - 2 ELSE 0
    BY <1>4, <1>7, GapIsNat DEF Again
  <2> QED BY <2>1, <1>7, RunListSize
<1>9. Again(p) \in Nat /\ Cardinality(RunList(p)) \in Nat
  BY <1>7, RunListFinite DEF Again
<1> QED BY <1>1, <1>4, <1>6, <1>7, <1>8, <1>9

LEMMA NextTimeKept ==
  ASSUME TypeOK, PacketsInv, ServerInv, TimeKept, [Next]_vars
  PROVE  TimeKept'
<1>1. ASSUME UNCHANGED server PROVE TimeKept'
  BY <1>1 DEF TimeKept, server
<1>2. ASSUME FinishFrame PROVE UNCHANGED server
  BY <1>2 DEF FinishFrame
<1> QED BY <1>1, <1>2, TimeKeptKept
        DEF Next, SendCmd, DropCmd, KeyDown, KeyUp, Event, Impulse, TogglePause, vars

-----------------------------------------------------------------------------
(* The packets that are sent. *)
LEMMA FinishFrameSent ==
  ASSUME TypeOK, SentInv, FinishFrame, sent \subseteq sent',
         \/ outgoing \in sent' /\ dropcount' = 0
         \/ dropcount < 2 /\ dropcount' = dropcount + 1
  PROVE  SentInv'
<1>1. outgoing \in Nat \ {0} /\ outgoing' = outgoing + 1 /\ dropcount \in Nat
  BY DEF FinishFrame, TypeOK
<1>2. outgoing' - 1 - dropcount' > 0 => outgoing' - 1 - dropcount' \in sent'
  BY <1>1 DEF SentInv
<1>3. ASSUME NEW n \in Nat \ {0}, n + 2 < outgoing'
      PROVE  {n, n + 1, n + 2} \cap sent' # {}
  <2>1. CASE n + 2 < outgoing
    BY <2>1 DEF SentInv
  <2>2. CASE n + 2 = outgoing
    <3>1. CASE outgoing \in sent'
      BY <3>1, <2>2
    <3>2. CASE dropcount < 2
      <4>1. outgoing - 1 - dropcount \in sent
        BY <3>2, <2>2, <1>1, <1>3 DEF SentInv
      <4>2. outgoing - 1 - dropcount = n + 1 \/ outgoing - 1 - dropcount = n
        BY <3>2, <2>2, <1>1
      <4> QED BY <4>1, <4>2
    <3> QED BY <3>1, <3>2
  <2> QED BY <2>1, <2>2, <1>1, <1>3
<1> QED BY <1>2, <1>3 DEF SentInv

LEMMA NextSent ==
  ASSUME TypeOK, SentInv, [Next]_vars
  PROVE  SentInv'
<1>1. CASE SendCmd
  <2>1. sent \subseteq sent' /\ outgoing \in sent' /\ dropcount' = 0 /\ FinishFrame
    BY <1>1 DEF SendCmd
  <2> QED BY <2>1, FinishFrameSent
<1>2. CASE DropCmd
  <2>1. sent \subseteq sent' /\ dropcount < 2 /\ dropcount' = dropcount + 1 /\ FinishFrame
    BY <1>2 DEF DropCmd, MayDrop
  <2> QED BY <2>1, FinishFrameSent
<1>3. ASSUME UNCHANGED client PROVE SentInv'
  BY <1>3 DEF SentInv, client
<1> QED BY <1>1, <1>2, <1>3
        DEF Next, ServerRead, KeyDown, KeyUp, Event, Impulse, TogglePause, vars

(* A gap of three numbers has a packet that was sent in it.                *)
LEMMA RepeatLosesOne ==
  ASSUME TypeOK, PacketsInv, SentInv, [Next]_vars, runs' > runs + 3
  PROVE  \E s \in sent : incoming < s /\ s < incoming'
<1>1. ASSUME runs' = runs PROVE FALSE
  BY <1>1 DEF TypeOK
<1>2. ASSUME NEW p \in packets, ServerRead(p)
      PROVE  \E s \in sent : incoming < s /\ s < incoming'
  <2>1. ~paused
    BY <1>1, <1>2 DEF ServerRead, ExecuteClientMove
  <2>2. runs' = runs + Again(p) + Cardinality(RunList(p))
    BY <1>2, <2>1, MoveRun
  <2>3. /\ p.sequence \in Nat /\ p.sequence > incoming /\ p.sequence < outgoing
        /\ incoming \in Nat /\ outgoing \in Nat /\ runs \in Nat /\ incoming' = p.sequence
    BY <1>2, CommandNumbers DEF ServerRead, TypeOK
  <2>4. Dropped(p) > 2 /\ Dropped(p) \in Nat
    <3>1. Dropped(p) \in Nat
      BY <2>3 DEF Dropped
    <3>2. ASSUME ~(Dropped(p) > 2) PROVE FALSE
      <4>1. Again(p) = 0
        BY <3>1, <3>2 DEF Again
      <4>2. Cardinality(RunList(p)) <= 3 /\ Cardinality(RunList(p)) \in Nat
        BY <1>2, <3>1, <3>2, RunListSize
      <4> QED BY <4>1, <4>2, <2>2, <2>3
    <3> QED BY <3>1, <3>2
  <2>5. incoming + 3 < p.sequence
    BY <2>3, <2>4 DEF Dropped
  <2>6. {incoming + 1, incoming + 2, incoming + 3} \cap sent # {}
    <3>1. incoming + 1 \in Nat \ {0} /\ (incoming + 1) + 2 < outgoing
      BY <2>3, <2>5
    <3>2. {incoming + 1, (incoming + 1) + 1, (incoming + 1) + 2} \cap sent # {}
      BY <3>1 DEF SentInv
    <3> QED BY <3>2, <2>3
  <2>7. PICK s \in sent : s = incoming + 1 \/ s = incoming + 2 \/ s = incoming + 3
    BY <2>6
  <2>8. incoming < s /\ s < incoming'
    BY <2>3, <2>5, <2>7
  <2> QED BY <2>8
<1>3. ASSUME UNCHANGED server PROVE FALSE
  BY <1>1, <1>3 DEF server
<1>4. ASSUME FinishFrame PROVE UNCHANGED server
  BY <1>4 DEF FinishFrame
<1> QED BY <1>2, <1>3, <1>4
        DEF Next, SendCmd, DropCmd, KeyDown, KeyUp, Event, Impulse, TogglePause, vars

(* A packet that an impulse needs is not withheld.                         *)
LEMMA FinishFrameImpulses ==
  ASSUME TypeOK, FramesInv, ImpulsesAreBackedUp, FinishFrame, sent \subseteq sent',
         DontDrop => outgoing \in sent'
  PROVE  ImpulsesAreBackedUp'
<1> SUFFICES ASSUME ImpulseBackup >= 3,
                    NEW n \in impulses', NEW s \in n .. n + 2, s < outgoing'
             PROVE  s \in sent'
  BY DEF ImpulsesAreBackedUp
<1>1. /\ outgoing \in Nat \ {0} /\ outgoing' = outgoing + 1
      /\ impulses \subseteq 1 .. outgoing - 1
      /\ n \in impulses \/ (n = outgoing /\ impulse)
  BY DEF FinishFrame, FramesInv, TypeOK
<1>2. n \in Nat \ {0} /\ n <= outgoing /\ s \in Int
  <2>1. CASE n = outgoing
    BY <2>1, <1>1
  <2>2. CASE n \in impulses
    <3>1. n \in 1 .. outgoing - 1
      BY <2>2, <1>1
    <3> QED BY <3>1, <1>1
  <2> QED BY <2>1, <2>2, <1>1
<1>3. CASE s < outgoing
  <2>1. n # outgoing
    BY <1>1, <1>2, <1>3
  <2> QED BY <2>1, <1>1, <1>3 DEF ImpulsesAreBackedUp
<1>4. CASE s = outgoing
  <2>1. n = outgoing \/ n = outgoing - 1 \/ n = outgoing - 2
    BY <1>1, <1>2, <1>4
  <2>2. DontDrop
    <3>1. ImpulseBackup >= 1 /\ ImpulseBackup >= 2
      BY BackupIsNat
    <3>2. CASE n = outgoing
      <4>1. Backups[3].impulse
        BY <3>2, <1>1, BackupsTyped, FinishMoveTyped
      <4> QED BY <4>1, <3>1 DEF DontDrop
    <3>3. CASE n = outgoing - 1
      <4>1. Nth(n) = n /\ n \in impulses
        BY <3>3, <1>1, <1>2 DEF Nth
      <4>2. Backups[2].impulse
        BY <4>1, <3>3, BackupsTyped DEF FramesInv, Says
      <4> QED BY <4>2 DEF DontDrop
    <3>4. CASE n = outgoing - 2
      <4>1. Nth(n) = n /\ n \in impulses
        BY <3>4, <1>1, <1>2 DEF Nth
      <4>2. Backups[1].impulse
        BY <4>1, <3>4, BackupsTyped DEF FramesInv, Says
      <4> QED BY <4>2, <3>1 DEF DontDrop
    <3> QED BY <2>1, <3>2, <3>3, <3>4
  <2> QED BY <2>2, <1>4
<1> QED BY <1>1, <1>2, <1>3, <1>4

LEMMA NextImpulses ==
  ASSUME TypeOK, FramesInv, ImpulsesAreBackedUp, [Next]_vars
  PROVE  ImpulsesAreBackedUp'
<1>1. CASE SendCmd
  <2>1. sent \subseteq sent' /\ outgoing \in sent' /\ FinishFrame
    BY <1>1 DEF SendCmd
  <2> QED BY <2>1, FinishFrameImpulses
<1>2. CASE DropCmd
  <2>1. sent \subseteq sent' /\ ~DontDrop /\ FinishFrame
    BY <1>2 DEF DropCmd, MayDrop
  <2> QED BY <2>1, FinishFrameImpulses
<1>3. ASSUME UNCHANGED client PROVE ImpulsesAreBackedUp'
  BY <1>3 DEF ImpulsesAreBackedUp, client
<1> QED BY <1>1, <1>2, <1>3
        DEF Next, ServerRead, KeyDown, KeyUp, Event, Impulse, TogglePause, vars

-----------------------------------------------------------------------------
(* All parts together. *)
Inv == TypeOK /\ ButtonInv /\ FramesInv /\ PacketsInv /\ ServerInv /\ SentInv
       /\ RunOnce /\ TimeKept /\ ImpulsesAreBackedUp

LEMMA InitInv == Init => Inv
<1> SUFFICES ASSUME Init PROVE Inv
  OBVIOUS
<1>1. TypeOK
  BY InitTyped
<1>2. ButtonInv
  BY DEF Init, ButtonInv
<1>3. FramesInv
  <2>1. RingPlaces(1) /\ outgoing = 1 /\ presses = {} /\ impulses = {}
    BY PlacesDiffer DEF Init
  <2>2. /\ frames[(outgoing - 1) % Ring] = nullcmd
        /\ frames[(outgoing - 2) % Ring] = nullcmd
    BY <2>1 DEF Init, RingPlaces
  <2>3. /\ Says(nullcmd, outgoing - 1, presses, impulses)
        /\ Says(nullcmd, outgoing - 2, presses, impulses)
    BY <2>1 DEF Says, Nth, nullcmd
  <2> QED BY <2>1, <2>2, <2>3 DEF FramesInv
<1>4. PacketsInv /\ ServerInv /\ SentInv /\ TimeKept /\ ImpulsesAreBackedUp
  <2>1. /\ outgoing = 1 /\ dropcount = 0 /\ packets = {} /\ incoming = 0 /\ runs = 0
        /\ accepted = {} /\ played = {} /\ impulses = {}
    BY DEF Init
  <2>2. PacketsInv /\ ServerInv /\ TimeKept /\ ImpulsesAreBackedUp
    BY <2>1 DEF PacketsInv, ServerInv, TimeKept, ImpulsesAreBackedUp
  <2>3. SentInv
    BY <2>1 DEF SentInv
  <2> QED BY <2>2, <2>3
<1>5. RunOnce
  <2>1. \A n \in 1 .. MaxCommands : ran[n] = 0
    BY DEF Init
  <2>2. played = {}
    BY DEF Init
  <2> QED BY <2>1, <2>2 DEF RunOnce
<1> QED BY <1>1, <1>2, <1>3, <1>4, <1>5 DEF Inv

LEMMA NextInv == Inv /\ [Next]_vars => Inv'
  BY NextTyped, NextButton, NextCommands, NextServer, NextSent, NextRunOnce, NextTimeKept,
     NextImpulses DEF Inv

LEMMA Invariance == Spec => []Inv
  BY InitInv, NextInv, PTL DEF Spec

(* What a command says, in every copy of it, is what the user did.         *)
THEOREM CommandsFollow == Spec => []CommandsFollowKeys
<1>1. Inv => CommandsFollowKeys
  BY PacketsFollow DEF Inv
<1> QED BY <1>1, Invariance, PTL

(* A command is run once if the first packet that brings it finds the game *)
(* running, otherwise never.                                               *)
THEOREM EveryCommandOnce == Spec => []RunOnce
<1>1. Inv => RunOnce
  BY DEF Inv
<1> QED BY <1>1, Invariance, PTL

(* Without pauses and long gaps the player's time keeps pace.              *)
THEOREM TimeIsKept == Spec => []TimeKept
<1>1. Inv => TimeKept
  BY DEF Inv
<1> QED BY <1>1, Invariance, PTL

(* Numbers that were used up never make the server repeat a command.       *)
THEOREM RepeatsMeanLoss == Spec => RepeatMeansLoss
<1>1. Inv /\ [Next]_vars =>
        [runs' > runs + 3 => \E s \in sent : incoming < s /\ s < incoming']_vars
  BY RepeatLosesOne DEF Inv
<1> QED BY <1>1, Invariance, PTL DEF Spec, RepeatMeansLoss

(* With cl_c2sImpulseBackup 3 every impulse leaves in three packets.       *)
THEOREM ImpulsesLeaveThrice == Spec => []ImpulsesAreBackedUp
<1>1. Inv => ImpulsesAreBackedUp
  BY DEF Inv
<1> QED BY <1>1, Invariance, PTL

=============================================================================
