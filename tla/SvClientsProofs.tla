-------------------------- MODULE SvClientsProofs --------------------------
(***************************************************************************)
(* Proofs about SvClients, for every number of slots, set of addresses,    *)
(* range of userids and setting of the times: types, userids, routing and  *)
(* what it takes to be in the game.                                        *)
(***************************************************************************)
EXTENDS SvClients, SequenceTheorems, FiniteSetTheorems, WellFoundedInduction, TLAPS

(* Min picks the least element of a set of naturals that is not empty.     *)
LEMMA MinOfNaturals ==
  ASSUME NEW S \in SUBSET Nat, S # {}
  PROVE  Min(S) \in S /\ \A x \in S : Min(S) <= x
<1>1. OpToRel(<, Nat) = {ss \in Nat \X Nat : ss[1] < ss[2]}
  BY Zenon DEF OpToRel
<1>2. PICK x \in S : \A y \in S : ~(<<y, x>> \in OpToRel(<, Nat))
  BY WFMin, NatLessThanWellFounded, Zenon
<1>3. \A y \in S : x <= y
  <2>1. \A y \in Nat : y < x => <<y, x>> \in {ss \in Nat \X Nat : ss[1] < ss[2]}
    BY SMT
  <2>2. \A y \in S : ~(y < x)
    BY <1>1, <1>2, <2>1, Zenon
  <2> QED BY <2>2
<1> QED BY <1>3 DEF Min

(* Some number is free: there are more of them than slots.                 *)
LEMMA SomeUseridIsFree ==
  ASSUME NEW table, lastuserid \in 0 .. MaxUserid
  PROVE  \E k \in 1 .. MaxUserid : Unused(table, UseridAfter(lastuserid, k))
<1> SUFFICES ASSUME \A k \in 1 .. MaxUserid : ~Unused(table, UseridAfter(lastuserid, k))
             PROVE  FALSE
  OBVIOUS
<1> DEFINE Holder(k) == CHOOSE s \in Slot : table[s].userid = UseridAfter(lastuserid, k)
           f == [k \in 1 .. MaxUserid |-> Holder(k)]
<1>1. \A k \in 1 .. MaxUserid :
        f[k] \in Slot /\ table[f[k]].userid = UseridAfter(lastuserid, k)
  BY DEF Unused
<1>2. f \in [1 .. MaxUserid -> Slot]
  BY <1>1
<1>3. /\ IsFiniteSet(Slot) /\ IsFiniteSet(1 .. MaxUserid)
      /\ Cardinality(Slot) < Cardinality(1 .. MaxUserid)
  <2>1. MaxSlots - 1 \in Int /\ MaxUserid \in Int /\ 0 \in Int /\ 1 \in Int
    BY SlotsAreNat, UseridsSuffice
  <2>2. IsFiniteSet(Slot) /\ Cardinality(Slot) = MaxSlots
    <3>1. /\ IsFiniteSet(0 .. MaxSlots - 1)
          /\ Cardinality(0 .. MaxSlots - 1) =
               IF 0 > MaxSlots - 1 THEN 0 ELSE (MaxSlots - 1) - 0 + 1
      BY <2>1, FS_Interval
    <3> QED BY <3>1, SlotsAreNat DEF Slot
  <2>3. /\ IsFiniteSet(1 .. MaxUserid)
        /\ Cardinality(1 .. MaxUserid) = IF 1 > MaxUserid THEN 0 ELSE MaxUserid - 1 + 1
    BY <2>1, FS_Interval
  <2> QED BY <2>2, <2>3, SlotsAreNat, UseridsSuffice
<1>4. PICK x, y \in 1 .. MaxUserid : x # y /\ f[x] = f[y]
  <2> HIDE DEF f
  <2> QED BY <1>2, <1>3, FS_PigeonHole
<1>5. UseridAfter(lastuserid, x) = UseridAfter(lastuserid, y)
  BY <1>1, <1>4
<1> QED BY <1>4, <1>5, UseridsSuffice DEF UseridAfter

(* SV_GenerateUserID finds a number nobody has.                            *)
LEMMA NextUseridIsUnused ==
  ASSUME NEW table, lastuserid \in 0 .. MaxUserid
  PROVE  NextUserid(table) \in 1 .. MaxUserid /\ Unused(table, NextUserid(table))
<1> DEFINE K == {k \in 1 .. MaxUserid : Unused(table, UseridAfter(lastuserid, k))}
<1>1. K # {} /\ K \in SUBSET Nat
  BY SomeUseridIsFree
<1>2. Min(K) \in K
  <2> HIDE DEF K
  <2> QED BY <1>1, MinOfNaturals
<1>3. NextUserid(table) = UseridAfter(lastuserid, Min(K))
  BY DEF NextUserid
<1>4. UseridAfter(lastuserid, Min(K)) \in 1 .. MaxUserid
  BY <1>2, UseridsSuffice DEF UseridAfter
<1> QED BY <1>2, <1>3, <1>4
-----------------------------------------------------------------------------
(* One slot.  Sound: what holds of every slot while level n runs.  A       *)
(* "begin" that asks to enter level n is under way only once Cmd_Spawn_f   *)
(* has set the client up for it.  Kept: c may become d without a new       *)
(* connection.                                                             *)
Prompt == [cmd : Command, level : Nat]

PromptsSound(c, n) ==
  \A i \in 1 .. Len(c.prompted) :
    /\ c.prompted[i].level <= n
    /\ c.prompted[i].cmd = "begin" /\ c.prompted[i].level = n => c.prepared = n

Sound(c, n) ==
  /\ c \in Client
  /\ PromptsSound(c, n)
  /\ c.state = "cs_spawned" => c.prepared = n

Kept(c, d) ==
  InUse(d) => /\ InUse(c)
              /\ d.userid = c.userid
              /\ d.number = c.number
              /\ d.remote.base = c.remote.base
              /\ d.remote.qport = c.remote.qport

(* d is a sound slot that may follow the sound slot c.                     *)
Follows(d, c) == Sound(d, spawncount) /\ Kept(c, d)

(* Kept is transitive.                                                     *)
LEMMA FollowsOn ==
  ASSUME NEW c, NEW d, NEW e, Follows(d, c), Follows(e, d)
  PROVE  Follows(e, c)
BY DEF Follows, Kept

(* SV_DropClient on a slot in use.                                         *)
LEMMA DroppedFollows ==
  ASSUME NEW c, InUse(c), Sound(c, spawncount)
  PROVE  Follows(Dropped(c), c)
<1>1. Dropped(c) \in Client
  BY DEF Dropped, Sound, Client, State
<1>2. /\ Dropped(c).prompted = c.prompted
      /\ Dropped(c).prepared = c.prepared
      /\ Dropped(c).state = "cs_zombie"
  BY DEF Dropped, Sound, Client
<1>3. Kept(c, Dropped(c))
  BY DEF Kept, Dropped, Sound, Client
<1> QED BY <1>1, <1>2, <1>3 DEF Follows, Sound, PromptsSound

(* A packet was read.                                                      *)
LEMMA HeardFollows ==
  ASSUME NEW c, InUse(c), Sound(c, spawncount)
  PROVE  Follows(Heard(c), c)
<1>1. Heard(c) \in Client
  BY DEF Heard, Sound, Client
<1>2. /\ Heard(c).prompted = c.prompted
      /\ Heard(c).prepared = c.prepared
      /\ Heard(c).state = c.state
  BY DEF Heard, Sound, Client
<1>3. Kept(c, Heard(c))
  BY DEF Kept, Heard, Sound, Client
<1> QED BY <1>1, <1>2, <1>3 DEF Follows, Sound, PromptsSound

(* The client is asked for a command: for "begin" only when it is set up   *)
(* for the level that runs.                                                *)
LEMMA AskedFollows ==
  ASSUME NEW c, InUse(c), Sound(c, spawncount), spawncount \in Nat,
         NEW cmd \in Command, cmd = "begin" => c.prepared = spawncount
  PROVE  Follows(Asked(c, cmd), c)
<1> DEFINE d == Asked(c, cmd)
<1>1. Ask(cmd) \in Prompt /\ Ask(cmd).cmd = cmd /\ Ask(cmd).level <= spawncount
  BY DEF Ask, Prompt
<1>2. c.prompted \in Seq(Prompt)
  BY DEF Sound, Client, Prompt
<1>3. /\ Append(c.prompted, Ask(cmd)) \in Seq(Prompt)
      /\ Len(Append(c.prompted, Ask(cmd))) = Len(c.prompted) + 1
      /\ \A i \in 1 .. Len(c.prompted) : Append(c.prompted, Ask(cmd))[i] = c.prompted[i]
      /\ Append(c.prompted, Ask(cmd))[Len(c.prompted) + 1] = Ask(cmd)
  BY <1>1, <1>2, AppendProperties
<1>4. d \in Client
  BY <1>3 DEF Asked, Sound, Client, Prompt
<1>5. /\ d.prompted = Append(c.prompted, Ask(cmd))
      /\ d.prepared = c.prepared
      /\ d.state = c.state
  BY DEF Asked, Sound, Client
<1>6. PromptsSound(d, spawncount)
  <2>1. \A i \in 1 .. Len(d.prompted) :
          \/ i \in 1 .. Len(c.prompted) /\ d.prompted[i] = c.prompted[i]
          \/ d.prompted[i] = Ask(cmd)
    BY <1>2, <1>3, <1>5, LenProperties
  <2> QED BY <1>1, <1>5, <2>1 DEF PromptsSound, Sound
<1>7. Kept(c, d)
  BY DEF Kept, Asked, Sound, Client
<1> QED BY <1>4, <1>5, <1>6, <1>7 DEF Follows, Sound

(* What changes neither the prompts nor the level of the edict, and does   *)
(* not put the client into the game, keeps a slot sound.                   *)
LEMMA UnpromptedFollows ==
  ASSUME NEW c, Sound(c, spawncount), NEW d \in Client, Kept(c, d),
         d.prompted = c.prompted, d.prepared = c.prepared,
         d.state = "cs_spawned" => c.state = "cs_spawned"
  PROVE  Follows(d, c)
BY DEF Follows, Sound, PromptsSound

(* What Cmd_New_f does before it answers.                                  *)
LEMMA StartedFollows ==
  ASSUME NEW c, InUse(c), Sound(c, spawncount)
  PROVE  Follows(Started(c), c) /\ InUse(Started(c)) /\ Started(c).state = c.state
<1>1. Started(c) \in Client /\ Kept(c, Started(c))
  BY DEF Started, Sound, Client, Kept
<1>2. /\ Started(c).prompted = c.prompted
      /\ Started(c).prepared = c.prepared
      /\ Started(c).state = c.state
  BY DEF Started, Sound, Client
<1> QED BY <1>1, <1>2, UnpromptedFollows DEF InUse

(* The state and the login settled by Cmd_New_f.                           *)
LEMMA SettledFollows ==
  ASSUME NEW c, InUse(c), Sound(c, spawncount), c.state # "cs_spawned",
         NEW v \in {-1, 0, 1}
  PROVE  LET d == [Settled(c) EXCEPT !.logged = v] IN Follows(d, c) /\ InUse(d)
<1> DEFINE d == [Settled(c) EXCEPT !.logged = v]
<1>1. d \in Client /\ Kept(c, d)
  BY DEF Settled, Sound, Client, State, Kept
<1>2. d.prompted = c.prompted /\ d.prepared = c.prepared
  BY DEF Settled, Sound, Client
<1>3. d.state \in {c.state, "cs_connected"} /\ d.state # "cs_free" /\ d.state # "cs_spawned"
  BY DEF Settled, Sound, Client, InUse
<1> QED BY <1>1, <1>2, <1>3, UnpromptedFollows DEF InUse

(* Cmd_New_f.                                                              *)
LEMMA NewFollows ==
  ASSUME NEW c, InUse(c), Sound(c, spawncount), spawncount \in Nat,
         NEW d \in New(c)
  PROVE  Follows(d, c)
<1>1. CASE c.state = "cs_spawned"
  BY <1>1 DEF New, Follows, Kept
<1>2. CASE c.state # "cs_spawned"
  <2> DEFINE k == Started(c)
             v == IF SvLogin THEN 1 ELSE -1
             e(n) == [Settled(k) EXCEPT !.logged = n]
  <2>1. Follows(k, c) /\ InUse(k) /\ Sound(k, spawncount) /\ k.state # "cs_spawned"
    BY <1>2, StartedFollows DEF Follows
  <2>2. \A n \in {-1, 0, 1} : Follows(e(n), k) /\ InUse(e(n)) /\ Sound(e(n), spawncount)
    BY <2>1, SettledFollows DEF Follows
  <2>3. v \in {-1, 0, 1}
    OBVIOUS
  <2>4. d \in {Asked(k, "new"), Dropped(k), Asked(e(v), "soundlist"), Asked(e(0), "login")}
    BY <1>2 DEF New
  <2>5. CASE d = Asked(k, "new")
    <3>1. Follows(d, k)
      BY <2>1, <2>5, AskedFollows DEF Command
    <3> QED BY <2>1, <3>1, FollowsOn
  <2>6. CASE d = Dropped(k)
    <3>1. Follows(d, k)
      BY <2>1, <2>6, DroppedFollows
    <3> QED BY <2>1, <3>1, FollowsOn
  <2>7. CASE d = Asked(e(v), "soundlist")
    <3>1. Follows(e(v), k) /\ InUse(e(v)) /\ Sound(e(v), spawncount)
      BY <2>2, <2>3
    <3> HIDE DEF e, k, v
    <3>2. Follows(d, e(v))
      BY <2>7, <3>1, AskedFollows DEF Command
    <3> QED BY <2>1, <3>1, <3>2, FollowsOn
  <2>8. CASE d = Asked(e(0), "login")
    <3>1. Follows(e(0), k) /\ InUse(e(0)) /\ Sound(e(0), spawncount)
      BY <2>2
    <3> HIDE DEF e, k, v
    <3>2. Follows(d, e(0))
      BY <2>8, <3>1, AskedFollows DEF Command
    <3> QED BY <2>1, <3>1, <3>2, FollowsOn
  <2> QED BY <2>4, <2>5, <2>6, <2>7, <2>8
<1> QED BY <1>1, <1>2

(* SV_ParseLogin.                                                          *)
LEMMA LoginFollows ==
  ASSUME NEW c, InUse(c), Sound(c, spawncount), spawncount \in Nat,
         NEW d \in Login(c)
  PROVE  Follows(d, c)
<1>1. CASE d = c
  BY <1>1 DEF Follows, Kept
<1>2. CASE d = Asked(c, "login")
  BY <1>2, AskedFollows DEF Command
<1>3. CASE d = Asked([c EXCEPT !.logged = 1], "new")
  <2> DEFINE e == [c EXCEPT !.logged = 1]
  <2>1. e \in Client /\ Kept(c, e)
    BY DEF Sound, Client, Kept
  <2>2. e.prompted = c.prompted /\ e.prepared = c.prepared /\ e.state = c.state
    BY DEF Sound, Client
  <2> HIDE DEF e
  <2>3. Follows(e, c) /\ InUse(e) /\ Sound(e, spawncount)
    BY <2>1, <2>2, UnpromptedFollows DEF InUse, Follows
  <2>4. Follows(Asked(e, "new"), e)
    BY <2>3, AskedFollows DEF Command
  <2> QED BY <1>3, <2>3, <2>4, FollowsOn DEF e
<1> QED BY <1>1, <1>2, <1>3 DEF Login

(* The signon starts over: prompts are lost, then Cmd_New_f.               *)
LEMMA StartOverFollows ==
  ASSUME NEW c, InUse(c), Sound(c, spawncount), spawncount \in Nat,
         NEW d \in StartOver(c)
  PROVE  Follows(d, c)
<1>1. PICK n \in 0 .. Len(c.prompted) : d \in New([c EXCEPT !.prompted = SubSeq(@, 1, n)])
  BY DEF StartOver
<1> DEFINE e == [c EXCEPT !.prompted = SubSeq(@, 1, n)]
<1>2. c.prompted \in Seq(Prompt)
  BY DEF Sound, Client, Prompt
<1>3. /\ SubSeq(c.prompted, 1, n) \in Seq(Prompt)
      /\ Len(SubSeq(c.prompted, 1, n)) = n
      /\ \A i \in 1 .. n : SubSeq(c.prompted, 1, n)[i] = c.prompted[i]
      /\ \A i \in 1 .. n : i \in 1 .. Len(c.prompted)
  BY <1>2, LenProperties
<1>4. e \in Client /\ Kept(c, e)
  BY <1>3 DEF Sound, Client, Kept, Prompt
<1>5. e.prompted = SubSeq(c.prompted, 1, n) /\ e.prepared = c.prepared /\ e.state = c.state
  BY DEF Sound, Client
<1> HIDE DEF e
<1>6. PromptsSound(e, spawncount)
  BY <1>3, <1>5 DEF PromptsSound, Sound
<1>7. Follows(e, c) /\ InUse(e) /\ Sound(e, spawncount)
  BY <1>4, <1>5, <1>6 DEF Follows, Sound, InUse
<1>8. Follows(d, e)
  BY <1>1, <1>7, NewFollows DEF e
<1> QED BY <1>7, <1>8, FollowsOn

(* The commands of the signon: only the last part of Cmd_Spawn_f asks for  *)
(* "begin", and Cmd_Begin_f lets nobody in who asks for another level.     *)
LEMMA OutcomesFollow ==
  ASSUME NEW c, InUse(c), Sound(c, spawncount), spawncount \in Nat,
         NEW m \in Prompt, m.cmd = "begin" /\ m.level = spawncount => c.prepared = spawncount,
         NEW d \in Outcomes(c, m)
  PROVE  Follows(d, c)
<1>1. CASE d = c
  BY <1>1 DEF Follows, Kept
<1>2. CASE d \in New(c)
  BY <1>2, NewFollows
<1>3. CASE d \in Login(c)
  BY <1>3, LoginFollows
<1>4. CASE d \in StartOver(c)
  BY <1>4, StartOverFollows
<1>5. CASE m.cmd \in {"soundlist", "modellist", "prespawn"} /\ d \in List(c, m)
  <2>1. \/ d = c
        \/ d \in StartOver(c)
        \/ d = Asked(c, m.cmd)
        \/ d = Asked(c, NextCommand[m.cmd])
        \/ d = Dropped(c)
    BY <1>5 DEF List
  <2>2. NextCommand[m.cmd] \in {"modellist", "prespawn", "spawn"}
    BY <1>5 DEF NextCommand
  <2> QED BY <1>1, <1>4, <1>5, <2>1, <2>2, AskedFollows, DroppedFollows DEF Command
<1>6. CASE d \in Spawn(c, m)
  <2>1. CASE d = Asked([c EXCEPT !.prepared = spawncount], "begin")
                /\ c.state = "cs_connected"
    <3> DEFINE e == [c EXCEPT !.prepared = spawncount]
    <3>1. e \in Client /\ Kept(c, e)
      BY DEF Sound, Client, Kept
    <3>2. e.prompted = c.prompted /\ e.prepared = spawncount /\ e.state = c.state
      BY DEF Sound, Client
    <3>3. d = Asked(e, "begin")
      BY <2>1
    <3> HIDE DEF e
    <3>4. Sound(e, spawncount) /\ InUse(e) /\ Follows(e, c)
      BY <3>1, <3>2 DEF Sound, PromptsSound, InUse, Follows
    <3>5. Follows(d, e)
      BY <3>2, <3>3, <3>4, AskedFollows DEF Command
    <3> QED BY <3>4, <3>5, FollowsOn
  <2>2. \/ d = c
        \/ d \in StartOver(c)
        \/ d = Asked(c, "spawn")
        \/ d = Asked([c EXCEPT !.prepared = spawncount], "begin") /\ c.state = "cs_connected"
    BY <1>6 DEF Spawn
  <2> QED BY <1>1, <1>4, <2>1, <2>2, AskedFollows DEF Command
<1>7. CASE m.cmd = "begin" /\ d \in Begin(c, m)
  <2>1. CASE d = [c EXCEPT !.state = "cs_spawned"] /\ m.level = spawncount
    <3>1. d \in Client /\ Kept(c, d)
      BY <2>1 DEF Sound, Client, State, Kept, InUse
    <3>2. d.prompted = c.prompted /\ d.prepared = c.prepared /\ d.state = "cs_spawned"
      BY <2>1 DEF Sound, Client
    <3> QED BY <1>7, <2>1, <3>1, <3>2 DEF Follows, Sound, PromptsSound
  <2>2. \/ d = c
        \/ d \in StartOver(c)
        \/ d = [c EXCEPT !.state = "cs_spawned"] /\ m.level = spawncount
    BY <1>7 DEF Begin
  <2> QED BY <1>1, <1>4, <2>1, <2>2
<1>8. m.cmd \in Command
  BY DEF Prompt
<1> QED BY <1>2, <1>3, <1>5, <1>6, <1>7, <1>8 DEF Outcomes, Command

-----------------------------------------------------------------------------
(* All slots.  Of the slots with one base address and qport the first is   *)
(* the newest: CheckReConnect frees the first of those that match, and the *)
(* new client goes into the first free slot, that one or an earlier one.   *)
SameAddress(c, d) == c.remote.base = d.remote.base /\ c.remote.qport = d.remote.qport

NewestFirst(table) ==
  \A s, t \in Slot :
    InUse(table[s]) /\ InUse(table[t]) /\ SameAddress(table[s], table[t]) /\ s < t
      => table[s].number > table[t].number

Distinct(table) ==
  \A s, t \in Slot :
    InUse(table[s]) /\ InUse(table[t]) /\ table[s].userid = table[t].userid => s = t

Numbered(table) == \A s \in Slot : InUse(table[s]) => table[s].number <= connects

ClientsInv ==
  /\ TypeOK
  /\ \A s \in Slot : Sound(clients[s], spawncount)
  /\ Distinct(clients)
  /\ NewestFirst(clients)
  /\ Numbered(clients)

(* A table in which every slot is sound and follows what it was.           *)
TableFollows(table, n) ==
  /\ table \in [Slot -> Client]
  /\ \A s \in Slot : Sound(table[s], n) /\ Kept(clients[s], table[s])

(* What holds between the slots is not disturbed by a step that brings no  *)
(* new connection.                                                         *)
LEMMA KeptTable ==
  ASSUME ClientsInv, NEW table, NEW n, TableFollows(table, n)
  PROVE  Distinct(table) /\ NewestFirst(table) /\ Numbered(table)
<1>1. Distinct(table)
  BY DEF ClientsInv, TableFollows, Distinct, Kept
<1>2. NewestFirst(table)
  BY DEF ClientsInv, TableFollows, NewestFirst, SameAddress, Kept
<1>3. Numbered(table)
  BY DEF ClientsInv, TableFollows, Numbered, Kept
<1> QED BY <1>1, <1>2, <1>3

(* A step that only changes the slots, each to one that follows it.        *)
LEMMA KeptStep ==
  ASSUME ClientsInv, TableFollows(clients', spawncount'), UNCHANGED connects,
         lastuserid' = lastuserid, spawncount' \in Nat \ {0},
         paused' \in BOOLEAN, realtime' \in Nat
  PROVE  ClientsInv'
<1>1. TypeOK'
  BY DEF ClientsInv, TypeOK, TableFollows
<1>2. Distinct(clients') /\ NewestFirst(clients') /\ Numbered(clients')
  BY KeptTable
<1>3. Distinct(clients)' /\ NewestFirst(clients)' /\ Numbered(clients)'
  BY <1>2 DEF Distinct, NewestFirst, Numbered, InUse, SameAddress
<1>4. (\A s \in Slot : Sound(clients[s], spawncount))'
  BY DEF TableFollows, Sound, PromptsSound
<1> QED BY <1>1, <1>3, <1>4 DEF ClientsInv

(* A step of one slot.                                                     *)
LEMMA OneSlotStep ==
  ASSUME ClientsInv, NEW s \in Slot, NEW d, Follows(d, clients[s]),
         clients' = [clients EXCEPT ![s] = d],
         paused' \in BOOLEAN, UNCHANGED <<lastuserid, spawncount, realtime, connects>>
  PROVE  ClientsInv'
<1>1. clients \in [Slot -> Client] /\ \A t \in Slot : Sound(clients[t], spawncount)
  BY DEF ClientsInv, TypeOK
<1>2. d \in Client /\ Sound(d, spawncount) /\ Kept(clients[s], d)
  BY DEF Follows, Sound
<1>3. TableFollows(clients', spawncount)
  BY <1>1, <1>2 DEF TableFollows, Kept
<1>4. spawncount' = spawncount /\ spawncount \in Nat \ {0} /\ realtime' \in Nat
  BY DEF ClientsInv, TypeOK
<1> QED BY <1>3, <1>4, KeptStep

(* A packet that reaches a slot reaches one in use.                        *)
LEMMA ReachedSlot ==
  ASSUME ClientsInv, NEW s \in Slot, Reaches(s)
  PROVE  /\ InUse(clients[s])
         /\ Sound(clients[s], spawncount)
         /\ Follows(Heard(clients[s]), clients[s])
         /\ InUse(Heard(clients[s]))
         /\ spawncount \in Nat
<1>1. InUse(clients[s]) /\ Sound(clients[s], spawncount) /\ spawncount \in Nat
  BY DEF Reaches, ClientsInv, TypeOK
<1>2. InUse(Heard(clients[s]))
  BY <1>1 DEF Heard, InUse, Sound, Client
<1> QED BY <1>1, <1>2, HeardFollows

(* A packet without a command.                                             *)
LEMMA HearStep ==
  ASSUME ClientsInv, NEW s \in Slot, NEW port \in Ports, Hear(s, port)
  PROVE  ClientsInv'
<1> DEFINE h == Heard(clients[s])
           d == [h EXCEPT !.remote.port = port]
<1>1. Follows(h, clients[s]) /\ h \in Client /\ InUse(h) /\ Sound(h, spawncount)
  BY ReachedSlot DEF Hear, Follows, Sound
<1>2. port \in Nat
  BY RemotesAreThere DEF Ports, Address
<1>3. d = [h EXCEPT !.remote = [h.remote EXCEPT !.port = port]]
  BY <1>1 DEF Client
<1>4. [h.remote EXCEPT !.port = port] \in Address
      /\ [h.remote EXCEPT !.port = port].base = h.remote.base
      /\ [h.remote EXCEPT !.port = port].qport = h.remote.qport
  BY <1>1, <1>2 DEF Client, Address
<1>5. d \in Client /\ Kept(h, d)
  <2> HIDE DEF h
  <2> QED BY <1>1, <1>3, <1>4 DEF Client, Kept
<1>6. d.prompted = h.prompted /\ d.prepared = h.prepared /\ d.state = h.state
  <2> HIDE DEF h
  <2> QED BY <1>1, <1>3 DEF Client
<1>7. Follows(d, clients[s])
  <2> HIDE DEF h, d
  <2> QED BY <1>1, <1>5, <1>6, UnpromptedFollows, FollowsOn
<1> QED BY <1>7, OneSlotStep DEF Hear, ClientsInv, TypeOK

(* A packet with the next command of the signon.                           *)
LEMMA UserCommandStep ==
  ASSUME ClientsInv, NEW s \in Slot, UserCommand(s)
  PROVE  ClientsInv'
<1> DEFINE h == Heard(clients[s])
           e == [h EXCEPT !.prompted = Tail(@)]
           m == Head(clients[s].prompted)
<1>1. Follows(h, clients[s]) /\ h \in Client /\ InUse(h) /\ Sound(h, spawncount)
      /\ Sound(clients[s], spawncount) /\ spawncount \in Nat
  BY ReachedSlot DEF UserCommand, Follows, Sound
<1>2. PICK c \in Outcomes(e, m) : clients' = [clients EXCEPT ![s] = c]
  BY DEF UserCommand
<1>3. h.prompted = clients[s].prompted /\ h.prompted # <<>> /\ h.prompted \in Seq(Prompt)
  BY <1>1 DEF Heard, UserCommand, Sound, Client, Prompt
<1> HIDE DEF h
<1>4. /\ m = h.prompted[1]
      /\ 1 \in 1 .. Len(h.prompted)
      /\ m \in Prompt
      /\ Tail(h.prompted) \in Seq(Prompt)
      /\ \A i \in 1 .. Len(Tail(h.prompted)) :
           i + 1 \in 1 .. Len(h.prompted) /\ Tail(h.prompted)[i] = h.prompted[i + 1]
  BY <1>3, HeadTailProperties, LenProperties, EmptySeq
<1>5. e \in Client /\ Kept(h, e)
  BY <1>1, <1>4 DEF Client, Kept, Prompt
<1>6. e.prompted = Tail(h.prompted) /\ e.prepared = h.prepared /\ e.state = h.state
  BY <1>1 DEF Client
<1> HIDE DEF e, m
<1>7. Sound(e, spawncount)
  BY <1>1, <1>4, <1>5, <1>6 DEF Sound, PromptsSound
<1>8. Follows(e, h) /\ InUse(e)
  BY <1>1, <1>5, <1>6, <1>7 DEF Follows, InUse
<1>9. m.cmd = "begin" /\ m.level = spawncount => e.prepared = spawncount
  BY <1>1, <1>4, <1>6 DEF Sound, PromptsSound
<1>10. Follows(c, e)
  BY <1>1, <1>2, <1>4, <1>7, <1>8, <1>9, OutcomesFollow
<1>11. Follows(c, clients[s])
  BY <1>1, <1>8, <1>10, FollowsOn
<1> QED BY <1>2, <1>11, OneSlotStep DEF UserCommand, ClientsInv, TypeOK

(* The other packets of a client.                                          *)
LEMMA PacketStep ==
  ASSUME ClientsInv, NEW s \in Slot, Disconnect(s) \/ Pause(s) \/ Spam(s)
  PROVE  ClientsInv'
<1> DEFINE h == Heard(clients[s])
<1>1. Follows(h, clients[s]) /\ h \in Client /\ InUse(h) /\ Sound(h, spawncount)
  BY ReachedSlot DEF Disconnect, Pause, Spam, Follows, Sound
<1>2. CASE Disconnect(s)
  <2>1. Follows(Dropped(h), clients[s])
    BY <1>1, DroppedFollows, FollowsOn
  <2>2. \E d \in {h, Dropped(h)} : clients' = [clients EXCEPT ![s] = d]
    BY <1>2 DEF Disconnect
  <2> QED BY <1>1, <1>2, <2>1, <2>2, OneSlotStep DEF Disconnect, ClientsInv, TypeOK
<1>3. CASE Pause(s)
  BY <1>1, <1>3, OneSlotStep DEF Pause, ClientsInv, TypeOK
<1>4. CASE Spam(s)
  <2> DEFINE d == [h EXCEPT !.drop = TRUE]
  <2>1. d \in Client /\ Kept(h, d)
    BY <1>1 DEF Client, Kept
  <2>2. d.prompted = h.prompted /\ d.prepared = h.prepared /\ d.state = h.state
    BY <1>1 DEF Client
  <2>3. clients' = [clients EXCEPT ![s] = d]
    BY <1>4 DEF Spam
  <2> HIDE DEF d, h
  <2>4. Follows(d, clients[s])
    BY <1>1, <2>1, <2>2, UnpromptedFollows, FollowsOn
  <2> QED BY <1>4, <2>3, <2>4, OneSlotStep DEF Spam, ClientsInv, TypeOK
<1> QED BY <1>2, <1>3, <1>4

(* A kick.                                                                 *)
LEMMA KickStep ==
  ASSUME ClientsInv, NEW s \in Slot, Kick(s)
  PROVE  ClientsInv'
<1>1. Follows(Dropped(clients[s]), clients[s])
  BY DroppedFollows DEF Kick, ClientsInv
<1> QED BY <1>1, OneSlotStep DEF Kick, ClientsInv, TypeOK

(* A slot at the end of a frame.                                           *)
LEMMA SentFollows ==
  ASSUME ClientsInv, NEW s \in Slot, NEW over
  PROVE  Follows(Sent(s, over), clients[s])
<1> DEFINE c == clients[s]
           d == [Dropped(c) EXCEPT !.drop = FALSE]
<1>1. Sound(c, spawncount)
  BY DEF ClientsInv
<1>2. CASE Sent(s, over) = c
  BY <1>1, <1>2 DEF Follows, Kept
<1>3. CASE InUse(c) /\ Sent(s, over) = Dropped(c)
  BY <1>1, <1>3, DroppedFollows
<1>4. CASE InUse(c) /\ Sent(s, over) = d
  <2> DEFINE e == Dropped(c)
  <2>1. Follows(e, c) /\ Sound(e, spawncount) /\ e \in Client
    BY <1>1, <1>4, DroppedFollows DEF Follows, Sound
  <2> HIDE DEF e
  <2>2. [e EXCEPT !.drop = FALSE] \in Client /\ Kept(e, [e EXCEPT !.drop = FALSE])
    BY <2>1 DEF Client, Kept, InUse
  <2>3. /\ [e EXCEPT !.drop = FALSE].prompted = e.prompted
        /\ [e EXCEPT !.drop = FALSE].prepared = e.prepared
        /\ [e EXCEPT !.drop = FALSE].state = e.state
    BY <2>1 DEF Client
  <2>4. Follows([e EXCEPT !.drop = FALSE], e)
    BY <2>1, <2>2, <2>3, UnpromptedFollows
  <2> QED BY <1>4, <2>1, <2>4, FollowsOn DEF e
<1> QED BY <1>2, <1>3, <1>4 DEF Sent

(* SV_SendClientMessages.                                                  *)
LEMMA SendStep ==
  ASSUME ClientsInv, NEW over \in SUBSET Slot, SendClientMessages(over)
  PROVE  ClientsInv'
<1>1. \A s \in Slot : Sent(s, over) \in Client /\ Sound(Sent(s, over), spawncount)
                      /\ Kept(clients[s], Sent(s, over))
  BY SentFollows DEF Follows, Sound
<1>2. clients' = [s \in Slot |-> Sent(s, over)]
  BY DEF SendClientMessages
<1>3. TableFollows(clients', spawncount)
  BY <1>1, <1>2 DEF TableFollows
<1>4. spawncount' = spawncount /\ spawncount \in Nat \ {0} /\ realtime' \in Nat
      /\ paused' \in BOOLEAN
  BY DEF SendClientMessages, ClientsInv, TypeOK
<1> QED BY <1>3, <1>4, KeptStep DEF SendClientMessages

(* SV_Map: whoever was in the game has to be set up for the new level, and *)
(* no "begin" for it can be under way.                                     *)
LEMMA MapStep ==
  ASSUME ClientsInv, Map
  PROVE  ClientsInv'
<1>1. ASSUME NEW s \in Slot
      PROVE  LET d == Reconnect(SaveSpawnparms(Sent(s, {})))
             IN  Sound(d, spawncount + 1) /\ Kept(clients[s], d)
  <2> DEFINE c == Sent(s, {})
             k == SaveSpawnparms(c)
             d == Reconnect(k)
  <2>1. Follows(c, clients[s]) /\ Sound(c, spawncount) /\ c \in Client
        /\ spawncount \in Nat \ {0}
    BY SentFollows DEF Follows, Sound, ClientsInv, TypeOK
  <2> HIDE DEF c
  <2>2. k \in Client /\ Kept(c, k) /\ k.state # "cs_spawned"
    BY <2>1 DEF SaveSpawnparms, Client, State, Kept, InUse
  <2>3. k.prompted = c.prompted /\ k.prepared = c.prepared
    BY <2>1 DEF SaveSpawnparms, Client
  <2> HIDE DEF k
  <2>4. Follows(k, c) /\ Sound(k, spawncount)
    BY <2>1, <2>2, <2>3, UnpromptedFollows DEF Follows
  <2>5. Follows(d, k) /\ d.state # "cs_spawned"
    <3>1. CASE Active(k)
      <4>1. d = Asked(k, "new") /\ InUse(k)
        BY <3>1 DEF Reconnect, Active, InUse
      <4>2. d.state = k.state
        BY <2>2, <4>1 DEF Asked, Client
      <4> QED BY <2>1, <2>2, <2>4, <4>1, <4>2, AskedFollows DEF Command
    <3>2. CASE ~Active(k)
      BY <2>2, <2>4, <3>2 DEF Reconnect, Follows, Kept
    <3> QED BY <3>1, <3>2
  <2> HIDE DEF d
  <2>6. Sound(d, spawncount) /\ Kept(clients[s], d)
    BY <2>1, <2>4, <2>5, FollowsOn DEF Follows
  <2>7. d.prompted \in Seq(Prompt)
    BY <2>6 DEF Sound, Client, Prompt
  <2>8. \A i \in 1 .. Len(d.prompted) : d.prompted[i].level \in Nat
    <3>1. \A i \in 1 .. Len(d.prompted) : d.prompted[i] \in Prompt
      BY <2>7, ElementOfSeq
    <3> QED BY <3>1 DEF Prompt
  <2>9. Sound(d, spawncount + 1)
    BY <2>1, <2>5, <2>6, <2>8 DEF Sound, PromptsSound
  <2> QED BY <2>6, <2>9 DEF c, k, d
<1>2. /\ clients' = [s \in Slot |-> Reconnect(SaveSpawnparms(Sent(s, {})))]
      /\ spawncount' = spawncount + 1
  BY DEF Map
<1>3. spawncount' \in Nat \ {0} /\ paused' \in BOOLEAN /\ realtime' \in Nat
  <2>1. spawncount \in Nat \ {0} /\ realtime \in Nat
    BY DEF ClientsInv, TypeOK
  <2>2. spawncount' \in Nat \ {0}
    BY <1>2, <2>1
  <2> QED BY <2>1, <2>2 DEF Map
<1>4. TableFollows(clients', spawncount')
  BY <1>1, <1>2 DEF TableFollows, Sound
<1> QED BY <1>3, <1>4, KeptStep DEF Map

(* A bounded clock stays a natural number.                                 *)
LEMMA UpToNat ==
  ASSUME NEW n \in Nat, NEW bound \in Nat
  PROVE  UpTo(n + 1, bound) \in Nat
BY DEF UpTo

(* SV_CheckTimeouts.                                                       *)
LEMMA FrameStep ==
  ASSUME ClientsInv, Frame
  PROVE  ClientsInv'
<1>0. Timeout \in Nat /\ ZombieTime \in Nat /\ LoginTime \in Nat /\ ReconnectLimit \in Nat
  BY TimesAreNat
<1>1. ASSUME NEW s \in Slot
      PROVE  Follows(CheckTimeout(Later(clients[s])), clients[s])
  <2> DEFINE c == clients[s]
             k == Later(c)
             d == CheckTimeout(k)
  <2>1. Sound(c, spawncount) /\ c \in Client
    BY DEF ClientsInv, Sound
  <2> HIDE DEF c
  <2>2. k \in Client
    <3>1. /\ UpTo(c.idle + 1, Timeout + 1) \in Nat
          /\ UpTo(c.age + 1, LoginTime + ZombieTime + 1) \in Nat
      <4>1. /\ c.idle \in Nat /\ c.age \in Nat
            /\ Timeout + 1 \in Nat /\ LoginTime + ZombieTime + 1 \in Nat
        BY <1>0, <2>1 DEF Client
      <4> QED BY <1>0, <4>1, UpToNat
    <3> QED BY <2>1, <3>1 DEF Later, Client
  <2>3. k.prompted = c.prompted /\ k.prepared = c.prepared /\ k.state = c.state /\ Kept(c, k)
    BY <2>1 DEF Later, Client, Kept, InUse
  <2> HIDE DEF k
  <2>4. Follows(k, c) /\ Sound(k, spawncount)
    BY <2>1, <2>2, <2>3, UnpromptedFollows DEF Follows
  <2>5. ASSUME NEW e, Follows(e, k)
        PROVE  Follows([e EXCEPT !.state = "cs_free"], k)
    <3> DEFINE f == [e EXCEPT !.state = "cs_free"]
    <3>1. e \in Client /\ Sound(e, spawncount)
      BY <2>5 DEF Follows, Sound
    <3>2. f \in Client /\ Kept(e, f)
      BY <3>1 DEF Client, State, Kept, InUse
    <3>3. f.prompted = e.prompted /\ f.prepared = e.prepared /\ f.state = "cs_free"
      BY <3>1 DEF Client
    <3> HIDE DEF f
    <3>4. Follows(f, e)
      BY <3>1, <3>2, <3>3, UnpromptedFollows
    <3>5. Follows(f, k)
      BY <2>5, <3>4, FollowsOn
    <3> QED BY <3>5 DEF f
  <2>6. Follows(k, k)
    BY <2>4 DEF Follows, Kept
  <2>7. InUse(k) => Follows(Dropped(k), k)
    BY <2>4, DroppedFollows
  <2>8. Active(k) => InUse(k)
    BY DEF Active, InUse
  <2>9. \/ d = k
        \/ Active(k) /\ d = [Dropped(k) EXCEPT !.state = "cs_free"]
        \/ Active(k) /\ d = Dropped(k)
        \/ d = [k EXCEPT !.state = "cs_free"]
    BY DEF CheckTimeout, TimedOut, Waited, Expired
  <2> HIDE DEF d
  <2>10. Follows(d, k)
    BY <2>5, <2>6, <2>7, <2>8, <2>9
  <2>11. Follows(d, c)
    BY <2>4, <2>10, FollowsOn
  <2> QED BY <2>11 DEF c, k, d
<1>2. clients' = [s \in Slot |-> CheckTimeout(Later(clients[s]))]
  BY DEF Frame
<1>3. TableFollows(clients', spawncount)
  BY <1>1, <1>2 DEF TableFollows, Follows, Sound
<1>4. /\ spawncount' = spawncount /\ spawncount' \in Nat \ {0}
      /\ lastuserid' = lastuserid /\ connects' = connects
  BY DEF Frame, ClientsInv, TypeOK
<1>5. realtime' \in Nat
  BY <1>0, UpToNat DEF Frame, ClientsInv, TypeOK
<1>6. paused' \in BOOLEAN
  BY DEF Frame, ClientsInv, TypeOK
<1> QED BY <1>3, <1>4, <1>5, <1>6, KeptStep

(* CheckReConnect: the first slot that matches is free after it.           *)
LEMMA ReconnectTable ==
  ASSUME ClientsInv, NEW r \in Remotes
  PROVE  /\ TableFollows(AfterReconnect(r), spawncount)
         /\ Matching(r) # {} => ~InUse(AfterReconnect(r)[Min(Matching(r))])
         /\ Matching(r) # {} => /\ Min(Matching(r)) \in Slot
                                /\ \A s \in Matching(r) : Min(Matching(r)) <= s
<1>1. /\ clients \in [Slot -> Client]
      /\ \A s \in Slot : Sound(clients[s], spawncount) /\ Kept(clients[s], clients[s])
  BY DEF ClientsInv, TypeOK, Kept
<1>2. CASE Matching(r) = {}
  BY <1>1, <1>2 DEF AfterReconnect, TableFollows
<1>3. CASE Matching(r) # {}
  <2> DEFINE m == Min(Matching(r))
             c == clients[m]
             d == Freed(c)
  <2>1. m \in Matching(r) /\ \A s \in Matching(r) : m <= s
    <3>1. Matching(r) \in SUBSET Nat
      BY SlotsAreNat DEF Matching, Slot
    <3> QED BY <1>3, <3>1, MinOfNaturals
  <2>2. m \in Slot /\ InUse(c)
    BY <2>1 DEF Matching
  <2> HIDE DEF m
  <2>3. Sound(c, spawncount) /\ c \in Client
    BY <1>1, <2>2
  <2>4. d \in Client /\ d.state = "cs_free" /\ Kept(c, d)
        /\ d.prompted = c.prompted /\ d.prepared = c.prepared
    <3>1. Dropped(c) \in Client /\ Dropped(c).prompted = c.prompted
          /\ Dropped(c).prepared = c.prepared
      BY <2>3 DEF Dropped, Client, State
    <3> HIDE DEF c
    <3>2. d = [(IF Active(c) THEN Dropped(c) ELSE c) EXCEPT !.state = "cs_free"]
      BY DEF Freed
    <3> QED BY <2>3, <3>1, <3>2 DEF Client, State, Kept, InUse
  <2>5. Sound(d, spawncount)
    BY <2>3, <2>4, UnpromptedFollows DEF Follows
  <2>6. AfterReconnect(r) = [clients EXCEPT ![m] = d]
    BY <1>3 DEF AfterReconnect, m
  <2> HIDE DEF d
  <2>7. TableFollows(AfterReconnect(r), spawncount)
    BY <1>1, <2>2, <2>4, <2>5, <2>6 DEF TableFollows
  <2>8. ~InUse(AfterReconnect(r)[m])
    BY <1>1, <2>2, <2>4, <2>6 DEF InUse
  <2> QED BY <2>1, <2>2, <2>7, <2>8 DEF m
<1> QED BY <1>2, <1>3

(* A wiped slot.                                                           *)
LEMMA BlankIsClient == Blank \in Client
<1>1. <<>> \in Seq([cmd : Command, level : Nat])
  BY EmptySeq
<1>2. [base |-> 0, port |-> 0, qport |-> 0] \in Address
  BY DEF Address
<1> QED BY <1>1, <1>2, UseridsSuffice DEF Blank, Client, State

(* A new client has asked for nothing but "new".                           *)
LEMMA NewClientSound ==
  ASSUME ClientsInv, NEW r \in Remotes, NEW uid \in 1 .. MaxUserid
  PROVE  LET c == NewClient(r, uid)
         IN  /\ Sound(c, spawncount) /\ InUse(c)
             /\ c.userid = uid /\ c.number = connects + 1 /\ c.remote = r
<1> DEFINE c == NewClient(r, uid)
<1>2. r \in Address /\ connects \in Nat /\ spawncount \in Nat \ {0}
  BY RemotesAreThere DEF ClientsInv, TypeOK
<1>3. Ask("new") \in Prompt /\ Ask("new").level = 0 /\ Ask("new").cmd = "new"
  BY DEF Ask, Prompt, Command
<1>4. <<Ask("new")>> \in Seq(Prompt) /\ Len(<<Ask("new")>>) = 1
      /\ <<Ask("new")>>[1] = Ask("new")
  BY <1>3
<1>5. uid \in 0 .. MaxUserid
  BY UseridsSuffice
<1>6. /\ c \in Client
      /\ c.prompted = <<Ask("new")>> /\ c.state = "cs_preconnected"
      /\ c.userid = uid /\ c.number = connects + 1 /\ c.remote = r
  <2> DEFINE b == Blank
  <2>1. b \in Client
    BY BlankIsClient
  <2>2. c = [b EXCEPT !.state = "cs_preconnected", !.remote = r, !.userid = uid,
                      !.prompted = <<Ask("new")>>, !.number = connects + 1]
    BY DEF NewClient
  <2>3. <<Ask("new")>> \in Seq([cmd : Command, level : Nat]) /\ connects + 1 \in Nat
    BY <1>2, <1>4 DEF Prompt
  <2> HIDE DEF b, c
  <2> QED BY <1>2, <1>5, <2>1, <2>2, <2>3 DEF Client, State
<1> HIDE DEF c
<1>8. PromptsSound(c, spawncount)
  BY <1>2, <1>3, <1>4, <1>6 DEF PromptsSound
<1>9. Sound(c, spawncount) /\ InUse(c)
  BY <1>6, <1>8 DEF Sound, InUse
<1> QED BY <1>6, <1>9 DEF c

(* SVC_DirectConnect.                                                      *)
LEMMA ConnectStep ==
  ASSUME ClientsInv, NEW r \in Remotes, DirectConnect(r)
  PROVE  ClientsInv'
<1> DEFINE table == AfterReconnect(r)
           free == {s \in Slot : ~InUse(table[s])}
           uid == NextUserid(table)
           c == NewClient(r, uid)
           z == Min(free)
<1>1. TableFollows(table, spawncount)
  BY ReconnectTable
<1>2. /\ UNCHANGED <<spawncount, paused, realtime>>
      /\ spawncount \in Nat \ {0} /\ paused \in BOOLEAN /\ realtime \in Nat
      /\ connects \in Nat /\ lastuserid \in 0 .. MaxUserid
  BY DEF DirectConnect, ClientsInv, TypeOK
<1>3. CASE clients' = table /\ UNCHANGED <<lastuserid, connects>>
  BY <1>1, <1>2, <1>3, KeptStep
<1>4. CASE /\ free # {}
           /\ clients' = [table EXCEPT ![z] = c]
           /\ lastuserid' = uid
           /\ connects' = connects + 1
  <2>1. z \in free /\ \A s \in free : z <= s
    <3>1. free \in SUBSET Nat
      BY SlotsAreNat DEF Slot
    <3> HIDE DEF free
    <3> QED BY <1>4, <3>1, MinOfNaturals
  <2>2. z \in Slot /\ ~InUse(table[z])
    BY <2>1
  <2>3. uid \in 1 .. MaxUserid /\ Unused(table, uid)
    BY <1>2, NextUseridIsUnused
  <2>4. /\ Sound(c, spawncount) /\ InUse(c) /\ c \in Client
        /\ c.userid = uid /\ c.number = connects + 1 /\ c.remote = r
    <3> HIDE DEF uid
    <3> QED BY <2>3, NewClientSound DEF Sound
  <2>5. Distinct(table) /\ NewestFirst(table) /\ Numbered(table)
    BY <1>1, KeptTable
  <2>6. table \in [Slot -> Client] /\ \A s \in Slot : Sound(table[s], spawncount)
    BY <1>1 DEF TableFollows
  <2>7. \A s \in Slot : InUse(table[s]) => table[s].number < connects + 1
    BY <1>2, <2>5, <2>6 DEF Numbered, Client
  <2>8. \A s \in Slot : InUse(table[s]) /\ SameAddress(table[s], c) => z < s
    <3> SUFFICES ASSUME NEW s \in Slot, InUse(table[s]), SameAddress(table[s], c)
                 PROVE  z < s
      OBVIOUS
    <3>1. InUse(clients[s]) /\ SameRemote(clients[s], r)
      BY <1>1, <2>4 DEF TableFollows, Kept, SameAddress, SameRemote
    <3>2. s \in Matching(r)
      BY <3>1 DEF Matching
    <3>3. Min(Matching(r)) \in free /\ Min(Matching(r)) <= s
      BY <3>2, ReconnectTable
    <3>4. z <= Min(Matching(r))
      BY <2>1, <3>3
    <3>5. z # s
      BY <2>2
    <3>6. z \in Nat /\ s \in Nat /\ Min(Matching(r)) \in Nat
      BY <2>2, <3>3, SlotsAreNat DEF Slot
    <3> HIDE DEF z
    <3> QED BY <3>3, <3>4, <3>5, <3>6
  <2> HIDE DEF c, table, z, uid, free
  <2>9. \A s \in Slot : clients'[s] = IF s = z THEN c ELSE table[s]
    BY <1>4, <2>6
  <2>10. clients' \in [Slot -> Client] /\ lastuserid' \in 0 .. MaxUserid
    <3>1. clients' \in [Slot -> Client]
      BY <1>4, <2>4, <2>6
    <3>2. lastuserid' \in 0 .. MaxUserid
      BY <1>4, <2>3, UseridsSuffice
    <3> QED BY <3>1, <3>2
  <2>11. TypeOK'
    BY <1>2, <1>4, <2>10 DEF TypeOK
  <2>12. \A s \in Slot : Sound(clients'[s], spawncount)
    BY <2>4, <2>6, <2>9
  <2>13. Distinct(clients')
    BY <2>3, <2>4, <2>5, <2>9 DEF Distinct, Unused
  <2>14. NewestFirst(clients')
    <3> SUFFICES ASSUME NEW s \in Slot, NEW t \in Slot,
                        InUse(clients'[s]), InUse(clients'[t]),
                        SameAddress(clients'[s], clients'[t]), s < t
                 PROVE  clients'[s].number > clients'[t].number
      BY DEF NewestFirst
    <3>0. s \in Nat /\ t \in Nat /\ z \in Nat
      BY <2>2, SlotsAreNat DEF Slot
    <3>1. CASE s # z /\ t # z
      BY <2>5, <2>9, <3>1 DEF NewestFirst
    <3>2. CASE s = z /\ t # z
      <4>1. clients'[s] = c /\ clients'[t] = table[t] /\ table[t].number \in Nat
        BY <2>6, <2>9, <3>2 DEF Client
      <4> QED BY <1>2, <2>4, <2>7, <4>1
    <3>3. CASE t = z /\ s # z
      <4>1. SameAddress(table[s], c) /\ InUse(table[s])
        BY <2>9, <3>3 DEF SameAddress
      <4> QED BY <2>8, <3>0, <3>3, <4>1
    <3>4. s # t
      BY <3>0
    <3> QED BY <3>1, <3>2, <3>3, <3>4
  <2>15. \A s \in Slot : InUse(clients'[s]) => clients'[s].number <= connects'
    <3> SUFFICES ASSUME NEW s \in Slot, InUse(clients'[s])
                 PROVE  clients'[s].number <= connects'
      OBVIOUS
    <3>1. CASE s = z
      BY <1>2, <1>4, <2>4, <2>9, <3>1
    <3>2. CASE s # z
      <4>1. clients'[s] = table[s] /\ table[s].number \in Nat
        BY <2>6, <2>9, <3>2 DEF Client
      <4> QED BY <1>2, <1>4, <2>7, <4>1
    <3> QED BY <3>1, <3>2
  <2>16. Distinct(clients)' /\ NewestFirst(clients)' /\ Numbered(clients)'
    BY <2>13, <2>14, <2>15 DEF Distinct, NewestFirst, Numbered, InUse, SameAddress
  <2>17. (\A s \in Slot : Sound(clients[s], spawncount))'
    BY <1>2, <2>12 DEF Sound, PromptsSound
  <2> QED BY <2>11, <2>16, <2>17 DEF ClientsInv
<1> QED BY <1>3, <1>4 DEF DirectConnect

-----------------------------------------------------------------------------
(* All slots start free.                                                   *)
LEMMA InitClients == Init => ClientsInv
<1> SUFFICES ASSUME Init PROVE ClientsInv
  OBVIOUS
<1>1. Blank \in Client
  BY BlankIsClient
<1>2. Blank.state = "cs_free" /\ Blank.prompted = <<>> /\ Len(<<>>) = 0
  BY DEF Blank
<1>3. Sound(Blank, spawncount) /\ ~InUse(Blank)
  BY <1>1, <1>2 DEF Sound, PromptsSound, InUse
<1>4. \A s \in Slot : clients[s] = Blank
  BY DEF Init
<1>5. TypeOK
  <2>1. clients \in [Slot -> Client]
    BY <1>1 DEF Init
  <2>2. 0 \in 0 .. MaxUserid
    BY UseridsSuffice
  <2>3. /\ lastuserid \in 0 .. MaxUserid /\ spawncount \in Nat \ {0}
        /\ paused \in BOOLEAN /\ realtime \in Nat /\ connects \in Nat
    <3>1. lastuserid = 0 /\ spawncount = 1 /\ realtime = 0 /\ connects = 0
      BY DEF Init
    <3>2. paused \in BOOLEAN
      BY DEF Init
    <3> QED BY <2>2, <3>1, <3>2
  <2> QED BY <2>1, <2>3 DEF TypeOK
<1> QED BY <1>3, <1>4, <1>5 DEF ClientsInv, Distinct, NewestFirst, Numbered

(* Every step preserves the invariant.                                     *)
LEMMA NextClients ==
  ASSUME ClientsInv, [Next]_vars
  PROVE  ClientsInv'
<1>1. CASE UNCHANGED vars
  <2>1. TableFollows(clients', spawncount')
    BY <1>1 DEF vars, TableFollows, ClientsInv, TypeOK, Kept
  <2> QED BY <1>1, <2>1, KeptStep DEF vars, ClientsInv, TypeOK
<1> QED
  BY <1>1, ConnectStep, HearStep, UserCommandStep, PacketStep, KickStep, SendStep,
     MapStep, FrameStep DEF Next

(* The invariant holds for ever.                                           *)
LEMMA ClientsInvariant == Spec => []ClientsInv
BY InitClients, NextClients, PTL DEF Spec

(* The slots are well typed, and their numbers never leave 1 .. MAXUSERID. *)
THEOREM ClientsTypeCorrect == Spec => []TypeOK
<1>1. ClientsInv => TypeOK
  BY DEF ClientsInv
<1> QED BY <1>1, ClientsInvariant, PTL

(* However often the numbers come round, no two slots in use share one.    *)
THEOREM UseridsAreUnique == Spec => []UseridsUnique
<1>1. ClientsInv => UseridsUnique
  BY DEF ClientsInv, Distinct, UseridsUnique
<1> QED BY <1>1, ClientsInvariant, PTL

(* A packet reaches the newest of the slots with its address.              *)
THEOREM NewestSlotIsRouted == Spec => []NewestIsRouted
<1>1. ASSUME ClientsInv PROVE NewestIsRouted
  <2> SUFFICES ASSUME NEW s \in Slot, InUse(clients[s])
               PROVE  clients[Route(clients[s].remote)].number >= clients[s].number
    BY DEF NewestIsRouted
  <2> DEFINE K == Serving(clients[s].remote)
  <2>1. s \in K /\ K \in SUBSET Nat
    BY SlotsAreNat DEF Serving, Slot
  <2>2. Min(K) \in K /\ Min(K) <= s
    <3> HIDE DEF K
    <3> QED BY <2>1, MinOfNaturals
  <2>3. /\ Min(K) \in Slot /\ InUse(clients[Min(K)])
        /\ SameAddress(clients[Min(K)], clients[s])
    BY <2>2 DEF Serving, SameAddress
  <2>4. Route(clients[s].remote) = Min(K)
    BY DEF Route
  <2>5. clients[s].number \in Nat /\ clients[Min(K)].number \in Nat /\ s \in Nat /\ Min(K) \in Nat
    BY <2>1, <2>2, <2>3, <1>1 DEF ClientsInv, TypeOK, Client
  <2> HIDE DEF K
  <2>6. CASE Min(K) = s
    BY <2>4, <2>5, <2>6
  <2>7. CASE Min(K) < s
    BY <2>3, <2>4, <2>5, <2>7, <1>1 DEF ClientsInv, NewestFirst
  <2> QED BY <2>2, <2>5, <2>6, <2>7
<1> QED BY <1>1, ClientsInvariant, PTL

(* Nobody is in the game who was not set up for the level that runs.       *)
THEOREM SpawnedArePrepared == Spec => []SpawnedIsPrepared
<1>1. ClientsInv => SpawnedIsPrepared
  BY DEF ClientsInv, Sound, SpawnedIsPrepared
<1> QED BY <1>1, ClientsInvariant, PTL
=============================================================================
