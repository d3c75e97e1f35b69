------------------------------ MODULE SvClients ------------------------------
(***************************************************************************)
(* The client slots of the server (svs.clients, sv_main.c and sv_user.c):  *)
(* connection and reconnection, the signon conversation, level changes,    *)
(* kicks, timeouts and the zombie state, and how a packet finds its slot.  *)
(*                                                                         *)
(* Times are ages: idle is curtime - netchan.last_received, age is         *)
(* realtime - connection_started; realtime stands still while the game is  *)
(* paused, curtime does not.  What the remote client will send next is the *)
(* queue prompted: the client answers, in order, what the server asks for  *)
(* on the reliable stream.                                                 *)
(***************************************************************************)
EXTENDS Integers, Sequences, FiniteSets, FiniteSetsExt

CONSTANTS
  MaxSlots,        \* MAX_CLIENTS
  MaxClients,      \* the cvar maxclients
  Remotes,         \* addresses clients come from: [base, port, qport]
  MaxUserid,       \* MAXUSERID
  Timeout,         \* the cvar timeout
  ZombieTime,      \* the cvar zombietime
  LoginTime,       \* 60 in SV_LoginCheckTimeOut
  ReconnectLimit,  \* the cvar sv_reconnectlimit * 1000
  SvLogin,         \* the cvar sv_login is set
  MaxSpawncount,   \* bound on level changes
  MaxConnects      \* bound on connections

Slot == 0 .. MaxSlots - 1

Address == [base : Nat, port : Nat, qport : Nat]

ASSUME SlotsAreNat     == MaxSlots \in Nat
ASSUME UseridsSuffice  == MaxUserid \in Nat /\ MaxUserid > MaxSlots
ASSUME TimesAreNat     == {Timeout, ZombieTime, LoginTime, ReconnectLimit} \subseteq Nat
ASSUME RemotesAreThere == Remotes \subseteq Address

VARIABLES
  clients,     \* svs.clients
  lastuserid,  \* svs.lastuserid
  spawncount,  \* svs.spawncount
  paused,      \* sv.paused
  realtime,    \* seconds of game time, up to ReconnectLimit
  connects     \* history: connections accepted so far

vars == <<clients, lastuserid, spawncount, paused, realtime, connects>>

(* The conversation of the signon: what the client sends at each step.     *)
NextCommand == [soundlist |-> "modellist", modellist |-> "prespawn",
                prespawn  |-> "spawn",     spawn     |-> "begin"]
Command     == {"new", "login", "soundlist", "modellist", "prespawn", "spawn", "begin"}

Ask(cmd) == [cmd |-> cmd, level |-> IF cmd \in {"new", "login"} THEN 0 ELSE spawncount]

State == {"cs_free", "cs_zombie", "cs_preconnected", "cs_connected", "cs_spawned"}

InUse(c)  == c.state # "cs_free"
Active(c) == c.state \in {"cs_preconnected", "cs_connected", "cs_spawned"}

(* memset, as at the start of the program.  The last four fields are not   *)
(* the code's: what the client will send, and history.                     *)
Blank == [state |-> "cs_free", remote |-> [base |-> 0, port |-> 0, qport |-> 0],
          userid |-> 0, started |-> FALSE, age |-> 0, idle |-> 0,
          logged |-> 0, drop |-> FALSE, lastconnect |-> 0,
          prompted |-> <<>>, prepared |-> 0, number |-> 0]

Init ==
  /\ clients    = [s \in Slot |-> Blank]
  /\ lastuserid = 0
  /\ spawncount = 1
  /\ paused     = FALSE
  /\ realtime   = 0
  /\ connects   = 0

-----------------------------------------------------------------------------
(* SV_DropClient.  Variants named ...Bug are the definition after them     *)
(* with a slip in it.  SV_Logout only undoes a login by account.           *)
Dropped(c) == [c EXCEPT !.state   = "cs_zombie",
                        !.started = TRUE,
                        !.age     = 0,
                        !.logged  = IF @ > 0 THEN 0 ELSE @]

-----------------------------------------------------------------------------
(* SVC_DirectConnect and CheckReConnect. *)

SameRemote(c, r) == /\ c.remote.base = r.base
                    /\ c.remote.qport = r.qport \/ c.remote.port = r.port

(* The slot that already serves the address: only the first is looked at.  *)
Matching(r) == {s \in Slot : InUse(clients[s]) /\ SameRemote(clients[s], r)}

TooSoon(r) == /\ Matching(r) # {}
              /\ realtime - clients[Min(Matching(r))].lastconnect < ReconnectLimit

Freed(c) == [IF Active(c) THEN Dropped(c) ELSE c EXCEPT !.state = "cs_free"]

AfterReconnectBug(r) == clients
AfterReconnect(r) ==
  IF Matching(r) = {} THEN clients
  ELSE [clients EXCEPT ![Min(Matching(r))] = Freed(@)]

(* SV_GenerateUserID: counting on from the last number given, from 1 to    *)
(* MAXUSERID and round again, the first that no slot in use has.           *)
UseridAfterBug(n, k) == n + k
UseridAfter(n, k)    == IF n + k > MaxUserid THEN n + k - MaxUserid ELSE n + k

Unused(table, id) == \A s \in Slot : InUse(table[s]) => table[s].userid # id

NextUseridBug(table) == UseridAfter(lastuserid, 1)
NextUserid(table) ==
  UseridAfter(lastuserid,
              Min({k \in 1 .. MaxUserid : Unused(table, UseridAfter(lastuserid, k))}))

(* A client that is accepted sends "new" as soon as it hears of it.        *)
NewClient(r, uid) == [Blank EXCEPT !.state    = "cs_preconnected",
                                   !.remote   = r,
                                   !.userid   = uid,
                                   !.prompted = <<Ask("new")>>,
                                   !.number   = connects + 1]

(* The first free slot, or the last one of a full server.                  *)
DirectConnect(r) ==
  /\ connects < MaxConnects
  /\ ~TooSoon(r)
  /\ LET table == AfterReconnect(r)
         free  == {s \in Slot : ~InUse(table[s])}
         used  == Slot \ free
         uid   == NextUserid(table)
     IN  IF free # {} /\ Cardinality(used) < MaxClients
         THEN /\ clients' = [table EXCEPT ![Min(free)] = NewClient(r, uid)]
              /\ lastuserid' = uid
              /\ connects' = connects + 1
         ELSE /\ clients' = table
              /\ UNCHANGED <<lastuserid, connects>>
  /\ UNCHANGED <<spawncount, paused, realtime>>

-----------------------------------------------------------------------------
(* SV_ReadPackets: a packet belongs to the first slot in use with its base *)
(* address and qport, whatever port it came from.                          *)
Serving(r) == {s \in Slot : /\ InUse(clients[s])
                            /\ clients[s].remote.base = r.base
                            /\ clients[s].remote.qport = r.qport}
Route(r) == Min(Serving(r))

Reaches(s) == InUse(clients[s]) /\ Route(clients[s].remote) = s

(* Netchan_Process accepted the packet. *)
Heard(c) == [c EXCEPT !.idle = 0]

(* A packet without a command, perhaps from a translated port.             *)
Hear(s, port) ==
  /\ Reaches(s)
  /\ clients' = [clients EXCEPT ![s] = [Heard(@) EXCEPT !.remote.port = port]]
  /\ UNCHANGED <<lastuserid, spawncount, paused, realtime, connects>>

Ports == {r.port : r \in Remotes}

-----------------------------------------------------------------------------
(* The user commands of the signon.  Each operator is the set of what the  *)
(* slot may look like after the command.                                   *)

Asked(c, cmd) == [c EXCEPT !.prompted = Append(@, Ask(cmd))]

(* Cmd_New_f: the exchange of extensions or of the real address sends the  *)
(* client round again, a VIP place may turn out not to be one, and a login *)
(* may be wanted first; then comes svc_serverdata.                         *)
Started(c) == [c EXCEPT !.started = TRUE,
                        !.age = IF c.started /\ c.state # "cs_connected" THEN @ ELSE 0]

Settled(c) == [c EXCEPT !.state = IF @ = "cs_preconnected" THEN "cs_connected" ELSE @]

New(c) ==
  IF c.state = "cs_spawned" THEN {c}
  ELSE LET k == Started(c) IN
       {Asked(k, "new"), Dropped(k)}
       \cup {Asked([Settled(k) EXCEPT !.logged = IF SvLogin THEN 1 ELSE -1], "soundlist")}
       \cup (IF SvLogin /\ c.logged <= 0
             THEN {Asked([Settled(k) EXCEPT !.logged = 0], "login")} ELSE {})

(* SV_ParseLogin *)
Login(c) ==
  IF c.logged # 0 THEN {c}
  ELSE {Asked([c EXCEPT !.logged = 1], "new"), Asked(c, "login")}

(* "handle the case of a level changing while a client was connecting":    *)
(* SV_ClearReliable loses what was not sent yet, then Cmd_New_f.           *)
StartOver(c) ==
  UNION {New([c EXCEPT !.prompted = SubSeq(@, 1, n)]) : n \in 0 .. Len(c.prompted)}

(* Cmd_Soundlist_f, Cmd_Modellist_f and Cmd_PreSpawn_f: another part of    *)
(* the list or the next list; Cmd_PreSpawn_f may find the wrong map.       *)
List(c, m) ==
  IF c.state # "cs_connected" THEN {c}
  ELSE IF m.level # spawncount THEN StartOver(c)
  ELSE {Asked(c, m.cmd), Asked(c, NextCommand[m.cmd])}
       \cup (IF m.cmd = "prespawn" THEN {Dropped(c)} ELSE {})

(* Cmd_Spawn_f: the last part sets up the edict of the client.             *)
Spawn(c, m) ==
  IF c.state # "cs_connected" THEN {c}
  ELSE IF m.level # spawncount THEN StartOver(c)
  ELSE {Asked(c, "spawn"), Asked([c EXCEPT !.prepared = spawncount], "begin")}

(* Cmd_Begin_f *)
BeginBug(c, m) == IF c.state = "cs_spawned" THEN {c} ELSE {[c EXCEPT !.state = "cs_spawned"]}
Begin(c, m) ==
  IF c.state = "cs_spawned" THEN {c}
  ELSE IF m.level # spawncount THEN StartOver(c)
  ELSE {[c EXCEPT !.state = "cs_spawned"]}

Outcomes(c, m) ==
  CASE m.cmd = "new"   -> New(c)
    [] m.cmd = "login" -> Login(c)
    [] m.cmd = "spawn" -> Spawn(c, m)
    [] m.cmd = "begin" -> Begin(c, m)
    [] OTHER           -> List(c, m)

(* SV_ExecuteClientMessage with the next command of the client.            *)
UserCommand(s) ==
  /\ Reaches(s)
  /\ clients[s].prompted # <<>>
  /\ \E c \in Outcomes([Heard(clients[s]) EXCEPT !.prompted = Tail(@)],
                       Head(clients[s].prompted)) :
       clients' = [clients EXCEPT ![s] = c]
  /\ UNCHANGED <<lastuserid, spawncount, paused, realtime, connects>>

(* Cmd_Drop_f *)
Disconnect(s) ==
  /\ Reaches(s)
  /\ clients' = [clients EXCEPT ![s] = IF @.state = "cs_zombie" THEN Heard(@)
                                       ELSE Dropped(Heard(@))]
  /\ UNCHANGED <<lastuserid, spawncount, paused, realtime, connects>>

(* Cmd_Pause_f *)
Pause(s) ==
  /\ Reaches(s)
  /\ clients' = [clients EXCEPT ![s] = Heard(@)]
  /\ paused' = ~paused
  /\ UNCHANGED <<lastuserid, spawncount, realtime, connects>>

(* Cmd_SetInfo_f: too many of them, to be dropped at the end of the frame. *)
Spam(s) ==
  /\ Reaches(s)
  /\ clients' = [clients EXCEPT ![s] = [Heard(@) EXCEPT !.drop = TRUE]]
  /\ UNCHANGED <<lastuserid, spawncount, paused, realtime, connects>>

-----------------------------------------------------------------------------
(* The server's own steps. *)

(* SV_Kick_f, SVC_IP on a banned address.                                  *)
Kick(s) ==
  /\ InUse(clients[s])
  /\ clients' = [clients EXCEPT ![s] = Dropped(@)]
  /\ UNCHANGED <<lastuserid, spawncount, paused, realtime, connects>>

(* SV_SendClientMessages: clients to be dropped, and those in over, whose  *)
(* reliable buffer overflowed (SvReliable).                                *)
Sent(s, over) ==
  LET c == clients[s] IN
  IF ~InUse(c) THEN c
  ELSE IF c.drop THEN [Dropped(c) EXCEPT !.drop = FALSE]
  ELSE IF s \in over THEN Dropped(c)
  ELSE c

SendClientMessages(over) ==
  /\ clients' = [s \in Slot |-> Sent(s, over)]
  /\ UNCHANGED <<lastuserid, spawncount, paused, realtime, connects>>

(* SV_Map: SV_SendMessagesToAll, SV_SpawnServer with SV_SaveSpawnparms,    *)
(* then every client is told to reconnect and sends "new" again.           *)
SaveSpawnparms(c) == [c EXCEPT !.state = IF @ = "cs_spawned" THEN "cs_connected" ELSE @]

Reconnect(c) == IF Active(c) THEN Asked(c, "new") ELSE c

Map ==
  /\ spawncount < MaxSpawncount
  /\ spawncount' = spawncount + 1
  /\ clients' = [s \in Slot |-> Reconnect(SaveSpawnparms(Sent(s, {})))]
  /\ paused' = FALSE
  /\ UNCHANGED <<lastuserid, realtime, connects>>

(* A second passes, then SV_CheckTimeouts.                                 *)
UpTo(n, bound) == IF n < bound THEN n ELSE bound

Later(c) ==
  [c EXCEPT !.idle  = UpTo(@ + 1, Timeout + 1),
            !.age   = IF paused THEN @ ELSE UpTo(@ + 1, LoginTime + ZombieTime + 1)]

TimedOutBug(c) == c.state = "cs_spawned" /\ c.idle > Timeout
TimedOut(c)    == Active(c) /\ c.idle > Timeout

Waited(c)  == Active(c) /\ c.logged = 0 /\ c.started /\ c.age > LoginTime
Expired(c) == c.state = "cs_zombie" /\ c.age > ZombieTime

CheckTimeout(c) ==
  IF TimedOut(c) THEN [Dropped(c) EXCEPT !.state = "cs_free"]
  ELSE IF Waited(c) THEN Dropped(c)
  ELSE IF Expired(c) THEN [c EXCEPT !.state = "cs_free"]
  ELSE c

Frame ==
  /\ clients'  = [s \in Slot |-> CheckTimeout(Later(clients[s]))]
  /\ realtime' = IF paused THEN realtime ELSE UpTo(realtime + 1, ReconnectLimit)
  /\ paused'   = (paused /\ \E s \in Slot : Active(clients[s]))
  /\ UNCHANGED <<lastuserid, spawncount, connects>>

Next ==
  \/ \E r \in Remotes : DirectConnect(r)
  \/ \E s \in Slot, port \in Ports : Hear(s, port)
  \/ \E s \in Slot : UserCommand(s)
  \/ \E s \in Slot : Disconnect(s)
  \/ \E s \in Slot : Pause(s)
  \/ \E s \in Slot : Spam(s)
  \/ \E s \in Slot : Kick(s)
  \/ \E over \in SUBSET Slot : SendClientMessages(over)
  \/ Map
  \/ Frame

Spec == Init /\ [][Next]_vars

-----------------------------------------------------------------------------
Client == [state : State, remote : Address, userid : 0 .. MaxUserid,
           started : BOOLEAN, age : Nat, idle : Nat, logged : {-1, 0, 1},
           drop : BOOLEAN, lastconnect : {0},
           prompted : Seq([cmd : Command, level : Nat]),
           prepared : Nat, number : Nat]

TypeOK ==
  /\ clients \in [Slot -> Client]
  /\ lastuserid \in 0 .. MaxUserid
  /\ spawncount \in Nat \ {0}
  /\ paused \in BOOLEAN
  /\ realtime \in Nat
  /\ connects \in Nat

(* A kick, a rcon command or a game module names a client by its userid:   *)
(* no two slots in use share one, however often the numbers come round.    *)
UseridsUnique ==
  \A s, t \in Slot :
    InUse(clients[s]) /\ InUse(clients[t]) /\ clients[s].userid = clients[t].userid => s = t

(* CheckReConnect frees one matching slot only, and matches a port as well *)
(* as a qport, so that two slots may be left with one address: packets     *)
(* from it still reach the connection that was accepted last.              *)
NewestIsRouted ==
  \A s \in Slot :
    InUse(clients[s]) => clients[Route(clients[s].remote)].number >= clients[s].number

(* "handle the case of a level changing while a client was connecting"     *)
(* (sv_user.c:754): nobody is in the game whose edict Cmd_Spawn_f has not  *)
(* set up for the level that runs now.                                     *)
SpawnedIsPrepared ==
  \A s \in Slot : clients[s].state = "cs_spawned" => clients[s].prepared = spawncount

(* SV_Frame runs for ever. *)
FairSpec == Spec /\ WF_vars(Frame)

(* A slot whose client falls silent is free again in the end, in whatever  *)
(* state it was and whatever the others do, unless it is dropped over and  *)
(* over; a pause holds zombies back ("realtime affected by pause",         *)
(* sv_main.c:2963).                                                        *)
SilentIsFreed ==
  \A s \in Slot :
    InUse(clients[s]) /\ clients[s].idle > 0
      ~> \/ ~InUse(clients[s])
         \/ clients[s].idle = 0
         \/ clients[s].state = "cs_zombie" /\ clients[s].age = 0
         \/ paused
=============================================================================
