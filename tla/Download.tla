------------------------------ MODULE Download ------------------------------
(***************************************************************************)
(* Files a client lacks, in chunks (cl_parse.c, sv_user.c): requested one  *)
(* after the other while it gets ready for a level, each chunk asked for   *)
(* in a packet that may be lost, and sent in one, or outside the channel;  *)
(* the start and the end of a file go in the reliable stream.  The level   *)
(* may change in between.                                                  *)
(*                                                                         *)
(* Sounds and models are one list.  A packet is what net_chan.c makes of   *)
(* it: read in order or not at all, with the reliable message in it or     *)
(* without; that a message was read is known at once (a late               *)
(* acknowledgement only delays the next message).                          *)
(***************************************************************************)
EXTENDS Integers, Sequences, FiniteSetsExt

CONSTANTS
  File,
  Blocks,          \* blocks of each file
  Served,          \* files the server has
  Needs,           \* for each level, the files in its lists
  MAXBLOCKS,       \* blocks the client keeps track of
  ChunksPerFrame,  \* the cvar cl_chunksperframe
  MaxChunks,       \* the cvar sv_downloadchunksperframe
  MaxUnderWay,     \* bound on packets of an end under way
  MaxLevel,        \* bound on levels
  MaxRequests,     \* bound on files the user asks for
  MaxFaults        \* bound on packets lost or choked

None == "none"

ASSUME BlocksArePos == Blocks \in [File -> Nat \ {0}] /\ MAXBLOCKS \in Nat \ {0}
ASSUME NeedsAreFiles ==
  MaxLevel \in Nat \ {0} /\ Needs \in [1 .. MaxLevel -> Seq(File)] /\ Served \subseteq File
ASSUME NoneIsNoFile == None \notin File
ASSUME BoundsAreNats == {ChunksPerFrame, MaxChunks, MaxUnderWay} \subseteq Nat

VARIABLES
  cl,          \* the client, see Init
  sv,          \* the slot of the client
  spawncount,  \* svs.spawncount
  broadcast,   \* sv.reliable_datagram
  up, down,    \* packets under way to the server, to the client
  oob,         \* chunks under way outside the channel
  requests, faults,
  mixed        \* history: a packet that starts a file brought a chunk of another

vars == <<cl, sv, spawncount, broadcast, up, down, oob, requests, faults, mixed>>

(* What the steps of a sequence make of r, one after the other.  The sets  *)
(* of one element make TLC evaluate each step once.                        *)
Through(Step(_, _), r, steps) ==
  LET after[i \in 0 .. Len(steps)] ==
        IF i = 0 THEN r ELSE CHOOSE d \in {Step(x, steps[i]) : x \in {after[i - 1]}} : TRUE
  IN  after[Len(steps)]

Cmd(name, arg) == [name |-> name, arg |-> arg]

Init ==
  /\ cl = [state  |-> "ca_connected",      \* cls.state
           level  |-> 0,                   \* cl.servercount
           cbuf   |-> <<>>,                \* cbuf_svc
           staged |-> <<Cmd("new", 0)>>,   \* cls.netchan.message
           out    |-> <<>>,                \* and the message sent but not read
           disk   |-> [f \in File |-> "missing"],
           index  |-> 1,                   \* cls.downloadnumber
           type   |-> "dl_none",           \* cls.downloadtype
           name   |-> None,                \* cls.downloadname
           method |-> "DL_NONE",           \* cls.downloadmethod
           open   |-> FALSE,               \* cls.download
           content |-> <<>>,               \* what was written to it
           number |-> 0,                   \* chunked_download_number
           size   |-> 0,                   \* downloadsize, in blocks
           first  |-> 0,                   \* firstblock
           got    |-> [i \in 0 .. MAXBLOCKS - 1 |-> FALSE],  \* recievedblock
           cycle  |-> 0,                   \* blockcycle, modulo MAXBLOCKS
           crossed |-> FALSE]   \* history: a file was asked for before the last one had ended
  /\ sv = [download |-> None,      \* cl->download
           level    |-> 0,         \* cl->spawncount
           spawned  |-> 0,         \* the level it got ready for
           datagram |-> <<>>,      \* cl->datagram: room for one chunk
           sent     |-> 0,         \* cl->download_chunks_perframe
           chunks   |-> {},        \* sent outside the channel in this packet
           send_message |-> FALSE,
           staged   |-> <<>>, out |-> <<>>]
  /\ spawncount = 1 /\ broadcast = <<>>
  /\ up = <<>> /\ down = <<>> /\ oob = {}
  /\ requests = 0 /\ faults = 0 /\ mixed = FALSE

Gone == {"Host_Error", "reconnecting"}

(***************************************************************************)
(* The client.                                                             *)
(***************************************************************************)
Stage(c, cmd) == [c EXCEPT !.staged = Append(@, cmd)]

(* CL_CheckOrDownloadFile, for a file that is not there.                   *)
Ask(c, f) ==
  Stage([c EXCEPT !.name = f, !.method = "DL_QW", !.crossed = @ \/ c.method # "DL_NONE"],
        Cmd("download", f))

Lacking(c) == {i \in c.index .. Len(Needs[c.level]) : c.disk[Needs[c.level][i]] = "missing"}

NextDownload(c) ==
  IF Lacking(c) = {}
  THEN Stage([c EXCEPT !.index = Len(Needs[c.level]) + 1], Cmd("prespawn", c.level))
  ELSE LET i == Min(Lacking(c)) IN Ask([c EXCEPT !.index = i + 1], Needs[c.level][i])

Whole(c) == /\ c.size = Blocks[c.name]
            /\ c.content = [b \in 0 .. c.size - 1 |-> <<c.name, b>>]

FinishDownload(c, rename) ==
  LET d == [c EXCEPT !.open = FALSE, !.method = "DL_NONE",
                     !.disk[c.name] = IF rename THEN IF Whole(c) THEN "whole" ELSE "broken" ELSE @]
  IN  IF d.type = "dl_list" THEN NextDownload(d) ELSE d

Wanted(c, k) == LET b == ((c.cycle + k) % MAXBLOCKS) + c.first
                IN  ~c.got[b % MAXBLOCKS] /\ b < c.size

RequestADownloadChunk(c) ==
  LET ks == {k \in 1 .. MAXBLOCKS : Wanted(c, k)}
  IN  IF ks = {} THEN -1 ELSE Min(ks)

(* One round of the loop in CL_SendChunkDownloadReq; r.asked are the       *)
(* requests so far that go into the packet.                                *)
RequestChunk(r) ==
  LET c == r.c
      k == RequestADownloadChunk(c)
      b == ((c.cycle + k) % MAXBLOCKS) + c.first
  IN  CASE c.method # "DL_QWCHUNKS" -> r
        [] c.method = "DL_QWCHUNKS" /\ k < 0 ->
             [r EXCEPT !.c = FinishDownload(Stage(c, Cmd("nextdl", <<-1, c.number>>)), TRUE)]
        [] OTHER -> [c |-> [c EXCEPT !.cycle = (@ + k) % MAXBLOCKS],
                     asked |-> Append(r.asked, Cmd("nextdl", <<b, c.number>>))]

SendChunkDownloadReq(c) ==
  Through(LAMBDA r, i : RequestChunk(r), [c |-> c, asked |-> <<>>], [i \in 1 .. ChunksPerFrame |-> i])

Changing(c) == IF c.open THEN c ELSE [c EXCEPT !.state = "ca_connected"]

(* A client that is past svc_serverdata gives up the connection and makes  *)
(* a new one.                                                              *)
Reconnect(c) ==
  CASE c.open -> c
    [] ~c.open /\ c.state = "ca_connected" -> Stage(c, Cmd("new", 0))
    [] OTHER -> [c EXCEPT !.state = "reconnecting"]

ExecuteCbuf(c) ==
  Through(LAMBDA d, s : IF d.state \in Gone THEN d
                         ELSE IF s = "changing" THEN Changing(d) ELSE Reconnect(d),
           [c EXCEPT !.cbuf = <<>>], c.cbuf)

ParseServerData(c, level) ==
  LET d == ExecuteCbuf(c)
  IN  IF d.state \in Gone THEN d
      ELSE [d EXCEPT !.staged = <<Cmd("list", level)>>, !.level = level, !.state = "ca_onserver"]

ParseList(c) == NextDownload([c EXCEPT !.index = 1, !.type = "dl_list"])

HostError(c) == [c EXCEPT !.state = "Host_Error"]

(* CL_ParseChunkedDownload with a negative chunk number: the answer to a   *)
(* request.                                                                *)
ParseStart(c, f) ==
  LET d == [c EXCEPT !.open = FALSE]
  IN  CASE f = None -> FinishDownload(d, FALSE)
        [] f # None /\ d.method = "DL_QWCHUNKS" -> HostError(d)
        [] OTHER -> [d EXCEPT !.open = TRUE, !.method = "DL_QWCHUNKS", !.number = @ + 1,
                              !.size = Blocks[f], !.first = 0, !.cycle = MAXBLOCKS - 1,
                              !.got = [i \in 0 .. MAXBLOCKS - 1 |-> FALSE],
                              !.content = [b \in 0 .. Blocks[f] - 1 |-> <<>>]]

(* Blocks in a row from firstblock on that have come in.                   *)
Run(got, first) == Max({n \in 0 .. MAXBLOCKS : \A i \in 0 .. n - 1 : got[(first + i) % MAXBLOCKS]})

StoreChunk(c, data) ==
  LET b   == data[2]
      got == [c.got EXCEPT ![b % MAXBLOCKS] = TRUE]
      n   == Run(got, c.first)
  IN  [c EXCEPT !.first = @ + n,
                !.got = [i \in DOMAIN got |-> got[i] /\ \A j \in 0 .. n - 1 : (c.first + j) % MAXBLOCKS # i],
                !.content[b] = data]

(* The block is in the window and new.  Variants named ...Bug are the      *)
(* definition after them with a slip in it.                                *)
ExpectedBug(c, b) == b - c.first < MAXBLOCKS /\ ~c.got[b % MAXBLOCKS]
Expected(c, b)    == c.first <= b /\ b - c.first < MAXBLOCKS /\ ~c.got[b % MAXBLOCKS]

(* A chunk from beyond the end makes the length to write negative; the     *)
(* model stops the client.                                                 *)
ParseChunk(c, data) ==
  CASE ~c.open -> c
    [] c.open /\ c.method # "DL_QWCHUNKS" -> HostError(c)
    [] c.open /\ c.method = "DL_QWCHUNKS" /\ ~Expected(c, data[2]) -> c
    [] OTHER -> IF data[2] < c.size THEN StoreChunk(c, data) ELSE HostError(c)

Parse(c, m) ==
  IF c.state \in Gone THEN c
  ELSE CASE m.name = "stufftext"      -> [c EXCEPT !.cbuf = @ \o m.arg]
         [] m.name = "svc_serverdata" -> ParseServerData(c, m.arg)
         [] m.name = "svc_list"       -> ParseList(c)
         [] m.name = "svc_download"   -> ParseStart(c, m.arg)
         [] m.name = "chunk"          -> ParseChunk(c, m.arg)

(***************************************************************************)
(* The server.                                                             *)
(***************************************************************************)
StuffReconnect == Cmd("stufftext", <<"changing", "reconnect">>)

New(s) == [s EXCEPT !.level = spawncount, !.staged = Append(@, Cmd("svc_serverdata", spawncount))]

(* SV_ClearReliable, for a command of an earlier level.                    *)
OtherLevel(s) == New([s EXCEPT !.staged = <<>>])

CompleteDownloadBug(s) == [s EXCEPT !.download = None]
CompleteDownload(s) ==
  [s EXCEPT !.download = None,
            !.staged = IF s.level # spawncount THEN Append(@, StuffReconnect) ELSE @]

NextChunk(s, b, number) ==
  LET data == <<s.download, b>>
      t    == [s EXCEPT !.sent = @ + 1]
  IN  CASE s.sent > 0 /\ (s.sent >= MaxChunks \/ number < 1) -> s
        [] s.sent = 0 /\ s.datagram # <<>> -> s
        [] s.sent > 0 /\ s.sent < MaxChunks /\ number >= 1 ->
             IF b < Blocks[s.download] THEN [t EXCEPT !.chunks = @ \cup {<<number, data>>}] ELSE t
        [] OTHER -> IF b < Blocks[s.download] THEN [t EXCEPT !.datagram = data] ELSE t

NextDl(s, arg) ==
  CASE s.download = None -> s
    [] s.download # None /\ arg[1] < 0 -> CompleteDownload(s)
    [] OTHER -> NextChunk(s, arg[1], arg[2])

(* The name of the file is taken for the number of a chunk, which gives 0. *)
StartDownload(s, f) ==
  IF f \in Served
  THEN NextDl([s EXCEPT !.download = f, !.staged = Append(@, Cmd("svc_download", f))], <<0, 0>>)
  ELSE [s EXCEPT !.download = None, !.staged = Append(@, Cmd("svc_download", None))]

Execute(s, c) ==
  CASE c.name = "new"      -> New(s)
    [] c.name = "list"     -> IF c.arg # spawncount THEN OtherLevel(s)
                              ELSE [s EXCEPT !.staged = Append(@, Cmd("svc_list", 0))]
    [] c.name = "prespawn" -> IF c.arg # spawncount THEN OtherLevel(s)
                              ELSE [s EXCEPT !.spawned = spawncount]
    [] c.name = "download" -> StartDownload(s, c.arg)
    [] c.name = "nextdl"   -> NextDl(s, c.arg)

(***************************************************************************)
(* Frames and packets.                                                     *)
(***************************************************************************)
Sent(e) == IF e.out = <<>> THEN [e EXCEPT !.out = e.staged, !.staged = <<>>] ELSE e

(* Once the message was read no packet under way brings it again.          *)
Bare(channel) == [i \in DOMAIN channel |-> [channel[i] EXCEPT !.reliable = FALSE]]
Rest(channel) == IF Head(channel).reliable THEN Bare(Tail(channel)) ELSE Tail(channel)

(* The end of the client's frame: cbuf_svc, then CL_SendCmd.               *)
ClientFrame ==
  /\ cl.state \notin Gone /\ Len(up) < MaxUnderWay
  /\ \E c \in {ExecuteCbuf(cl)} : \E r \in {SendChunkDownloadReq(c)} :
         IF c.state \in Gone THEN cl' = c /\ UNCHANGED up
         ELSE /\ cl' = Sent(r.c)
              /\ up' = Append(up, [cmds |-> r.asked, reliable |-> cl'.out # <<>>])
  /\ UNCHANGED <<sv, spawncount, broadcast, down, oob, requests, faults, mixed>>

(* SV_ExecuteClientMessage.                                                *)
ForPacketBug(s) == [s EXCEPT !.send_message = TRUE]
ForPacket(s)    == [s EXCEPT !.send_message = TRUE, !.sent = 0]

ServerRead ==
  /\ up # <<>> /\ cl.state \notin Gone
  /\ LET p == Head(up)
         reliable == IF p.reliable THEN cl.out ELSE <<>>
         s == Through(Execute, ForPacket(sv), reliable \o p.cmds)
     IN  /\ sv' = [s EXCEPT !.chunks = {}]
         /\ oob' = oob \cup s.chunks
         /\ cl' = IF p.reliable THEN [cl EXCEPT !.out = <<>>] ELSE cl
  /\ up' = Rest(up)
  /\ UNCHANGED <<spawncount, broadcast, down, requests, faults, mixed>>

(* SV_SendClientMessages, for a slot that is choked or that has room.      *)
Reply(s, choked) ==
  IF choked THEN sv' = [s EXCEPT !.send_message = FALSE] /\ UNCHANGED down
  ELSE /\ sv' = Sent([s EXCEPT !.send_message = FALSE, !.datagram = <<>>])
       /\ down' = Append(down, [datagram |-> s.datagram, reliable |-> sv'.out # <<>>])

ServerFrame(choked) ==
  /\ sv.send_message \/ broadcast # <<>>
  /\ choked => sv.send_message /\ faults < MaxFaults
  /\ faults' = IF choked THEN faults + 1 ELSE faults
  /\ LET s == [sv EXCEPT !.staged = @ \o broadcast]
     IN  IF s.send_message
         THEN (~choked => Len(down) < MaxUnderWay) /\ Reply(s, choked)
         ELSE sv' = s /\ UNCHANGED down
  /\ broadcast' = <<>>
  /\ UNCHANGED <<cl, spawncount, up, oob, requests, mixed>>

(* SV_Map: "changing" is forced out, "reconnect" waits for the frame.      *)
Map(choked) ==
  /\ spawncount < MaxLevel
  /\ choked \/ Len(down) < MaxUnderWay
  /\ Reply([sv EXCEPT !.staged = @ \o broadcast \o <<Cmd("stufftext", <<"changing">>)>>], choked)
  /\ broadcast' = <<Cmd("stufftext", <<"reconnect">>)>>
  /\ spawncount' = spawncount + 1
  /\ UNCHANGED <<cl, up, oob, requests, faults, mixed>>

Starts(items, data) == \E i \in DOMAIN items : /\ items[i].name = "svc_download"
                                               /\ items[i].arg \notin {None, data[1]}

(* CL_ParseServerMessage.                                                  *)
ClientRead ==
  /\ down # <<>> /\ cl.state \notin Gone
  /\ LET p == Head(down)
         reliable == IF p.reliable THEN sv.out ELSE <<>>
         chunk == IF p.datagram = <<>> THEN <<>> ELSE <<Cmd("chunk", p.datagram)>>
     IN  /\ cl' = Through(Parse, cl, reliable \o chunk)
         /\ sv' = IF p.reliable THEN [sv EXCEPT !.out = <<>>] ELSE sv
         /\ mixed' = (mixed \/ (p.datagram # <<>> /\ Starts(reliable, p.datagram)))
  /\ down' = Rest(down)
  /\ UNCHANGED <<spawncount, broadcast, up, oob, requests, faults>>

(* CL_Parse_OOB_ChunkedDownload.                                           *)
ProperBug(m) == TRUE
Proper(m)    == m[1] = cl.number

ReadOOB(m) ==
  /\ m \in oob /\ cl.state \notin Gone
  /\ oob' = oob \ {m}
  /\ cl' = IF Proper(m) THEN ParseChunk(cl, m[2]) ELSE cl
  /\ UNCHANGED <<sv, spawncount, broadcast, up, down, requests, faults, mixed>>

(* CL_Download_f, at any time.                                             *)
Download(f) ==
  /\ requests < MaxRequests /\ cl.state \notin Gone
  /\ requests' = requests + 1
  /\ cl' = [Ask(cl, f) EXCEPT !.type = "dl_single"]
  /\ UNCHANGED <<sv, spawncount, broadcast, up, down, oob, faults, mixed>>

(* A packet is lost, or only what it carries of the reliable stream: the   *)
(* packet that brought it was lost, and this one was sent before it was    *)
(* known.                                                                  *)
LostFrom(channel) == {Tail(channel), [channel EXCEPT ![1].reliable = FALSE]}

Lose ==
  /\ faults < MaxFaults /\ faults' = faults + 1
  /\ \/ up # <<>> /\ up' \in LostFrom(up) /\ UNCHANGED <<down, oob>>
     \/ down # <<>> /\ down' \in LostFrom(down) /\ UNCHANGED <<up, oob>>
     \/ \E m \in oob : oob' = oob \ {m} /\ UNCHANGED <<up, down>>
  /\ UNCHANGED <<cl, sv, spawncount, broadcast, requests, mixed>>

Next ==
  \/ ClientFrame
  \/ ServerRead
  \/ \E choked \in BOOLEAN : ServerFrame(choked) \/ Map(choked)
  \/ ClientRead
  \/ \E m \in oob : ReadOOB(m)
  \/ \E f \in File : Download(f)
  \/ Lose

Spec == Init /\ [][Next]_vars

(* Both ends run their frames and the network brings what it does not lose.*)
FairSpec ==
  /\ Spec
  /\ WF_vars(ClientFrame) /\ WF_vars(ServerRead) /\ WF_vars(ServerFrame(FALSE))
  /\ WF_vars(ClientRead) /\ WF_vars(\E m \in oob : ReadOOB(m))

Data == (File \X Nat) \cup {<<>>}

TypeOK ==
  /\ cl.state \in {"ca_connected", "ca_onserver"} \cup Gone
  /\ cl.disk \in [File -> {"missing", "whole", "broken"}]
  /\ cl.method \in {"DL_NONE", "DL_QW", "DL_QWCHUNKS"} /\ cl.name \in File \cup {None}
  /\ cl.got \in [0 .. MAXBLOCKS - 1 -> BOOLEAN] /\ cl.open \in BOOLEAN
  /\ cl.first \in 0 .. cl.size
  /\ sv.download \in File \cup {None} /\ sv.datagram \in Data /\ sv.chunks = {}
  /\ spawncount \in 1 .. MaxLevel /\ sv.level \in 0 .. spawncount
  /\ Len(up) <= MaxUnderWay /\ Len(down) <= MaxUnderWay
  /\ oob \subseteq Nat \X Data

(* A file that was renamed to its name is the server's file, block for     *)
(* block: "return back, so they sure what it proper chunk"                 *)
(* (sv_user.c:1025).                                                       *)
FileIsWhole == \A f \in File : cl.disk[f] # "broken"

(* So it is, whatever is lost, repeated, late or choked and whenever the   *)
(* level changes, and nothing the server sends ends with Host_Error or is  *)
(* written beyond the end of the file, but for two things the code lets    *)
(* pass: the chunk that travels in the channel bears no number and may     *)
(* ride in the packet that starts the next file, and a file asked for      *)
(* before the last one ended may be answered with that one, whose name is  *)
(* not compared (cl_parse.c:951).                                          *)
WholeUnlessMixed == mixed \/ cl.crossed \/ (FileIsWhole /\ cl.state # "Host_Error")

(* A file that was begun is ended: the client asks for what is missing     *)
(* until it has it, in packets that may all be choked or lost (with the    *)
(* second exception: the server may then have no file open any more).      *)
Ends == cl.open ~> ~cl.open \/ cl.state \in Gone \/ cl.crossed

(* The client gets ready for the last level, though it takes no notice of  *)
(* "changing" and "reconnect" while a file is open: SV_CompleteDownoload   *)
(* (sv_user.c:962) says them again.                                        *)
SignsOn ==
  sv.spawned # spawncount ~> sv.spawned = spawncount \/ cl.state \in Gone \/ cl.crossed
=============================================================================
