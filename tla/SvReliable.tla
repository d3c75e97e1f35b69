----------------------------- MODULE SvReliable -----------------------------
(***************************************************************************)
(* The reliable stream the server writes to one client: sv_nchan.c and the *)
(* part of SV_SendClientMessages (sv_send.c) that moves it along.  A block *)
(* goes into netchan.message while it fits there, else into a backlog of   *)
(* MAX_BACK_BUFFERS buffers of MAX_MSGLEN bytes each, the oldest of which  *)
(* is moved into netchan.message once per server frame if it fits then.    *)
(* The channel below takes netchan.message as a whole when the client has  *)
(* read the previous message (ReliableLink).                               *)
(*                                                                         *)
(* Contents are sequences of bytes; every byte of a block is the serial    *)
(* number of that block, so that order, loss and damage all show.          *)
(***************************************************************************)
EXTENDS Integers, Sequences

CONSTANTS
  MsgLen,       \* MAX_MSGLEN, in bytes of the model
  MaxBack,      \* MAX_BACK_BUFFERS
  Blocks,       \* <<estimate, length>> of the blocks the server writes
  Replies,      \* lengths of the replies written past the backlog
  ModelReplies, \* the same for Cmd_Modellist_f
  MaxSerial     \* bound on what is written: serial numbers of blocks and replies

ASSUME MsgLenIsPos  == MsgLen \in Nat \ {0}
ASSUME MaxBackIsPos == MaxBack \in Nat \ {0}

(* "estimated maximum size": one call is a byte short of what it writes    *)
(* (svc_stufftext with "nextul\n" announced as 8 bytes, sv_user.c:1214).   *)
ASSUME BlocksFit ==
  \A b \in Blocks : /\ b[1] \in 0 .. MsgLen
                    /\ b[2] \in 0 .. MsgLen
                    /\ b[2] <= b[1] + 1
ASSUME RepliesFit == Replies \cup ModelReplies \subseteq 0 .. MsgLen

Slot  == 0 .. MaxBack - 1
Bytes == Seq(Nat)

Stale == 0     \* whatever an earlier use left in a buffer
Bye   == 1     \* svc_disconnect

VARIABLES
  message,       \* contents of netchan.message
  overflowed,    \* netchan.message.overflowed
  num_backbuf,
  backbuf,       \* the sizebuf_t: which buffer it points to, cursize, allowoverflow
  backbuf_size,
  backbuf_data,
  sent,          \* what the channel took
  read,          \* what the client read
  serial,        \* serial number of the next block
  written,       \* history: what was written and not cleared
  modellist,     \* history: Cmd_Modellist_f was executed while there was a backlog
  fatal,         \* Sys_Error was called
  dropped        \* SV_DropClient was called for the client

queueVars == <<num_backbuf, backbuf, backbuf_size, backbuf_data>>
linkVars  == <<sent, read>>
vars == <<message, overflowed, queueVars, linkVars, serial, written, modellist, fatal, dropped>>

Init ==
  /\ message      = <<>>
  /\ overflowed   = FALSE
  /\ num_backbuf  = 0
  /\ backbuf      = [block |-> 0, cursize |-> 0, allow |-> FALSE]
  /\ backbuf_size = [i \in Slot |-> 0]
  /\ backbuf_data = [i \in Slot |-> <<>>]
  /\ sent = <<>> /\ read = <<>>
  /\ serial  = 2
  /\ written = <<>>
  /\ modellist = FALSE
  /\ fatal   = FALSE
  /\ dropped = FALSE

Block(s, n) == [i \in 1 .. n |-> s]

(* The first n bytes of a buffer into which data was written.              *)
Stored(data, n) == [i \in 1 .. n |-> IF i <= Len(data) THEN data[i] ELSE Stale]

-----------------------------------------------------------------------------
(* ClientReliableCheckBlock, for a block of estimated size n.  Variants    *)
(* named ...Bug are the definition after them with a slip in it.           *)

FitsMessageBug(n) == num_backbuf = 0 /\ Len(message) <= MsgLen - n + 1
FitsMessage(n)    == num_backbuf = 0 /\ Len(message) <= MsgLen - n - 1

Empty(i) == [block |-> i, cursize |-> 0, allow |-> TRUE]

(* The backlog, [num, buf], once it is not empty.                          *)
Opened == IF num_backbuf = 0 THEN [num |-> 1, buf |-> Empty(0)]
                             ELSE [num |-> num_backbuf, buf |-> backbuf]

FitsBufferBug(buf, n) == buf.cursize <= MsgLen - n + 1
FitsBuffer(buf, n)    == buf.cursize <= MsgLen - n - 1

Exhausted(q, n) == ~FitsBuffer(q.buf, n) /\ q.num = MaxBack

(* The backlog after the check: the current buffer, the next one, or the   *)
(* last one emptied.                                                       *)
CheckedBug(q, n) ==
  IF FitsBuffer(q.buf, n) THEN q ELSE [num |-> q.num + 1, buf |-> Empty(q.num % MaxBack)]
Checked(q, n) ==
  IF FitsBuffer(q.buf, n) THEN q
  ELSE IF q.num = MaxBack THEN [q EXCEPT !.buf.cursize = 0]
  ELSE [num |-> q.num + 1, buf |-> Empty(q.num)]

(* ClientReliableWrite_* of a whole block: into the message, or into the   *)
(* current buffer of the backlog, whose size ClientReliable_FinishWrite    *)
(* records.  SZ_GetSpace calls Sys_Error when the buffer is full and may   *)
(* not overflow.                                                           *)
WriteMessage(b) ==
  /\ FitsMessage(b[1])
  /\ IF Len(message) + b[2] > MsgLen
     THEN message' = Block(serial, b[2]) /\ overflowed' = TRUE
     ELSE message' = message \o Block(serial, b[2]) /\ UNCHANGED overflowed
  /\ UNCHANGED <<queueVars, fatal>>

WriteBacklog(b) ==
  LET q    == Checked(Opened, b[1])
      over == q.buf.cursize + b[2] > MsgLen
      from == IF over THEN 0 ELSE q.buf.cursize
  IN  /\ ~FitsMessage(b[1])
      /\ num_backbuf'  = q.num
      /\ backbuf'      = [q.buf EXCEPT !.cursize = from + b[2]]
      /\ backbuf_size' = [i \in Slot |->
                            IF i = q.num - 1 THEN from + b[2]
                            ELSE IF i = 0 /\ num_backbuf = 0 THEN 0
                            ELSE backbuf_size[i]]
      /\ backbuf_data' = [backbuf_data EXCEPT
                            ![q.buf.block] = Stored(@, from) \o Block(serial, b[2])]
      /\ overflowed'   = (overflowed \/ over \/ Exhausted(Opened, b[1]))
      /\ fatal'        = (fatal \/ (over /\ ~q.buf.allow))
      /\ UNCHANGED message

(* A block for the client: a print, a stufftext, a stat, a sound...        *)
Write(b) ==
  /\ ~dropped /\ serial < MaxSerial
  /\ WriteMessage(b) \/ WriteBacklog(b)
  /\ serial'  = serial + 1
  /\ written' = written \o Block(serial, b[2])
  /\ UNCHANGED <<linkVars, modellist, dropped>>

(* SZ_Write into netchan.message, which may overflow, after a given text.  *)
DirectWrite(before, n) ==
  IF Len(before) + n > MsgLen
  THEN message' = Block(serial, n) /\ overflowed' = TRUE
  ELSE message' = before \o Block(serial, n) /\ UNCHANGED overflowed

(* The replies of Cmd_New_f, Cmd_Soundlist_f and Cmd_PreSpawn_f: written   *)
(* past the backlog, after throwing away what is staged if there is one.   *)
SignonReply(n) ==
  /\ ~dropped /\ serial < MaxSerial
  /\ serial' = serial + 1
  /\ IF num_backbuf > 0
     THEN /\ message' = Block(serial, n)
          /\ overflowed' = FALSE
          /\ written' = sent \o Block(serial, n)
     ELSE /\ DirectWrite(message, n)
          /\ written' = written \o Block(serial, n)
  /\ num_backbuf' = 0
  /\ UNCHANGED <<backbuf, backbuf_size, backbuf_data, linkVars, modellist, fatal, dropped>>

(* Cmd_Modellist_f does the same but leaves num_backbuf at 1.              *)
ModellistReply(n) ==
  /\ ~dropped /\ serial < MaxSerial
  /\ serial' = serial + 1
  /\ IF num_backbuf > 0
     THEN /\ message' = Block(serial, n)
          /\ overflowed' = FALSE
          /\ written' = sent \o Block(serial, n)
     ELSE /\ DirectWrite(message, n)
          /\ written' = written \o Block(serial, n)
  /\ num_backbuf' = IF num_backbuf > 0 THEN 1 ELSE 0
  /\ modellist' = (modellist \/ num_backbuf > 0)
  /\ UNCHANGED <<backbuf, backbuf_size, backbuf_data, linkVars, fatal, dropped>>

(* SV_ClearReliable, when a command of an earlier level arrives.           *)
ClearReliable ==
  /\ ~dropped
  /\ message' = <<>> /\ overflowed' = FALSE
  /\ num_backbuf' = 0
  /\ written' = sent
  /\ UNCHANGED <<backbuf, backbuf_size, backbuf_data, linkVars, serial, modellist, fatal, dropped>>

-----------------------------------------------------------------------------
(* What waits in the backlog, oldest first.                                *)
Backlog(num, size, data) ==
  LET upTo[n \in 0 .. MaxBack] ==
        IF n = 0 THEN <<>> ELSE upTo[n - 1] \o Stored(data[n - 1], size[n - 1])
  IN  upTo[num]

Waiting == Backlog(num_backbuf, backbuf_size, backbuf_data)

(* SZ_Clear of the message by Cmd_Spawn_f, which leaves the backlog alone. *)
SpawnClear ==
  /\ ~dropped
  /\ message' = <<>> /\ overflowed' = FALSE
  /\ written' = sent \o Waiting
  /\ UNCHANGED <<queueVars, linkVars, serial, modellist, fatal, dropped>>

(* SV_SendClientMessages for the client: the oldest buffer is moved into   *)
(* the message if it fits, then an overflowed client is dropped, then the  *)
(* channel takes the message if a packet is due and the last one was read. *)
CanFlushBug == num_backbuf > 0 /\ Len(message) + backbuf_size[0] < MsgLen - 1
CanFlush    == num_backbuf > 0 /\ Len(message) + backbuf_size[0] < MsgLen

FlushedBug == message
Flushed    == IF CanFlush THEN message \o Stored(backbuf_data[0], backbuf_size[0])
                          ELSE message

(* Buffers move down by one; only backbuf_size bytes of each are copied.   *)
ShiftedSize(i) == IF i + 1 < num_backbuf THEN backbuf_size[i + 1] ELSE backbuf_size[i]
ShiftedData(i) == IF i + 1 < num_backbuf
                  THEN Stored(backbuf_data[i + 1], backbuf_size[i + 1])
                  ELSE backbuf_data[i]

(* The sizebuf_t of the last of n buffers: allowoverflow is not set again. *)
Current(n)    == [block |-> n - 1, cursize |-> ShiftedSize(n - 1), allow |-> FALSE]

Flush ==
  IF CanFlush
  THEN /\ num_backbuf'  = num_backbuf - 1
       /\ backbuf_size' = [i \in Slot |-> ShiftedSize(i)]
       /\ backbuf_data' = [i \in Slot |-> ShiftedData(i)]
       /\ backbuf' = IF num_backbuf > 1 THEN Current(num_backbuf - 1) ELSE backbuf
  ELSE UNCHANGED queueVars

(* overflowed: cleared, and SV_DropClient writes the disconnect.           *)
Staged == IF overflowed THEN <<Bye>> ELSE Flushed

SendFrame(due) ==
  /\ Flush
  /\ overflowed' = FALSE
  /\ dropped'    = (dropped \/ overflowed)
  /\ written'    = IF overflowed THEN sent \o <<Bye>> ELSE written
  /\ IF (due \/ overflowed) /\ read = sent
     THEN sent' = sent \o Staged /\ message' = <<>>
     ELSE message' = Staged /\ UNCHANGED sent
  /\ UNCHANGED <<read, serial, modellist, fatal>>

(* ReliableLink: the message is read, and the channel is free again.       *)
Deliver ==
  /\ read # sent
  /\ read' = sent
  /\ UNCHANGED <<message, overflowed, queueVars, sent, serial, written, modellist, fatal, dropped>>

Next ==
  \/ \E b \in Blocks : Write(b)
  \/ \E n \in Replies : SignonReply(n)
  \/ \E n \in ModelReplies : ModellistReply(n)
  \/ ClearReliable
  \/ SpawnClear
  \/ \E due \in BOOLEAN : SendFrame(due)
  \/ Deliver

Spec == Init /\ [][Next]_vars

-----------------------------------------------------------------------------
BacklogType ==
  /\ num_backbuf \in 0 .. MaxBack
  /\ backbuf \in [block : Slot, cursize : 0 .. MsgLen, allow : BOOLEAN]
  /\ backbuf_size \in [Slot -> 0 .. MsgLen]

TypeOK ==
  /\ message \in Bytes /\ Len(message) <= MsgLen
  /\ overflowed \in BOOLEAN
  /\ BacklogType
  /\ backbuf_data \in [Slot -> Bytes]
  /\ sent \in Bytes /\ read \in Bytes
  /\ serial \in Nat
  /\ written \in Bytes
  /\ modellist \in BOOLEAN /\ fatal \in BOOLEAN /\ dropped \in BOOLEAN

(* The backlog never makes SZ_GetSpace stop the server: a buffer that is   *)
(* current again after a flush may not overflow (sv_send.c:1055 does not   *)
(* set allowoverflow), and the byte ClientReliableCheckBlock keeps spare   *)
(* pays for the block that is a byte longer than announced.                *)
NeverFatal == ~fatal

(* The client gets what was written, whole and in the order written,       *)
(* whatever part of it went through the backlog, until it is dropped.      *)
InOrder ==
  ~overflowed /\ ~dropped => written = sent \o message \o Waiting

(* So it does as long as Cmd_Modellist_f (sv_user.c:447) does not leave    *)
(* one buffer of the backlog it threw away in use.                         *)
InOrderBarModellist == modellist \/ InOrder

(* The sizebuf the next block goes to is the last buffer of the backlog,   *)
(* and its length is the one recorded for that buffer.                     *)
BackbufIsLast ==
  num_backbuf > 0 => /\ backbuf.block = num_backbuf - 1
                     /\ backbuf.cursize = backbuf_size[num_backbuf - 1]

(* The same, with the same exception: whatever sv_nchan.c and the flush    *)
(* make of the backlog, the block written next follows the last one.       *)
LastBarModellist == modellist \/ BackbufIsLast

(* "we would probably overflow the buffer, save it for next"               *)
(* (sv_nchan.c:32): a block costs the client its connection only when all  *)
(* MAX_BACK_BUFFERS buffers are in use.                                    *)
OverflowOnlyWhenFull ==
  [][(\E b \in Blocks : Write(b)) /\ overflowed' /\ ~overflowed
       => num_backbuf = MaxBack]_vars

-----------------------------------------------------------------------------
(* The server frame runs again and again, a client that keeps sending is   *)
(* answered again and again, and the channel delivers.                     *)
FairSpec == /\ Spec
            /\ WF_vars(SendFrame(TRUE))
            /\ WF_vars(Deliver)

(* What was put off is sent in the end, unless the client is dropped or    *)
(* the oldest buffer was filled to its last byte: the comparison of the    *)
(* flush is strict (sv_send.c:1033), so such a buffer never leaves, and    *)
(* everything behind it waits.                                             *)
BacklogDrains ==
  num_backbuf > 0 ~> num_backbuf = 0 \/ dropped \/ backbuf_size[0] = MsgLen
=============================================================================
