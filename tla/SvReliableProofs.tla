-------------------------- MODULE SvReliableProofs --------------------------
(***************************************************************************)
(* Proofs about SvReliable, for every size of the buffers, number of them  *)
(* and blocks that are at most a byte longer than announced: the backlog   *)
(* never stops the server, its bookkeeping stays consistent, a block       *)
(* overflows only a full backlog, and the client gets the stream that was  *)
(* written, in order.                                                      *)
(***************************************************************************)
EXTENDS SvReliable, SequenceTheorems, FiniteSetTheorems, WellFoundedInduction, TLAPS

(* The shape of the backlog [num, buf] while a block is written.           *)
Backlogs == [num : 1 .. MaxBack,
             buf : [block : Slot, cursize : 0 .. MsgLen, allow : BOOLEAN]]

(* The buffer written to is the last of the backlog q.                     *)
LastIsCurrent(q) == q.buf.block = q.num - 1

(* What every step preserves.                                              *)
BacklogInv == BacklogType /\ NeverFatal

(* A backlog that is empty is opened with its first buffer.                *)
LEMMA OpenedBacklog ==
  ASSUME BacklogInv
  PROVE  Opened \in Backlogs /\ (BackbufIsLast => LastIsCurrent(Opened))
<1>1. CASE num_backbuf = 0
  BY <1>1, MsgLenIsPos, MaxBackIsPos DEF Opened, Empty, Backlogs, LastIsCurrent, Slot
<1>2. CASE num_backbuf # 0
  BY <1>2, MsgLenIsPos, MaxBackIsPos
     DEF Opened, Backlogs, LastIsCurrent, BacklogInv, BacklogType, BackbufIsLast
<1> QED BY <1>1, <1>2

(* ClientReliableCheckBlock leaves room for the block it checked, even for *)
(* one that is a byte longer than announced, in the last buffer.           *)
LEMMA CheckedBacklog ==
  ASSUME NEW q \in Backlogs, NEW b \in Blocks
  PROVE  /\ Checked(q, b[1]) \in Backlogs
         /\ LastIsCurrent(q) => LastIsCurrent(Checked(q, b[1]))
         /\ Checked(q, b[1]).buf.cursize + b[2] <= MsgLen
<1>1. b[1] \in 0 .. MsgLen /\ b[2] \in 0 .. MsgLen /\ b[2] <= b[1] + 1
  BY BlocksFit
<1>2. CASE FitsBuffer(q.buf, b[1])
  BY <1>1, <1>2, MsgLenIsPos DEF Checked, FitsBuffer, Backlogs, LastIsCurrent
<1>3. CASE ~FitsBuffer(q.buf, b[1]) /\ q.num = MaxBack
  BY <1>1, <1>3, MsgLenIsPos DEF Checked, Backlogs, LastIsCurrent
<1>4. CASE ~FitsBuffer(q.buf, b[1]) /\ q.num # MaxBack
  BY <1>1, <1>4, MsgLenIsPos, MaxBackIsPos DEF Checked, Empty, Backlogs, LastIsCurrent, Slot
<1> QED BY <1>2, <1>3, <1>4

(* A block never finds its buffer too small: SZ_GetSpace is not asked for  *)
(* what it does not have.                                                  *)
LEMMA WriteBacklogStep ==
  ASSUME BacklogInv, NEW b \in Blocks, WriteBacklog(b)
  PROVE  BacklogInv' /\ (BackbufIsLast => BackbufIsLast')
<1> DEFINE q == Checked(Opened, b[1])
<1>1. /\ q \in Backlogs
      /\ BackbufIsLast => q.buf.block = q.num - 1
      /\ q.buf.cursize + b[2] <= MsgLen
  BY OpenedBacklog, CheckedBacklog DEF LastIsCurrent
<1>2. b[2] \in 0 .. MsgLen
  BY BlocksFit
<1>3. /\ num_backbuf' = q.num
      /\ backbuf' = [q.buf EXCEPT !.cursize = q.buf.cursize + b[2]]
      /\ backbuf_size' = [i \in Slot |->
                            IF i = q.num - 1 THEN q.buf.cursize + b[2]
                            ELSE IF i = 0 /\ num_backbuf = 0 THEN 0
                            ELSE backbuf_size[i]]
      /\ fatal' = fatal
  <2>1. ~(q.buf.cursize + b[2] > MsgLen)
    BY <1>1, <1>2, MsgLenIsPos DEF Backlogs
  <2>2. fatal \in BOOLEAN => fatal' = fatal
    BY <2>1 DEF WriteBacklog
  <2>3. fatal = FALSE
    BY DEF BacklogInv, NeverFatal
  <2> QED BY <2>1, <2>2, <2>3 DEF WriteBacklog
<1>4. q.buf.cursize + b[2] \in 0 .. MsgLen
  BY <1>1, <1>2, MsgLenIsPos DEF Backlogs
<1>5. BacklogType'
  BY <1>1, <1>3, <1>4, MsgLenIsPos DEF BacklogType, Backlogs, BacklogInv
<1>6. BackbufIsLast => BackbufIsLast'
  BY <1>1, <1>3, <1>4, MaxBackIsPos DEF BackbufIsLast, Backlogs, Slot
<1> QED BY <1>3, <1>5, <1>6 DEF BacklogInv, NeverFatal

(* Moving the buffers down keeps the last one current.                     *)
LEMMA FlushStep ==
  ASSUME BacklogInv, Flush, UNCHANGED fatal
  PROVE  BacklogInv' /\ (BackbufIsLast => BackbufIsLast')
<1>1. CASE ~CanFlush
  BY <1>1 DEF Flush, queueVars, BacklogInv, BacklogType, NeverFatal, BackbufIsLast
<1>2. CASE CanFlush
  <2>1. num_backbuf \in 1 .. MaxBack
    BY <1>2, MaxBackIsPos DEF CanFlush, BacklogInv, BacklogType
  <2>2. /\ num_backbuf' = num_backbuf - 1
        /\ backbuf_size' = [i \in Slot |-> ShiftedSize(i)]
        /\ backbuf' = IF num_backbuf > 1 THEN Current(num_backbuf - 1) ELSE backbuf
    BY <1>2 DEF Flush
  <2>3. \A i \in Slot : ShiftedSize(i) \in 0 .. MsgLen
    BY <2>1, MaxBackIsPos DEF ShiftedSize, Slot, BacklogInv, BacklogType
  <2>4. num_backbuf > 1 => num_backbuf - 2 \in Slot /\ (num_backbuf - 1) - 1 = num_backbuf - 2
    BY <2>1, MaxBackIsPos DEF Slot
  <2>5. backbuf' \in [block : Slot, cursize : 0 .. MsgLen, allow : BOOLEAN]
    <3>1. CASE num_backbuf > 1
      <4>1. backbuf' = [block   |-> num_backbuf - 2,
                        cursize |-> ShiftedSize(num_backbuf - 2),
                        allow   |-> FALSE]
        BY <2>2, <2>4, <3>1 DEF Current
      <4> QED BY <2>3, <2>4, <3>1, <4>1
    <3>2. CASE ~(num_backbuf > 1)
      BY <2>2, <3>2 DEF BacklogInv, BacklogType
    <3> QED BY <3>1, <3>2
  <2>6. BacklogType'
    BY <2>1, <2>2, <2>3, <2>5, MaxBackIsPos DEF BacklogType
  <2>7. BackbufIsLast'
    BY <2>1, <2>2, <2>4 DEF BackbufIsLast, Current
  <2> QED BY <2>6, <2>7 DEF BacklogInv, NeverFatal
<1> QED BY <1>1, <1>2

(* The backlog starts out consistent.                                      *)
LEMMA InitBacklog == Init => BacklogInv /\ BackbufIsLast
BY MsgLenIsPos, MaxBackIsPos
   DEF Init, BacklogInv, BacklogType, NeverFatal, BackbufIsLast, Slot

(* Every step keeps it so; only Cmd_Modellist_f may leave a buffer that is *)
(* not the last one current.                                               *)
LEMMA NextBacklog ==
  ASSUME BacklogInv, [Next]_vars
  PROVE  BacklogInv' /\ (LastBarModellist => LastBarModellist')
<1> USE MaxBackIsPos DEF BacklogInv, BacklogType, NeverFatal, LastBarModellist
<1>1. ASSUME NEW b \in Blocks, Write(b)
      PROVE  BacklogInv' /\ (LastBarModellist => LastBarModellist')
  <2>1. CASE WriteMessage(b)
    BY <1>1, <2>1 DEF Write, WriteMessage, queueVars, BackbufIsLast
  <2>2. CASE WriteBacklog(b)
    <3>1. BacklogInv' /\ (BackbufIsLast => BackbufIsLast')
      BY <2>2, WriteBacklogStep
    <3>2. modellist' = modellist
      BY <1>1 DEF Write
    <3> QED BY <3>1, <3>2
  <2> QED BY <1>1, <2>1, <2>2 DEF Write
<1>2. ASSUME NEW n \in Replies, SignonReply(n)
      PROVE  BacklogInv' /\ BackbufIsLast'
  BY <1>2 DEF SignonReply, BackbufIsLast
<1>3. ASSUME NEW n \in ModelReplies, ModellistReply(n)
      PROVE  BacklogInv' /\ (LastBarModellist => LastBarModellist')
  <2>1. BacklogInv'
    BY <1>3 DEF ModellistReply
  <2>2. CASE num_backbuf > 0
    <3>1. modellist'
      BY <1>3, <2>2, Zenon DEF ModellistReply
    <3> QED BY <2>1, <3>1
  <2>3. CASE num_backbuf = 0
    BY <1>3, <2>1, <2>3 DEF ModellistReply, BackbufIsLast
  <2> QED BY <2>1, <2>2, <2>3
<1>4. ASSUME ClearReliable
      PROVE  BacklogInv' /\ BackbufIsLast'
  BY <1>4 DEF ClearReliable, BackbufIsLast
<1>5. ASSUME SpawnClear \/ Deliver \/ UNCHANGED vars
      PROVE  BacklogInv' /\ (LastBarModellist => LastBarModellist')
  BY <1>5 DEF SpawnClear, Deliver, vars, queueVars, BackbufIsLast
<1>6. ASSUME NEW due \in BOOLEAN, SendFrame(due)
      PROVE  BacklogInv' /\ (LastBarModellist => LastBarModellist')
  <2>1. BacklogInv' /\ (BackbufIsLast => BackbufIsLast')
    BY <1>6, FlushStep DEF SendFrame
  <2>2. modellist' = modellist
    BY <1>6 DEF SendFrame
  <2> QED BY <2>1, <2>2
<1> QED BY <1>1, <1>2, <1>3, <1>4, <1>5, <1>6 DEF Next

(* The bookkeeping of the backlog stays within its buffers.                *)
THEOREM BacklogTypeCorrect == Spec => []BacklogType
<1>1. Init => BacklogInv
  BY InitBacklog
<1>2. BacklogInv /\ [Next]_vars => BacklogInv'
  BY NextBacklog
<1>3. BacklogInv => BacklogType
  BY DEF BacklogInv
<1> QED BY <1>1, <1>2, <1>3, PTL DEF Spec

(* Writing to a client never stops the server with Sys_Error: the byte     *)
(* that ClientReliableCheckBlock keeps spare is enough for the block that  *)
(* is announced too short, in a buffer that may not overflow as well.      *)
THEOREM ServerNeverFatal == Spec => []NeverFatal
<1>1. Init => BacklogInv
  BY InitBacklog
<1>2. BacklogInv /\ [Next]_vars => BacklogInv'
  BY NextBacklog
<1>3. BacklogInv => NeverFatal
  BY DEF BacklogInv
<1> QED BY <1>1, <1>2, <1>3, PTL DEF Spec

(* But for Cmd_Modellist_f, the buffer written to is the last of the       *)
(* backlog, with the length recorded for it.                               *)
THEOREM LastBufferIsCurrent == Spec => []LastBarModellist
<1>1. Init => BacklogInv /\ LastBarModellist
  BY InitBacklog DEF LastBarModellist
<1>2. BacklogInv /\ LastBarModellist /\ [Next]_vars => BacklogInv' /\ LastBarModellist'
  BY NextBacklog
<1> QED BY <1>1, <1>2, PTL DEF Spec

-----------------------------------------------------------------------------
(* What is in the message and in the buffers: bytes, not more of them than *)
(* the message holds.                                                      *)
ContentsInv ==
  /\ message \in Bytes /\ Len(message) <= MsgLen
  /\ backbuf_data \in [Slot -> Bytes]
  /\ serial \in Nat

(* A block is as long as it was asked to be, and so is what was stored.    *)
LEMMA BlockIsBytes ==
  ASSUME NEW s \in Nat, NEW n \in Nat
  PROVE  Block(s, n) \in Bytes /\ Len(Block(s, n)) = n
<1>1. Block(s, n) \in [1 .. n -> Nat]
  BY DEF Block
<1> QED BY <1>1, SeqDef, LenProperties DEF Bytes

(* Of whatever length the bookkeeping says, what a buffer holds is bytes.  *)
LEMMA StoredIsBytes ==
  ASSUME NEW data \in Bytes, NEW n \in Nat
  PROVE  Stored(data, n) \in Bytes /\ Len(Stored(data, n)) = n
<1>1. Len(data) \in Nat /\ \A i \in 1 .. Len(data) : data[i] \in Nat
  BY LenProperties DEF Bytes
<1>2. Stored(data, n) \in [1 .. n -> Nat]
  BY <1>1 DEF Stored, Stale
<1> QED BY <1>2, SeqDef, LenProperties DEF Bytes

(* Bytes put after bytes.                                                  *)
LEMMA Joined ==
  ASSUME NEW s \in Bytes, NEW t \in Bytes
  PROVE  s \o t \in Bytes /\ Len(s \o t) = Len(s) + Len(t)
  BY ConcatProperties DEF Bytes

(* A reply either follows what is staged or, too long, takes its place.    *)
LEMMA DirectWriteStep ==
  ASSUME NEW before \in Bytes, NEW n \in 0 .. MsgLen, serial \in Nat, DirectWrite(before, n)
  PROVE  message' \in Bytes /\ Len(message') <= MsgLen
<1>1. Block(serial, n) \in Bytes /\ Len(Block(serial, n)) = n
  BY BlockIsBytes, MsgLenIsPos
<1>2. before \o Block(serial, n) \in Bytes /\ Len(before \o Block(serial, n)) = Len(before) + n
  BY <1>1, Joined
<1>3. Len(before) \in Nat
  BY LenProperties DEF Bytes
<1>4. CASE Len(before) + n > MsgLen
  <2>1. message' = Block(serial, n)
    BY <1>4 DEF DirectWrite
  <2> QED BY <1>1, <2>1, MsgLenIsPos
<1>5. CASE ~(Len(before) + n > MsgLen)
  <2>1. message' = before \o Block(serial, n)
    BY <1>5 DEF DirectWrite
  <2> QED BY <1>2, <1>3, <1>5, <2>1, MsgLenIsPos
<1> QED BY <1>4, <1>5

(* Either signon reply leaves bytes that fit.                              *)
LEMMA ReplyStep ==
  ASSUME ContentsInv, NEW n \in Replies \cup ModelReplies, SignonReply(n) \/ ModellistReply(n)
  PROVE  ContentsInv'
<1>1. n \in 0 .. MsgLen
  BY RepliesFit
<1>2. Block(serial, n) \in Bytes /\ Len(Block(serial, n)) = n
  BY <1>1, BlockIsBytes, MsgLenIsPos DEF ContentsInv
<1>3. message' = Block(serial, n) \/ DirectWrite(message, n)
  BY DEF SignonReply, ModellistReply
<1>4. message' \in Bytes /\ Len(message') <= MsgLen
  BY <1>1, <1>2, <1>3, DirectWriteStep, MsgLenIsPos DEF ContentsInv
<1>5. serial' = serial + 1 /\ backbuf_data' = backbuf_data
  BY DEF SignonReply, ModellistReply
<1> QED BY <1>4, <1>5 DEF ContentsInv

(* A block that is checked to fit into the message does not overflow it.   *)
LEMMA WriteMessageStep ==
  ASSUME ContentsInv, NEW b \in Blocks, WriteMessage(b)
  PROVE  message' \in Bytes /\ Len(message') <= MsgLen /\ overflowed' = overflowed
<1>1. b[1] \in 0 .. MsgLen /\ b[2] \in 0 .. MsgLen /\ b[2] <= b[1] + 1
  BY BlocksFit
<1>2. Len(message) \in Nat
  BY LenProperties DEF ContentsInv, Bytes
<1>3. ~(Len(message) + b[2] > MsgLen)
  BY <1>1, <1>2, MsgLenIsPos DEF WriteMessage, FitsMessage
<1>4. message' = message \o Block(serial, b[2]) /\ overflowed' = overflowed
  BY <1>3 DEF WriteMessage
<1>5. Block(serial, b[2]) \in Bytes /\ Len(Block(serial, b[2])) = b[2]
  BY <1>1, BlockIsBytes, MsgLenIsPos DEF ContentsInv
<1>6. message' \in Bytes /\ Len(message') = Len(message) + b[2]
  BY <1>4, <1>5, Joined DEF ContentsInv
<1> QED BY <1>1, <1>2, <1>3, <1>4, <1>6, MsgLenIsPos

(* A block put into the backlog leaves the message alone.                  *)
LEMMA WriteBacklogContents ==
  ASSUME ContentsInv, BacklogInv, NEW b \in Blocks, WriteBacklog(b)
  PROVE  message' = message /\ backbuf_data' \in [Slot -> Bytes]
<1> DEFINE q    == Checked(Opened, b[1])
           from == IF q.buf.cursize + b[2] > MsgLen THEN 0 ELSE q.buf.cursize
           data == Stored(backbuf_data[q.buf.block], from) \o Block(serial, b[2])
<1>1. q.buf.block \in Slot /\ q.buf.cursize \in 0 .. MsgLen
  BY OpenedBacklog, CheckedBacklog DEF Backlogs
<1>2. b[2] \in Nat /\ from \in Nat
  BY <1>1, BlocksFit, MsgLenIsPos
<1>3. Stored(backbuf_data[q.buf.block], from) \in Bytes /\ Block(serial, b[2]) \in Bytes
  <2>1. backbuf_data[q.buf.block] \in Bytes
    BY <1>1 DEF ContentsInv
  <2> HIDE DEF from, q
  <2> QED BY <1>2, <2>1, StoredIsBytes, BlockIsBytes DEF ContentsInv
<1>4. data \in Bytes
  BY <1>3, Joined
<1>5. backbuf_data' = [backbuf_data EXCEPT ![q.buf.block] = data] /\ message' = message
  BY DEF WriteBacklog
<1> HIDE DEF data, q
<1> QED BY <1>1, <1>4, <1>5 DEF ContentsInv

(* The flush moves bytes, and no more than fit.                            *)
LEMMA SendFrameContents ==
  ASSUME ContentsInv, BacklogInv, NEW due \in BOOLEAN, SendFrame(due)
  PROVE  ContentsInv'
<1>1. /\ 0 \in Slot
      /\ \A i \in Slot : backbuf_data[i] \in Bytes /\ backbuf_size[i] \in Nat
  BY MaxBackIsPos, MsgLenIsPos DEF Slot, ContentsInv, BacklogInv, BacklogType
<1>2. \A i \in Slot : /\ Stored(backbuf_data[i], backbuf_size[i]) \in Bytes
                      /\ Len(Stored(backbuf_data[i], backbuf_size[i])) = backbuf_size[i]
  BY <1>1, StoredIsBytes
<1>3. Flushed \in Bytes /\ Len(Flushed) <= MsgLen
  <2>1. CASE CanFlush
    <3>1. /\ message \o Stored(backbuf_data[0], backbuf_size[0]) \in Bytes
          /\ Len(message \o Stored(backbuf_data[0], backbuf_size[0]))
               = Len(message) + backbuf_size[0]
      BY <1>1, <1>2, Joined DEF ContentsInv
    <3>2. Len(message) \in Nat /\ backbuf_size[0] \in Nat
      BY <1>1, LenProperties DEF ContentsInv, Bytes
    <3> QED BY <2>1, <3>1, <3>2, MsgLenIsPos DEF Flushed, CanFlush
  <2>2. CASE ~CanFlush
    BY <2>2 DEF Flushed, ContentsInv
  <2> QED BY <2>1, <2>2
<1>4. <<Bye>> \in Bytes /\ Len(<<Bye>>) <= MsgLen /\ <<>> \in Bytes /\ Len(<<>>) <= MsgLen
  BY MsgLenIsPos DEF Bye, Bytes
<1>5. message' \in Bytes /\ Len(message') <= MsgLen
  <2>1. message' = <<>> \/ message' = <<Bye>> \/ message' = Flushed
    BY DEF SendFrame, Staged
  <2> QED BY <1>3, <1>4, <2>1
<1>6. backbuf_data' \in [Slot -> Bytes]
  <2>1. CASE CanFlush
    <3>1. num_backbuf \in 1 .. MaxBack
      BY <2>1, MaxBackIsPos DEF CanFlush, BacklogInv, BacklogType
    <3>2. \A i \in Slot : ShiftedData(i) \in Bytes
      BY <1>1, <1>2, <3>1, MaxBackIsPos DEF ShiftedData, Slot
    <3>3. backbuf_data' = [i \in Slot |-> ShiftedData(i)]
      BY <2>1 DEF SendFrame, Flush
    <3> QED BY <3>2, <3>3
  <2>2. CASE ~CanFlush
    BY <2>2 DEF SendFrame, Flush, queueVars, ContentsInv
  <2> QED BY <2>1, <2>2
<1> QED BY <1>5, <1>6 DEF SendFrame, ContentsInv

(* At first there is nothing anywhere.                                     *)
LEMMA InitContents == Init => ContentsInv
BY MsgLenIsPos DEF Init, ContentsInv, Bytes

(* Every step leaves bytes, and no more of them than the message holds.    *)
LEMMA NextContents ==
  ASSUME ContentsInv, BacklogInv, [Next]_vars
  PROVE  ContentsInv'
<1>1. ASSUME NEW b \in Blocks, Write(b)
      PROVE  ContentsInv'
  <2>1. serial' = serial + 1
    BY <1>1 DEF Write
  <2>2. CASE WriteMessage(b)
    <3>1. backbuf_data' = backbuf_data
      BY <2>2 DEF WriteMessage, queueVars
    <3> QED BY <2>1, <2>2, <3>1, WriteMessageStep DEF ContentsInv
  <2>3. CASE WriteBacklog(b)
    BY <2>1, <2>3, WriteBacklogContents DEF ContentsInv
  <2> QED BY <1>1, <2>2, <2>3 DEF Write
<1>2. ASSUME NEW n \in Replies, SignonReply(n)
      PROVE  ContentsInv'
  BY <1>2, ReplyStep
<1>3. ASSUME NEW n \in ModelReplies, ModellistReply(n)
      PROVE  ContentsInv'
  BY <1>3, ReplyStep
<1>4. ASSUME ClearReliable \/ SpawnClear
      PROVE  ContentsInv'
  <2>1. message' = <<>> /\ backbuf_data' = backbuf_data /\ serial' = serial
    BY <1>4 DEF ClearReliable, SpawnClear, queueVars
  <2> QED BY <2>1, MsgLenIsPos DEF ContentsInv, Bytes
<1>5. ASSUME NEW due \in BOOLEAN, SendFrame(due)
      PROVE  ContentsInv'
  BY <1>5, SendFrameContents
<1>6. ASSUME Deliver \/ UNCHANGED vars
      PROVE  ContentsInv'
  BY <1>6 DEF Deliver, vars, queueVars, ContentsInv
<1> QED BY <1>1, <1>2, <1>3, <1>4, <1>5, <1>6 DEF Next

(* With two buffers or more, a block makes the client overflow only when   *)
(* all of them are in use: neither the message nor a buffer that has room  *)
(* by ClientReliableCheckBlock overflows.  With a single buffer a block    *)
(* that fills it would not even fit into the empty backlog.                *)
THEOREM OverflowsOnlyWhenFull ==
  ASSUME MaxBack # 1
  PROVE  Spec => OverflowOnlyWhenFull
<1>1. ASSUME ContentsInv, BacklogInv, NEW b \in Blocks, Write(b), overflowed', ~overflowed
      PROVE  num_backbuf = MaxBack
  <2>1. ~WriteMessage(b)
    BY <1>1, WriteMessageStep
  <2>2. WriteBacklog(b)
    BY <1>1, <2>1 DEF Write
  <2> DEFINE q == Checked(Opened, b[1])
  <2>3. Opened \in Backlogs /\ q.buf.cursize + b[2] <= MsgLen /\ q.buf.cursize \in Nat
    BY <1>1, OpenedBacklog, CheckedBacklog, MsgLenIsPos DEF Backlogs
  <2>4. b[1] \in 0 .. MsgLen /\ b[2] \in 0 .. MsgLen
    BY BlocksFit
  <2>5. ~(q.buf.cursize + b[2] > MsgLen)
    BY <2>3, <2>4, MsgLenIsPos
  <2>6. overflowed' = (overflowed \/ q.buf.cursize + b[2] > MsgLen \/ Exhausted(Opened, b[1]))
    BY <2>2 DEF WriteBacklog
  <2>7. Exhausted(Opened, b[1])
    BY <1>1, <2>5, <2>6
  <2> QED BY <2>7, MaxBackIsPos DEF Exhausted, Opened
<1>2. Init => ContentsInv /\ BacklogInv
  BY InitContents, InitBacklog
<1>3. ContentsInv /\ BacklogInv /\ [Next]_vars => ContentsInv' /\ BacklogInv'
  BY NextContents, NextBacklog
<1>4. ContentsInv /\ BacklogInv /\ [Next]_vars
        => [(\E b \in Blocks : Write(b)) /\ overflowed' /\ ~overflowed => num_backbuf = MaxBack]_vars
  BY <1>1
<1> QED BY <1>2, <1>3, <1>4, PTL DEF Spec, OverflowOnlyWhenFull

-----------------------------------------------------------------------------
(* Induction is had here from the well-founded order of the finite sets by *)
(* inclusion: the least number of a set is that of the smallest interval.  *)
LEMMA Least ==
  ASSUME NEW A \in SUBSET Nat, A # {}
  PROVE  \E n \in A : \A m \in A : n <= m
<1> DEFINE T == {0 .. n : n \in A}
<1>1. T \subseteq FiniteSubsetsOf(Nat) /\ T # {}
  <2>1. \A n \in Nat : IsFiniteSet(0 .. n) /\ 0 .. n \in SUBSET Nat
    BY FS_Interval
  <2> QED BY <2>1 DEF FiniteSubsetsOf
<1>2. PICK S \in T : \A U \in T : <<U, S>> \notin StrictSubsetOrdering(Nat)
  <2> HIDE DEF T
  <2> QED BY <1>1, FS_StrictSubsetOrderingWellFounded, WFMin
<1>3. PICK n \in A : S = 0 .. n
  OBVIOUS
<1>4. ASSUME NEW m \in A PROVE n <= m
  <2>1. SUFFICES ASSUME m < n PROVE FALSE
    OBVIOUS
  <2>2. 0 .. m \in T /\ 0 .. m \in SUBSET Nat /\ 0 .. n \in SUBSET Nat
    OBVIOUS
  <2>3. 0 .. m \subseteq 0 .. n /\ 0 .. m # 0 .. n
    <3>1. n \in 0 .. n /\ n \notin 0 .. m
      BY <2>1
    <3> QED BY <2>1, <3>1
  <2>4. <<0 .. m, 0 .. n>> \in StrictSubsetOrdering(Nat)
    BY <2>2, <2>3 DEF StrictSubsetOrdering
  <2> QED BY <1>2, <1>3, <2>2, <2>4
<1> QED BY <1>4

(* A set with 0 and the successor of each of its numbers has them all.     *)
LEMMA Induction ==
  ASSUME NEW A, 0 \in A, \A n \in Nat : n \in A => n + 1 \in A
  PROVE  Nat \subseteq A
<1> SUFFICES ASSUME Nat \ A # {} PROVE FALSE
  OBVIOUS
<1>1. PICK n \in Nat \ A : \A m \in Nat \ A : n <= m
  BY Least
<1>2. n # 0
  OBVIOUS
<1>3. n - 1 \in Nat /\ n - 1 \in A
  BY <1>1, <1>2
<1> QED BY <1>3

(* The function that Backlog defines by recursion exists: it can be built  *)
(* one number at a time.                                                   *)
LEMMA UpToExists ==
  ASSUME NEW size, NEW data
  PROVE  \E f : f = [n \in 0 .. MaxBack |->
                      IF n = 0 THEN <<>> ELSE f[n - 1] \o Stored(data[n - 1], size[n - 1])]
<1> DEFINE Fun(f, k) == f = [n \in 0 .. k |->
                      IF n = 0 THEN <<>> ELSE f[n - 1] \o Stored(data[n - 1], size[n - 1])]
           A == {k \in Nat : \E f : Fun(f, k)}
<1>1. 0 \in A
  <2>1. Fun([n \in 0 .. 0 |-> <<>>], 0)
    OBVIOUS
  <2> QED BY <2>1
<1>2. ASSUME NEW k \in Nat, k \in A PROVE k + 1 \in A
  <2>1. PICK f : Fun(f, k)
    BY <1>2
  <2> DEFINE g == [n \in 0 .. k + 1 |-> IF n = k + 1 THEN f[k] \o Stored(data[k], size[k]) ELSE f[n]]
  <2>2. Fun(g, k + 1)
    <3>1. ASSUME NEW n \in 0 .. k + 1
          PROVE  g[n] = IF n = 0 THEN <<>> ELSE g[n - 1] \o Stored(data[n - 1], size[n - 1])
      <4>1. CASE n = k + 1
        BY <4>1, <2>1
      <4>2. CASE n # k + 1 /\ n # 0
        <5>1. n \in 0 .. k /\ n - 1 \in 0 .. k /\ n - 1 # k + 1 /\ n - 1 \in 0 .. k + 1
          BY <4>2
        <5>2. g[n] = f[n] /\ g[n - 1] = f[n - 1]
          BY <4>2, <5>1
        <5>3. f[n] = f[n - 1] \o Stored(data[n - 1], size[n - 1])
          BY <2>1, <4>2, <5>1
        <5> QED BY <4>2, <5>2, <5>3
      <4>3. CASE n = 0
        BY <4>3, <2>1
      <4> QED BY <4>1, <4>2, <4>3
    <3>2. g = [n \in 0 .. k + 1 |-> g[n]]
      OBVIOUS
    <3> HIDE DEF g
    <3> QED BY <3>1, <3>2
  <2> HIDE DEF Fun, g
  <2> QED BY <2>2
<1>3. MaxBack \in A
  <2> HIDE DEF A
  <2> QED BY <1>1, <1>2, Induction, MaxBackIsPos
<1> QED BY <1>3

(* So Backlog is what its recursion says: the content of one more buffer   *)
(* after that of those before it.                                          *)
LEMMA BacklogStep ==
  ASSUME NEW size, NEW data
  PROVE  /\ Backlog(0, size, data) = <<>>
         /\ \A n \in 1 .. MaxBack :
              Backlog(n, size, data) = Backlog(n - 1, size, data) \o Stored(data[n - 1], size[n - 1])
<1> DEFINE upTo[n \in 0 .. MaxBack] ==
        IF n = 0 THEN <<>> ELSE upTo[n - 1] \o Stored(data[n - 1], size[n - 1])
<1>1. upTo = [n \in 0 .. MaxBack |->
         IF n = 0 THEN <<>> ELSE upTo[n - 1] \o Stored(data[n - 1], size[n - 1])]
  <2> DEFINE Solves(f) == f = [n \in 0 .. MaxBack |->
                      IF n = 0 THEN <<>> ELSE f[n - 1] \o Stored(data[n - 1], size[n - 1])]
  <2>1. \E f : Solves(f)
    BY UpToExists
  <2>2. upTo = CHOOSE f : Solves(f)
    OBVIOUS
  <2> HIDE DEF upTo
  <2>3. Solves(upTo)
    <3> HIDE DEF Solves
    <3> QED BY <2>1, <2>2
  <2> QED BY <2>3
<1>2. \A n : Backlog(n, size, data) = upTo[n]
  BY DEF Backlog
<1> HIDE DEF upTo
<1> QED BY <1>1, <1>2, MaxBackIsPos

(* The pieces of the backlog, as its buffers hold them.                    *)
Pieces(size, data) == \A i \in Slot : size[i] \in Nat /\ data[i] \in Bytes

(* The backlog is bytes, of however many buffers.                          *)
LEMMA BacklogIsBytes ==
  ASSUME NEW size, NEW data, Pieces(size, data)
  PROVE  \A n \in 0 .. MaxBack : Backlog(n, size, data) \in Bytes
<1> DEFINE A == {n \in Nat : n <= MaxBack => Backlog(n, size, data) \in Bytes}
<1>1. 0 \in A
  <2>1. Backlog(0, size, data) = <<>>
    BY BacklogStep
  <2>2. <<>> \in Bytes
    BY DEF Bytes
  <2> QED BY <2>1, <2>2
<1>2. ASSUME NEW n \in Nat, n \in A PROVE n + 1 \in A
  <2> SUFFICES ASSUME n + 1 <= MaxBack PROVE Backlog(n + 1, size, data) \in Bytes
    OBVIOUS
  <2>1. n + 1 \in 1 .. MaxBack /\ n \in Slot /\ (n + 1) - 1 = n
    BY MaxBackIsPos DEF Slot
  <2>2. Backlog(n + 1, size, data) = Backlog(n, size, data) \o Stored(data[n], size[n])
    BY <2>1, BacklogStep
  <2>3. Stored(data[n], size[n]) \in Bytes
    BY <2>1, StoredIsBytes DEF Pieces
  <2>4. Backlog(n, size, data) \in Bytes
    BY <1>2, <2>1, MaxBackIsPos
  <2> QED BY <2>2, <2>3, <2>4, Joined
<1> HIDE DEF A
<1>3. Nat \subseteq A
  BY <1>1, <1>2, Induction
<1> QED BY <1>3, MaxBackIsPos DEF A

(* Only the buffers in use matter.                                         *)
LEMMA BacklogAgrees ==
  ASSUME NEW size, NEW data, NEW size2, NEW data2, NEW m \in 0 .. MaxBack,
         \A i \in 0 .. m - 1 : Stored(data[i], size[i]) = Stored(data2[i], size2[i])
  PROVE  Backlog(m, size, data) = Backlog(m, size2, data2)
<1> DEFINE A == {n \in Nat : n <= m => Backlog(n, size, data) = Backlog(n, size2, data2)}
<1>1. 0 \in A
  BY BacklogStep
<1>2. ASSUME NEW n \in Nat, n \in A PROVE n + 1 \in A
  <2> SUFFICES ASSUME n + 1 <= m
               PROVE  Backlog(n + 1, size, data) = Backlog(n + 1, size2, data2)
    OBVIOUS
  <2>1. n + 1 \in 1 .. MaxBack /\ n \in 0 .. m - 1 /\ (n + 1) - 1 = n /\ n <= m
    BY MaxBackIsPos
  <2>2. Backlog(n, size, data) = Backlog(n, size2, data2)
    BY <1>2, <2>1
  <2>3. Stored(data[n], size[n]) = Stored(data2[n], size2[n])
    BY <2>1
  <2>4. /\ Backlog(n + 1, size, data) = Backlog(n, size, data) \o Stored(data[n], size[n])
        /\ Backlog(n + 1, size2, data2) = Backlog(n, size2, data2) \o Stored(data2[n], size2[n])
    BY <2>1, BacklogStep
  <2> HIDE DEF A
  <2> QED BY <2>2, <2>3, <2>4
<1> HIDE DEF A
<1>3. Nat \subseteq A
  BY <1>1, <1>2, Induction
<1> QED BY <1>3 DEF A

(* Without its first buffer the backlog is what the buffers hold that have *)
(* been moved down by one.                                                 *)
LEMMA BacklogShift ==
  ASSUME NEW size, NEW data, NEW size2, NEW data2, NEW m \in 1 .. MaxBack,
         Pieces(size, data), Pieces(size2, data2),
         \A i \in 0 .. m - 2 : Stored(data2[i], size2[i]) = Stored(data[i + 1], size[i + 1])
  PROVE  Backlog(m, size, data) = Stored(data[0], size[0]) \o Backlog(m - 1, size2, data2)
<1> DEFINE First == Stored(data[0], size[0])
           A == {n \in Nat : n <= m - 1 =>
                   Backlog(n + 1, size, data) = First \o Backlog(n, size2, data2)}
<1>1. 0 \in Slot /\ First \in Bytes
  <2>1. 0 \in Slot
    BY MaxBackIsPos DEF Slot
  <2> QED BY <2>1, StoredIsBytes DEF Pieces
<1>2. 0 \in A
  <2>1. 1 \in 1 .. MaxBack
    BY MaxBackIsPos
  <2>2. /\ Backlog(1, size, data) = Backlog(0, size, data) \o First
        /\ Backlog(0, size, data) = <<>> /\ Backlog(0, size2, data2) = <<>>
    BY <2>1, BacklogStep
  <2>3. <<>> \o First = First /\ First \o <<>> = First
    BY <1>1, ConcatEmptySeq DEF Bytes
  <2> QED BY <2>2, <2>3
<1>3. ASSUME NEW n \in Nat, n \in A PROVE n + 1 \in A
  <2> SUFFICES ASSUME n + 1 <= m - 1
               PROVE  Backlog(n + 2, size, data) = First \o Backlog(n + 1, size2, data2)
    OBVIOUS
  <2>1. /\ n + 2 \in 1 .. MaxBack /\ n + 1 \in 1 .. MaxBack /\ n \in 0 .. MaxBack
        /\ (n + 2) - 1 = n + 1 /\ (n + 1) - 1 = n /\ n \in 0 .. m - 2 /\ n \in Slot
        /\ n + 1 \in Slot
    BY MaxBackIsPos DEF Slot
  <2> DEFINE Next2 == Stored(data2[n], size2[n])
             Last2 == Backlog(n, size2, data2)
  <2>2. Backlog(n + 2, size, data) = Backlog(n + 1, size, data) \o Stored(data[n + 1], size[n + 1])
    BY <2>1, BacklogStep
  <2>3. Stored(data[n + 1], size[n + 1]) = Next2
    BY <2>1
  <2>4. Backlog(n + 1, size, data) = First \o Last2
    BY <1>3, <2>1
  <2>5. Backlog(n + 1, size2, data2) = Last2 \o Next2
    BY <2>1, BacklogStep
  <2>6. Last2 \in Bytes /\ Next2 \in Bytes
    BY <2>1, BacklogIsBytes, StoredIsBytes DEF Pieces
  <2> HIDE DEF First, Last2, Next2
  <2>7. (First \o Last2) \o Next2 = First \o (Last2 \o Next2)
    BY <1>1, <2>6, ConcatAssociative DEF Bytes
  <2> QED BY <2>2, <2>3, <2>4, <2>5, <2>7
<1> HIDE DEF A
<1>4. Nat \subseteq A
  BY <1>2, <1>3, Induction
<1>5. m - 1 \in A /\ (m - 1) + 1 = m
  BY <1>4
<1> QED BY <1>5 DEF A

(* A buffer whose recorded length is right holds just what was put in.     *)
LEMMA StoredAll ==
  ASSUME NEW data \in Bytes
  PROVE  Stored(data, Len(data)) = data
<1>1. Len(data) \in Nat /\ data \in [1 .. Len(data) -> Nat]
  BY LenProperties DEF Bytes
<1>2. Stored(data, Len(data)) = [i \in 1 .. Len(data) |-> data[i]]
  BY <1>1 DEF Stored
<1> QED BY <1>1, <1>2

(* A buffer of length 0 holds nothing.                                     *)
LEMMA StoredNone == \A data : Stored(data, 0) = <<>>
  BY DEF Stored

(* Moving a buffer down changes nothing of what it holds.                  *)
LEMMA StoredTwice ==
  ASSUME NEW data \in Bytes, NEW n \in Nat
  PROVE  Stored(Stored(data, n), n) = Stored(data, n)
<1>1. Stored(data, n) \in Bytes /\ Len(Stored(data, n)) = n
  BY StoredIsBytes
<1> HIDE DEF Stored
<1> QED BY <1>1, StoredAll

(* Nothing before or after bytes changes nothing.                          *)
LEMMA EmptyIsUnit ==
  /\ <<>> \in Bytes
  /\ \A s \in Bytes : s \o <<>> = s /\ <<>> \o s = s
  BY ConcatEmptySeq, EmptySeq DEF Bytes

(* Pieces of the stream can be grouped in any way.                         *)
LEMMA Associative == \A s, t, u \in Bytes : (s \o t) \o u = s \o (t \o u)
  BY ConcatAssociative DEF Bytes

(* What waits is bytes, piece by piece and as a whole.                     *)
LEMMA WaitingIsBytes ==
  ASSUME BacklogInv, ContentsInv
  PROVE  Pieces(backbuf_size, backbuf_data) /\ Waiting \in Bytes
<1>1. Pieces(backbuf_size, backbuf_data)
  BY MsgLenIsPos DEF Pieces, BacklogInv, BacklogType, ContentsInv
<1>2. num_backbuf \in 0 .. MaxBack
  BY DEF BacklogInv, BacklogType
<1> QED BY <1>1, <1>2, BacklogIsBytes DEF Waiting

(* A backlog without buffers holds nothing.                                *)
LEMMA NothingWaits ==
  ASSUME num_backbuf = 0
  PROVE  Waiting = <<>>
  BY BacklogStep DEF Waiting

(* A block that goes to the backlog comes after everything in it.          *)
LEMMA WriteBacklogOrder ==
  ASSUME BacklogInv, ContentsInv, BackbufIsLast,
         NEW b \in Blocks, WriteBacklog(b), ~overflowed'
  PROVE  ~overflowed /\ message' = message /\ Waiting' = Waiting \o Block(serial, b[2])
<1> DEFINE q    == Checked(Opened, b[1])
           m    == q.num - 1
           from == q.buf.cursize
           new  == Block(serial, b[2])
           size == backbuf_size'
           data == backbuf_data'
<1>1. /\ q \in Backlogs /\ q.buf.block = m /\ from + b[2] <= MsgLen
      /\ Opened \in Backlogs
  BY OpenedBacklog, CheckedBacklog DEF LastIsCurrent
<1>2. b[2] \in Nat /\ from \in Nat /\ m \in Slot /\ m \in Nat /\ q.num \in 1 .. MaxBack /\ q.num = m + 1
  BY <1>1, BlocksFit, MsgLenIsPos, MaxBackIsPos DEF Backlogs, Slot
<1>3. ~(from + b[2] > MsgLen)
  BY <1>1, <1>2, MsgLenIsPos
<1>4. /\ num_backbuf' = q.num
      /\ size = [i \in Slot |-> IF i = m THEN from + b[2]
                                ELSE IF i = 0 /\ num_backbuf = 0 THEN 0 ELSE backbuf_size[i]]
      /\ data = [backbuf_data EXCEPT ![m] = Stored(backbuf_data[m], from) \o new]
      /\ message' = message
      /\ ~overflowed /\ ~Exhausted(Opened, b[1])
  BY <1>1, <1>3 DEF WriteBacklog
<1>5. /\ Pieces(backbuf_size, backbuf_data) /\ Waiting \in Bytes
      /\ backbuf_data \in [Slot -> Bytes] /\ backbuf_size \in [Slot -> 0 .. MsgLen]
      /\ num_backbuf \in 0 .. MaxBack
  BY WaitingIsBytes DEF ContentsInv, BacklogInv, BacklogType
<1>6. /\ Stored(backbuf_data[m], from) \in Bytes
      /\ Len(Stored(backbuf_data[m], from)) = from
      /\ new \in Bytes /\ Len(new) = b[2]
  <2>1. backbuf_data[m] \in Bytes
    BY <1>2, <1>5
  <2> HIDE DEF q, m, from
  <2> QED BY <1>2, <2>1, StoredIsBytes, BlockIsBytes DEF ContentsInv
<1>7. Stored(data[m], size[m]) = Stored(backbuf_data[m], from) \o new
  <2> DEFINE joined == Stored(backbuf_data[m], from) \o new
  <2>1. data[m] = joined /\ size[m] = from + b[2]
    BY <1>2, <1>4, <1>5
  <2>2. joined \in Bytes /\ Len(joined) = from + b[2]
    BY <1>6, Joined
  <2> HIDE DEF joined, q, m, from, size, data
  <2>3. Stored(joined, Len(joined)) = joined
    BY <2>2, StoredAll
  <2> QED BY <2>1, <2>2, <2>3 DEF joined
<1>8. Backlog(m, size, data) \o Stored(backbuf_data[m], from) = Waiting
      /\ Backlog(m, size, data) \in Bytes
  <2>1. CASE num_backbuf = 0 /\ FitsBuffer(Opened.buf, b[1])
    <3>1. m = 0 /\ from = 0
      BY <2>1 DEF Checked, Opened, Empty
    <3>2. Backlog(m, size, data) = <<>> /\ Stored(backbuf_data[m], from) = <<>> /\ Waiting = <<>>
      BY <2>1, <3>1, BacklogStep, StoredNone, NothingWaits
    <3> QED BY <3>2, EmptyIsUnit
  <2>2. CASE num_backbuf = 0 /\ ~FitsBuffer(Opened.buf, b[1])
    <3>1. m = 1 /\ from = 0 /\ 1 \in 1 .. MaxBack
      <4>1. Opened.num = 1 /\ Opened.num # MaxBack
        BY <1>4, <2>2 DEF Opened, Exhausted
      <4> QED BY <2>2, <4>1, MaxBackIsPos DEF Checked, Empty
    <3>2. 0 \in Slot /\ size[0] = 0
      BY <1>2, <1>4, <2>2, <3>1, MaxBackIsPos DEF Slot
    <3>3. Backlog(1, size, data) = <<>> \o Stored(data[0], size[0])
      <4> HIDE DEF size, data
      <4>1. 1 - 1 = 0
        OBVIOUS
      <4> QED BY <3>1, <4>1, BacklogStep
    <3>4. Backlog(m, size, data) = <<>>
      BY <3>1, <3>2, <3>3, StoredNone, EmptyIsUnit
    <3>5. Stored(backbuf_data[m], from) = <<>> /\ Waiting = <<>>
      BY <2>2, <3>1, StoredNone, NothingWaits
    <3> QED BY <3>4, <3>5, EmptyIsUnit
  <2>3. CASE num_backbuf # 0 /\ FitsBuffer(Opened.buf, b[1])
    <3>1. m = num_backbuf - 1 /\ from = backbuf_size[m] /\ num_backbuf \in 1 .. MaxBack
          /\ m \in 0 .. MaxBack
      <4>1. num_backbuf \in 1 .. MaxBack /\ num_backbuf > 0
        BY <1>5, <2>3, MaxBackIsPos
      <4>2. q.num = num_backbuf /\ q.buf = backbuf
        BY <2>3 DEF Checked, Opened
      <4> HIDE DEF q
      <4> QED BY <4>1, <4>2, MaxBackIsPos DEF BackbufIsLast
    <3>2. ASSUME NEW i \in 0 .. m - 1
          PROVE  Stored(data[i], size[i]) = Stored(backbuf_data[i], backbuf_size[i])
      <4>1. i \in Slot /\ i # m /\ num_backbuf # 0
        BY <3>1, MaxBackIsPos DEF Slot
      <4> QED BY <1>4, <1>5, <4>1
    <3>3. Backlog(m, size, data) = Backlog(m, backbuf_size, backbuf_data)
      <4> HIDE DEF size, data, m, q, from
      <4> QED BY <3>1, <3>2, BacklogAgrees
    <3>4. Waiting = Backlog(m, backbuf_size, backbuf_data) \o Stored(backbuf_data[m], from)
      <4> HIDE DEF m, q, from
      <4> QED BY <3>1, BacklogStep DEF Waiting
    <3>5. Backlog(m, backbuf_size, backbuf_data) \in Bytes
      <4> HIDE DEF m, q, from
      <4> QED BY <1>5, <3>1, BacklogIsBytes
    <3> QED BY <3>3, <3>4, <3>5
  <2>4. CASE num_backbuf # 0 /\ ~FitsBuffer(Opened.buf, b[1])
    <3>1. m = num_backbuf /\ from = 0
      <4>1. Opened.num = num_backbuf /\ Opened.num # MaxBack
        BY <1>4, <2>4 DEF Opened, Exhausted
      <4> QED BY <1>5, <2>4, <4>1 DEF Checked, Empty
    <3>2. ASSUME NEW i \in 0 .. m - 1
          PROVE  Stored(data[i], size[i]) = Stored(backbuf_data[i], backbuf_size[i])
      <4>1. i \in Slot /\ i # m /\ num_backbuf # 0
        BY <1>5, <2>4, <3>1, MaxBackIsPos DEF Slot
      <4> QED BY <1>4, <1>5, <4>1
    <3>3. Backlog(m, size, data) = Waiting
      <4> HIDE DEF size, data, m, q, from
      <4> QED BY <1>5, <3>1, <3>2, BacklogAgrees DEF Waiting
    <3>4. Stored(backbuf_data[m], from) = <<>>
      BY <3>1, StoredNone
    <3> QED BY <1>5, <3>3, <3>4, EmptyIsUnit
  <2> QED BY <2>1, <2>2, <2>3, <2>4
<1>9. Waiting' = Backlog(m, size, data) \o (Stored(backbuf_data[m], from) \o new)
  <2>1. Waiting' = Backlog(q.num, size, data)
    BY <1>4 DEF Waiting
  <2> HIDE DEF size, data, m, q, from, new
  <2>2. Backlog(q.num, size, data) = Backlog(q.num - 1, size, data) \o Stored(data[q.num - 1], size[q.num - 1])
    BY <1>2, BacklogStep
  <2>3. q.num - 1 = m
    BY <1>2
  <2> QED BY <1>7, <2>1, <2>2, <2>3
<1>10. Waiting' = (Backlog(m, size, data) \o Stored(backbuf_data[m], from)) \o new
  <2> HIDE DEF size, data, m, q, from, new
  <2> QED BY <1>6, <1>8, <1>9, Associative
<1> QED BY <1>4, <1>8, <1>10

(* What the stream is, bar the cases in which it need not be anything.     *)
Streams == written = sent \o message \o Waiting
(* The cases in which the stream has to be in order.                       *)
Counts  == ~overflowed /\ ~dropped /\ ~modellist

(* The property in these terms.                                            *)
LEMMA OrderMeans == InOrderBarModellist <=> (Counts => Streams)
  BY DEF InOrderBarModellist, InOrder, Counts, Streams

(* The property, and what it rests on: consistent bookkeeping, contents    *)
(* that are bytes, and writers that append to the last buffer.             *)
OrderInv == BacklogInv /\ ContentsInv /\ LastBarModellist /\ InOrderBarModellist /\ sent \in Bytes

(* A reply that goes past the backlog finds nothing waiting, or throws     *)
(* away what does - unless it is that of Cmd_Modellist_f.                  *)
LEMMA ReplyOrder ==
  ASSUME OrderInv, NEW n \in Replies \cup ModelReplies,
         SignonReply(n) \/ ModellistReply(n), Counts'
  PROVE  Streams'
<1> DEFINE new == Block(serial, n)
<1>1. new \in Bytes
  BY RepliesFit, MsgLenIsPos, BlockIsBytes DEF OrderInv, ContentsInv
<1>2. sent \in Bytes /\ sent' = sent /\ message \in Bytes /\ Waiting \in Bytes
  BY WaitingIsBytes DEF OrderInv, ContentsInv, SignonReply, ModellistReply, linkVars
<1>3. num_backbuf' = 0 /\ ~modellist
  <2>1. CASE SignonReply(n)
    BY <2>1 DEF SignonReply, Counts
  <2>2. CASE ModellistReply(n)
    <3>1. modellist' = (modellist \/ num_backbuf > 0)
      BY <2>2 DEF ModellistReply
    <3>2. ~modellist /\ ~(num_backbuf > 0)
      BY <3>1, Zenon DEF Counts
    <3> QED BY <2>2, <3>2 DEF ModellistReply
  <2> QED BY <2>1, <2>2
<1>4. Waiting' = <<>>
  BY <1>3, BacklogStep DEF Waiting
<1>5. CASE num_backbuf > 0
  <2>1. message' = new /\ written' = sent \o new
    BY <1>5 DEF SignonReply, ModellistReply
  <2> QED BY <1>1, <1>2, <1>4, <2>1, Joined, EmptyIsUnit DEF Streams
<1>6. CASE ~(num_backbuf > 0)
  <2>1. DirectWrite(message, n) /\ written' = written \o new /\ dropped' = dropped
    BY <1>6 DEF SignonReply, ModellistReply
  <2>2. message' = message \o new /\ overflowed' = overflowed
    <3>1. ~overflowed'
      BY DEF Counts
    <3> QED BY <2>1, <3>1 DEF DirectWrite
  <2>3. Waiting = <<>>
    BY <1>6, NothingWaits, MaxBackIsPos DEF OrderInv, BacklogInv, BacklogType
  <2>4. written = (sent \o message) \o Waiting
    <3>1. ~overflowed /\ ~dropped
      BY <2>1, <2>2, Zenon DEF Counts
    <3> QED BY <1>3, <3>1 DEF OrderInv, InOrderBarModellist, InOrder
  <2> HIDE DEF new
  <2>5. written = sent \o message
    BY <1>2, <2>3, <2>4, EmptyIsUnit, Joined
  <2>6. written' = sent \o (message \o new)
    BY <1>1, <1>2, <2>1, <2>5, Associative
  <2>7. sent \o (message \o new) \in Bytes
    BY <1>1, <1>2, Joined
  <2> QED BY <1>2, <1>4, <2>2, <2>6, <2>7, EmptyIsUnit DEF Streams
<1> QED BY <1>5, <1>6

(* A block goes to the end of the stream, straight into the message or     *)
(* after what waits in the backlog.                                        *)
LEMMA WriteOrder ==
  ASSUME OrderInv, NEW b \in Blocks, Write(b), Counts'
  PROVE  Streams'
<1> DEFINE new == Block(serial, b[2])
<1>1. /\ new \in Bytes /\ message \in Bytes /\ sent \in Bytes /\ Waiting \in Bytes
      /\ sent' = sent
  BY BlocksFit, MsgLenIsPos, BlockIsBytes, WaitingIsBytes
     DEF OrderInv, ContentsInv, Write, linkVars
<1>2. written' = written \o new /\ dropped' = dropped /\ modellist' = modellist
  BY DEF Write
<1>3. ~overflowed' /\ ~dropped /\ ~modellist
  BY <1>2, Zenon DEF Counts
<1>4. CASE WriteMessage(b)
  <2>1. /\ overflowed' = overflowed /\ num_backbuf = 0
        /\ num_backbuf' = num_backbuf /\ backbuf_size' = backbuf_size /\ backbuf_data' = backbuf_data
    BY <1>4, WriteMessageStep DEF WriteMessage, FitsMessage, queueVars, OrderInv
  <2>2. message' = message \o new
    <3>1. CASE Len(message) + b[2] > MsgLen
      <4>1. FALSE
        <5>1. b[1] \in 0 .. MsgLen /\ b[2] \in 0 .. MsgLen /\ b[2] <= b[1] + 1
          BY BlocksFit
        <5>2. Len(message) \in Nat
          BY LenProperties DEF OrderInv, ContentsInv, Bytes
        <5> QED BY <1>4, <3>1, <5>1, <5>2, MsgLenIsPos DEF WriteMessage, FitsMessage
      <4> QED BY <4>1
    <3>2. CASE ~(Len(message) + b[2] > MsgLen)
      BY <1>4, <3>2 DEF WriteMessage
    <3> QED BY <3>1, <3>2
  <2>3. Waiting = <<>> /\ Waiting' = <<>>
    BY <2>1, NothingWaits, BacklogStep DEF Waiting
  <2>4. written = (sent \o message) \o Waiting
    BY <1>3, <2>1 DEF OrderInv, InOrderBarModellist, InOrder
  <2> HIDE DEF new
  <2>5. written = sent \o message
    BY <1>1, <2>3, <2>4, EmptyIsUnit, Joined
  <2>6. written' = sent \o (message \o new)
    BY <1>1, <1>2, <2>5, Associative
  <2>7. sent \o (message \o new) \in Bytes
    BY <1>1, Joined
  <2> QED BY <1>1, <2>2, <2>3, <2>6, <2>7, EmptyIsUnit DEF Streams
<1>5. CASE WriteBacklog(b)
  <2>1. BackbufIsLast
    BY <1>3 DEF OrderInv, LastBarModellist
  <2>2. ~overflowed /\ message' = message /\ Waiting' = Waiting \o new
    BY <1>3, <1>5, <2>1, WriteBacklogOrder DEF OrderInv
  <2>3. written = (sent \o message) \o Waiting
    BY <1>3, <2>2 DEF OrderInv, InOrderBarModellist, InOrder
  <2> HIDE DEF new
  <2>4. sent \o message \in Bytes
    BY <1>1, Joined
  <2>5. written' = (sent \o message) \o (Waiting \o new)
    BY <1>1, <1>2, <2>3, <2>4, Associative
  <2> QED BY <1>1, <2>2, <2>5 DEF Streams
<1> QED BY <1>4, <1>5 DEF Write

(* The flush takes the first piece out of the backlog and puts it at the   *)
(* end of the message.                                                     *)
LEMMA FlushOrder ==
  ASSUME BacklogInv, ContentsInv, Flush
  PROVE  Flushed \in Bytes /\ Waiting' \in Bytes /\ message \o Waiting = Flushed \o Waiting'
<1>1. /\ Pieces(backbuf_size, backbuf_data) /\ Waiting \in Bytes /\ message \in Bytes
      /\ num_backbuf \in 0 .. MaxBack /\ 0 \in Slot
  BY WaitingIsBytes, MaxBackIsPos DEF ContentsInv, BacklogInv, BacklogType, Slot
<1>2. CASE ~CanFlush
  <2>1. num_backbuf' = num_backbuf /\ backbuf_size' = backbuf_size /\ backbuf_data' = backbuf_data
    BY <1>2 DEF Flush, queueVars
  <2> QED BY <1>1, <1>2, <2>1 DEF Waiting, Flushed
<1>3. CASE CanFlush
  <2> DEFINE size  == backbuf_size'
             data  == backbuf_data'
             first == Stored(backbuf_data[0], backbuf_size[0])
             rest  == Backlog(num_backbuf - 1, size, data)
  <2>1. num_backbuf \in 1 .. MaxBack /\ num_backbuf - 1 \in 0 .. MaxBack
    BY <1>1, <1>3, MaxBackIsPos DEF CanFlush
  <2>2. /\ num_backbuf' = num_backbuf - 1
        /\ size = [i \in Slot |-> ShiftedSize(i)]
        /\ data = [i \in Slot |-> ShiftedData(i)]
    BY <1>3 DEF Flush
  <2>3. ASSUME NEW i \in Slot
        PROVE  size[i] \in Nat /\ data[i] \in Bytes
    <3>1. CASE i + 1 < num_backbuf
      <4>1. i + 1 \in Slot
        BY <2>1, <3>1, MaxBackIsPos DEF Slot
      <4>2. size[i] = backbuf_size[i + 1] /\ data[i] = Stored(backbuf_data[i + 1], backbuf_size[i + 1])
        BY <2>2, <3>1 DEF ShiftedSize, ShiftedData
      <4> QED BY <1>1, <4>1, <4>2, StoredIsBytes DEF Pieces
    <3>2. CASE ~(i + 1 < num_backbuf)
      BY <1>1, <2>2, <3>2 DEF ShiftedSize, ShiftedData, Pieces
    <3> QED BY <3>1, <3>2
  <2>4. ASSUME NEW i \in 0 .. num_backbuf - 2
        PROVE  Stored(data[i], size[i]) = Stored(backbuf_data[i + 1], backbuf_size[i + 1])
    <3>1. i \in Slot /\ i + 1 \in Slot /\ i + 1 < num_backbuf
      BY <2>1, MaxBackIsPos DEF Slot
    <3>2. size[i] = backbuf_size[i + 1] /\ data[i] = Stored(backbuf_data[i + 1], backbuf_size[i + 1])
      BY <2>2, <3>1 DEF ShiftedSize, ShiftedData
    <3>3. backbuf_data[i + 1] \in Bytes /\ backbuf_size[i + 1] \in Nat
      BY <1>1, <3>1 DEF Pieces
    <3> QED BY <3>2, <3>3, StoredTwice
  <2> HIDE DEF size, data
  <2>5. Pieces(size, data)
    BY <2>3 DEF Pieces
  <2>6. Waiting = first \o rest
    BY <1>1, <2>1, <2>4, <2>5, BacklogShift DEF Waiting
  <2>7. Waiting' = rest
    BY <2>2 DEF Waiting, size, data
  <2>8. first \in Bytes /\ rest \in Bytes
    BY <1>1, <2>1, <2>5, BacklogIsBytes, StoredIsBytes DEF Pieces
  <2>9. Flushed = message \o first
    BY <1>3 DEF Flushed
  <2> HIDE DEF first, rest
  <2>10. message \o (first \o rest) = (message \o first) \o rest
    BY <1>1, <2>8, Associative
  <2> QED BY <1>1, <2>6, <2>7, <2>8, <2>9, <2>10, Joined
<1> QED BY <1>2, <1>3

(* A frame moves the boundary between what was sent and what is staged,    *)
(* and that between what is staged and what waits.                         *)
LEMMA SendFrameOrder ==
  ASSUME OrderInv, NEW due \in BOOLEAN, SendFrame(due), Counts'
  PROVE  Streams'
<1>1. ~overflowed /\ ~dropped /\ ~modellist
  <2>1. dropped' = (dropped \/ overflowed) /\ modellist' = modellist
    BY DEF SendFrame
  <2> QED BY <2>1, Zenon DEF Counts
<1>2. /\ message \in Bytes /\ sent \in Bytes /\ Waiting \in Bytes
      /\ Flushed \in Bytes /\ Waiting' \in Bytes
      /\ message \o Waiting = Flushed \o Waiting'
  BY FlushOrder, WaitingIsBytes DEF SendFrame, OrderInv, ContentsInv
<1>3. written' = written /\ written = (sent \o message) \o Waiting
  BY <1>1 DEF SendFrame, OrderInv, InOrderBarModellist, InOrder
<1>4. written' = (sent \o Flushed) \o Waiting'
  <2>1. (sent \o message) \o Waiting = sent \o (message \o Waiting)
    BY <1>2, Associative
  <2>2. (sent \o Flushed) \o Waiting' = sent \o (Flushed \o Waiting')
    BY <1>2, Associative
  <2> QED BY <1>2, <1>3, <2>1, <2>2, Zenon
<1>5. \/ sent' = sent \o Flushed /\ message' = <<>>
      \/ sent' = sent /\ message' = Flushed
  BY <1>1 DEF SendFrame, Staged
<1>6. (sent \o Flushed) \o <<>> = sent \o Flushed
  BY <1>2, Joined, EmptyIsUnit
<1> QED BY <1>4, <1>5, <1>6 DEF Streams

(* What is cleared is taken from the end of the stream (SpawnClear keeps   *)
(* the backlog).                                                           *)
LEMMA ClearOrder ==
  ASSUME OrderInv, ClearReliable \/ SpawnClear, Counts'
  PROVE  Streams'
<1>1. sent \in Bytes /\ sent' = sent /\ Waiting \in Bytes /\ message' = <<>>
  BY WaitingIsBytes DEF OrderInv, ClearReliable, SpawnClear, linkVars
<1>2. sent \o <<>> = sent
  BY <1>1, EmptyIsUnit
<1>3. CASE ClearReliable
  <2>1. Waiting' = <<>> /\ written' = sent
    BY <1>3, BacklogStep DEF ClearReliable, Waiting
  <2> QED BY <1>1, <1>2, <2>1 DEF Streams
<1>4. CASE SpawnClear
  <2>1. Waiting' = Waiting /\ written' = sent \o Waiting
    BY <1>4 DEF SpawnClear, queueVars, Waiting
  <2> QED BY <1>1, <1>2, <2>1 DEF Streams
<1> QED BY <1>3, <1>4

(* Only SendFrame sends, and what it sends is bytes.                       *)
LEMMA SentIsBytes ==
  ASSUME OrderInv, [Next]_vars
  PROVE  sent' \in Bytes
<1>1. CASE sent' = sent
  BY <1>1 DEF OrderInv
<1>2. ASSUME NEW due \in BOOLEAN, SendFrame(due)
      PROVE  sent' \in Bytes
  <2>1. Flushed \in Bytes /\ <<Bye>> \in Bytes
    BY <1>2, FlushOrder DEF SendFrame, OrderInv, Bytes, Bye
  <2>2. Staged \in Bytes
    BY <2>1 DEF Staged
  <2> QED BY <1>2, <2>2, Joined DEF SendFrame, OrderInv
<1>3. sent' = sent \/ \E due \in BOOLEAN : SendFrame(due)
  BY DEF Next, Write, SignonReply, ModellistReply, ClearReliable, SpawnClear, Deliver,
         linkVars, vars
<1> QED BY <1>1, <1>2, <1>3

(* Nothing is written and nothing waits at first.                          *)
LEMMA InitOrder == Init => OrderInv
<1> SUFFICES ASSUME Init PROVE OrderInv
  OBVIOUS
<1>1. BacklogInv /\ LastBarModellist /\ ContentsInv
  BY InitBacklog, InitContents DEF LastBarModellist
<1>2. Waiting = <<>>
  BY NothingWaits DEF Init
<1>3. written = <<>> /\ sent = <<>> /\ message = <<>>
  BY DEF Init
<1>4. (<<>> \o <<>>) \o <<>> = <<>>
  BY EmptyIsUnit
<1> QED BY <1>1, <1>2, <1>3, <1>4, EmptyIsUnit DEF OrderInv, InOrderBarModellist, InOrder

(* Every step keeps the stream in order.                                   *)
LEMMA NextOrder == OrderInv /\ [Next]_vars => OrderInv'
<1> SUFFICES ASSUME OrderInv, [Next]_vars PROVE OrderInv'
  OBVIOUS
<1>1. BacklogInv' /\ LastBarModellist' /\ ContentsInv' /\ sent' \in Bytes
  BY NextBacklog, NextContents, SentIsBytes DEF OrderInv
<1>2. ASSUME Counts' PROVE Streams'
  <2>1. ASSUME NEW b \in Blocks, Write(b) PROVE Streams'
    BY <1>2, <2>1, WriteOrder
  <2>2. ASSUME NEW n \in Replies, SignonReply(n) PROVE Streams'
    BY <1>2, <2>2, ReplyOrder
  <2>3. ASSUME NEW n \in ModelReplies, ModellistReply(n) PROVE Streams'
    BY <1>2, <2>3, ReplyOrder
  <2>4. ASSUME ClearReliable \/ SpawnClear PROVE Streams'
    BY <1>2, <2>4, ClearOrder
  <2>5. ASSUME NEW due \in BOOLEAN, SendFrame(due) PROVE Streams'
    BY <1>2, <2>5, SendFrameOrder
  <2>6. ASSUME Deliver \/ UNCHANGED vars PROVE Streams'
    <3>1. /\ written' = written /\ sent' = sent /\ message' = message /\ Waiting' = Waiting
          /\ overflowed' = overflowed /\ dropped' = dropped /\ modellist' = modellist
      BY <2>6 DEF Deliver, vars, queueVars, linkVars, Waiting
    <3>2. Counts
      BY <1>2, <3>1, Zenon DEF Counts
    <3> QED BY <3>1, <3>2, OrderMeans DEF Streams, OrderInv
  <2> QED BY <2>1, <2>2, <2>3, <2>4, <2>5, <2>6 DEF Next
<1>3. InOrderBarModellist'
  BY <1>2 DEF InOrderBarModellist, InOrder, Counts, Streams
<1> QED BY <1>1, <1>3 DEF OrderInv

(* The client gets what was written, in order, whatever part of it went    *)
(* through the backlog, however it was divided into buffers and flushed,   *)
(* until Cmd_Modellist_f leaves a buffer behind.                           *)
THEOREM StreamIsInOrder == Spec => []InOrderBarModellist
<1>1. OrderInv => InOrderBarModellist
  BY DEF OrderInv
<1> QED BY <1>1, InitOrder, NextOrder, PTL DEF Spec

(* What the variables hold, contents included: only what was written is    *)
(* left to be shown.                                                       *)
THEOREM SvReliableTypeCorrect == Spec => []TypeOK
<1> DEFINE TypeInv == OrderInv /\ TypeOK
<1>1. Init => TypeInv
  <2> SUFFICES ASSUME Init PROVE TypeInv
    OBVIOUS
  <2>1. /\ written = <<>> /\ read = <<>> /\ overflowed = FALSE /\ modellist = FALSE
        /\ fatal = FALSE /\ dropped = FALSE
    BY DEF Init
  <2> QED BY <2>1, InitOrder, EmptyIsUnit DEF OrderInv, ContentsInv, BacklogInv, TypeOK
<1>2. TypeInv /\ [Next]_vars => TypeInv'
  <2> SUFFICES ASSUME TypeInv, [Next]_vars PROVE TypeOK'
    BY NextOrder
  <2>1. OrderInv' /\ BacklogInv' /\ ContentsInv' /\ sent' \in Bytes
    BY NextOrder DEF OrderInv
  <2>2. /\ message \in Bytes /\ sent \in Bytes /\ read \in Bytes /\ written \in Bytes
        /\ Waiting \in Bytes /\ serial \in Nat
    BY WaitingIsBytes DEF TypeOK, OrderInv
  <2>3. \A n \in 0 .. MsgLen : Block(serial, n) \in Bytes
    BY <2>2, BlockIsBytes, MsgLenIsPos
  <2>4. written' \in Bytes
    <3>1. ASSUME NEW b \in Blocks, Write(b) PROVE written' \in Bytes
      BY <2>2, <2>3, <3>1, BlocksFit, Joined DEF Write
    <3>2. ASSUME NEW n \in Replies \cup ModelReplies, SignonReply(n) \/ ModellistReply(n)
          PROVE  written' \in Bytes
      <4>1. Block(serial, n) \in Bytes
        BY <2>3, RepliesFit
      <4>2. written' = sent \o Block(serial, n) \/ written' = written \o Block(serial, n)
        BY <3>2 DEF SignonReply, ModellistReply
      <4> QED BY <2>2, <4>1, <4>2, Joined
    <3>3. ASSUME ClearReliable \/ SpawnClear PROVE written' \in Bytes
      BY <2>2, <3>3, Joined DEF ClearReliable, SpawnClear
    <3>4. ASSUME NEW due \in BOOLEAN, SendFrame(due) PROVE written' \in Bytes
      <4>1. <<Bye>> \in Bytes
        BY DEF Bye, Bytes
      <4> QED BY <2>2, <3>4, <4>1, Joined DEF SendFrame
    <3>5. ASSUME Deliver \/ UNCHANGED vars PROVE written' \in Bytes
      BY <2>2, <3>5 DEF Deliver, vars
    <3> QED BY <3>1, <3>2, <3>3, <3>4, <3>5 DEF Next
  <2>5. read' \in Bytes
    BY <2>2 DEF Next, Write, SignonReply, ModellistReply, ClearReliable, SpawnClear, SendFrame,
                Deliver, linkVars, vars
  <2>6. overflowed' \in BOOLEAN /\ modellist' \in BOOLEAN /\ fatal' \in BOOLEAN /\ dropped' \in BOOLEAN
    <3>0. overflowed \in BOOLEAN /\ modellist \in BOOLEAN /\ fatal \in BOOLEAN /\ dropped \in BOOLEAN
      BY DEF TypeOK
    <3>1. ASSUME NEW b \in Blocks, Write(b)
          PROVE  /\ overflowed' \in BOOLEAN /\ modellist' \in BOOLEAN
                 /\ fatal' \in BOOLEAN /\ dropped' \in BOOLEAN
      BY <3>0, <3>1, Zenon DEF Write, WriteMessage, WriteBacklog
    <3>2. ASSUME NEW n \in Replies \cup ModelReplies, SignonReply(n) \/ ModellistReply(n)
          PROVE  /\ overflowed' \in BOOLEAN /\ modellist' \in BOOLEAN
                 /\ fatal' \in BOOLEAN /\ dropped' \in BOOLEAN
      BY <3>0, <3>2, Zenon DEF SignonReply, ModellistReply, DirectWrite
    <3>3. ASSUME ClearReliable \/ SpawnClear \/ Deliver \/ UNCHANGED vars
          PROVE  /\ overflowed' \in BOOLEAN /\ modellist' \in BOOLEAN
                 /\ fatal' \in BOOLEAN /\ dropped' \in BOOLEAN
      BY <3>0, <3>3, Zenon DEF ClearReliable, SpawnClear, Deliver, vars
    <3>4. ASSUME NEW due \in BOOLEAN, SendFrame(due)
          PROVE  /\ overflowed' \in BOOLEAN /\ modellist' \in BOOLEAN
                 /\ fatal' \in BOOLEAN /\ dropped' \in BOOLEAN
      BY <3>0, <3>4, Zenon DEF SendFrame
    <3> QED BY <3>1, <3>2, <3>3, <3>4 DEF Next
  <2> QED BY <2>1, <2>4, <2>5, <2>6 DEF TypeOK, ContentsInv, BacklogInv
<1> QED BY <1>1, <1>2, PTL DEF Spec
=============================================================================
