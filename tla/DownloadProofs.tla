--------------------------- MODULE DownloadProofs ---------------------------
(***************************************************************************)
(* Proofs about Download, for every set of files, lists, window, and       *)
(* number of packets under way: its types, and that a file is stored whole *)
(* but for the two things WholeUnlessMixed excepts.                        *)
(***************************************************************************)
EXTENDS Download, FiniteSetTheorems, SequenceTheorems, WellFoundedInduction, TLAPS

(* What may be sent: blocks of a file, commands of the client and what the *)
(* server says in its reliable stream.                                     *)
Frag  == {d \in File \X Nat : d[2] < Blocks[d[1]]}
Block == Frag \cup {<<>>}

Request   == [name : {"nextdl"}, arg : Nat \X Nat]
ClientCmd == [name : {"new"}, arg : {0}] \cup [name : {"list", "prespawn"}, arg : Nat]
               \cup [name : {"download"}, arg : File] \cup [name : {"nextdl"}, arg : {-1} \X Nat]

Word       == {"changing", "reconnect"}
Stuff      == [name : {"stufftext"}, arg : Seq(Word)]
ServerItem == Stuff \cup [name : {"svc_serverdata"}, arg : 1 .. MaxLevel]
                \cup [name : {"svc_list"}, arg : {0}]
                \cup [name : {"svc_download"}, arg : File \cup {None}]

Client ==
  [state : {"ca_connected", "ca_onserver"} \cup Gone, level : 0 .. MaxLevel,
   cbuf : Seq(Word), staged : Seq(ClientCmd), out : Seq(ClientCmd),
   disk : [File -> {"missing", "whole", "broken"}], index : Nat \ {0},
   type : {"dl_none", "dl_list", "dl_single"}, name : File \cup {None},
   method : {"DL_NONE", "DL_QW", "DL_QWCHUNKS"}, open : BOOLEAN,
   content : UNION {[0 .. n - 1 -> Block] : n \in Nat},
   number : Nat, size : Nat, first : Nat, got : [0 .. MAXBLOCKS - 1 -> BOOLEAN],
   cycle : 0 .. MAXBLOCKS - 1, crossed : BOOLEAN]

Server ==
  [download : File \cup {None}, level : 0 .. MaxLevel, spawned : 0 .. MaxLevel, datagram : Block,
   sent : Nat, chunks : SUBSET (Nat \X Frag), send_message : BOOLEAN,
   staged : Seq(ServerItem), out : Seq(ServerItem)]

(* The items of that name after the first k of a sequence.                 *)
At(seq, k, name) == {i \in k + 1 .. Len(seq) : seq[i].name = name}
Lone(S) == \A i, j \in S : i = j

(* Nothing is asked for or listed before the level is known.               *)
Known(c) ==
  c.level = 0 => c.type # "dl_list" /\ At(c.staged, 0, "list") = {} /\ At(c.out, 0, "list") = {}
NotListed(c, items, k) == c.level = 0 => At(items, k, "svc_list") = {}

(* The place of a block in recievedblock.                                  *)
Place(b) == b % MAXBLOCKS

(* The window of blocks stays within the file.                             *)
Window(c) ==
  /\ c.first <= c.size
  /\ \A b \in Nat : c.first <= b /\ b < c.first + MAXBLOCKS /\ c.got[Place(b)] => b < c.size

(* What holds of a client at any time, and what no step takes from it.     *)
Sound(c)    == c \in Client /\ Window(c) /\ Known(c)
Keeps(c, d) == /\ d.out = c.out /\ c.number <= d.number
               /\ d.level = 0 => c.level = 0
               /\ c.crossed => d.crossed

(* What is stored of a file that is under way.                             *)
Stored(c) ==
  c.method = "DL_QWCHUNKS" =>
    /\ c.name \in File /\ c.size = Blocks[c.name]
    /\ c.content \in [0 .. c.size - 1 -> Block]
    /\ ~c.got[Place(c.first)]
    /\ \A b \in 0 .. c.size - 1 :
         b < c.first \/ (b < c.first + MAXBLOCKS /\ c.got[Place(b)]) => c.content[b] = <<c.name, b>>

(* The commands that end a file.                                           *)
Stops(seq, k) == {i \in At(seq, k, "nextdl") : seq[i].arg[1] < 0}

(* The request for a file and its answer are one thing that travels: from  *)
(* the client's staged commands to those sent (r, after the first l), to   *)
(* what the server has staged and has sent (o, after the first k).         *)
Asking(c)    == At(c.staged, 0, "download")
Asked(r, l)  == At(r, l, "download")
Answering(s) == At(s.staged, 0, "svc_download")
Answer(o, k) == At(o, k, "svc_download")

Token(c, s, o, k, r, l) ==
  /\ Lone(Asking(c)) /\ Lone(Asked(r, l)) /\ Lone(Answering(s)) /\ Lone(Answer(o, k))
  /\ Asking(c) # {} => Asked(r, l) = {} /\ Answering(s) = {} /\ Answer(o, k) = {}
  /\ Asked(r, l) # {} => Answering(s) = {} /\ Answer(o, k) = {}
  /\ Answering(s) # {} => Answer(o, k) = {}
  /\ Asking(c) \cup Asked(r, l) \cup Answering(s) \cup Answer(o, k) # {} => c.method = "DL_QW"
  /\ \A i \in Asking(c) : c.staged[i].arg = c.name
  /\ \A i \in Asked(r, l) : r[i].arg = c.name
  /\ \A i \in Answering(s) : s.staged[i].arg # None => s.staged[i].arg = c.name /\ s.download = c.name
  /\ \A i \in Answer(o, k) : o[i].arg # None => o[i].arg = c.name /\ s.download = c.name

(* No end of a file comes after the request for the next, and the server   *)
(* has the file open that the client stores.                               *)
Order(c, s, o, k, r, l) ==
  /\ \A i \in Asking(c) : \A j \in Stops(c.staged, 0) : j < i
  /\ Asked(r, l) # {} => Stops(c.staged, 0) = {}
  /\ \A i \in Asked(r, l) : \A j \in Stops(r, l) : j < i
  /\ Answering(s) \cup Answer(o, k) # {} => Stops(c.staged, 0) = {} /\ Stops(r, l) = {}
  /\ c.method = "DL_QWCHUNKS" =>
       Stops(c.staged, 0) = {} /\ Stops(r, l) = {} /\ s.download = c.name
  /\ c.open <=> c.method = "DL_QWCHUNKS"

(* The file is on its way, and the client can tell: the chunks X in the    *)
(* channel bring no block of another file.                                 *)
Answered(o, k) == \E i \in Answer(o, k) : o[i].arg # None
From(d, f) == d = <<>> \/ d[1] = f
Fresh(c, o, k, X) ==
  c.method = "DL_QWCHUNKS" \/ Answered(o, k) => \A d \in X : From(d, c.name)

(* Nor do the chunks outside the channel that bear its number.             *)
Numbered(c, M) == \A m \in M : m[1] <= c.number
ProperOOB(c, M) == \A m \in M : m[1] = c.number /\ c.method = "DL_QWCHUNKS" => m[2][1] = c.name

Fine(c) == (\A f \in File : c.disk[f] # "broken") /\ c.state # "Host_Error"

(* All of it, while the ends read and write.                               *)
Agreed(c, s, o, k, r, l, X, M) ==
  /\ Token(c, s, o, k, r, l) /\ Order(c, s, o, k, r, l)
  /\ Stored(c) /\ Fine(c) /\ Fresh(c, o, k, X) /\ ProperOOB(c, M)

(* A client that has not asked for anything since, nor stored anything.    *)
SameTalk(c, d) ==
  /\ d.name = c.name /\ d.method = c.method /\ d.open = c.open
  /\ d.number = c.number /\ d.disk = c.disk
  /\ d.state = "Host_Error" => c.state = "Host_Error"
  /\ Stops(d.staged, 0) \subseteq Stops(c.staged, 0)
  /\ Asking(d) \subseteq Asking(c) /\ \A i \in Asking(d) : d.staged[i] = c.staged[i]
Alike(c, d) ==
  /\ SameTalk(c, d)
  /\ d.size = c.size /\ d.content = c.content /\ d.first = c.first /\ d.got = c.got

(* Nothing is asked for, nor is an answer on its way.                      *)
Silent(c, s, o, k, r, l) ==
  Asking(c) = {} /\ Asked(r, l) = {} /\ Answering(s) = {} /\ Answer(o, k) = {}

-----------------------------------------------------------------------------
(* The slot of the client.                                                 *)
Fit(c, s) ==
  s \in Server /\ s.level <= spawncount /\ NotListed(c, s.staged, 0) /\ Numbered(c, s.chunks)

(* The packets under way to the server and to the client.                  *)
UpPacket   == [cmds : Seq(Request), reliable : BOOLEAN]
DownPacket == [datagram : Block, reliable : BOOLEAN]

UpOK(q, c) ==
  /\ q \in Seq(UpPacket) /\ Len(q) <= MaxUnderWay
  /\ \A i \in 1 .. Len(q) : \A j \in 1 .. Len(q[i].cmds) : q[i].cmds[j].arg[2] <= c.number
DownOK(q, s) ==
  /\ q \in Seq(DownPacket) /\ Len(q) <= MaxUnderWay
  /\ s.out = <<>> => \A i \in 1 .. Len(q) : ~q[i].reliable

(* The packets behind the one with the answer bring nothing of another     *)
(* file.                                                                   *)
Ahead(q, c, s) ==
  /\ c.method = "DL_QWCHUNKS" => \A i \in 1 .. Len(q) : From(q[i].datagram, c.name)
  /\ Answered(s.out, 0) =>
       \A i, j \in 1 .. Len(q) : i < j /\ q[i].reliable => From(q[j].datagram, c.name)

(* What holds of every download, and of those that were not mixed up.      *)
Always ==
  /\ Sound(cl) /\ Fit(cl, sv) /\ NotListed(cl, sv.out, 0) /\ sv.chunks = {}
  /\ spawncount \in 1 .. MaxLevel /\ broadcast \in Seq(Stuff)
  /\ UpOK(up, cl) /\ DownOK(down, sv)
  /\ oob \subseteq Nat \X Frag /\ Numbered(cl, oob)

Talk == /\ Agreed(cl, sv, sv.out, 0, cl.out, 0, {sv.datagram}, oob)
        /\ Ahead(down, cl, sv)

DownloadInv == Always /\ (mixed \/ cl.crossed \/ Talk)

-----------------------------------------------------------------------------
(* Induction is had here from the well-founded order of the finite sets by *)
(* inclusion: the least number of a set is that of the smallest interval.  *)
LEMMA Least ==
  ASSUME NEW A \in SUBSET Nat, A # {}
  PROVE  \E n \in A : \A m \in A : n <= m
<1> DEFINE T == {0 .. n : n \in A}
<1>1. T \subseteq FiniteSubsetsOf(Nat) /\ T # {}
  <2>1. \A n \in Nat : IsFiniteSet(0 .. n) /\ 0 .. n \in SUBSET Nat
    BY FS_Interval
  <2> QED BY <2>1 DEF FiniteSubsetsOf
<1>2. PICK S \in T : \A U \in T : <<U, S>> \notin StrictSubsetOrdering(Nat)
  <2> HIDE DEF T
  <2> QED BY <1>1, FS_StrictSubsetOrderingWellFounded, WFMin
<1>3. PICK n \in A : S = 0 .. n
  OBVIOUS
<1>4. ASSUME NEW m \in A PROVE n <= m
  <2>1. SUFFICES ASSUME m < n PROVE FALSE
    OBVIOUS
  <2>2. 0 .. m \in T /\ 0 .. m \in SUBSET Nat /\ 0 .. n \in SUBSET Nat
    OBVIOUS
  <2>3. 0 .. m \subseteq 0 .. n /\ 0 .. m # 0 .. n
    <3>1. n \in 0 .. n /\ n \notin 0 .. m
      BY <2>1
    <3> QED BY <2>1, <3>1
  <2>4. <<0 .. m, 0 .. n>> \in StrictSubsetOrdering(Nat)
    BY <2>2, <2>3 DEF StrictSubsetOrdering
  <2> QED BY <1>2, <1>3, <2>2, <2>4
<1> QED BY <1>4

(* A set with 0 and the successor of each of its numbers has them all.     *)
LEMMA Induction ==
  ASSUME NEW A, 0 \in A, \A n \in Nat : n \in A => n + 1 \in A
  PROVE  Nat \subseteq A
<1> SUFFICES ASSUME Nat \ A # {} PROVE FALSE
  OBVIOUS
<1>1. PICK n \in Nat \ A : \A m \in Nat \ A : n <= m
  BY Least
<1>2. n # 0
  OBVIOUS
<1>3. n - 1 \in Nat /\ n - 1 \in A
  BY <1>1, <1>2
<1> QED BY <1>3

(* No multiple of m is strictly between 0 and m.                           *)
LEMMA NoMultipleBetween ==
  ASSUME NEW m \in Nat, NEW k \in Int, 0 < m * k, m * k < m
  PROVE  FALSE
<1>1. CASE k <= 0
  BY <1>1, m * k <= 0
<1>2. CASE k >= 1
  BY <1>2, m * k >= m
<1> QED BY <1>1, <1>2

(* Division with remainder.                                                *)
LEMMA Division ==
  ASSUME NEW size \in Nat \ {0}, NEW n \in Int
  PROVE  /\ n % size \in 0 .. size - 1 /\ n \div size \in Int
         /\ n = size * (n \div size) + (n % size)
  OBVIOUS

(* Numbers less than the size of the ring apart have places of their own.  *)
LEMMA PlacesApart ==
  ASSUME NEW size \in Nat \ {0}, NEW a \in Int, NEW b \in Int, a < b, b < a + size
  PROVE  a % size # b % size
<1> DEFINE d == b \div size
           c == a \div size
<1> SUFFICES ASSUME a % size = b % size PROVE FALSE
  OBVIOUS
<1>1. /\ a = size * c + (a % size) /\ b = size * d + (b % size)
      /\ c \in Int /\ d \in Int /\ a % size \in Int
  BY Division
<1> HIDE DEF c, d
<1>2. b - a = size * (d - c) /\ d - c \in Int
  BY <1>1
<1> QED BY <1>2, NoMultipleBetween

(* A turn of the ring leads back to the same place.                        *)
LEMMA Turn ==
  ASSUME NEW size \in Nat \ {0}, NEW a \in Int
  PROVE  (a + size) % size = a % size
<1> DEFINE d == a \div size
           e == a % size
           f == (a + size) \div size
           g == (a + size) % size
<1>1. a + size \in Int
  OBVIOUS
<1>2. /\ a = size * d + e /\ a + size = size * f + g
      /\ d \in Int /\ f \in Int /\ e \in 0 .. size - 1 /\ g \in 0 .. size - 1
  BY <1>1, Division
<1> HIDE DEF d, e, f, g
<1>3. g - e = size * (d + 1 - f) /\ e - g = size * (f - d - 1)
  BY <1>2
<1>4. d + 1 - f \in Int /\ f - d - 1 \in Int /\ size \in Nat
  BY <1>2
<1>5. ~(g > e)
  <2>1. ASSUME g > e PROVE FALSE
    <3>1. 0 < size * (d + 1 - f) /\ size * (d + 1 - f) < size
      BY <2>1, <1>2, <1>3
    <3> QED BY <3>1, <1>4, NoMultipleBetween
  <2> QED BY <2>1
<1>6. ~(e > g)
  <2>1. ASSUME e > g PROVE FALSE
    <3>1. 0 < size * (f - d - 1) /\ size * (f - d - 1) < size
      BY <2>1, <1>2, <1>3
    <3> QED BY <3>1, <1>4, NoMultipleBetween
  <2> QED BY <2>1
<1>7. g = e
  BY <1>2, <1>5, <1>6
<1> QED BY <1>7 DEF g, e

(* The places of blocks.                                                   *)
LEMMA PlaceIn == \A b \in Int : Place(b) \in 0 .. MAXBLOCKS - 1
  BY BlocksArePos DEF Place

(* Blocks less than MAXBLOCKS apart have places of their own.              *)
LEMMA PlaceApart ==
  \A a, b \in Int : a < b /\ b < a + MAXBLOCKS => Place(a) # Place(b)
<1> TAKE a, b \in Int
<1> HAVE a < b /\ b < a + MAXBLOCKS
<1>1. a % MAXBLOCKS # b % MAXBLOCKS
  BY BlocksArePos, PlacesApart
<1> QED BY <1>1 DEF Place

(* A block MAXBLOCKS further on has the same place.                        *)
LEMMA PlaceTurn == \A a \in Int : Place(a + MAXBLOCKS) = Place(a)
<1> TAKE a \in Int
<1>1. (a + MAXBLOCKS) % MAXBLOCKS = a % MAXBLOCKS
  BY BlocksArePos, Turn
<1> QED BY <1>1 DEF Place

(* Max and Min of a set of naturals that is bounded.                       *)
LEMMA MinIsLeast ==
  ASSUME NEW A \in SUBSET Nat, A # {}
  PROVE  Min(A) \in A /\ \A m \in A : Min(A) <= m
  BY Least DEF Min

(* Max is the greatest of a set of naturals that is bounded.               *)
LEMMA MaxIsGreatest ==
  ASSUME NEW n \in Nat, NEW A \in SUBSET (0 .. n), A # {}
  PROVE  Max(A) \in A /\ \A m \in A : m <= Max(A)
<1> DEFINE B == {n - m : m \in A}
<1>1. B \in SUBSET Nat /\ B # {}
  <2>1. \A m \in A : n - m \in Nat
    OBVIOUS
  <2> QED BY <2>1
<1>2. PICK b \in B : \A c \in B : b <= c
  BY <1>1, Least
<1>3. PICK m \in A : b = n - m
  OBVIOUS
<1>4. \A x \in A : n - x \in B /\ x \in Int /\ m \in Int
  OBVIOUS
<1>5. \A x \in A : m >= x
  BY <1>2, <1>3, <1>4
<1> QED BY <1>3, <1>5 DEF Max

(* How far the window moves: as far as blocks have come in a row.          *)
LEMMA RunStops ==
  ASSUME NEW got \in [0 .. MAXBLOCKS - 1 -> BOOLEAN], NEW first \in Nat
  PROVE  /\ Run(got, first) \in 0 .. MAXBLOCKS
         /\ \A i \in 0 .. Run(got, first) - 1 : got[Place(first + i)]
         /\ Run(got, first) < MAXBLOCKS => ~got[Place(first + Run(got, first))]
<1> DEFINE A == {n \in 0 .. MAXBLOCKS : \A i \in 0 .. n - 1 : got[Place(first + i)]}
           n == Run(got, first)
<1>1. MAXBLOCKS \in Nat /\ A \in SUBSET (0 .. MAXBLOCKS) /\ 0 \in A
  BY BlocksArePos
<1>2. n = Max(A)
  BY DEF Run, Place
<1>3. n \in A /\ \A m \in A : m <= n
  <2> HIDE DEF A, n
  <2> QED BY <1>1, <1>2, MaxIsGreatest
<1>4. ASSUME n < MAXBLOCKS, got[Place(first + n)] PROVE FALSE
  <2>1. n + 1 \in 0 .. MAXBLOCKS /\ n \in Nat
    BY <1>1, <1>3, <1>4
  <2>2. \A i \in 0 .. (n + 1) - 1 : got[Place(first + i)]
    <3> TAKE i \in 0 .. (n + 1) - 1
    <3>1. i = n \/ i \in 0 .. n - 1
      BY <2>1
    <3>2. \A j \in 0 .. n - 1 : got[Place(first + j)]
      BY <1>3
    <3> HIDE DEF n
    <3> QED BY <1>4, <3>1, <3>2
  <2>3. n + 1 \in A
    BY <2>1, <2>2
  <2> HIDE DEF A, n
  <2> QED BY <1>3, <2>1, <2>3
<1>5. n \in 0 .. MAXBLOCKS /\ \A i \in 0 .. n - 1 : got[Place(first + i)]
  BY <1>3
<1> QED BY <1>4, <1>5

-----------------------------------------------------------------------------
(* A computation of n steps that starts in the first of some sets and whose*)
(* steps lead from each to the next: there is one, and it ends in the last.*)
Leads(F, n, S, G, r) ==
  /\ n \in Nat /\ G \in [0 .. n -> SUBSET S] /\ r \in G[0]
  /\ \A i \in 1 .. n : \A x \in G[i - 1] : F[i][x] \in G[i]

Runs(F, n, S, G, r) ==
  \E g \in [0 .. n -> S] : /\ g[0] = r /\ \A i \in 1 .. n : g[i] = F[i][g[i - 1]]
                           /\ \A i \in 0 .. n : g[i] \in G[i]

(* Such a computation exists, by induction on its steps.                   *)
LEMMA FoldExists ==
  ASSUME NEW F, NEW n, NEW S, NEW G, NEW r, Leads(F, n, S, G, r)
  PROVE  Runs(F, n, S, G, r)
<1> USE DEF Leads
<1> DEFINE Fun(g, k) == /\ g \in [0 .. k -> S] /\ g[0] = r
                        /\ \A i \in 1 .. k : g[i] = F[i][g[i - 1]]
                        /\ \A i \in 0 .. k : g[i] \in G[i]
           A == {k \in Nat : k <= n => \E g : Fun(g, k)}
<1>1. 0 \in A
  <2>1. Fun([i \in 0 .. 0 |-> r], 0)
    OBVIOUS
  <2> QED BY <2>1
<1>2. ASSUME NEW k \in Nat, k \in A PROVE k + 1 \in A
  <2> SUFFICES ASSUME k + 1 <= n PROVE \E g : Fun(g, k + 1)
    OBVIOUS
  <2>1. PICK f : Fun(f, k)
    BY <1>2
  <2> DEFINE v == F[k + 1][f[k]]
             g == [i \in 0 .. k + 1 |-> IF i = k + 1 THEN v ELSE f[i]]
  <2>2. k \in 0 .. k /\ k + 1 \in 1 .. n /\ (k + 1) - 1 = k /\ k + 1 \in 0 .. n
    OBVIOUS
  <2>3. v \in G[k + 1] /\ v \in S
    BY <2>1, <2>2
  <2> HIDE DEF v
  <2>4. /\ g[k + 1] = v /\ g[k] = f[k] /\ \A i \in 0 .. k : g[i] = f[i]
        /\ g \in [0 .. k + 1 -> S]
    BY <2>1, <2>2, <2>3
  <2> HIDE DEF g
  <2>5. \A i \in 1 .. k + 1 : g[i] = F[i][g[i - 1]]
    <3> TAKE i \in 1 .. k + 1
    <3>1. CASE i = k + 1
      BY <2>2, <2>4, <3>1 DEF v
    <3>2. CASE i # k + 1
      <4>1. i \in 1 .. k /\ i \in 0 .. k /\ i - 1 \in 0 .. k
        BY <3>2
      <4> QED BY <2>1, <2>4, <4>1
    <3> QED BY <3>1, <3>2
  <2>6. \A i \in 0 .. k + 1 : g[i] \in G[i]
    <3> TAKE i \in 0 .. k + 1
    <3>1. CASE i = k + 1
      BY <2>3, <2>4, <3>1
    <3>2. CASE i # k + 1
      <4>1. i \in 0 .. k
        BY <3>2
      <4> QED BY <2>1, <2>4, <4>1
    <3> QED BY <3>1, <3>2
  <2>7. g[0] = r
    BY <2>1, <2>4
  <2> QED BY <2>4, <2>5, <2>6, <2>7
<1> HIDE DEF A
<1>3. Nat \subseteq A
  BY <1>1, <1>2, Induction
<1>4. n \in A
  BY <1>3
<1> QED BY <1>4 DEF A, Runs

(* A computation whose steps are those of F, as long as they start in the  *)
(* sets, ends in the last of them.                                         *)
LEMMA FoldEnds ==
  ASSUME NEW F, NEW n, NEW S, NEW G, NEW r, Leads(F, n, S, G, r), NEW f, f[0] = r,
         \A i \in 1 .. n : f[i - 1] \in G[i - 1] => f[i] = F[i][f[i - 1]]
  PROVE  f[n] \in G[n]
<1> USE DEF Leads
<1> DEFINE A == {k \in Nat : k <= n => f[k] \in G[k]}
<1>1. 0 \in A
  OBVIOUS
<1>2. ASSUME NEW k \in Nat, k \in A PROVE k + 1 \in A
  <2> SUFFICES ASSUME k + 1 <= n PROVE f[k + 1] \in G[k + 1]
    OBVIOUS
  <2>1. k + 1 \in 1 .. n /\ (k + 1) - 1 = k /\ f[k] \in G[k]
    BY <1>2
  <2> QED BY <2>1
<1> HIDE DEF A
<1>3. Nat \subseteq A
  BY <1>1, <1>2, Induction
<1> QED BY <1>3 DEF A

(* So end the commands of a packet, those of the message the client reads, *)
(* those it is told in it, and the requests for chunks.                    *)
LEMMA ThroughExecute ==
  ASSUME NEW steps, Len(steps) \in Nat, NEW S, NEW G \in [0 .. Len(steps) -> SUBSET S],
         NEW r \in G[0],
         \A i \in 1 .. Len(steps) : \A x \in G[i - 1] : Execute(x, steps[i]) \in G[i]
  PROVE  Through(Execute, r, steps) \in G[Len(steps)]
<1> DEFINE n == Len(steps)
           Step(x, y) == Execute(x, y)
           Body(f, i) == CHOOSE d \in {Step(x, steps[i]) : x \in {f[i - 1]}} : TRUE
           Fun(f) == f = [i \in 0 .. n |-> IF i = 0 THEN r ELSE Body(f, i)]
           F == [i \in 1 .. n |-> [x \in G[i - 1] |-> Step(x, steps[i])]]
           f == CHOOSE f : Fun(f)
<1>1. Through(Execute, r, steps) = f[n]
  BY DEF Through
<1>2. \A i \in 1 .. n : \A x \in G[i - 1] : Step(x, steps[i]) \in G[i]
  OBVIOUS
<1> HIDE DEF Step
<1>3. \A g, i : Body(g, i) = Step(g[i - 1], steps[i])
  OBVIOUS
<1>4. \A i \in 1 .. n : \A x \in G[i - 1] : F[i][x] = Step(x, steps[i])
  OBVIOUS
<1> HIDE DEF Body, F
<1>5. Leads(F, n, S, G, r)
  BY <1>2, <1>4 DEF Leads
<1>6. Fun(f)
  <2>1. PICK g \in [0 .. n -> S] : /\ g[0] = r /\ \A i \in 1 .. n : g[i] = F[i][g[i - 1]]
                                  /\ \A i \in 0 .. n : g[i] \in G[i]
    <3> HIDE DEF n
    <3> QED BY <1>5, FoldExists DEF Runs
  <2>2. Fun(g)
    <3>1. \A i \in 1 .. n : g[i] = Body(g, i)
      BY <1>3, <1>4, <2>1
    <3> QED BY <2>1, <3>1
  <2> HIDE DEF Fun
  <2> QED BY <2>2
<1> HIDE DEF f
<1>7. f[0] = r /\ \A i \in 1 .. n : f[i - 1] \in G[i - 1] => f[i] = F[i][f[i - 1]]
  <2>1. f[0] = r /\ \A i \in 1 .. n : f[i] = Body(f, i)
    BY <1>6
  <2> HIDE DEF Fun
  <2>2. \A i \in 1 .. n : f[i] = Step(f[i - 1], steps[i])
    BY <1>3, <2>1
  <2> QED BY <1>4, <2>1, <2>2
<1> HIDE DEF n, Fun
<1>8. f[n] \in G[n]
  BY <1>5, <1>7, FoldEnds
<1> QED BY <1>1, <1>8 DEF n

(* The items of a packet, parsed one after the other.                      *)
LEMMA ThroughParse ==
  ASSUME NEW steps, Len(steps) \in Nat, NEW S, NEW G \in [0 .. Len(steps) -> SUBSET S],
         NEW r \in G[0],
         \A i \in 1 .. Len(steps) : \A x \in G[i - 1] : Parse(x, steps[i]) \in G[i]
  PROVE  Through(Parse, r, steps) \in G[Len(steps)]
<1> DEFINE n == Len(steps)
           Step(x, y) == Parse(x, y)
           Body(f, i) == CHOOSE d \in {Step(x, steps[i]) : x \in {f[i - 1]}} : TRUE
           Fun(f) == f = [i \in 0 .. n |-> IF i = 0 THEN r ELSE Body(f, i)]
           F == [i \in 1 .. n |-> [x \in G[i - 1] |-> Step(x, steps[i])]]
           f == CHOOSE f : Fun(f)
<1>1. Through(Parse, r, steps) = f[n]
  BY DEF Through
<1>2. \A i \in 1 .. n : \A x \in G[i - 1] : Step(x, steps[i]) \in G[i]
  OBVIOUS
<1> HIDE DEF Step
<1>3. \A g, i : Body(g, i) = Step(g[i - 1], steps[i])
  OBVIOUS
<1>4. \A i \in 1 .. n : \A x \in G[i - 1] : F[i][x] = Step(x, steps[i])
  OBVIOUS
<1> HIDE DEF Body, F
<1>5. Leads(F, n, S, G, r)
  BY <1>2, <1>4 DEF Leads
<1>6. Fun(f)
  <2>1. PICK g \in [0 .. n -> S] : /\ g[0] = r /\ \A i \in 1 .. n : g[i] = F[i][g[i - 1]]
                                  /\ \A i \in 0 .. n : g[i] \in G[i]
    <3> HIDE DEF n
    <3> QED BY <1>5, FoldExists DEF Runs
  <2>2. Fun(g)
    <3>1. \A i \in 1 .. n : g[i] = Body(g, i)
      BY <1>3, <1>4, <2>1
    <3> QED BY <2>1, <3>1
  <2> HIDE DEF Fun
  <2> QED BY <2>2
<1> HIDE DEF f
<1>7. f[0] = r /\ \A i \in 1 .. n : f[i - 1] \in G[i - 1] => f[i] = F[i][f[i - 1]]
  <2>1. f[0] = r /\ \A i \in 1 .. n : f[i] = Body(f, i)
    BY <1>6
  <2> HIDE DEF Fun
  <2>2. \A i \in 1 .. n : f[i] = Step(f[i - 1], steps[i])
    BY <1>3, <2>1
  <2> QED BY <1>4, <2>1, <2>2
<1> HIDE DEF n, Fun
<1>8. f[n] \in G[n]
  BY <1>5, <1>7, FoldEnds
<1> QED BY <1>1, <1>8 DEF n

(* The words of cbuf_svc, executed one after the other.                    *)
LEMMA ThroughCbuf ==
  ASSUME NEW steps, Len(steps) \in Nat, NEW S, NEW G \in [0 .. Len(steps) -> SUBSET S],
         NEW r \in G[0],
         \A i \in 1 .. Len(steps) : \A x \in G[i - 1] : (IF x.state \in Gone THEN x
                 ELSE IF steps[i] = "changing" THEN Changing(x) ELSE Reconnect(x)) \in G[i]
  PROVE  Through(LAMBDA d, s : IF d.state \in Gone THEN d
                     ELSE IF s = "changing" THEN Changing(d) ELSE Reconnect(d), r, steps) \in G[Len(steps)]
<1> DEFINE n == Len(steps)
           Step(x, y) == (IF x.state \in Gone THEN x
                 ELSE IF y = "changing" THEN Changing(x) ELSE Reconnect(x))
           Body(f, i) == CHOOSE d \in {Step(x, steps[i]) : x \in {f[i - 1]}} : TRUE
           Fun(f) == f = [i \in 0 .. n |-> IF i = 0 THEN r ELSE Body(f, i)]
           F == [i \in 1 .. n |-> [x \in G[i - 1] |-> Step(x, steps[i])]]
           f == CHOOSE f : Fun(f)
<1>1. Through(LAMBDA d, s : IF d.state \in Gone THEN d
                     ELSE IF s = "changing" THEN Changing(d) ELSE Reconnect(d), r, steps) = f[n]
  BY DEF Through
<1>2. \A i \in 1 .. n : \A x \in G[i - 1] : Step(x, steps[i]) \in G[i]
  OBVIOUS
<1> HIDE DEF Step
<1>3. \A g, i : Body(g, i) = Step(g[i - 1], steps[i])
  OBVIOUS
<1>4. \A i \in 1 .. n : \A x \in G[i - 1] : F[i][x] = Step(x, steps[i])
  OBVIOUS
<1> HIDE DEF Body, F
<1>5. Leads(F, n, S, G, r)
  BY <1>2, <1>4 DEF Leads
<1>6. Fun(f)
  <2>1. PICK g \in [0 .. n -> S] : /\ g[0] = r /\ \A i \in 1 .. n : g[i] = F[i][g[i - 1]]
                                  /\ \A i \in 0 .. n : g[i] \in G[i]
    <3> HIDE DEF n
    <3> QED BY <1>5, FoldExists DEF Runs
  <2>2. Fun(g)
    <3>1. \A i \in 1 .. n : g[i] = Body(g, i)
      BY <1>3, <1>4, <2>1
    <3> QED BY <2>1, <3>1
  <2> HIDE DEF Fun
  <2> QED BY <2>2
<1> HIDE DEF f
<1>7. f[0] = r /\ \A i \in 1 .. n : f[i - 1] \in G[i - 1] => f[i] = F[i][f[i - 1]]
  <2>1. f[0] = r /\ \A i \in 1 .. n : f[i] = Body(f, i)
    BY <1>6
  <2> HIDE DEF Fun
  <2>2. \A i \in 1 .. n : f[i] = Step(f[i - 1], steps[i])
    BY <1>3, <2>1
  <2> QED BY <1>4, <2>1, <2>2
<1> HIDE DEF n, Fun
<1>8. f[n] \in G[n]
  BY <1>5, <1>7, FoldEnds
<1> QED BY <1>1, <1>8 DEF n

(* The rounds of the loop in CL_SendChunkDownloadReq.                      *)
LEMMA ThroughRequests ==
  ASSUME NEW steps, Len(steps) \in Nat, NEW S, NEW G \in [0 .. Len(steps) -> SUBSET S],
         NEW r \in G[0],
         \A i \in 1 .. Len(steps) : \A x \in G[i - 1] : RequestChunk(x) \in G[i]
  PROVE  Through(LAMBDA x, i : RequestChunk(x), r, steps) \in G[Len(steps)]
<1> DEFINE n == Len(steps)
           Step(x, y) == RequestChunk(x)
           Body(f, i) == CHOOSE d \in {Step(x, steps[i]) : x \in {f[i - 1]}} : TRUE
           Fun(f) == f = [i \in 0 .. n |-> IF i = 0 THEN r ELSE Body(f, i)]
           F == [i \in 1 .. n |-> [x \in G[i - 1] |-> Step(x, steps[i])]]
           f == CHOOSE f : Fun(f)
<1>1. Through(LAMBDA x, i : RequestChunk(x), r, steps) = f[n]
  BY DEF Through
<1>2. \A i \in 1 .. n : \A x \in G[i - 1] : Step(x, steps[i]) \in G[i]
  OBVIOUS
<1> HIDE DEF Step
<1>3. \A g, i : Body(g, i) = Step(g[i - 1], steps[i])
  OBVIOUS
<1>4. \A i \in 1 .. n : \A x \in G[i - 1] : F[i][x] = Step(x, steps[i])
  OBVIOUS
<1> HIDE DEF Body, F
<1>5. Leads(F, n, S, G, r)
  BY <1>2, <1>4 DEF Leads
<1>6. Fun(f)
  <2>1. PICK g \in [0 .. n -> S] : /\ g[0] = r /\ \A i \in 1 .. n : g[i] = F[i][g[i - 1]]
                                  /\ \A i \in 0 .. n : g[i] \in G[i]
    <3> HIDE DEF n
    <3> QED BY <1>5, FoldExists DEF Runs
  <2>2. Fun(g)
    <3>1. \A i \in 1 .. n : g[i] = Body(g, i)
      BY <1>3, <1>4, <2>1
    <3> QED BY <2>1, <3>1
  <2> HIDE DEF Fun
  <2> QED BY <2>2
<1> HIDE DEF f
<1>7. f[0] = r /\ \A i \in 1 .. n : f[i - 1] \in G[i - 1] => f[i] = F[i][f[i - 1]]
  <2>1. f[0] = r /\ \A i \in 1 .. n : f[i] = Body(f, i)
    BY <1>6
  <2> HIDE DEF Fun
  <2>2. \A i \in 1 .. n : f[i] = Step(f[i - 1], steps[i])
    BY <1>3, <2>1
  <2> QED BY <1>4, <2>1, <2>2
<1> HIDE DEF n, Fun
<1>8. f[n] \in G[n]
  BY <1>5, <1>7, FoldEnds
<1> QED BY <1>1, <1>8 DEF n

-----------------------------------------------------------------------------
(* Sequences of items, and where in them those of a name are.              *)
LEMMA AppendItem ==
  ASSUME NEW T, NEW s \in Seq(T), NEW x \in T
  PROVE  /\ Append(s, x) \in Seq(T) /\ Len(Append(s, x)) = Len(s) + 1 /\ Len(s) \in Nat
         /\ \A i \in 1 .. Len(s) : Append(s, x)[i] = s[i]
         /\ Append(s, x)[Len(s) + 1] = x
  BY AppendProperties, LenProperties

(* An item more.                                                           *)
LEMMA AtAppend ==
  ASSUME NEW T, NEW s \in Seq(T), NEW x \in T, NEW name
  PROVE  At(Append(s, x), 0, name) =
           IF x.name = name THEN At(s, 0, name) \cup {Len(s) + 1} ELSE At(s, 0, name)
<1>1. /\ Len(Append(s, x)) = Len(s) + 1 /\ Len(s) \in Nat
      /\ \A i \in 1 .. Len(s) : Append(s, x)[i] = s[i]
      /\ Append(s, x)[Len(s) + 1] = x
  BY AppendItem
<1>2. 1 .. Len(s) + 1 = (1 .. Len(s)) \cup {Len(s) + 1}
  BY <1>1
<1> QED BY <1>1, <1>2 DEF At

(* An end of a file more.                                                  *)
LEMMA StopsAppend ==
  ASSUME NEW T, NEW s \in Seq(T), NEW x \in T
  PROVE  Stops(Append(s, x), 0) =
           IF x.name = "nextdl" /\ x.arg[1] < 0 THEN Stops(s, 0) \cup {Len(s) + 1} ELSE Stops(s, 0)
<1>1. /\ Len(Append(s, x)) = Len(s) + 1 /\ Len(s) \in Nat
      /\ \A i \in 1 .. Len(s) : Append(s, x)[i] = s[i]
      /\ Append(s, x)[Len(s) + 1] = x
  BY AppendItem
<1>2. At(s, 0, "nextdl") \subseteq 1 .. Len(s)
  BY DEF At
<1>3. CASE x.name = "nextdl"
  <2>1. At(Append(s, x), 0, "nextdl") = At(s, 0, "nextdl") \cup {Len(s) + 1}
    BY <1>3, AtAppend
  <2> QED BY <1>1, <1>2, <1>3, <2>1 DEF Stops
<1>4. CASE x.name # "nextdl"
  <2>1. At(Append(s, x), 0, "nextdl") = At(s, 0, "nextdl")
    BY <1>4, AtAppend
  <2> QED BY <1>1, <1>2, <1>4, <2>1 DEF Stops
<1> QED BY <1>3, <1>4

(* Nothing is in an empty sequence, nor behind the end of one.             *)
LEMMA AtEnd ==
  ASSUME NEW s, Len(s) \in Nat, NEW k \in Nat, k >= Len(s), NEW name
  PROVE  At(s, k, name) = {} /\ Stops(s, k) = {}
  BY DEF At, Stops

(* One item on.                                                            *)
LEMMA AtNext ==
  ASSUME NEW s, Len(s) \in Nat, NEW k \in 1 .. Len(s), NEW name
  PROVE  /\ At(s, k - 1, name) = IF s[k].name = name THEN At(s, k, name) \cup {k} ELSE At(s, k, name)
         /\ At(s, k, name) \subseteq At(s, k - 1, name) /\ Stops(s, k) \subseteq Stops(s, k - 1)
         /\ k \notin At(s, k, name) /\ \A i \in At(s, k, name) : i > k
<1>1. (k - 1) + 1 .. Len(s) = (k + 1 .. Len(s)) \cup {k}
  OBVIOUS
<1> QED BY <1>1 DEF At, Stops

-----------------------------------------------------------------------------
(* What the client does keeps it sound.                                    *)
LEMMA StageSound ==
  ASSUME NEW c, Sound(c), NEW cmd \in ClientCmd, cmd.name # "list"
  PROVE  /\ Sound(Stage(c, cmd)) /\ Keeps(c, Stage(c, cmd))
         /\ Stage(c, cmd) = [c EXCEPT !.staged = Append(c.staged, cmd)]
<1> DEFINE s == Append(c.staged, cmd)
<1>1. s \in Seq(ClientCmd) /\ c.staged \in Seq(ClientCmd) /\ c \in Client
  BY AppendItem DEF Client, Sound
<1>2. At(s, 0, "list") = At(c.staged, 0, "list")
  BY <1>1, AtAppend
<1>3. Stage(c, cmd) = [c EXCEPT !.staged = s]
  BY DEF Stage
<1> HIDE DEF s
<1>4. [c EXCEPT !.staged = s] \in Client
  BY <1>1 DEF Client
<1>5. Window([c EXCEPT !.staged = s])
  BY <1>1 DEF Window, Sound, Client
<1>6. Known([c EXCEPT !.staged = s]) /\ Keeps(c, [c EXCEPT !.staged = s])
  BY <1>1, <1>2 DEF Known, Sound, Client, Keeps
<1> QED BY <1>3, <1>4, <1>5, <1>6 DEF Sound, s

(* A client that differs in what the window does not depend on.            *)
LEMMA StillSound ==
  ASSUME NEW c, Sound(c), NEW d \in Client, d.first = c.first, d.size = c.size, d.got = c.got,
         d.staged = c.staged, d.out = c.out, d.number = c.number, c.crossed => d.crossed,
         d.level = c.level, d.type = c.type
  PROVE  Sound(d) /\ Keeps(c, d)
<1>1. Window(d)
  BY DEF Window, Sound
<1>2. Known(d)
  BY DEF Known, Sound
<1>3. Keeps(c, d)
  BY DEF Keeps, Sound, Client
<1> QED BY <1>1, <1>2, <1>3 DEF Sound

(* Keeping is transitive.                                                  *)
LEMMA KeepsOn ==
  ASSUME NEW b, NEW c, NEW d, b \in Client, c \in Client, d \in Client, Keeps(b, c), Keeps(c, d)
  PROVE  Keeps(b, d)
<1>1. b.number \in Nat /\ c.number \in Nat /\ d.number \in Nat
  BY DEF Client
<1> QED BY <1>1 DEF Keeps

(* Keeping is reflexive.                                                   *)
LEMMA KeepsSelf ==
  ASSUME NEW c \in Client
  PROVE  Keeps(c, c)
  BY DEF Keeps, Client

(* CL_CheckOrDownloadFile.                                                 *)
LEMMA AskSound ==
  ASSUME NEW c, Sound(c), NEW f \in File
  PROVE  Sound(Ask(c, f)) /\ Keeps(c, Ask(c, f))
<1> DEFINE d == [c EXCEPT !.name = f, !.method = "DL_QW", !.crossed = @ \/ c.method # "DL_NONE"]
           cmd == Cmd("download", f)
<1>1. c \in Client /\ d \in Client
  BY DEF Client, Sound
<1>2. Sound(d) /\ Keeps(c, d)
  <2>1. /\ d.first = c.first /\ d.size = c.size /\ d.got = c.got
        /\ d.staged = c.staged /\ d.out = c.out /\ d.number = c.number /\ (c.crossed => d.crossed)
        /\ d.level = c.level /\ d.type = c.type
    BY <1>1 DEF Client
  <2> HIDE DEF d
  <2> QED BY <1>1, <2>1, StillSound
<1>3. cmd \in ClientCmd /\ cmd.name # "list"
  BY DEF Cmd, ClientCmd
<1>4. Ask(c, f) = Stage(d, cmd)
  BY DEF Ask
<1> HIDE DEF d, cmd
<1>5. Sound(Stage(d, cmd)) /\ Keeps(d, Stage(d, cmd))
  BY <1>2, <1>3, StageSound
<1>6. Stage(d, cmd) \in Client
  BY <1>5 DEF Sound
<1> QED BY <1>1, <1>2, <1>4, <1>5, <1>6, KeepsOn

(* A file of the list of the level that is not there is asked for.         *)
LEMMA LackingFiles ==
  ASSUME NEW c \in Client, c.level # 0
  PROVE  /\ Len(Needs[c.level]) + 1 \in Nat \ {0}
         /\ Lacking(c) # {} => /\ Min(Lacking(c)) + 1 \in Nat \ {0}
                               /\ Needs[c.level][Min(Lacking(c))] \in File
<1>1. c.level \in 1 .. MaxLevel /\ c.index \in Nat \ {0}
  BY DEF Client
<1>2. Needs[c.level] \in Seq(File)
  BY <1>1, NeedsAreFiles
<1>3. Len(Needs[c.level]) \in Nat /\ \A i \in 1 .. Len(Needs[c.level]) : Needs[c.level][i] \in File
  BY <1>2, LenProperties
<1>4. Lacking(c) \in SUBSET Nat /\ Lacking(c) \subseteq 1 .. Len(Needs[c.level])
  BY <1>1, <1>3 DEF Lacking
<1>5. Lacking(c) # {} => Min(Lacking(c)) \in Lacking(c)
  BY <1>4, MinIsLeast
<1> QED BY <1>3, <1>4, <1>5

(* CL_CheckOrDownloadFile, for one list or the other, up to the request or *)
(* the end of the lists.                                                   *)
LEMMA NextDownloadSound ==
  ASSUME NEW c, Sound(c), c.level # 0
  PROVE  Sound(NextDownload(c)) /\ Keeps(c, NextDownload(c))
<1>1. c \in Client
  BY DEF Sound
<1>2. ASSUME NEW n \in Nat \ {0}
      PROVE  Sound([c EXCEPT !.index = n]) /\ Keeps(c, [c EXCEPT !.index = n])
  <2> DEFINE d == [c EXCEPT !.index = n]
  <2>1. /\ d \in Client /\ d.first = c.first /\ d.size = c.size /\ d.got = c.got
        /\ d.staged = c.staged /\ d.out = c.out /\ d.number = c.number /\ (c.crossed => d.crossed)
        /\ d.level = c.level /\ d.type = c.type
    BY <1>1 DEF Client
  <2> HIDE DEF d
  <2>2. Sound(d) /\ Keeps(c, d)
    BY <2>1, StillSound
  <2> QED BY <2>2 DEF d
<1>3. CASE Lacking(c) = {}
  <2> DEFINE n == Len(Needs[c.level]) + 1
             d == [c EXCEPT !.index = n]
             cmd == Cmd("prespawn", c.level)
  <2>1. n \in Nat \ {0}
    BY <1>1, LackingFiles
  <2> HIDE DEF n
  <2>2. Sound(d) /\ Keeps(c, d)
    BY <1>2, <2>1
  <2>3. cmd \in ClientCmd /\ cmd.name # "list"
    BY <1>1 DEF Cmd, ClientCmd, Client
  <2>4. NextDownload(c) = Stage(d, cmd)
    BY <1>3 DEF NextDownload, n
  <2> HIDE DEF d, cmd
  <2>5. Sound(Stage(d, cmd)) /\ Keeps(d, Stage(d, cmd))
    BY <2>2, <2>3, StageSound
  <2>6. Keeps(c, Stage(d, cmd))
    BY <1>1, <2>2, <2>5, KeepsOn DEF Sound
  <2> QED BY <2>4, <2>5, <2>6
<1>4. CASE Lacking(c) # {}
  <2> DEFINE n == Min(Lacking(c)) + 1
             d == [c EXCEPT !.index = n]
             f == Needs[c.level][Min(Lacking(c))]
  <2>1. n \in Nat \ {0} /\ f \in File
    BY <1>1, <1>4, LackingFiles
  <2>2. NextDownload(c) = Ask(d, f)
    BY <1>4 DEF NextDownload
  <2> HIDE DEF n, f
  <2>3. Sound(d) /\ Keeps(c, d)
    BY <1>2, <2>1
  <2> HIDE DEF d
  <2>4. Sound(Ask(d, f)) /\ Keeps(d, Ask(d, f))
    BY <2>1, <2>3, AskSound
  <2>5. Keeps(c, Ask(d, f))
    BY <1>1, <2>3, <2>4, KeepsOn DEF Sound
  <2> QED BY <2>2, <2>4, <2>5
<1> QED BY <1>3, <1>4

(* CL_FinishDownload, the file closed.                                     *)
Closed(c, rename) ==
  [c EXCEPT !.open = FALSE, !.method = "DL_NONE",
            !.disk[c.name] = IF rename THEN IF Whole(c) THEN "whole" ELSE "broken" ELSE @]

(* A client that has closed a file is sound, and has kept the rest.        *)
LEMMA ClosedSound ==
  ASSUME NEW c, Sound(c), NEW rename \in BOOLEAN
  PROVE  /\ Sound(Closed(c, rename)) /\ Keeps(c, Closed(c, rename))
         /\ Closed(c, rename).type = c.type /\ Closed(c, rename).level = c.level
<1> DEFINE d == Closed(c, rename)
<1>1. c \in Client
  BY DEF Sound
<1>2. /\ d \in Client /\ d.first = c.first /\ d.size = c.size /\ d.got = c.got
      /\ d.staged = c.staged /\ d.out = c.out /\ d.number = c.number /\ (c.crossed => d.crossed)
      /\ d.level = c.level /\ d.type = c.type
  <2> DEFINE w == IF rename THEN IF Whole(c) THEN "whole" ELSE "broken" ELSE c.disk[c.name]
             disk == [c.disk EXCEPT ![c.name] = w]
  <2>1. disk \in [File -> {"missing", "whole", "broken"}]
    BY <1>1 DEF Client
  <2>2. d = [c EXCEPT !.open = FALSE, !.method = "DL_NONE", !.disk = disk]
    BY <1>1 DEF Closed, Client
  <2> HIDE DEF disk, w, d
  <2> QED BY <1>1, <2>1, <2>2 DEF Client
<1> HIDE DEF d
<1>3. Sound(d) /\ Keeps(c, d)
  BY <1>2, StillSound
<1> QED BY <1>2, <1>3 DEF d

(* CL_FinishDownload, and the request for the next file of the lists.      *)
LEMMA FinishDownloadSound ==
  ASSUME NEW c, Sound(c), NEW rename \in BOOLEAN
  PROVE  Sound(FinishDownload(c, rename)) /\ Keeps(c, FinishDownload(c, rename))
<1> DEFINE d == Closed(c, rename)
<1>1. /\ Sound(d) /\ Keeps(c, d) /\ d.type = c.type /\ d.level = c.level
      /\ c \in Client
  BY ClosedSound DEF Sound
<1>2. FinishDownload(c, rename) = IF d.type = "dl_list" THEN NextDownload(d) ELSE d
  BY DEF FinishDownload, Closed
<1> HIDE DEF d
<1>3. CASE d.type = "dl_list"
  <2>1. d.level # 0
    BY <1>1, <1>3 DEF Sound, Known
  <2>2. Sound(NextDownload(d)) /\ Keeps(d, NextDownload(d))
    BY <1>1, <2>1, NextDownloadSound
  <2>3. Keeps(c, NextDownload(d))
    BY <1>1, <2>2, KeepsOn DEF Sound
  <2> QED BY <1>2, <1>3, <2>2, <2>3
<1>4. CASE d.type # "dl_list"
  BY <1>1, <1>2, <1>4
<1> QED BY <1>3, <1>4

(* "changing" and "reconnect".                                             *)
LEMMA ReconnectSound ==
  ASSUME NEW c, Sound(c)
  PROVE  /\ Sound(Changing(c)) /\ Keeps(c, Changing(c))
         /\ Sound(Reconnect(c)) /\ Keeps(c, Reconnect(c))
<1>1. c \in Client /\ Keeps(c, c)
  BY KeepsSelf DEF Sound
<1>2. ASSUME NEW s \in {"ca_connected", "reconnecting"}
      PROVE  Sound([c EXCEPT !.state = s]) /\ Keeps(c, [c EXCEPT !.state = s])
  <2> DEFINE d == [c EXCEPT !.state = s]
  <2>1. /\ d \in Client /\ d.first = c.first /\ d.size = c.size /\ d.got = c.got
        /\ d.staged = c.staged /\ d.out = c.out /\ d.number = c.number /\ (c.crossed => d.crossed)
        /\ d.level = c.level /\ d.type = c.type
    BY <1>1 DEF Client, Gone
  <2> HIDE DEF d
  <2>2. Sound(d) /\ Keeps(c, d)
    BY <2>1, StillSound
  <2> QED BY <2>2 DEF d
<1>3. Sound(Changing(c)) /\ Keeps(c, Changing(c))
  BY <1>1, <1>2 DEF Changing
<1>4. Cmd("new", 0) \in ClientCmd /\ Cmd("new", 0).name # "list"
  BY DEF Cmd, ClientCmd
<1>5. Sound(Stage(c, Cmd("new", 0))) /\ Keeps(c, Stage(c, Cmd("new", 0)))
  BY <1>4, StageSound
<1>6. Sound(Reconnect(c)) /\ Keeps(c, Reconnect(c))
  <2>1. CASE c.open
    BY <1>1, <2>1 DEF Reconnect
  <2>2. CASE ~c.open /\ c.state = "ca_connected"
    BY <1>5, <2>2 DEF Reconnect
  <2>3. CASE ~c.open /\ c.state # "ca_connected"
    BY <1>2, <2>3 DEF Reconnect
  <2> QED BY <2>1, <2>2, <2>3
<1> QED BY <1>3, <1>6

(* A client that is alike has agreed with the server to the same.          *)
LEMMA SameTalkAgreed ==
  ASSUME NEW c, NEW d, SameTalk(c, d), Stored(d), NEW s, NEW o, NEW k, NEW r, NEW l, NEW X, NEW M,
         Agreed(c, s, o, k, r, l, X, M)
  PROVE  Agreed(d, s, o, k, r, l, X, M)
<1>1. Token(d, s, o, k, r, l)
  BY DEF Agreed, Token, SameTalk, Lone
<1>2. Order(d, s, o, k, r, l)
  BY DEF Agreed, Order, SameTalk
<1>3. Fine(d) /\ Fresh(d, o, k, X) /\ ProperOOB(d, M)
  BY DEF Agreed, Fine, Fresh, ProperOOB, SameTalk
<1> QED BY <1>1, <1>2, <1>3 DEF Agreed

(* What a client agrees on with the server, one that is alike does too.    *)
LEMMA AlikeAgreed ==
  ASSUME NEW c, NEW d, Alike(c, d), NEW s, NEW o, NEW k, NEW r, NEW l, NEW X, NEW M,
         Agreed(c, s, o, k, r, l, X, M)
  PROVE  Agreed(d, s, o, k, r, l, X, M)
<1>1. Stored(d)
  BY DEF Agreed, Stored, Alike, SameTalk
<1> QED BY <1>1, SameTalkAgreed DEF Alike

(* Being alike is transitive.                                              *)
LEMMA AlikeOn ==
  ASSUME NEW b, NEW c, NEW d, Alike(b, c), Alike(c, d)
  PROVE  Alike(b, d)
  BY DEF Alike, SameTalk

(* A command that neither asks for a file nor ends one.                    *)
LEMMA StageAlike ==
  ASSUME NEW c \in Client, NEW cmd \in ClientCmd, cmd.name \notin {"download", "nextdl"}
  PROVE  Alike(c, Stage(c, cmd))
<1> DEFINE s == Append(c.staged, cmd)
           d == [c EXCEPT !.staged = s]
<1>1. c.staged \in Seq(ClientCmd)
  BY DEF Client
<1>2. /\ Stops(s, 0) = Stops(c.staged, 0) /\ At(s, 0, "download") = At(c.staged, 0, "download")
      /\ \A i \in At(c.staged, 0, "download") : s[i] = c.staged[i]
  <2>1. \A i \in 1 .. Len(c.staged) : s[i] = c.staged[i]
    BY <1>1, AppendItem
  <2>2. At(c.staged, 0, "download") \subseteq 1 .. Len(c.staged)
    BY DEF At
  <2> QED BY <1>1, <2>1, <2>2, AtAppend, StopsAppend
<1>3. Stage(c, cmd) = d
  BY DEF Stage
<1> HIDE DEF s
<1>4. Alike(c, d)
  BY <1>2 DEF Alike, SameTalk, Asking, Client
<1> QED BY <1>3, <1>4

(* Both words leave the download alone.                                    *)
LEMMA ReconnectAlike ==
  ASSUME NEW c \in Client
  PROVE  Alike(c, Changing(c)) /\ Alike(c, Reconnect(c))
<1>1. Alike(c, c)
  BY DEF Alike, SameTalk
<1>2. ASSUME NEW s, s # "Host_Error"
      PROVE  Alike(c, [c EXCEPT !.state = s])
  BY <1>2 DEF Alike, SameTalk, Asking, Client
<1>3. Alike(c, Changing(c))
  BY <1>1, <1>2 DEF Changing
<1>4. Cmd("new", 0) \in ClientCmd /\ Cmd("new", 0).name \notin {"download", "nextdl"}
  BY DEF Cmd, ClientCmd
<1>5. Alike(c, Stage(c, Cmd("new", 0)))
  BY <1>4, StageAlike
<1>6. Alike(c, Reconnect(c))
  <2>1. CASE c.open
    BY <1>1, <2>1 DEF Reconnect
  <2>2. CASE ~c.open /\ c.state = "ca_connected"
    BY <1>5, <2>2 DEF Reconnect
  <2>3. CASE ~c.open /\ c.state # "ca_connected"
    BY <1>2, <2>3 DEF Reconnect
  <2> QED BY <2>1, <2>2, <2>3
<1> QED BY <1>3, <1>6

(* cbuf_svc.                                                               *)
LEMMA ExecuteCbufSound ==
  ASSUME NEW c, Sound(c)
  PROVE  Sound(ExecuteCbuf(c)) /\ Keeps(c, ExecuteCbuf(c)) /\ Alike(c, ExecuteCbuf(c))
<1> DEFINE S == {d \in Client : Sound(d) /\ Keeps(c, d) /\ Alike(c, d)}
           n == Len(c.cbuf)
           G == [i \in 0 .. n |-> S]
           b == [c EXCEPT !.cbuf = <<>>]
<1>1. c \in Client /\ n \in Nat
  BY LenProperties DEF Sound, Client
<1>2. b \in S
  <2>1. /\ b \in Client /\ b.first = c.first /\ b.size = c.size /\ b.got = c.got
        /\ b.staged = c.staged /\ b.out = c.out /\ b.number = c.number /\ (c.crossed => b.crossed)
        /\ b.level = c.level /\ b.type = c.type
    <3>1. <<>> \in Seq(Word)
      OBVIOUS
    <3> QED BY <1>1, <3>1 DEF Client
  <2>2. Alike(c, b)
    BY <1>1 DEF Alike, SameTalk, Asking, Client
  <2> HIDE DEF b
  <2>3. Sound(b) /\ Keeps(c, b)
    BY <2>1, StillSound
  <2> QED BY <2>1, <2>2, <2>3
<1>3. \A i \in 1 .. n : \A x \in G[i - 1] :
        (IF x.state \in Gone THEN x ELSE IF c.cbuf[i] = "changing" THEN Changing(x) ELSE Reconnect(x))
          \in G[i]
  <2> TAKE i \in 1 .. n
  <2>1. i - 1 \in 0 .. n /\ i \in 0 .. n
    BY <1>1
  <2> TAKE x \in G[i - 1]
  <2>2. x \in Client /\ Sound(x) /\ Keeps(c, x) /\ Alike(c, x)
    BY <2>1
  <2>3. ASSUME NEW d, Sound(d), Keeps(x, d), Alike(x, d) PROVE d \in S
    <3>1. d \in Client
      BY <2>3 DEF Sound
    <3>2. Keeps(c, d)
      BY <1>1, <2>2, <2>3, <3>1, KeepsOn
    <3>3. Alike(c, d)
      BY <2>2, <2>3, AlikeOn
    <3> QED BY <2>3, <3>1, <3>2, <3>3
  <2>4. Changing(x) \in S /\ Reconnect(x) \in S
    BY <2>2, <2>3, ReconnectSound, ReconnectAlike
  <2>5. x \in S /\ G[i] = S
    BY <2>1
  <2> QED BY <2>4, <2>5
<1>4. G \in [0 .. n -> SUBSET S] /\ b \in G[0] /\ G[n] = S
  BY <1>1, <1>2
<1> HIDE DEF G, S, b
<1>5. Through(LAMBDA d, s : IF d.state \in Gone THEN d
                     ELSE IF s = "changing" THEN Changing(d) ELSE Reconnect(d), b, c.cbuf) \in G[n]
  BY <1>1, <1>3, <1>4, ThroughCbuf
<1>6. ExecuteCbuf(c) \in S
  BY <1>4, <1>5 DEF ExecuteCbuf, b
<1> QED BY <1>6 DEF S

-----------------------------------------------------------------------------
(* svc_serverdata.                                                         *)
LEMMA ParseServerDataSound ==
  ASSUME NEW c, Sound(c), NEW level \in 1 .. MaxLevel
  PROVE  Sound(ParseServerData(c, level)) /\ Keeps(c, ParseServerData(c, level))
<1> DEFINE d == ExecuteCbuf(c)
           cmd == Cmd("list", level)
           staged == <<cmd>>
           e == [d EXCEPT !.staged = staged, !.level = level, !.state = "ca_onserver"]
<1>1. Sound(d) /\ Keeps(c, d) /\ d \in Client /\ c \in Client
  BY ExecuteCbufSound DEF Sound
<1>2. ParseServerData(c, level) = IF d.state \in Gone THEN d ELSE e
  BY DEF ParseServerData
<1>3. level \in Nat /\ level \in 0 .. MaxLevel /\ level # 0
  BY NeedsAreFiles
<1>4. staged \in Seq(ClientCmd)
  <2>1. cmd \in ClientCmd
    BY <1>3 DEF Cmd, ClientCmd
  <2> HIDE DEF cmd
  <2> QED BY <2>1
<1> HIDE DEF d, cmd, staged
<1>5. e \in Client
  BY <1>1, <1>3, <1>4 DEF Client
<1>6. /\ e.first = d.first /\ e.size = d.size /\ e.got = d.got /\ e.level = level
      /\ e.out = d.out /\ e.number = d.number /\ e.crossed = d.crossed
  BY <1>1 DEF Client
<1> HIDE DEF e
<1>7. Sound(e)
  BY <1>1, <1>3, <1>5, <1>6 DEF Sound, Window, Known
<1>8. Keeps(c, e)
  BY <1>1, <1>3, <1>6 DEF Keeps
<1> QED BY <1>1, <1>2, <1>7, <1>8

(* The lists of the level.                                                 *)
LEMMA ParseListSound ==
  ASSUME NEW c, Sound(c), c.level # 0
  PROVE  Sound(ParseList(c)) /\ Keeps(c, ParseList(c))
<1> DEFINE d == [c EXCEPT !.index = 1, !.type = "dl_list"]
<1>1. /\ c \in Client /\ d \in Client /\ d.first = c.first /\ d.size = c.size /\ d.got = c.got
      /\ d.staged = c.staged /\ d.out = c.out /\ d.number = c.number /\ d.crossed = c.crossed
      /\ d.level = c.level
  <2>1. 1 \in Nat \ {0} /\ c \in Client
    BY DEF Sound
  <2> QED BY <2>1 DEF Client
<1>2. ParseList(c) = NextDownload(d)
  BY DEF ParseList
<1> HIDE DEF d
<1>3. Sound(d) /\ d.level # 0
  BY <1>1 DEF Sound, Window, Known
<1>4. Sound(NextDownload(d)) /\ Keeps(d, NextDownload(d))
  BY <1>3, NextDownloadSound
<1>5. Keeps(c, NextDownload(d))
  BY <1>1, <1>4 DEF Keeps
<1> QED BY <1>2, <1>4, <1>5

(* Host_Error.                                                             *)
LEMMA HostErrorSound ==
  ASSUME NEW c, Sound(c)
  PROVE  Sound(HostError(c)) /\ Keeps(c, HostError(c))
<1> DEFINE d == [c EXCEPT !.state = "Host_Error"]
<1>1. /\ d \in Client /\ d.first = c.first /\ d.size = c.size /\ d.got = c.got
      /\ d.staged = c.staged /\ d.out = c.out /\ d.number = c.number /\ (c.crossed => d.crossed)
      /\ d.level = c.level /\ d.type = c.type
  BY DEF Client, Sound, Gone
<1>2. HostError(c) = d
  BY DEF HostError
<1> HIDE DEF d
<1> QED BY <1>1, <1>2, StillSound

(* The first answer to a request for a file: its length.                   *)
Started(c, f) ==
  [c EXCEPT !.open = TRUE, !.method = "DL_QWCHUNKS", !.number = @ + 1,
            !.size = Blocks[f], !.first = 0, !.cycle = MAXBLOCKS - 1,
            !.got = [i \in 0 .. MAXBLOCKS - 1 |-> FALSE],
            !.content = [b \in 0 .. Blocks[f] - 1 |-> <<>>]]

StartOf(c, d, f) ==
  /\ d.name = c.name /\ d.method = "DL_QWCHUNKS" /\ d.open = TRUE
  /\ d.number = c.number + 1 /\ d.size = Blocks[f] /\ d.first = 0
  /\ d.content \in [0 .. d.size - 1 -> Block] /\ \A i \in 0 .. MAXBLOCKS - 1 : ~d.got[i]
  /\ d.staged = c.staged /\ d.disk = c.disk /\ d.state = c.state

(* A client that starts a file is sound, with an empty window.             *)
LEMMA StartedSound ==
  ASSUME NEW c, Sound(c), NEW f \in File
  PROVE  Sound(Started(c, f)) /\ Keeps(c, Started(c, f)) /\ StartOf(c, Started(c, f), f)
<1> DEFINE got == [i \in 0 .. MAXBLOCKS - 1 |-> FALSE]
           content == [b \in 0 .. Blocks[f] - 1 |-> <<>>]
           d == [c EXCEPT !.open = TRUE, !.method = "DL_QWCHUNKS", !.number = c.number + 1,
                          !.size = Blocks[f], !.first = 0, !.cycle = MAXBLOCKS - 1,
                          !.got = got, !.content = content]
<1>1. /\ got \in [0 .. MAXBLOCKS - 1 -> BOOLEAN] /\ \A i \in 0 .. MAXBLOCKS - 1 : ~got[i]
      /\ MAXBLOCKS \in Nat \ {0} /\ MAXBLOCKS - 1 \in 0 .. MAXBLOCKS - 1
      /\ Blocks[f] \in Nat /\ content \in [0 .. Blocks[f] - 1 -> Block]
  BY BlocksArePos DEF Block
<1>2. content \in UNION {[0 .. n - 1 -> Block] : n \in Nat}
  BY <1>1
<1>3. c \in Client /\ c.number \in Nat /\ c.number + 1 \in Nat
  BY DEF Sound, Client
<1>4. Started(c, f) = d
  BY <1>3 DEF Started, Client
<1> HIDE DEF got, content
<1>5. d \in Client
  BY <1>1, <1>2, <1>3 DEF Client
<1>6. /\ d.name = c.name /\ d.method = "DL_QWCHUNKS" /\ d.open = TRUE
      /\ d.number = c.number + 1 /\ d.size = Blocks[f] /\ d.first = 0
      /\ d.content = content /\ d.got = got /\ d.type = c.type
      /\ d.staged = c.staged /\ d.disk = c.disk /\ d.state = c.state
      /\ d.out = c.out /\ d.level = c.level /\ d.crossed = c.crossed
  BY <1>3 DEF Client
<1> HIDE DEF d
<1>7. Window(d)
  <2>1. \A b \in Nat : Place(b) \in 0 .. MAXBLOCKS - 1
    BY PlaceIn
  <2>2. \A b \in Nat : ~got[Place(b)]
    BY <1>1, <2>1
  <2>3. d.first <= d.size
    BY <1>1, <1>6
  <2>4. \A b \in Nat : ~d.got[Place(b)]
    BY <1>6, <2>2
  <2> QED BY <2>3, <2>4 DEF Window
<1>8. Known(d)
  BY <1>6 DEF Known, Sound
<1>9. Keeps(c, d)
  BY <1>3, <1>6 DEF Keeps
<1>10. StartOf(c, d, f)
  BY <1>1, <1>6 DEF StartOf
<1> QED BY <1>4, <1>5, <1>7, <1>8, <1>9, <1>10 DEF Sound

(* CL_ParseChunkedDownload, for the answer to a request.                   *)
LEMMA ParseStartIs ==
  ASSUME NEW c \in Client, NEW f
  PROVE  /\ f = None => ParseStart(c, f) = FinishDownload([c EXCEPT !.open = FALSE], FALSE)
         /\ f # None /\ c.method = "DL_QWCHUNKS" => ParseStart(c, f) = HostError([c EXCEPT !.open = FALSE])
         /\ f # None /\ c.method # "DL_QWCHUNKS" => ParseStart(c, f) = Started(c, f)
<1> DEFINE d == [c EXCEPT !.open = FALSE]
<1>1. d.method = c.method
  BY DEF Client
<1>2. CASE f = None
  BY <1>2 DEF ParseStart
<1>3. CASE f # None /\ c.method = "DL_QWCHUNKS"
  BY <1>1, <1>3 DEF ParseStart
<1>4. CASE f # None /\ c.method # "DL_QWCHUNKS"
  <2>1. ~(f = None) /\ ~(f # None /\ d.method = "DL_QWCHUNKS")
    BY <1>1, <1>4
  <2>2. ParseStart(c, f) = [d EXCEPT !.open = TRUE, !.method = "DL_QWCHUNKS", !.number = @ + 1,
                                     !.size = Blocks[f], !.first = 0, !.cycle = MAXBLOCKS - 1,
                                     !.got = [i \in 0 .. MAXBLOCKS - 1 |-> FALSE],
                                     !.content = [b \in 0 .. Blocks[f] - 1 |-> <<>>]]
    BY <2>1 DEF ParseStart
  <2>3. ParseStart(c, f) = [d EXCEPT !.open = TRUE, !.method = "DL_QWCHUNKS", !.number = d.number + 1,
                                     !.size = Blocks[f], !.first = 0, !.cycle = MAXBLOCKS - 1,
                                     !.got = [i \in 0 .. MAXBLOCKS - 1 |-> FALSE],
                                     !.content = [b \in 0 .. Blocks[f] - 1 |-> <<>>]]
    BY <2>2
  <2> DEFINE z == c.number + 1
             got == [i \in 0 .. MAXBLOCKS - 1 |-> FALSE]
             content == [b \in 0 .. Blocks[f] - 1 |-> <<>>]
             size == Blocks[f]
             cycle == MAXBLOCKS - 1
  <2>4. d.number + 1 = z
    BY DEF Client
  <2>5. Started(c, f) = [c EXCEPT !.open = TRUE, !.method = "DL_QWCHUNKS", !.number = z,
                                  !.size = size, !.first = 0, !.cycle = cycle,
                                  !.got = got, !.content = content]
    BY DEF Started
  <2>6. ParseStart(c, f) = [d EXCEPT !.open = TRUE, !.method = "DL_QWCHUNKS", !.number = z,
                                     !.size = size, !.first = 0, !.cycle = cycle,
                                     !.got = got, !.content = content]
    BY <2>3, <2>4
  <2> HIDE DEF z, got, content, size, cycle
  <2>7. [d EXCEPT !.open = TRUE, !.method = "DL_QWCHUNKS", !.number = z, !.size = size, !.first = 0,
                  !.cycle = cycle, !.got = got, !.content = content]
        = [c EXCEPT !.open = TRUE, !.method = "DL_QWCHUNKS", !.number = z, !.size = size, !.first = 0,
                    !.cycle = cycle, !.got = got, !.content = content]
    BY DEF Client
  <2> QED BY <1>4, <2>5, <2>6, <2>7
<1> QED BY <1>2, <1>3, <1>4

(* The answer to a request, whatever it is, leaves a sound client.         *)
LEMMA ParseStartSound ==
  ASSUME NEW c, Sound(c), NEW f \in File \cup {None}
  PROVE  Sound(ParseStart(c, f)) /\ Keeps(c, ParseStart(c, f))
<1> DEFINE d == [c EXCEPT !.open = FALSE]
<1>1. /\ d \in Client /\ d.first = c.first /\ d.size = c.size /\ d.got = c.got
      /\ d.staged = c.staged /\ d.out = c.out /\ d.number = c.number /\ (c.crossed => d.crossed)
      /\ d.level = c.level /\ d.type = c.type /\ d.method = c.method /\ c \in Client
  BY DEF Client, Sound
<1>2. /\ f = None => ParseStart(c, f) = FinishDownload(d, FALSE)
      /\ f # None /\ c.method = "DL_QWCHUNKS" => ParseStart(c, f) = HostError(d)
      /\ f # None /\ c.method # "DL_QWCHUNKS" => ParseStart(c, f) = Started(c, f)
  BY <1>1, ParseStartIs
<1> HIDE DEF d
<1>3. Sound(d) /\ Keeps(c, d)
  BY <1>1, StillSound
<1>4. ASSUME NEW e, Sound(e), Keeps(d, e) PROVE Sound(e) /\ Keeps(c, e)
  BY <1>1, <1>3, <1>4, KeepsOn DEF Sound
<1>5. CASE f = None
  BY <1>2, <1>3, <1>4, <1>5, FinishDownloadSound
<1>6. CASE f # None /\ c.method = "DL_QWCHUNKS"
  BY <1>2, <1>3, <1>4, <1>6, HostErrorSound
<1>7. CASE f # None /\ c.method # "DL_QWCHUNKS"
  <2>1. f \in File
    BY <1>7
  <2>2. Sound(Started(c, f)) /\ Keeps(c, Started(c, f))
    BY <2>1, StartedSound
  <2> QED BY <1>2, <1>7, <2>2
<1> QED BY <1>5, <1>6, <1>7

(* The places of the window, when block p has come in and the window has   *)
(* moved by n: what they say of the blocks stays true.                     *)
Moves(first, p, n, old, new, got) ==
  /\ first \in Nat /\ p \in Nat /\ first <= p /\ p < first + MAXBLOCKS /\ n \in 0 .. MAXBLOCKS
  /\ \A i \in 0 .. MAXBLOCKS - 1 : new[i] <=> old[i] \/ i = Place(p)
  /\ \A i \in 0 .. n - 1 : new[Place(first + i)]
  /\ n < MAXBLOCKS => ~new[Place(first + n)]
  /\ \A i \in 0 .. MAXBLOCKS - 1 :
       got[i] <=> new[i] /\ \A j \in 0 .. n - 1 : Place(first + j) # i

(* Where the window gets to, and what of it has come in.                   *)
Moved(first, p, old, to, got) ==
  /\ first <= to /\ to <= first + MAXBLOCKS /\ ~got[Place(to)]
  /\ \A b \in Nat : first <= b /\ b < to => b = p \/ (b < first + MAXBLOCKS /\ old[Place(b)])
  /\ \A b \in Nat : to <= b /\ b < to + MAXBLOCKS /\ got[Place(b)] =>
                    b = p \/ (b < first + MAXBLOCKS /\ old[Place(b)])

(* The window has moved, and its first place is free.                      *)
LEMMA PlacesMove ==
  ASSUME NEW first, NEW p, NEW n, NEW old, NEW new, NEW got, Moves(first, p, n, old, new, got)
  PROVE  Moved(first, p, old, first + n, got)
<1> USE DEF Moves
<1>1. MAXBLOCKS \in Nat \ {0} /\ n \in Nat /\ \A b \in Int : Place(b) \in 0 .. MAXBLOCKS - 1
  BY BlocksArePos, PlaceIn
<1>2. \A b \in Nat : first <= b /\ b < first + MAXBLOCKS /\ new[Place(b)] =>
        b = p \/ old[Place(b)]
  <2> SUFFICES ASSUME NEW b \in Nat, first <= b, b < first + MAXBLOCKS, Place(b) = Place(p)
               PROVE  b = p
    BY <1>1
  <2>1. CASE b < p
    <3>1. p < b + MAXBLOCKS
      BY <1>1
    <3> QED BY <1>1, <2>1, <3>1, PlaceApart
  <2>2. CASE p < b
    <3>1. b < p + MAXBLOCKS
      BY <1>1
    <3> QED BY <1>1, <2>2, <3>1, PlaceApart
  <2> QED BY <1>1, <2>1, <2>2
<1>3. \A b \in Nat : first <= b /\ b < first + n => b < first + MAXBLOCKS /\ new[Place(b)]
  <2> TAKE b \in Nat
  <2> HAVE first <= b /\ b < first + n
  <2>1. b - first \in 0 .. n - 1 /\ first + (b - first) = b /\ b < first + MAXBLOCKS
    BY <1>1
  <2> QED BY <2>1
<1>4. \A b \in Nat : first + n <= b /\ b < (first + n) + MAXBLOCKS /\ got[Place(b)] =>
         b < first + MAXBLOCKS /\ new[Place(b)]
  <2> TAKE b \in Nat
  <2> HAVE first + n <= b /\ b < (first + n) + MAXBLOCKS /\ got[Place(b)]
  <2>1. new[Place(b)] /\ \A j \in 0 .. n - 1 : Place(first + j) # Place(b)
    BY <1>1
  <2>2. ASSUME b >= first + MAXBLOCKS PROVE FALSE
    <3> DEFINE j == b - MAXBLOCKS - first
    <3>1. j \in 0 .. n - 1 /\ first + j \in Int /\ (first + j) + MAXBLOCKS = b
      BY <1>1, <2>2
    <3> HIDE DEF j
    <3>2. Place(first + j) = Place(b)
      BY <1>1, <3>1, PlaceTurn
    <3> QED BY <2>1, <3>1, <3>2
  <2> QED BY <1>1, <2>1, <2>2
<1>5. ~got[Place(first + n)]
  <2>1. Place(first + n) \in 0 .. MAXBLOCKS - 1
    BY <1>1
  <2>2. CASE n < MAXBLOCKS
    BY <2>1, <2>2
  <2>3. CASE n = MAXBLOCKS
    <3>1. 0 \in 0 .. n - 1 /\ first + 0 = first /\ first \in Int
      BY <1>1, <2>3
    <3>2. Place(first + n) = Place(first)
      BY <1>1, <2>3, PlaceTurn
    <3> QED BY <2>1, <3>1, <3>2
  <2> QED BY <1>1, <2>2, <2>3
<1>6. first <= first + n /\ first + n <= first + MAXBLOCKS
  BY <1>1
<1> QED BY <1>2, <1>3, <1>4, <1>5, <1>6 DEF Moved

(* The window moves past the blocks that have come in, and what it says of *)
(* the blocks in it stays true: their places are apart.                    *)
LEMMA WindowMoves ==
  ASSUME NEW c \in Client, NEW data \in Frag, Expected(c, data[2])
  PROVE  LET d == StoreChunk(c, data)
         IN  /\ d \in Client
             /\ Moved(c.first, data[2], c.got, d.first, d.got)
             /\ d.content = [c.content EXCEPT ![data[2]] = data]
             /\ d.name = c.name /\ d.method = c.method /\ d.open = c.open /\ d.size = c.size
             /\ d.number = c.number /\ d.disk = c.disk /\ d.state = c.state /\ d.staged = c.staged
             /\ d.out = c.out /\ d.level = c.level /\ d.type = c.type /\ d.crossed = c.crossed
<1> DEFINE p == data[2]
           first == c.first
           new == [c.got EXCEPT ![Place(p)] = TRUE]
           n == Run(new, first)
           got == [i \in DOMAIN new |-> new[i] /\ \A j \in 0 .. n - 1 : Place(first + j) # i]
           content == [c.content EXCEPT ![p] = data]
           d == [c EXCEPT !.first = first + n, !.got = got, !.content = content]
<1>1. /\ MAXBLOCKS \in Nat \ {0} /\ p \in Nat /\ first \in Nat
      /\ first <= p /\ p - first < MAXBLOCKS /\ ~c.got[Place(p)]
      /\ c.got \in [0 .. MAXBLOCKS - 1 -> BOOLEAN] /\ new \in [0 .. MAXBLOCKS - 1 -> BOOLEAN]
      /\ \A b \in Int : Place(b) \in 0 .. MAXBLOCKS - 1
  BY BlocksArePos, PlaceIn DEF Expected, Client, Frag, Place
<1>2. \A i \in 0 .. MAXBLOCKS - 1 : new[i] <=> c.got[i] \/ i = Place(p)
  BY <1>1
<1>3. /\ n \in 0 .. MAXBLOCKS
      /\ \A i \in 0 .. n - 1 : new[Place(first + i)]
      /\ n < MAXBLOCKS => ~new[Place(first + n)]
  BY <1>1, RunStops
<1>4. content \in UNION {[0 .. m - 1 -> Block] : m \in Nat}
  <2>1. data \in Block
    BY DEF Block
  <2>2. PICK m \in Nat : c.content \in [0 .. m - 1 -> Block]
    BY DEF Client
  <2>3. content \in [0 .. m - 1 -> Block]
    BY <2>1, <2>2
  <2> QED BY <2>3
<1>5. StoreChunk(c, data) = d
  BY DEF StoreChunk, Client, Place
<1>6. /\ got \in [0 .. MAXBLOCKS - 1 -> BOOLEAN]
      /\ \A i \in 0 .. MAXBLOCKS - 1 :
           got[i] <=> new[i] /\ \A j \in 0 .. n - 1 : Place(first + j) # i
  BY <1>1
<1> HIDE DEF content, got, n
<1>7. first + n \in Nat
  <2> HIDE DEF first
  <2> QED BY <1>1, <1>3
<1>8. /\ d \in Client /\ d.first = first + n /\ d.got = got /\ d.content = content
      /\ d.name = c.name /\ d.method = c.method /\ d.open = c.open /\ d.size = c.size
      /\ d.number = c.number /\ d.disk = c.disk /\ d.state = c.state /\ d.staged = c.staged
      /\ d.out = c.out /\ d.level = c.level /\ d.type = c.type /\ d.crossed = c.crossed
  <2> HIDE DEF new, first, p
  <2> QED BY <1>4, <1>6, <1>7 DEF Client
<1> HIDE DEF d, new
<1>9. Moved(first, p, c.got, first + n, got)
  <2> HIDE DEF first, p
  <2>1. p < first + MAXBLOCKS /\ first <= p /\ first \in Nat /\ p \in Nat
    BY <1>1
  <2>2. Moves(first, p, n, c.got, new, got)
    BY <1>2, <1>3, <1>6, <2>1 DEF Moves
  <2> QED BY <2>2, PlacesMove
<1> HIDE DEF first, p
<1> QED BY <1>5, <1>8, <1>9 DEF content, first, p

(* A chunk that is stored.                                                 *)
LEMMA StoreChunkSound ==
  ASSUME NEW c, Sound(c), NEW data \in Frag, Expected(c, data[2]), data[2] < c.size
  PROVE  Sound(StoreChunk(c, data)) /\ Keeps(c, StoreChunk(c, data))
<1> DEFINE d == StoreChunk(c, data)
<1>1. c \in Client /\ c.first \in Nat /\ c.size \in Nat /\ c.first <= c.size /\ MAXBLOCKS \in Nat
  BY BlocksArePos DEF Sound, Client, Window
<1>2. /\ d \in Client /\ d.size = c.size /\ Moved(c.first, data[2], c.got, d.first, d.got)
      /\ d.staged = c.staged /\ d.number = c.number
      /\ d.out = c.out /\ d.level = c.level /\ d.type = c.type /\ d.crossed = c.crossed
  BY <1>1, WindowMoves
<1> HIDE DEF d
<1>3. d.first \in Nat
  BY <1>2 DEF Client
<1>4. \A b \in Nat : c.first <= b /\ b < c.first + MAXBLOCKS /\ c.got[Place(b)] => b < c.size
  BY DEF Sound, Window
<1>5. d.first <= c.size
  <2>1. CASE d.first = c.first
    BY <1>1, <2>1
  <2>2. CASE d.first > c.first
    <3>1. d.first - 1 \in Nat /\ c.first <= d.first - 1 /\ d.first - 1 < d.first
      BY <1>1, <1>3, <2>2
    <3>2. d.first - 1 < c.size
      BY <1>2, <1>4, <3>1 DEF Moved
    <3> QED BY <1>1, <1>3, <3>2
  <2> QED BY <1>1, <1>2, <1>3, <2>1, <2>2 DEF Moved
<1>6. \A b \in Nat : d.first <= b /\ b < d.first + MAXBLOCKS /\ d.got[Place(b)] => b < d.size
  <2> TAKE b \in Nat
  <2> HAVE d.first <= b /\ b < d.first + MAXBLOCKS /\ d.got[Place(b)]
  <2>1. c.first <= b
    BY <1>1, <1>2, <1>3 DEF Moved
  <2> QED BY <1>2, <1>4, <2>1 DEF Moved
<1>7. Window(d)
  BY <1>2, <1>5, <1>6 DEF Window
<1>8. Known(d)
  BY <1>2 DEF Known, Sound
<1>9. Keeps(c, d)
  BY <1>1, <1>2 DEF Keeps, Client
<1> QED BY <1>2, <1>7, <1>8, <1>9 DEF Sound, d

(* CL_ParseChunkedDownload, for a chunk.                                   *)
LEMMA ParseChunkSound ==
  ASSUME NEW c, Sound(c), NEW data \in Frag
  PROVE  Sound(ParseChunk(c, data)) /\ Keeps(c, ParseChunk(c, data))
<1>1. Sound(HostError(c)) /\ Keeps(c, HostError(c))
  BY HostErrorSound
<1>2. Sound(c) /\ Keeps(c, c)
  BY KeepsSelf DEF Sound
<1>3. Expected(c, data[2]) /\ data[2] < c.size =>
        Sound(StoreChunk(c, data)) /\ Keeps(c, StoreChunk(c, data))
  BY StoreChunkSound
<1>4. \/ ParseChunk(c, data) = c
      \/ ParseChunk(c, data) = HostError(c)
      \/ Expected(c, data[2]) /\ data[2] < c.size /\ ParseChunk(c, data) = StoreChunk(c, data)
  BY DEF ParseChunk
<1> QED BY <1>1, <1>2, <1>3, <1>4

(* What the client reads: what the server says, and the chunk behind it.   *)
Item == ServerItem \cup [name : {"chunk"}, arg : Frag]

(* Parse, item by item.                                                    *)
LEMMA ParseIs ==
  ASSUME NEW c, NEW m \in Item
  PROVE  \/ c.state \in Gone /\ Parse(c, m) = c
         \/ /\ c.state \notin Gone
            /\ \/ m \in Stuff /\ m.name = "stufftext" /\ Parse(c, m) = [c EXCEPT !.cbuf = @ \o m.arg]
               \/ /\ m.name = "svc_serverdata" /\ m.arg \in 1 .. MaxLevel
                  /\ Parse(c, m) = ParseServerData(c, m.arg)
               \/ m.name = "svc_list" /\ Parse(c, m) = ParseList(c)
               \/ /\ m.name = "svc_download" /\ m.arg \in File \cup {None}
                  /\ Parse(c, m) = ParseStart(c, m.arg)
               \/ m.name = "chunk" /\ m.arg \in Frag /\ Parse(c, m) = ParseChunk(c, m.arg)
<1>1. CASE m \in Stuff
  <2>1. m.name = "stufftext" /\ m \in Stuff
    BY <1>1 DEF Stuff
  <2>2. Parse(c, m) = IF c.state \in Gone THEN c ELSE [c EXCEPT !.cbuf = @ \o m.arg]
    BY <2>1 DEF Parse
  <2> QED BY <2>1, <2>2
<1>2. CASE m \in [name : {"svc_serverdata"}, arg : 1 .. MaxLevel]
  <2>1. m.name = "svc_serverdata" /\ m.arg \in 1 .. MaxLevel
    BY <1>2
  <2>2. Parse(c, m) = IF c.state \in Gone THEN c ELSE ParseServerData(c, m.arg)
    BY <2>1 DEF Parse
  <2> QED BY <2>1, <2>2
<1>3. CASE m \in [name : {"svc_list"}, arg : {0}]
  <2>1. m.name = "svc_list"
    BY <1>3
  <2>2. Parse(c, m) = IF c.state \in Gone THEN c ELSE ParseList(c)
    BY <2>1 DEF Parse
  <2> QED BY <2>1, <2>2
<1>4. CASE m \in [name : {"svc_download"}, arg : File \cup {None}]
  <2>1. m.name = "svc_download" /\ m.arg \in File \cup {None}
    BY <1>4
  <2>2. Parse(c, m) = IF c.state \in Gone THEN c ELSE ParseStart(c, m.arg)
    BY <2>1 DEF Parse
  <2> QED BY <2>1, <2>2
<1>5. CASE m \in [name : {"chunk"}, arg : Frag]
  <2>1. m.name = "chunk" /\ m.arg \in Frag
    BY <1>5
  <2>2. Parse(c, m) = IF c.state \in Gone THEN c ELSE ParseChunk(c, m.arg)
    BY <2>1 DEF Parse
  <2> QED BY <2>1, <2>2
<1> QED BY <1>1, <1>2, <1>3, <1>4, <1>5 DEF Item, ServerItem

(* Words put into cbuf_svc change nothing else.                            *)
LEMMA StuffSound ==
  ASSUME NEW c, Sound(c), NEW m \in Stuff
  PROVE  LET d == [c EXCEPT !.cbuf = @ \o m.arg] IN Sound(d) /\ Keeps(c, d) /\ Alike(c, d)
<1> DEFINE cbuf == c.cbuf \o m.arg
           d == [c EXCEPT !.cbuf = cbuf]
<1>1. c \in Client
  BY DEF Sound
<1>2. cbuf \in Seq(Word)
  BY <1>1, ConcatProperties DEF Client, Stuff
<1>3. [c EXCEPT !.cbuf = @ \o m.arg] = d
  BY <1>1 DEF Client
<1> HIDE DEF cbuf
<1>4. /\ d \in Client /\ d.first = c.first /\ d.size = c.size /\ d.got = c.got
      /\ d.staged = c.staged /\ d.out = c.out /\ d.number = c.number /\ (c.crossed => d.crossed)
      /\ d.level = c.level /\ d.type = c.type
  BY <1>1, <1>2 DEF Client
<1>5. Alike(c, d)
  BY <1>1 DEF Alike, SameTalk, Asking, Client
<1> HIDE DEF d
<1>6. Sound(d) /\ Keeps(c, d)
  BY <1>4, StillSound
<1> QED BY <1>3, <1>5, <1>6

(* Any item leaves a sound client, if lists come only when the level is    *)
(* known.                                                                  *)
LEMMA ParseSound ==
  ASSUME NEW c, Sound(c), NEW m \in Item, m.name = "svc_list" => c.level # 0
  PROVE  Sound(Parse(c, m)) /\ Keeps(c, Parse(c, m))
<1>1. Keeps(c, c)
  BY KeepsSelf DEF Sound
<1>2. m \in Stuff => LET d == [c EXCEPT !.cbuf = @ \o m.arg] IN Sound(d) /\ Keeps(c, d)
  BY StuffSound
<1>3. m.arg \in 1 .. MaxLevel => Sound(ParseServerData(c, m.arg)) /\ Keeps(c, ParseServerData(c, m.arg))
  BY ParseServerDataSound
<1>4. m.name = "svc_list" => Sound(ParseList(c)) /\ Keeps(c, ParseList(c))
  BY ParseListSound
<1>5. m.arg \in File \cup {None} => Sound(ParseStart(c, m.arg)) /\ Keeps(c, ParseStart(c, m.arg))
  BY ParseStartSound
<1>6. m.arg \in Frag => Sound(ParseChunk(c, m.arg)) /\ Keeps(c, ParseChunk(c, m.arg))
  BY ParseChunkSound
<1> QED BY <1>1, <1>2, <1>3, <1>4, <1>5, <1>6, ParseIs

-----------------------------------------------------------------------------
(* What is agreed on stays so when commands, items, chunks have been read. *)
LEMMA AgreedLess ==
  ASSUME NEW c, NEW s, NEW o, NEW k, NEW r, NEW l, NEW X, NEW M, Agreed(c, s, o, k, r, l, X, M),
         NEW oo, NEW kk, Answer(oo, kk) \subseteq Answer(o, k), \A i \in Answer(oo, kk) : oo[i] = o[i],
         NEW rr, NEW ll, Asked(rr, ll) \subseteq Asked(r, l), \A i \in Asked(rr, ll) : rr[i] = r[i],
         Stops(rr, ll) \subseteq Stops(r, l),
         NEW Y, Y \subseteq X, NEW N, N \subseteq M
  PROVE  Agreed(c, s, oo, kk, rr, ll, Y, N)
<1>1. Token(c, s, oo, kk, rr, ll)
  BY DEF Agreed, Token, Lone
<1>2. Order(c, s, oo, kk, rr, ll)
  BY DEF Agreed, Order
<1>3. Fresh(c, oo, kk, Y)
  BY DEF Agreed, Fresh, Answered
<1>4. Stored(c) /\ Fine(c) /\ ProperOOB(c, N)
  BY DEF Agreed, ProperOOB
<1> QED BY <1>1, <1>2, <1>3, <1>4 DEF Agreed

(* An item of the server's has been read, or is left aside.                *)
LEMMA AgreedItem ==
  ASSUME NEW c, NEW s, NEW o, Len(o) \in Nat, NEW k \in 1 .. Len(o), NEW r, NEW l, NEW X, NEW M,
         Agreed(c, s, o, k - 1, r, l, X, M)
  PROVE  Agreed(c, s, o, k, r, l, X, M)
<1>1. Answer(o, k) \subseteq Answer(o, k - 1)
  BY AtNext DEF Answer
<1>2. \A i \in Answer(o, k) : o[i] = o[i]
  OBVIOUS
<1>3. Asked(r, l) \subseteq Asked(r, l) /\ Stops(r, l) \subseteq Stops(r, l) /\ X \subseteq X /\ M \subseteq M
  OBVIOUS
<1> QED BY <1>1, <1>2, <1>3, AgreedLess

(* A client that has no file under way, and has not asked for one.         *)
Idle(c) == c.method = "DL_NONE" /\ ~c.open /\ Fine(c)

(* An idle client agrees with a server that has nothing to answer.         *)
LEMMA IdleAgreed ==
  ASSUME NEW c, Idle(c), NEW s, NEW o, NEW k, NEW r, NEW l, NEW X, NEW M, Silent(c, s, o, k, r, l)
  PROVE  Agreed(c, s, o, k, r, l, X, M)
<1>1. Token(c, s, o, k, r, l) /\ Order(c, s, o, k, r, l)
  BY DEF Silent, Token, Order, Lone, Idle
<1>2. Stored(c) /\ Fine(c) /\ Fresh(c, o, k, X) /\ ProperOOB(c, M)
  BY DEF Stored, Fresh, ProperOOB, Answered, Silent, Idle
<1> QED BY <1>1, <1>2 DEF Agreed

(* A client without a method is idle, and only one that waits for an       *)
(* answer has asked.                                                       *)
LEMMA AgreedIdle ==
  ASSUME NEW c, NEW s, NEW o, NEW k, NEW r, NEW l, NEW X, NEW M, Agreed(c, s, o, k, r, l, X, M)
  PROVE  /\ c.method = "DL_NONE" => Idle(c)
         /\ c.method # "DL_QW" => Silent(c, s, o, k, r, l)
<1>1. c.method # "DL_QW" => Silent(c, s, o, k, r, l)
  BY DEF Agreed, Token, Silent
<1>2. c.method = "DL_NONE" => Idle(c)
  BY DEF Agreed, Order, Idle
<1> QED BY <1>1, <1>2

(* A file is asked for: there was no other.                                *)
LEMMA AskIs ==
  ASSUME NEW c \in Client, NEW f \in File
  PROVE  LET d == Ask(c, f)
         IN  /\ d.name = f /\ d.method = "DL_QW" /\ d.open = c.open
             /\ d.disk = c.disk /\ d.state = c.state
             /\ d.crossed = (c.crossed \/ c.method # "DL_NONE")
             /\ Stops(d.staged, 0) = Stops(c.staged, 0)
             /\ Asking(d) = Asking(c) \cup {Len(c.staged) + 1}
             /\ d.staged[Len(c.staged) + 1].arg = f
             /\ \A j \in Stops(c.staged, 0) : j < Len(c.staged) + 1
<1> DEFINE cmd == Cmd("download", f)
           s == Append(c.staged, cmd)
           d == [c EXCEPT !.name = f, !.method = "DL_QW",
                          !.crossed = c.crossed \/ c.method # "DL_NONE", !.staged = s]
<1>1. cmd \in ClientCmd /\ cmd.name = "download" /\ cmd.arg = f /\ c.staged \in Seq(ClientCmd)
  BY DEF Cmd, ClientCmd, Client
<1>2. Ask(c, f) = d
  BY DEF Ask, Stage, Client
<1> HIDE DEF cmd
<1>3. Stops(s, 0) = Stops(c.staged, 0)
  BY <1>1, StopsAppend
<1>4. At(s, 0, "download") = At(c.staged, 0, "download") \cup {Len(c.staged) + 1}
  BY <1>1, AtAppend
<1>5. s[Len(c.staged) + 1] = cmd /\ Len(c.staged) \in Nat
  BY <1>1, AppendItem
<1>6. \A j \in Stops(c.staged, 0) : j < Len(c.staged) + 1
  BY <1>5 DEF Stops, At
<1> HIDE DEF s
<1>7. /\ d.name = f /\ d.method = "DL_QW" /\ d.open = c.open /\ d.staged = s
      /\ d.disk = c.disk /\ d.state = c.state /\ d.crossed = (c.crossed \/ c.method # "DL_NONE")
  BY DEF Client
<1> HIDE DEF d
<1> QED BY <1>1, <1>2, <1>3, <1>4, <1>5, <1>6, <1>7 DEF Asking

(* The request for a file is one more thing agreed on, unless it crossed   *)
(* another.                                                                *)
LEMMA AskAgreed ==
  ASSUME NEW c \in Client, NEW f \in File, NEW s, NEW o, NEW k, NEW r, NEW l, NEW X, NEW M,
         Agreed(c, s, o, k, r, l, X, M)
  PROVE  Ask(c, f).crossed \/ Agreed(Ask(c, f), s, o, k, r, l, X, M)
<1> DEFINE d == Ask(c, f)
           n == Len(c.staged) + 1
<1> SUFFICES ASSUME ~d.crossed PROVE Agreed(d, s, o, k, r, l, X, M)
  OBVIOUS
<1>1. /\ d.name = f /\ d.method = "DL_QW" /\ d.open = c.open
      /\ d.disk = c.disk /\ d.state = c.state /\ d.crossed = (c.crossed \/ c.method # "DL_NONE")
      /\ Stops(d.staged, 0) = Stops(c.staged, 0) /\ Asking(d) = Asking(c) \cup {n}
      /\ d.staged[n].arg = f /\ \A j \in Stops(c.staged, 0) : j < n
  BY AskIs
<1> HIDE DEF d, n
<1>2. c.method = "DL_NONE" /\ Idle(c) /\ Silent(c, s, o, k, r, l)
  BY <1>1, AgreedIdle
<1>3. Asking(d) = {n} /\ Asked(r, l) = {} /\ Answering(s) = {} /\ Answer(o, k) = {}
  BY <1>1, <1>2 DEF Silent
<1>4. Token(d, s, o, k, r, l)
  BY <1>1, <1>3 DEF Token, Lone
<1>5. Order(d, s, o, k, r, l)
  BY <1>1, <1>2, <1>3 DEF Order, Idle
<1>6. Stored(d) /\ Fresh(d, o, k, X) /\ ProperOOB(d, M)
  BY <1>1, <1>3 DEF Stored, Fresh, ProperOOB, Answered
<1>7. Fine(d)
  BY <1>1, <1>2 DEF Fine, Idle
<1> QED BY <1>4, <1>5, <1>6, <1>7 DEF Agreed

(* The next file of the lists, or the end of them.                         *)
LEMMA NextDownloadAgreed ==
  ASSUME NEW c, Sound(c), c.level # 0, NEW s, NEW o, NEW k, NEW r, NEW l, NEW X, NEW M,
         Agreed(c, s, o, k, r, l, X, M)
  PROVE  NextDownload(c).crossed \/ Agreed(NextDownload(c), s, o, k, r, l, X, M)
<1>1. c \in Client
  BY DEF Sound
<1>2. ASSUME NEW n \in Nat \ {0}
      PROVE  [c EXCEPT !.index = n] \in Client /\ Alike(c, [c EXCEPT !.index = n])
  <2>1. [c EXCEPT !.index = n] \in Client
    BY <1>1 DEF Client
  <2>2. Alike(c, [c EXCEPT !.index = n])
    BY <1>1 DEF Client, Alike, SameTalk, Asking
  <2> QED BY <2>1, <2>2
<1>3. CASE Lacking(c) = {}
  <2> DEFINE n == Len(Needs[c.level]) + 1
             d == [c EXCEPT !.index = n]
             cmd == Cmd("prespawn", c.level)
  <2>1. n \in Nat \ {0}
    BY <1>1, LackingFiles
  <2> HIDE DEF n
  <2>2. d \in Client /\ Alike(c, d)
    BY <1>2, <2>1
  <2>3. cmd \in ClientCmd /\ cmd.name \notin {"download", "nextdl"}
    BY <1>1 DEF Cmd, ClientCmd, Client
  <2>4. NextDownload(c) = Stage(d, cmd)
    BY <1>3 DEF NextDownload, n
  <2> HIDE DEF d, cmd
  <2>5. Alike(c, Stage(d, cmd))
    BY <2>2, <2>3, StageAlike, AlikeOn
  <2> QED BY <2>4, <2>5, AlikeAgreed
<1>4. CASE Lacking(c) # {}
  <2> DEFINE n == Min(Lacking(c)) + 1
             d == [c EXCEPT !.index = n]
             f == Needs[c.level][Min(Lacking(c))]
  <2>1. n \in Nat \ {0} /\ f \in File
    BY <1>1, <1>4, LackingFiles
  <2>2. NextDownload(c) = Ask(d, f)
    BY <1>4 DEF NextDownload
  <2> HIDE DEF n, f
  <2>3. d \in Client /\ Alike(c, d)
    BY <1>2, <2>1
  <2> HIDE DEF d
  <2>4. Agreed(d, s, o, k, r, l, X, M)
    BY <2>3, AlikeAgreed
  <2>5. Ask(d, f).crossed \/ Agreed(Ask(d, f), s, o, k, r, l, X, M)
    BY <2>1, <2>3, <2>4, AskAgreed
  <2> QED BY <2>2, <2>5
<1> QED BY <1>3, <1>4

(* A file is finished, that was refused or is whole.                       *)
LEMMA FinishDownloadAgreed ==
  ASSUME NEW c, Sound(c), Fine(c), NEW rename \in BOOLEAN, rename => Whole(c),
         NEW s, NEW o, NEW k, NEW r, NEW l, NEW X, NEW M, Silent(c, s, o, k, r, l)
  PROVE  FinishDownload(c, rename).crossed \/ Agreed(FinishDownload(c, rename), s, o, k, r, l, X, M)
<1> DEFINE d == Closed(c, rename)
<1>1. /\ Sound(d) /\ d.type = c.type /\ d.level = c.level /\ c \in Client
  BY ClosedSound DEF Sound
<1>2. FinishDownload(c, rename) = IF d.type = "dl_list" THEN NextDownload(d) ELSE d
  BY DEF FinishDownload, Closed
<1>3. d.method = "DL_NONE" /\ ~d.open /\ d.state = c.state /\ d.staged = c.staged
  BY <1>1 DEF Closed, Client
<1>4. \A f \in File : d.disk[f] # "broken"
  BY <1>1 DEF Closed, Client, Fine
<1> HIDE DEF d
<1>5. Idle(d) /\ Silent(d, s, o, k, r, l)
  BY <1>3, <1>4 DEF Idle, Fine, Silent, Asking
<1>6. Agreed(d, s, o, k, r, l, X, M)
  BY <1>5, IdleAgreed
<1>7. CASE d.type = "dl_list"
  <2>1. d.level # 0
    BY <1>1, <1>7 DEF Sound, Known
  <2>2. NextDownload(d).crossed \/ Agreed(NextDownload(d), s, o, k, r, l, X, M)
    BY <1>1, <1>6, <2>1, NextDownloadAgreed
  <2> QED BY <1>2, <1>7, <2>2
<1>8. CASE d.type # "dl_list"
  BY <1>2, <1>6, <1>8
<1> QED BY <1>7, <1>8

(* svc_list: the lists are gone through from the start.                    *)
LEMMA ParseListAgreed ==
  ASSUME NEW c, Sound(c), c.level # 0, NEW s, NEW o, NEW k, NEW r, NEW l, NEW X, NEW M,
         Agreed(c, s, o, k, r, l, X, M)
  PROVE  ParseList(c).crossed \/ Agreed(ParseList(c), s, o, k, r, l, X, M)
<1> DEFINE d == [c EXCEPT !.index = 1, !.type = "dl_list"]
<1>1. /\ c \in Client /\ d \in Client /\ d.first = c.first /\ d.size = c.size /\ d.got = c.got
      /\ d.level = c.level /\ Alike(c, d)
  <2>1. 1 \in Nat \ {0} /\ c \in Client
    BY DEF Sound
  <2>2. d \in Client /\ d.first = c.first /\ d.size = c.size /\ d.got = c.got /\ d.level = c.level
    BY <2>1 DEF Client
  <2>3. Alike(c, d)
    BY <2>1 DEF Client, Alike, SameTalk, Asking
  <2> QED BY <2>1, <2>2, <2>3
<1>2. ParseList(c) = NextDownload(d)
  BY DEF ParseList
<1> HIDE DEF d
<1>3. Sound(d) /\ d.level # 0
  BY <1>1 DEF Sound, Window, Known
<1>4. Agreed(d, s, o, k, r, l, X, M)
  BY <1>1, AlikeAgreed
<1> QED BY <1>2, <1>3, <1>4, NextDownloadAgreed

(* svc_serverdata: what was staged and not sent is lost.                   *)
LEMMA ParseServerDataAlike ==
  ASSUME NEW c, Sound(c), NEW level \in 1 .. MaxLevel
  PROVE  Alike(c, ParseServerData(c, level))
<1> DEFINE d == ExecuteCbuf(c)
           cmd == Cmd("list", level)
           staged == <<cmd>>
           e == [d EXCEPT !.staged = staged, !.level = level, !.state = "ca_onserver"]
<1>1. Alike(c, d) /\ d \in Client
  BY ExecuteCbufSound DEF Sound
<1>2. ParseServerData(c, level) = IF d.state \in Gone THEN d ELSE e
  BY DEF ParseServerData
<1>3. At(staged, 0, "download") = {} /\ Stops(staged, 0) = {}
  <2>1. Len(staged) = 1 /\ staged[1].name = "list"
    BY DEF Cmd
  <2> HIDE DEF staged
  <2> QED BY <2>1 DEF At, Stops
<1> HIDE DEF d, staged
<1>4. /\ e.name = d.name /\ e.method = d.method /\ e.open = d.open
      /\ e.number = d.number /\ e.disk = d.disk /\ e.state = "ca_onserver" /\ e.staged = staged
      /\ e.size = d.size /\ e.content = d.content /\ e.first = d.first /\ e.got = d.got
  BY <1>1 DEF Client
<1> HIDE DEF e
<1>5. Alike(d, e)
  BY <1>3, <1>4 DEF Alike, SameTalk, Asking
<1> QED BY <1>1, <1>2, <1>5, AlikeOn

(* The answer to the request is read: the server sends the file that was   *)
(* asked for, or none.                                                     *)
LEMMA ParseStartAgreed ==
  ASSUME NEW c, Sound(c), NEW s, NEW o, Len(o) \in Nat, NEW k \in 1 .. Len(o),
         NEW f \in File \cup {None}, o[k].name = "svc_download", o[k].arg = f,
         NEW r, NEW l, NEW X, NEW M, Numbered(c, M), M \subseteq Nat \X Frag,
         Agreed(c, s, o, k - 1, r, l, X, M)
  PROVE  ParseStart(c, f).crossed \/ Agreed(ParseStart(c, f), s, o, k, r, l, X, M)
<1>1. k \in Answer(o, k - 1) /\ Answer(o, k) \subseteq Answer(o, k - 1) /\ k \notin Answer(o, k)
  <2>1. At(o, k - 1, "svc_download") = At(o, k, "svc_download") \cup {k} /\ k \notin At(o, k, "svc_download")
    BY AtNext
  <2> QED BY <2>1 DEF Answer
<1>2. /\ c.method = "DL_QW" /\ Silent(c, s, o, k, r, l)
      /\ f # None => f = c.name /\ s.download = c.name
  BY <1>1 DEF Agreed, Token, Lone, Silent
<1>3. Stops(c.staged, 0) = {} /\ Stops(r, l) = {} /\ Fine(c) /\ c \in Client
  BY <1>1 DEF Agreed, Order, Sound
<1>4. CASE f = None
  <2> DEFINE d == [c EXCEPT !.open = FALSE]
  <2>1. /\ d \in Client /\ d.first = c.first /\ d.size = c.size /\ d.got = c.got
        /\ d.staged = c.staged /\ d.out = c.out /\ d.number = c.number /\ (c.crossed => d.crossed)
        /\ d.level = c.level /\ d.type = c.type /\ d.disk = c.disk /\ d.state = c.state
    BY <1>3 DEF Client
  <2>2. ParseStart(c, f) = FinishDownload(d, FALSE)
    BY <1>3, <1>4, ParseStartIs
  <2> HIDE DEF d
  <2>3. Sound(d)
    BY <2>1, StillSound
  <2>4. Fine(d) /\ Silent(d, s, o, k, r, l)
    BY <1>2, <1>3, <2>1 DEF Fine, Silent, Asking
  <2> QED BY <2>2, <2>3, <2>4, FinishDownloadAgreed
<1>5. CASE f # None
  <2> DEFINE d == Started(c, f)
  <2> f \in File
    BY <1>5
  <2>1. ParseStart(c, f) = d
    BY <1>2, <1>3, <1>5, ParseStartIs
  <2>2. /\ d.name = c.name /\ d.method = "DL_QWCHUNKS" /\ d.open = TRUE
        /\ d.number = c.number + 1 /\ d.size = Blocks[f] /\ d.first = 0
        /\ d.content \in [0 .. d.size - 1 -> Block] /\ \A i \in 0 .. MAXBLOCKS - 1 : ~d.got[i]
        /\ d.staged = c.staged /\ d.disk = c.disk /\ d.state = c.state
    <3>1. StartOf(c, d, f)
      BY StartedSound
    <3> HIDE DEF d
    <3> QED BY <3>1 DEF StartOf
  <2> HIDE DEF d
  <2>3. Silent(d, s, o, k, r, l)
    BY <1>2, <2>2 DEF Silent, Asking
  <2>4. Token(d, s, o, k, r, l)
    BY <2>3 DEF Token, Silent, Lone
  <2>5. Order(d, s, o, k, r, l)
    BY <1>2, <1>3, <1>5, <2>2, <2>3 DEF Order, Silent
  <2>6. Stored(d)
    <3>1. 0 \in Int /\ \A b \in Nat : b \in Int
      OBVIOUS
    <3>2. ~d.got[Place(0)] /\ \A b \in Nat : ~d.got[Place(b)]
      BY <2>2, <3>1, PlaceIn
    <3>3. \A b \in 0 .. d.size - 1 : b \in Nat /\ ~(b < 0)
      BY <2>2, BlocksArePos
    <3> QED BY <1>2, <1>5, <2>1, <2>2, <3>2, <3>3 DEF Stored
  <2>7. Fresh(d, o, k, X)
    <3>1. Answered(o, k - 1)
      BY <1>1, <1>5 DEF Answered
    <3> QED BY <2>2, <3>1 DEF Agreed, Fresh
  <2>8. ProperOOB(d, M)
    <3>1. c.number \in Nat /\ \A m \in M : m[1] \in Nat /\ m[1] <= c.number
      BY <1>3 DEF Client, Numbered
    <3>2. \A m \in M : m[1] # d.number
      BY <2>2, <3>1
    <3> QED BY <3>2 DEF ProperOOB
  <2>9. Fine(d)
    BY <1>3, <2>2 DEF Fine
  <2> QED BY <2>1, <2>4, <2>5, <2>6, <2>7, <2>8, <2>9 DEF Agreed
<1> QED BY <1>4, <1>5

(* A chunk that is stored where it belongs.                                *)
LEMMA StoreChunkStored ==
  ASSUME NEW c, Sound(c), Stored(c), c.method = "DL_QWCHUNKS",
         NEW data \in Frag, data[1] = c.name, Expected(c, data[2])
  PROVE  Stored(StoreChunk(c, data))
<1> DEFINE d == StoreChunk(c, data)
           p == data[2]
<1>1. c \in Client
  BY DEF Sound
<1>2. /\ Moved(c.first, p, c.got, d.first, d.got)
      /\ d.content = [c.content EXCEPT ![p] = data]
      /\ d.name = c.name /\ d.method = c.method /\ d.size = c.size
  BY <1>1, WindowMoves
<1>3. p \in Nat /\ data = <<c.name, p>> /\ data \in Block /\ c.first <= p
  BY DEF Frag, Block, Expected
<1> HIDE DEF d, p
<1>4. /\ c.name \in File /\ c.size = Blocks[c.name]
      /\ c.content \in [0 .. c.size - 1 -> Block]
      /\ \A b \in 0 .. c.size - 1 :
           b < c.first \/ (b < c.first + MAXBLOCKS /\ c.got[Place(b)]) => c.content[b] = <<c.name, b>>
  BY DEF Stored
<1>5. d.content \in [0 .. d.size - 1 -> Block]
  BY <1>2, <1>3, <1>4
<1>6. c.first \in Nat /\ d.first \in Int /\ c.size \in Nat
  <2>1. d \in Client
    BY <1>1, WindowMoves DEF d
  <2> QED BY <1>1, <2>1 DEF Client
<1>7. \A b \in 0 .. d.size - 1 :
        b < d.first \/ (b < d.first + MAXBLOCKS /\ d.got[Place(b)]) => d.content[b] = <<d.name, b>>
  <2> TAKE b \in 0 .. d.size - 1
  <2> HAVE b < d.first \/ (b < d.first + MAXBLOCKS /\ d.got[Place(b)])
  <2>1. b \in Nat /\ b \in 0 .. c.size - 1
    BY <1>2
  <2>2. CASE b = p
    BY <1>2, <1>3, <1>4, <2>1, <2>2
  <2>3. CASE b # p
    <3>1. c.content[b] = <<c.name, b>>
      <4>1. CASE b < c.first
        BY <1>4, <2>1, <4>1
      <4>2. CASE c.first <= b /\ b < d.first
        BY <1>2, <1>4, <2>1, <2>3, <4>2 DEF Moved
      <4>3. CASE d.first <= b
        <5>1. b < d.first + MAXBLOCKS /\ d.got[Place(b)]
          BY <1>6, <2>1, <4>3
        <5> QED BY <1>2, <1>4, <2>1, <2>3, <4>3, <5>1 DEF Moved
      <4> QED BY <1>6, <2>1, <4>1, <4>2, <4>3
    <3>2. d.content[b] = c.content[b]
      BY <1>2, <1>4, <2>1, <2>3
    <3> QED BY <1>2, <3>1, <3>2
  <2> QED BY <2>2, <2>3
<1>8. ~d.got[Place(d.first)]
  BY <1>2 DEF Moved
<1>9. d.name \in File /\ d.size = Blocks[d.name]
  BY <1>2, <1>4
<1>10. Stored(d)
  BY <1>5, <1>7, <1>8, <1>9 DEF Stored
<1> QED BY <1>10 DEF d

(* A chunk is read: if a file is open, the chunk is of that file.          *)
LEMMA ParseChunkAgreed ==
  ASSUME NEW c, Sound(c), NEW data \in Frag, c.method = "DL_QWCHUNKS" => data[1] = c.name,
         NEW s, NEW o, NEW k, NEW r, NEW l, NEW X, NEW M, Agreed(c, s, o, k, r, l, X, M)
  PROVE  /\ Agreed(ParseChunk(c, data), s, o, k, r, l, X, M)
         /\ ParseChunk(c, data).method = c.method /\ ParseChunk(c, data).name = c.name
<1>1. c.open <=> c.method = "DL_QWCHUNKS"
  BY DEF Agreed, Order
<1>2. CASE ~(c.open /\ Expected(c, data[2]))
  <2>1. ParseChunk(c, data) = c
    BY <1>1, <1>2 DEF ParseChunk
  <2> QED BY <2>1
<1>3. CASE c.open /\ Expected(c, data[2])
  <2> DEFINE d == StoreChunk(c, data)
  <2>1. data[2] < c.size
    BY <1>1, <1>3 DEF Agreed, Stored, Frag
  <2>2. ParseChunk(c, data) = d
    BY <1>1, <1>3, <2>1 DEF ParseChunk
  <2>3. c \in Client
    BY DEF Sound
  <2>4. /\ d.name = c.name /\ d.method = c.method /\ d.open = c.open /\ d.number = c.number
        /\ d.disk = c.disk /\ d.state = c.state /\ d.staged = c.staged
    BY <1>3, <2>3, WindowMoves
  <2>5. Stored(d)
    BY <1>1, <1>3, StoreChunkStored DEF Agreed
  <2> HIDE DEF d
  <2>6. SameTalk(c, d)
    BY <2>4 DEF SameTalk, Asking
  <2>7. Agreed(d, s, o, k, r, l, X, M)
    BY <2>5, <2>6, SameTalkAgreed
  <2> QED BY <2>2, <2>4, <2>7
<1> QED BY <1>2, <1>3

(* An item is read; a chunk is one of X.                                   *)
LEMMA ParseAgreed ==
  ASSUME NEW c, Sound(c), NEW s, NEW o \in Seq(Item), NEW k \in 1 .. Len(o),
         o[k].name = "svc_list" => c.level # 0,
         NEW X, o[k].name = "chunk" => o[k].arg \in X,
         NEW r, NEW l, NEW M, Numbered(c, M), M \subseteq Nat \X Frag,
         Agreed(c, s, o, k - 1, r, l, X, M)
  PROVE  Parse(c, o[k]).crossed \/ Agreed(Parse(c, o[k]), s, o, k, r, l, X, M)
<1> DEFINE m == o[k]
<1>1. m \in Item /\ Len(o) \in Nat
  BY ElementOfSeq, LenProperties
<1>2. Agreed(c, s, o, k, r, l, X, M)
  BY <1>1, AgreedItem
<1>3. m.name = "chunk" /\ m.arg \in Frag => Agreed(ParseChunk(c, m.arg), s, o, k, r, l, X, M)
  <2> DEFINE data == m.arg
  <2> HAVE m.name = "chunk" /\ data \in Frag
  <2>1. c.method = "DL_QWCHUNKS" => From(data, c.name)
    BY <1>2 DEF Agreed, Fresh
  <2> HIDE DEF data
  <2>2. c.method = "DL_QWCHUNKS" => data[1] = c.name
    <3>1. PICK f \in File, b \in Nat : data = <<f, b>>
      BY DEF Frag
    <3>2. data # <<>>
      BY <3>1
    <3> QED BY <2>1, <3>2 DEF From
  <2>3. Agreed(ParseChunk(c, data), s, o, k, r, l, X, M)
    BY <1>2, <2>2, ParseChunkAgreed
  <2> QED BY <2>3 DEF data
<1> HIDE DEF m
<1>4. m \in Stuff => Agreed([c EXCEPT !.cbuf = @ \o m.arg], s, o, k, r, l, X, M)
  <2> HAVE m \in Stuff
  <2>1. Alike(c, [c EXCEPT !.cbuf = @ \o m.arg])
    BY StuffSound
  <2> QED BY <1>2, <2>1, AlikeAgreed
<1>5. m.arg \in 1 .. MaxLevel => Agreed(ParseServerData(c, m.arg), s, o, k, r, l, X, M)
  BY <1>2, ParseServerDataAlike, AlikeAgreed
<1>6. m.name = "svc_list" => ParseList(c).crossed \/ Agreed(ParseList(c), s, o, k, r, l, X, M)
  BY <1>2, ParseListAgreed DEF m
<1>7. m.name = "svc_download" /\ m.arg \in File \cup {None} =>
        ParseStart(c, m.arg).crossed \/ Agreed(ParseStart(c, m.arg), s, o, k, r, l, X, M)
  BY <1>1, ParseStartAgreed DEF m
<1>8. \/ Parse(c, m) = c
      \/ m \in Stuff /\ Parse(c, m) = [c EXCEPT !.cbuf = @ \o m.arg]
      \/ m.arg \in 1 .. MaxLevel /\ Parse(c, m) = ParseServerData(c, m.arg)
      \/ m.name = "svc_list" /\ Parse(c, m) = ParseList(c)
      \/ /\ m.name = "svc_download" /\ m.arg \in File \cup {None}
         /\ Parse(c, m) = ParseStart(c, m.arg)
      \/ m.name = "chunk" /\ m.arg \in Frag /\ Parse(c, m) = ParseChunk(c, m.arg)
  BY <1>1, ParseIs
<1>9. Parse(c, m).crossed \/ Agreed(Parse(c, m), s, o, k, r, l, X, M)
  BY <1>2, <1>3, <1>4, <1>5, <1>6, <1>7, <1>8
<1> QED BY <1>9 DEF m

-----------------------------------------------------------------------------
(* CL_RequestADownloadChunk finds a block that is wanted, or there is none.*)
LEMMA RequestIs ==
  ASSUME NEW c
  PROVE  \/ RequestADownloadChunk(c) = -1 /\ \A k \in 1 .. MAXBLOCKS : ~Wanted(c, k)
         \/ RequestADownloadChunk(c) \in 1 .. MAXBLOCKS
<1> DEFINE ks == {k \in 1 .. MAXBLOCKS : Wanted(c, k)}
<1>1. RequestADownloadChunk(c) = IF ks = {} THEN -1 ELSE Min(ks)
  BY DEF RequestADownloadChunk
<1>2. ks \in SUBSET Nat /\ ks \subseteq 1 .. MAXBLOCKS
  BY BlocksArePos
<1>3. CASE ks = {}
  BY <1>1, <1>3
<1>4. CASE ks # {}
  <2>1. Min(ks) \in ks
    <3> HIDE DEF ks
    <3> QED BY <1>2, <1>4, MinIsLeast
  <2> HIDE DEF ks
  <2> QED BY <1>1, <1>2, <1>4, <2>1
<1> QED BY <1>3, <1>4

(* With none wanted, every block is there: one of the round is firstblock  *)
(* itself, which has not come in unless it is the end of the file.         *)
LEMMA AllHere ==
  ASSUME NEW c, Sound(c), Stored(c), c.method = "DL_QWCHUNKS",
         \A k \in 1 .. MAXBLOCKS : ~Wanted(c, k)
  PROVE  Whole(c)
<1>1. /\ MAXBLOCKS \in Nat \ {0} /\ c.cycle \in 0 .. MAXBLOCKS - 1
      /\ c.first \in Nat /\ c.size \in Nat /\ c.first <= c.size
  BY BlocksArePos DEF Sound, Client, Window
<1>2. 0 % MAXBLOCKS = 0
  BY <1>1
<1> DEFINE k == MAXBLOCKS - c.cycle
<1>3. k \in 1 .. MAXBLOCKS /\ c.cycle + k = 0 + MAXBLOCKS
  BY <1>1
<1>4. (c.cycle + k) % MAXBLOCKS = 0
  BY <1>1, <1>2, <1>3, Turn
<1> HIDE DEF k
<1>5. ((c.cycle + k) % MAXBLOCKS) + c.first = c.first
  BY <1>1, <1>4
<1>6. ~(~c.got[Place(c.first)] /\ c.first < c.size)
  BY <1>3, <1>5 DEF Wanted, Place
<1>7. c.first = c.size
  BY <1>1, <1>6 DEF Stored
<1>8. /\ c.size = Blocks[c.name] /\ c.content \in [0 .. c.size - 1 -> Block]
      /\ \A b \in 0 .. c.size - 1 : b < c.first => c.content[b] = <<c.name, b>>
  BY DEF Stored
<1>9. \A b \in 0 .. c.size - 1 : b < c.first
  BY <1>1, <1>7
<1>10. c.content = [b \in 0 .. c.size - 1 |-> <<c.name, b>>]
  BY <1>8, <1>9
<1> QED BY <1>8, <1>10 DEF Whole

(* One round of CL_SendChunkDownloadReq.                                   *)
Requests(r) ==
  /\ r \in [c : Client, asked : Seq(Request)] /\ Sound(r.c)
  /\ \A j \in 1 .. Len(r.asked) : r.asked[j].arg[2] <= r.c.number

StopCmd(c) == Cmd("nextdl", <<-1, c.number>>)

(* A round does nothing, ends the file, or asks for a block.               *)
LEMMA RequestChunkIs ==
  ASSUME NEW r, Requests(r)
  PROVE  \/ RequestChunk(r) = r
         \/ /\ r.c.method = "DL_QWCHUNKS" /\ \A k \in 1 .. MAXBLOCKS : ~Wanted(r.c, k)
            /\ RequestChunk(r) = [r EXCEPT !.c = FinishDownload(Stage(r.c, StopCmd(r.c)), TRUE)]
         \/ \E y \in 0 .. MAXBLOCKS - 1, b \in Nat :
              RequestChunk(r) = [c |-> [r.c EXCEPT !.cycle = y],
                                 asked |-> Append(r.asked, Cmd("nextdl", <<b, r.c.number>>))]
<1> DEFINE c == r.c
           k == RequestADownloadChunk(c)
           b == ((c.cycle + k) % MAXBLOCKS) + c.first
           y == (c.cycle + k) % MAXBLOCKS
<1>1. c \in Client /\ c.cycle \in 0 .. MAXBLOCKS - 1 /\ c.first \in Nat /\ MAXBLOCKS \in Nat \ {0}
  BY BlocksArePos DEF Requests, Sound, Client
<1>2. CASE c.method # "DL_QWCHUNKS"
  BY <1>2 DEF RequestChunk
<1>3. CASE c.method = "DL_QWCHUNKS" /\ k \notin 1 .. MAXBLOCKS
  <2>1. k = -1 /\ \A j \in 1 .. MAXBLOCKS : ~Wanted(c, j)
    BY <1>3, RequestIs
  <2>2. k < 0
    BY <2>1
  <2> HIDE DEF k
  <2>3. RequestChunk(r) = [r EXCEPT !.c = FinishDownload(Stage(c, StopCmd(c)), TRUE)]
    BY <1>3, <2>2 DEF RequestChunk, k, StopCmd
  <2> QED BY <1>3, <2>1, <2>3
<1>4. CASE c.method = "DL_QWCHUNKS" /\ k \in 1 .. MAXBLOCKS
  <2>1. ~(k < 0) /\ k \in Int
    BY <1>4
  <2>2. RequestChunk(r) = [c |-> [c EXCEPT !.cycle = (@ + k) % MAXBLOCKS],
                           asked |-> Append(r.asked, Cmd("nextdl", <<b, c.number>>))]
    BY <1>4, <2>1 DEF RequestChunk
  <2>3. [c EXCEPT !.cycle = (@ + k) % MAXBLOCKS] = [c EXCEPT !.cycle = y]
    BY <1>1 DEF Client
  <2>4. y \in 0 .. MAXBLOCKS - 1 /\ b = y + c.first
    <3> HIDE DEF k
    <3>1. c.cycle + k \in Int
      BY <1>1, <2>1
    <3> QED BY <1>1, <3>1
  <2> HIDE DEF y, b
  <2>5. b \in Nat
    BY <1>1, <2>4
  <2> QED BY <2>2, <2>3, <2>4, <2>5
<1> QED BY <1>2, <1>3, <1>4

(* A round leaves a sound client, and requests that bear no later number.  *)
LEMMA RequestChunkSound ==
  ASSUME NEW r, Requests(r)
  PROVE  Requests(RequestChunk(r)) /\ Keeps(r.c, RequestChunk(r).c)
<1>1. r.c \in Client /\ Sound(r.c) /\ r.asked \in Seq(Request) /\ Keeps(r.c, r.c)
  BY KeepsSelf DEF Requests
<1>2. CASE RequestChunk(r) = r
  BY <1>1, <1>2
<1>3. CASE RequestChunk(r) = [r EXCEPT !.c = FinishDownload(Stage(r.c, StopCmd(r.c)), TRUE)]
  <2> DEFINE c == Stage(r.c, StopCmd(r.c))
             d == FinishDownload(c, TRUE)
  <2>1. StopCmd(r.c) \in ClientCmd /\ StopCmd(r.c).name # "list"
    BY <1>1 DEF StopCmd, Cmd, ClientCmd, Client
  <2>2. Sound(c) /\ Keeps(r.c, c)
    BY <1>1, <2>1, StageSound
  <2> HIDE DEF c
  <2>3. Sound(d) /\ Keeps(c, d)
    BY <2>2, FinishDownloadSound
  <2> HIDE DEF d
  <2>4. c \in Client /\ d \in Client
    BY <2>2, <2>3 DEF Sound
  <2>5. Keeps(r.c, d)
    BY <1>1, <2>2, <2>3, <2>4, KeepsOn
  <2>6. RequestChunk(r).c = d /\ RequestChunk(r).asked = r.asked
        /\ RequestChunk(r) \in [c : Client, asked : Seq(Request)]
    BY <1>1, <1>3, <2>4 DEF c, d, Requests
  <2>7. r.c.number \in Nat /\ d.number \in Nat /\ r.c.number <= d.number
    BY <1>1, <2>4, <2>5 DEF Client, Keeps
  <2>8. \A j \in 1 .. Len(r.asked) : r.asked[j].arg[2] \in Nat
    <3> TAKE j \in 1 .. Len(r.asked)
    <3>1. r.asked[j] \in Request
      BY <1>1, ElementOfSeq
    <3> QED BY <3>1 DEF Request
  <2>9. \A j \in 1 .. Len(r.asked) : r.asked[j].arg[2] <= d.number
    BY <2>7, <2>8 DEF Requests
  <2> QED BY <2>3, <2>5, <2>6, <2>9 DEF Requests
<1>4. ASSUME NEW y \in 0 .. MAXBLOCKS - 1, NEW b \in Nat,
             RequestChunk(r) = [c |-> [r.c EXCEPT !.cycle = y],
                                asked |-> Append(r.asked, Cmd("nextdl", <<b, r.c.number>>))]
      PROVE  Requests(RequestChunk(r)) /\ Keeps(r.c, RequestChunk(r).c)
  <2> DEFINE c == r.c
             d == [c EXCEPT !.cycle = y]
             cmd == Cmd("nextdl", <<b, c.number>>)
             asked == Append(r.asked, cmd)
  <2>1. /\ d \in Client /\ d.first = c.first /\ d.size = c.size /\ d.got = c.got
        /\ d.staged = c.staged /\ d.out = c.out /\ d.number = c.number /\ (c.crossed => d.crossed)
        /\ d.level = c.level /\ d.type = c.type
    BY <1>1 DEF Client
  <2>2. Sound(d) /\ Keeps(c, d)
    <3> HIDE DEF d
    <3> QED BY <1>1, <2>1, StillSound
  <2>3. c.number \in Nat
    BY <1>1 DEF Client
  <2>4. cmd \in Request /\ cmd.arg[2] = c.number
    BY <2>3 DEF Cmd, Request
  <2> HIDE DEF cmd, d
  <2>5. /\ asked \in Seq(Request) /\ Len(asked) = Len(r.asked) + 1 /\ Len(r.asked) \in Nat
        /\ \A i \in 1 .. Len(r.asked) : asked[i] = r.asked[i]
        /\ asked[Len(r.asked) + 1] = cmd
    BY <1>1, <2>4, AppendItem
  <2>6. \A j \in 1 .. Len(r.asked) : r.asked[j].arg[2] <= c.number
    BY DEF Requests
  <2>7. \A j \in 1 .. Len(asked) : asked[j].arg[2] <= d.number
    <3> TAKE j \in 1 .. Len(asked)
    <3>1. CASE j \in 1 .. Len(r.asked)
      BY <2>1, <2>5, <2>6, <3>1
    <3>2. CASE j = Len(r.asked) + 1
      BY <2>1, <2>3, <2>4, <2>5, <3>2
    <3>3. j \in 1 .. Len(r.asked) \/ j = Len(r.asked) + 1
      BY <2>5
    <3> QED BY <3>1, <3>2, <3>3
  <2> HIDE DEF asked
  <2>8. RequestChunk(r) = [c |-> d, asked |-> asked]
    BY <1>4 DEF asked, d, cmd
  <2> QED BY <2>1, <2>2, <2>5, <2>7, <2>8 DEF Requests
<1> QED BY <1>2, <1>3, <1>4, RequestChunkIs

(* A round keeps what is agreed on: a file that is ended is whole.         *)
LEMMA RequestChunkAgreed ==
  ASSUME NEW r, Requests(r), NEW s, NEW o, NEW k, NEW p, NEW l, NEW X, NEW M,
         Agreed(r.c, s, o, k, p, l, X, M)
  PROVE  RequestChunk(r).c.crossed \/ Agreed(RequestChunk(r).c, s, o, k, p, l, X, M)
<1>1. r.c \in Client /\ Sound(r.c) /\ r.asked \in Seq(Request)
  BY DEF Requests
<1>2. CASE RequestChunk(r) = r
  BY <1>2
<1>3. ASSUME r.c.method = "DL_QWCHUNKS", \A j \in 1 .. MAXBLOCKS : ~Wanted(r.c, j),
             RequestChunk(r) = [r EXCEPT !.c = FinishDownload(Stage(r.c, StopCmd(r.c)), TRUE)]
      PROVE  RequestChunk(r).c.crossed \/ Agreed(RequestChunk(r).c, s, o, k, p, l, X, M)
  <2> DEFINE b == r.c
             c == Stage(b, StopCmd(b))
             d == FinishDownload(c, TRUE)
  <2>1. /\ StopCmd(b) \in ClientCmd /\ StopCmd(b).name # "list" /\ StopCmd(b).name # "download"
        /\ b.staged \in Seq(ClientCmd)
    BY <1>1 DEF StopCmd, Cmd, ClientCmd, Client
  <2>2. Sound(c) /\ c = [b EXCEPT !.staged = Append(b.staged, StopCmd(b))]
    BY <1>1, <2>1, StageSound
  <2>3. At(Append(b.staged, StopCmd(b)), 0, "download") = At(b.staged, 0, "download")
    BY <2>1, AtAppend
  <2>4. Whole(b) /\ Fine(b) /\ Silent(b, s, o, k, p, l)
    BY <1>1, <1>3, AllHere, AgreedIdle DEF Agreed
  <2>5. /\ c.staged = Append(b.staged, StopCmd(b)) /\ c.name = b.name /\ c.size = b.size
        /\ c.content = b.content /\ c.disk = b.disk /\ c.state = b.state
    BY <1>1, <2>2 DEF Client
  <2> HIDE DEF b, c
  <2>6. Whole(c) /\ Fine(c) /\ Silent(c, s, o, k, p, l)
    BY <2>3, <2>4, <2>5 DEF Whole, Fine, Silent, Asking
  <2>7. d.crossed \/ Agreed(d, s, o, k, p, l, X, M)
    BY <2>2, <2>6, FinishDownloadAgreed
  <2> HIDE DEF d
  <2>8. RequestChunk(r).c = d
    BY <1>3 DEF Requests, b, c, d
  <2> QED BY <2>7, <2>8
<1>4. ASSUME NEW y \in 0 .. MAXBLOCKS - 1, NEW b \in Nat,
             RequestChunk(r) = [c |-> [r.c EXCEPT !.cycle = y],
                                asked |-> Append(r.asked, Cmd("nextdl", <<b, r.c.number>>))]
      PROVE  Agreed(RequestChunk(r).c, s, o, k, p, l, X, M)
  <2>1. Alike(r.c, [r.c EXCEPT !.cycle = y])
    BY <1>1 DEF Client, Alike, SameTalk, Asking
  <2>2. Agreed([r.c EXCEPT !.cycle = y], s, o, k, p, l, X, M)
    BY <2>1, AlikeAgreed
  <2> QED BY <1>4, <2>2
<1> QED BY <1>2, <1>3, <1>4, RequestChunkIs

(* All its rounds.                                                         *)
LEMMA SendChunkDownloadReqSound ==
  ASSUME NEW c, Sound(c), NEW s, NEW o, NEW k, NEW p, NEW l, NEW X, NEW M,
         NEW P, P \/ c.crossed \/ Agreed(c, s, o, k, p, l, X, M)
  PROVE  LET r == SendChunkDownloadReq(c)
         IN  /\ Requests(r) /\ Keeps(c, r.c)
             /\ r.c.method = "DL_QWCHUNKS" => c.method = "DL_QWCHUNKS"
             /\ P \/ r.c.crossed \/ Agreed(r.c, s, o, k, p, l, X, M)
<1> DEFINE S == {r \in [c : Client, asked : Seq(Request)] :
                   /\ Requests(r) /\ Keeps(c, r.c)
                   /\ r.c.method = "DL_QWCHUNKS" => c.method = "DL_QWCHUNKS"
                   /\ P \/ r.c.crossed \/ Agreed(r.c, s, o, k, p, l, X, M)}
           rounds == [i \in 1 .. ChunksPerFrame |-> i]
           n == Len(rounds)
           G == [i \in 0 .. n |-> S]
           r0 == [c |-> c, asked |-> <<>>]
<1>1. c \in Client /\ n \in Nat
  <2>1. ChunksPerFrame \in Nat
    BY BoundsAreNats
  <2>2. rounds \in Seq(Nat)
    BY <2>1
  <2> HIDE DEF rounds
  <2>3. n \in Nat
    BY <2>2, LenProperties
  <2> QED BY <2>3 DEF Sound
<1> HIDE DEF rounds
<1>2. r0 \in S
  <2>1. <<>> \in Seq(Request) /\ Len(<<>>) = 0
    OBVIOUS
  <2>2. r0.c = c /\ r0.asked = <<>> /\ r0 \in [c : Client, asked : Seq(Request)]
    BY <1>1, <2>1
  <2> HIDE DEF r0
  <2>3. Requests(r0)
    BY <2>1, <2>2 DEF Requests
  <2>4. Keeps(c, r0.c)
    BY <1>1, <2>2, KeepsSelf
  <2> QED BY <2>2, <2>3, <2>4
<1>3. \A r \in S : RequestChunk(r) \in S
  <2> TAKE r \in S
  <2>1. Requests(r) /\ Keeps(c, r.c) /\ (P \/ r.c.crossed \/ Agreed(r.c, s, o, k, p, l, X, M))
    OBVIOUS
  <2> DEFINE d == RequestChunk(r)
  <2>2. Requests(d) /\ Keeps(r.c, d.c)
    BY <2>1, RequestChunkSound
  <2>3. Agreed(r.c, s, o, k, p, l, X, M) => d.c.crossed \/ Agreed(d.c, s, o, k, p, l, X, M)
    BY <2>1, RequestChunkAgreed
  <2> HIDE DEF d
  <2>4. r.c \in Client /\ d.c \in Client /\ d \in [c : Client, asked : Seq(Request)]
    BY <2>1, <2>2 DEF Requests
  <2>5. Keeps(c, d.c)
    BY <1>1, <2>1, <2>2, <2>4, KeepsOn
  <2>6. P \/ d.c.crossed \/ Agreed(d.c, s, o, k, p, l, X, M)
    BY <2>1, <2>2, <2>3 DEF Keeps
  <2>7. d.c.method = "DL_QWCHUNKS" => c.method = "DL_QWCHUNKS"
    <3>1. r.c.method # "DL_QWCHUNKS" => d = r
      BY DEF d, RequestChunk
    <3> QED BY <3>1
  <2>8. d \in S
    BY <2>2, <2>4, <2>5, <2>6, <2>7
  <2> QED BY <2>8 DEF d
<1>4. \A i \in 1 .. n : \A r \in G[i - 1] : RequestChunk(r) \in G[i]
  <2> HIDE DEF S
  <2> TAKE i \in 1 .. n
  <2>1. i - 1 \in 0 .. n /\ i \in 0 .. n
    BY <1>1
  <2> QED BY <1>3, <2>1
<1>5. G \in [0 .. n -> SUBSET S] /\ r0 \in G[0] /\ G[n] = S
  BY <1>1, <1>2
<1> HIDE DEF G, S, r0
<1>6. Through(LAMBDA x, i : RequestChunk(x), r0, rounds) \in G[n]
  BY <1>1, <1>4, <1>5, ThroughRequests
<1>7. SendChunkDownloadReq(c) \in S
  BY <1>5, <1>6 DEF SendChunkDownloadReq, r0, rounds
<1> QED BY <1>7 DEF S

-----------------------------------------------------------------------------
(* The server.  A server that has answered nothing since.                  *)
SameServer(s, t) ==
  /\ t.download = s.download
  /\ Answering(t) \subseteq Answering(s) /\ \A i \in Answering(t) : t.staged[i] = s.staged[i]

(* A server that has answered nothing since agrees to the same.            *)
LEMMA AgreedServer ==
  ASSUME NEW c, NEW s, NEW o, NEW k, NEW r, NEW l, NEW X, NEW M, Agreed(c, s, o, k, r, l, X, M),
         NEW t, SameServer(s, t), NEW Y, Fresh(c, o, k, Y), NEW N, ProperOOB(c, N)
  PROVE  Agreed(c, t, o, k, r, l, Y, N)
<1>1. Token(c, t, o, k, r, l)
  BY DEF Agreed, Token, SameServer, Lone
<1>2. Order(c, t, o, k, r, l)
  BY DEF Agreed, Order, SameServer
<1> QED BY <1>1, <1>2 DEF Agreed

(* A command of the client's has been read.                                *)
LEMMA AgreedCmd ==
  ASSUME NEW c, NEW s, NEW o, NEW k, NEW r, Len(r) \in Nat, NEW l \in 1 .. Len(r), NEW X, NEW M,
         Agreed(c, s, o, k, r, l - 1, X, M)
  PROVE  Agreed(c, s, o, k, r, l, X, M)
<1>1. Asked(r, l) \subseteq Asked(r, l - 1) /\ Stops(r, l) \subseteq Stops(r, l - 1)
  BY AtNext DEF Asked
<1>2. \A i \in Asked(r, l) : r[i] = r[i]
  OBVIOUS
<1>3. Answer(o, k) \subseteq Answer(o, k) /\ X \subseteq X /\ M \subseteq M /\ \A i \in Answer(o, k) : o[i] = o[i]
  OBVIOUS
<1> QED BY <1>1, <1>2, <1>3, AgreedLess

(* The next chunk goes into the packet, or outside the channel.            *)
ChunkOf(s, t, number) ==
  /\ t \in Server /\ t.download = s.download /\ t.staged = s.staged /\ t.out = s.out
  /\ t.level = s.level /\ t.spawned = s.spawned
  /\ t.datagram = s.datagram \/ t.datagram[1] = s.download
  /\ \A m \in t.chunks : m \in s.chunks \/ (m[1] = number /\ m[2][1] = s.download)

(* SV_NextChunkedDownload sends at most one chunk of the file that is      *)
(* open.                                                                   *)
LEMMA NextChunkIs ==
  ASSUME NEW s \in Server, s.download # None, NEW b \in Nat, NEW number \in Nat
  PROVE  ChunkOf(s, NextChunk(s, b, number), number)
<1> DEFINE data == <<s.download, b>>
           n == s.sent + 1
           t == [s EXCEPT !.sent = n]
           C == s.chunks \cup {<<number, data>>}
           u == [s EXCEPT !.sent = n, !.chunks = C]
           v == [s EXCEPT !.sent = n, !.datagram = data]
<1>1. s.download \in File /\ n \in Nat /\ MaxChunks \in Nat /\ s.sent \in Nat
  BY BoundsAreNats DEF Server
<1>2. ChunkOf(s, s, number)
  BY DEF ChunkOf
<1> HIDE DEF n
<1>3. ChunkOf(s, t, number)
  BY <1>1 DEF ChunkOf, Server
<1>4. b < Blocks[s.download] => data \in Frag /\ data[1] = s.download
  BY <1>1 DEF Frag
<1> HIDE DEF data
<1>5. ASSUME b < Blocks[s.download] PROVE ChunkOf(s, u, number)
  <2>1. C \subseteq Nat \X Frag
    BY <1>4, <1>5 DEF Server
  <2>2. \A m \in C : m \in s.chunks \/ (m[1] = number /\ m[2][1] = s.download)
    BY <1>4, <1>5
  <2> HIDE DEF C
  <2> QED BY <1>1, <2>1, <2>2 DEF ChunkOf, Server
<1>6. ASSUME b < Blocks[s.download] PROVE ChunkOf(s, v, number)
  <2>1. data \in Block /\ data[1] = s.download
    BY <1>4, <1>6 DEF Block
  <2> QED BY <1>1, <2>1 DEF ChunkOf, Server
<1>7. \/ NextChunk(s, b, number) = s
      \/ NextChunk(s, b, number) = t
      \/ b < Blocks[s.download] /\ NextChunk(s, b, number) = u
      \/ b < Blocks[s.download] /\ NextChunk(s, b, number) = v
  <2> DEFINE x == [t EXCEPT !.chunks = @ \cup {<<number, data>>}]
             y == [t EXCEPT !.datagram = data]
  <2>1. x = u /\ y = v
    BY DEF Server
  <2>2. NextChunk(s, b, number) =
          CASE s.sent > 0 /\ (s.sent >= MaxChunks \/ number < 1) -> s
            [] s.sent = 0 /\ s.datagram # <<>> -> s
            [] s.sent > 0 /\ s.sent < MaxChunks /\ number >= 1 ->
                 IF b < Blocks[s.download] THEN x ELSE t
            [] OTHER -> IF b < Blocks[s.download] THEN y ELSE t
    BY DEF NextChunk, data, n
  <2> HIDE DEF x, y, t
  <2>3. \/ NextChunk(s, b, number) = s
        \/ NextChunk(s, b, number) = t
        \/ b < Blocks[s.download] /\ NextChunk(s, b, number) = x
        \/ b < Blocks[s.download] /\ NextChunk(s, b, number) = y
    BY <1>1, <2>2
  <2> QED BY <2>1, <2>3
<1> HIDE DEF t, u, v
<1> QED BY <1>2, <1>3, <1>5, <1>6, <1>7

(* A chunk keeps what is agreed on: the server has the file open that the  *)
(* client stores, or will.                                                 *)
LEMMA ChunkAgreed ==
  ASSUME NEW c, NEW s, NEW o, NEW k, NEW r, NEW l, NEW M,
         Agreed(c, s, o, k, r, l, {s.datagram}, M \cup s.chunks),
         NEW t, NEW number, ChunkOf(s, t, number)
  PROVE  Agreed(c, t, o, k, r, l, {t.datagram}, M \cup t.chunks)
<1>1. SameServer(s, t)
  BY DEF SameServer, ChunkOf, Answering
<1>2. Answered(o, k) => s.download = c.name
  BY DEF Agreed, Token, Answered
<1>3. c.method = "DL_QWCHUNKS" => s.download = c.name
  BY DEF Agreed, Order
<1>4. Fresh(c, o, k, {t.datagram})
  BY <1>2, <1>3 DEF Agreed, Fresh, From, ChunkOf
<1>5. ProperOOB(c, M \cup t.chunks)
  BY <1>3 DEF Agreed, ProperOOB, ChunkOf
<1> QED BY <1>1, <1>4, <1>5, AgreedServer

(* A server that has said nothing of a file, and has the same one open.    *)
Kept(s, t) == /\ SameServer(s, t)
              /\ t.out = s.out /\ t.datagram = s.datagram /\ t.chunks = s.chunks

(* A server that has kept what it had agrees to the same.                  *)
LEMMA KeptAgreed ==
  ASSUME NEW c, NEW s, NEW o, NEW k, NEW r, NEW l, NEW M,
         Agreed(c, s, o, k, r, l, {s.datagram}, M \cup s.chunks), NEW t, Kept(s, t)
  PROVE  Agreed(c, t, o, k, r, l, {t.datagram}, M \cup t.chunks)
<1>1. Fresh(c, o, k, {t.datagram}) /\ ProperOOB(c, M \cup t.chunks)
  BY DEF Agreed, Kept
<1> QED BY <1>1, AgreedServer DEF Kept

(* Keeping is transitive.                                                  *)
LEMMA KeptOn ==
  ASSUME NEW s, NEW t, NEW u, Kept(s, t), Kept(t, u)
  PROVE  Kept(s, u)
  BY DEF Kept, SameServer

(* Something else is said.                                                 *)
LEMMA SayKept ==
  ASSUME NEW c, NEW s, Fit(c, s), NEW m \in ServerItem, m.name # "svc_download",
         m.name = "svc_list" => c.level # 0
  PROVE  LET t == [s EXCEPT !.staged = Append(@, m)] IN Fit(c, t) /\ Kept(s, t)
<1> DEFINE staged == Append(s.staged, m)
           t == [s EXCEPT !.staged = staged]
<1>1. s \in Server /\ s.staged \in Seq(ServerItem)
  BY DEF Fit, Server
<1>2. [s EXCEPT !.staged = Append(@, m)] = t
  BY <1>1 DEF Server
<1>3. /\ staged \in Seq(ServerItem)
      /\ At(staged, 0, "svc_download") = At(s.staged, 0, "svc_download")
      /\ \A i \in At(s.staged, 0, "svc_download") : staged[i] = s.staged[i]
      /\ m.name # "svc_list" => At(staged, 0, "svc_list") = At(s.staged, 0, "svc_list")
  <2>1. staged \in Seq(ServerItem) /\ \A i \in 1 .. Len(s.staged) : staged[i] = s.staged[i]
    BY <1>1, AppendItem
  <2>2. At(staged, 0, "svc_download") = At(s.staged, 0, "svc_download")
    BY <1>1, AtAppend
  <2>3. m.name # "svc_list" => At(staged, 0, "svc_list") = At(s.staged, 0, "svc_list")
    BY <1>1, AtAppend
  <2>4. At(s.staged, 0, "svc_download") \subseteq 1 .. Len(s.staged)
    BY DEF At
  <2> HIDE DEF staged
  <2> QED BY <2>1, <2>2, <2>3, <2>4
<1> HIDE DEF staged
<1>4. /\ t \in Server /\ t.staged = staged /\ t.download = s.download /\ t.out = s.out
      /\ t.datagram = s.datagram /\ t.chunks = s.chunks /\ t.level = s.level
  BY <1>1, <1>3 DEF Server
<1> HIDE DEF t
<1>5. Kept(s, t)
  BY <1>3, <1>4 DEF Kept, SameServer, Answering
<1>6. Fit(c, t)
  BY <1>3, <1>4 DEF Fit, NotListed
<1> QED BY <1>2, <1>5, <1>6

(* Nothing that was staged is said.                                        *)
LEMMA ClearKept ==
  ASSUME NEW c, NEW s, Fit(c, s)
  PROVE  LET t == [s EXCEPT !.staged = <<>>] IN Fit(c, t) /\ Kept(s, t)
<1> DEFINE t == [s EXCEPT !.staged = <<>>]
<1>1. <<>> \in Seq(ServerItem) /\ \A name : At(<<>>, 0, name) = {}
  BY DEF At
<1>2. /\ t \in Server /\ t.staged = <<>> /\ t.download = s.download /\ t.out = s.out
      /\ t.datagram = s.datagram /\ t.chunks = s.chunks /\ t.level = s.level
  BY <1>1 DEF Server, Fit
<1> HIDE DEF t
<1>3. Kept(s, t)
  BY <1>1, <1>2 DEF Kept, SameServer, Answering
<1>4. Fit(c, t)
  BY <1>1, <1>2 DEF Fit, NotListed
<1> QED BY <1>3, <1>4 DEF t

(* The level is told.                                                      *)
LEMMA NewKept ==
  ASSUME NEW c, NEW s, Fit(c, s), spawncount \in 1 .. MaxLevel
  PROVE  /\ Fit(c, New(s)) /\ Kept(s, New(s))
         /\ Fit(c, OtherLevel(s)) /\ Kept(s, OtherLevel(s))
<1>1. ASSUME NEW q, Fit(c, q) PROVE Fit(c, New(q)) /\ Kept(q, New(q))
  <2> DEFINE m == Cmd("svc_serverdata", spawncount)
             u == [q EXCEPT !.level = spawncount]
             t == [u EXCEPT !.staged = Append(@, m)]
  <2>1. m \in ServerItem /\ m.name \notin {"svc_download", "svc_list"}
    BY DEF Cmd, ServerItem
  <2>2. q \in Server /\ spawncount \in 0 .. MaxLevel /\ spawncount <= spawncount
    BY <1>1, NeedsAreFiles DEF Fit
  <2>3. /\ u \in Server /\ u.staged = q.staged /\ u.download = q.download /\ u.out = q.out
        /\ u.datagram = q.datagram /\ u.chunks = q.chunks /\ u.level = spawncount
    BY <2>2 DEF Server
  <2>4. New(q) = t
    BY <2>2 DEF New, Server
  <2> HIDE DEF m, u
  <2>5. Fit(c, u) /\ Kept(q, u)
    BY <1>1, <2>2, <2>3 DEF Fit, Kept, SameServer, Answering, NotListed
  <2>6. Fit(c, t) /\ Kept(u, t)
    BY <2>1, <2>5, SayKept
  <2> QED BY <2>4, <2>5, <2>6, KeptOn
<1>2. OtherLevel(s) = New([s EXCEPT !.staged = <<>>])
  BY DEF OtherLevel
<1>3. Fit(c, [s EXCEPT !.staged = <<>>]) /\ Kept(s, [s EXCEPT !.staged = <<>>])
  BY ClearKept
<1> QED BY <1>1, <1>2, <1>3, KeptOn

(* SV_CompleteDownoload: the client stores nothing any more.               *)
LEMMA CompleteDownloadFit ==
  ASSUME NEW c, NEW s, Fit(c, s)
  PROVE  Fit(c, CompleteDownload(s)) /\ Kept([s EXCEPT !.download = None], CompleteDownload(s))
<1> DEFINE u == [s EXCEPT !.download = None]
           v == [u EXCEPT !.staged = Append(@, StuffReconnect)]
<1>1. s \in Server
  BY DEF Fit
<1>2. /\ u \in Server /\ u.staged = s.staged /\ u.out = s.out
      /\ u.datagram = s.datagram /\ u.chunks = s.chunks /\ u.level = s.level
  BY <1>1 DEF Server
<1>3. StuffReconnect \in ServerItem /\ StuffReconnect.name = "stufftext"
  <2>1. <<"changing", "reconnect">> \in Seq(Word)
    BY DEF Word
  <2> QED BY <2>1 DEF StuffReconnect, Cmd, Stuff, ServerItem
<1>4. CompleteDownload(s) = IF s.level # spawncount THEN v ELSE u
  BY <1>1 DEF CompleteDownload, Server
<1> HIDE DEF u
<1>5. Fit(c, u) /\ Kept(u, u)
  BY <1>2 DEF Fit, NotListed, Kept, SameServer
<1>6. Fit(c, v) /\ Kept(u, v)
  BY <1>3, <1>5, SayKept
<1> HIDE DEF v
<1>7. Fit(c, CompleteDownload(s)) /\ Kept(u, CompleteDownload(s))
  BY <1>4, <1>5, <1>6
<1> QED BY <1>7 DEF u

(* What is agreed on while the server reads a packet, and that one command *)
(* of it has been executed.                                                *)
Reading(c, s, o, k, r, l, M) == Agreed(c, s, o, k, r, l, {s.datagram}, M \cup s.chunks)
Executed(c, s, t, o, k, r, l, M) ==
  Fit(c, t) /\ t.out = s.out /\ (Reading(c, s, o, k, r, l - 1, M) => Reading(c, t, o, k, r, l, M))

(* What was agreed on is so without the file.                              *)
LEMMA CompleteDownloadAgreed ==
  ASSUME NEW c, NEW s, Fit(c, s), NEW o, NEW k, NEW r, NEW l, NEW M,
         Reading(c, s, o, k, r, l, M), Stops(r, l) # {}
  PROVE  Reading(c, CompleteDownload(s), o, k, r, l, M)
<1> DEFINE u == [s EXCEPT !.download = None]
           t == CompleteDownload(s)
<1>1. u.staged = s.staged /\ u.datagram = s.datagram /\ u.chunks = s.chunks
  BY DEF Fit, Server
<1> HIDE DEF u
<1>2. c.method # "DL_QWCHUNKS" /\ Answering(s) = {} /\ Answer(o, k) = {}
  BY DEF Reading, Agreed, Order
<1>3. Answering(u) = {}
  BY <1>1, <1>2 DEF Answering
<1>4. Token(c, u, o, k, r, l) /\ Order(c, u, o, k, r, l)
  BY <1>2, <1>3 DEF Reading, Agreed, Token, Order, Lone
<1>5. Agreed(c, u, o, k, r, l, {u.datagram}, M \cup u.chunks)
  BY <1>1, <1>4 DEF Reading, Agreed
<1>6. Kept(u, t)
  BY CompleteDownloadFit DEF u
<1> HIDE DEF t
<1>7. Agreed(c, t, o, k, r, l, {t.datagram}, M \cup t.chunks)
  BY <1>5, <1>6, KeptAgreed
<1> QED BY <1>7 DEF t, Reading

(* The answer to the request for a file is said: it is the file that was   *)
(* asked for, or none.                                                     *)
LEMMA AnswerAgreed ==
  ASSUME NEW c, NEW s, NEW o, NEW k, NEW r, Len(r) \in Nat, NEW l \in 1 .. Len(r), NEW M,
         Agreed(c, s, o, k, r, l - 1, {s.datagram}, M \cup s.chunks), s.staged \in Seq(ServerItem),
         r[l].name = "download",
         NEW f \in File \cup {None}, f # None => f = r[l].arg,
         NEW t, t.download = f, t.staged = Append(s.staged, Cmd("svc_download", f))
  PROVE  Agreed(c, t, o, k, r, l, {t.datagram}, M \cup t.chunks)
<1> DEFINE m == Cmd("svc_download", f)
           n == Len(s.staged) + 1
<1>1. m \in ServerItem /\ m.name = "svc_download" /\ m.arg = f
  BY DEF Cmd, ServerItem
<1>2. l \in Asked(r, l - 1) /\ Asked(r, l) \subseteq Asked(r, l - 1) /\ l \notin Asked(r, l)
      /\ Stops(r, l) \subseteq Stops(r, l - 1)
  <2>1. /\ At(r, l - 1, "download") = At(r, l, "download") \cup {l} /\ l \notin At(r, l, "download")
        /\ Stops(r, l) \subseteq Stops(r, l - 1)
    BY AtNext
  <2> QED BY <2>1 DEF Asked
<1>3. /\ c.method = "DL_QW" /\ Asking(c) = {} /\ Asked(r, l) = {} /\ Answering(s) = {} /\ Answer(o, k) = {}
      /\ f # None => f = c.name
  BY <1>2 DEF Agreed, Token, Lone
<1>4. Stops(c.staged, 0) = {} /\ Stops(r, l) = {}
  <2>1. \A j \in Stops(r, l) : j > l
    BY DEF Stops, At
  <2>2. \A j \in Stops(r, l) : j < l
    BY <1>2 DEF Agreed, Order
  <2>3. Stops(r, l) = {}
    <3>1. \A j \in Stops(r, l) : j \in Int
      BY DEF Stops, At
    <3> QED BY <2>1, <2>2, <3>1
  <2> QED BY <1>2, <2>3 DEF Agreed, Order
<1>5. Answering(t) = {n} /\ t.staged[n] = m
  <2>1. At(Append(s.staged, m), 0, "svc_download") = At(s.staged, 0, "svc_download") \cup {n}
    BY <1>1, AtAppend
  <2>2. Append(s.staged, m)[n] = m
    BY <1>1, AppendItem
  <2> QED BY <1>3, <2>1, <2>2 DEF Answering
<1> HIDE DEF m, n
<1>6. Token(c, t, o, k, r, l)
  BY <1>1, <1>3, <1>5 DEF Token, Lone
<1>7. Order(c, t, o, k, r, l)
  BY <1>3, <1>4 DEF Agreed, Order
<1>8. Stored(c) /\ Fine(c) /\ Fresh(c, o, k, {t.datagram}) /\ ProperOOB(c, M \cup t.chunks)
  BY <1>3 DEF Agreed, Fresh, Answered, ProperOOB
<1> QED BY <1>6, <1>7, <1>8 DEF Agreed

(* Cmd_Download_f, and the chunk that goes with the answer.                *)
LEMMA StartDownloadIs ==
  ASSUME NEW c, NEW s, Fit(c, s), NEW f \in File
  PROVE  LET t == StartDownload(s, f)
             u(g) == [s EXCEPT !.download = g, !.staged = Append(@, Cmd("svc_download", g))]
         IN  \/ t = u(None) /\ Fit(c, t)
             \/ ChunkOf(u(f), t, 0) /\ Fit(c, u(f))
<1> DEFINE u(g) == [s EXCEPT !.download = g, !.staged = Append(@, Cmd("svc_download", g))]
<1>1. s \in Server /\ f # None
  BY NoneIsNoFile DEF Fit
<1>2. ASSUME NEW g \in File \cup {None} PROVE Fit(c, u(g)) /\ u(g).download = g
  <2> DEFINE m == Cmd("svc_download", g)
             staged == Append(s.staged, m)
             v == [s EXCEPT !.download = g, !.staged = staged]
  <2>1. m \in ServerItem /\ m.name = "svc_download" /\ s.staged \in Seq(ServerItem)
    BY <1>1 DEF Cmd, ServerItem, Server
  <2>2. staged \in Seq(ServerItem)
    BY <2>1, AppendItem
  <2>3. At(staged, 0, "svc_list") = At(s.staged, 0, "svc_list")
    BY <2>1, AtAppend
  <2>4. u(g) = v
    BY <1>1 DEF Server
  <2> HIDE DEF staged, u
  <2>5. v \in Server /\ v.staged = staged /\ v.level = s.level /\ v.chunks = s.chunks /\ v.download = g
    BY <1>1, <2>2 DEF Server
  <2> HIDE DEF v
  <2>6. Fit(c, v)
    BY <2>3, <2>5 DEF Fit, NotListed
  <2> QED BY <2>4, <2>5, <2>6
<1>3. CASE f \in Served
  <2>1. StartDownload(s, f) = NextDl(u(f), <<0, 0>>)
    BY <1>3 DEF StartDownload
  <2>2. Fit(c, u(f)) /\ u(f).download = f
    BY <1>2
  <2> HIDE DEF u
  <2>3. NextDl(u(f), <<0, 0>>) = NextChunk(u(f), 0, 0)
    BY <1>1, <2>2 DEF NextDl
  <2>4. ChunkOf(u(f), NextChunk(u(f), 0, 0), 0)
    BY <1>1, <2>2, NextChunkIs DEF Fit
  <2> QED BY <2>1, <2>2, <2>3, <2>4 DEF u
<1>4. CASE f \notin Served
  <2>1. StartDownload(s, f) = u(None)
    BY <1>4 DEF StartDownload
  <2>2. Fit(c, u(None))
    BY <1>2
  <2> QED BY <2>1, <2>2
<1> QED BY <1>3, <1>4

(* A chunk that is sent fits as well.                                      *)
LEMMA ChunkFit ==
  ASSUME NEW c, NEW s, Fit(c, s), NEW t, NEW number, number <= c.number, ChunkOf(s, t, number)
  PROVE  Fit(c, t)
  BY DEF Fit, ChunkOf, NotListed, Numbered

(* A command of the client's reliable stream is executed.                  *)
LEMMA ExecuteKept ==
  ASSUME NEW c, NEW s, Fit(c, s), spawncount \in 1 .. MaxLevel,
         NEW m, m.name \in {"new", "list", "prespawn"}, m.name = "list" => c.level # 0
  PROVE  Fit(c, Execute(s, m)) /\ Kept(s, Execute(s, m))
<1>1. /\ Fit(c, New(s)) /\ Kept(s, New(s))
      /\ Fit(c, OtherLevel(s)) /\ Kept(s, OtherLevel(s))
  BY NewKept
<1>2. CASE m.name = "new"
  <2>1. Execute(s, m) = New(s)
    BY <1>2 DEF Execute
  <2> QED BY <1>1, <2>1
<1>3. CASE m.name = "list"
  <2> DEFINE i == Cmd("svc_list", 0)
             t == [s EXCEPT !.staged = Append(@, i)]
  <2>1. Execute(s, m) = IF m.arg # spawncount THEN OtherLevel(s) ELSE t
    BY <1>3 DEF Execute
  <2>2. i \in ServerItem /\ i.name = "svc_list"
    BY DEF Cmd, ServerItem
  <2> HIDE DEF i
  <2>3. Fit(c, t) /\ Kept(s, t)
    BY <1>3, <2>2, SayKept
  <2> HIDE DEF t
  <2> QED BY <1>1, <2>1, <2>3
<1>4. CASE m.name = "prespawn"
  <2> DEFINE t == [s EXCEPT !.spawned = spawncount]
  <2>1. Execute(s, m) = IF m.arg # spawncount THEN OtherLevel(s) ELSE t
    BY <1>4 DEF Execute
  <2>2. /\ t \in Server /\ t.staged = s.staged /\ t.download = s.download /\ t.out = s.out
        /\ t.datagram = s.datagram /\ t.chunks = s.chunks /\ t.level = s.level
    <3>1. s \in Server /\ spawncount \in 0 .. MaxLevel
      BY NeedsAreFiles DEF Fit
    <3> QED BY <3>1 DEF Server
  <2> HIDE DEF t
  <2>3. Fit(c, t) /\ Kept(s, t)
    BY <2>2 DEF Fit, NotListed, Kept, SameServer, Answering
  <2> QED BY <1>1, <2>1, <2>3
<1> QED BY <1>2, <1>3, <1>4

(* The request for a file is executed, and the answer staged.              *)
LEMMA ExecuteDownload ==
  ASSUME NEW c \in Client, NEW s, Fit(c, s), NEW o, NEW k, NEW r, Len(r) \in Nat, NEW l \in 1 .. Len(r), NEW M,
         NEW f \in File, r[l] = Cmd("download", f)
  PROVE  Executed(c, s, StartDownload(s, f), o, k, r, l, M)
<1> DEFINE t == StartDownload(s, f)
           u(g) == [s EXCEPT !.download = g, !.staged = Append(@, Cmd("svc_download", g))]
<1>1. \/ t = u(None) /\ Fit(c, t)
      \/ ChunkOf(u(f), t, 0) /\ Fit(c, u(f))
  BY StartDownloadIs
<1>2. /\ s \in Server /\ s.staged \in Seq(ServerItem) /\ r[l].name = "download" /\ r[l].arg = f
      /\ 0 <= c.number
  BY DEF Fit, Server, Cmd, Client
<1>3. ASSUME NEW g \in File \cup {None}
      PROVE  /\ u(g).download = g /\ u(g).staged = Append(s.staged, Cmd("svc_download", g)) /\ u(g).out = s.out
  BY <1>2 DEF Server
<1>4. ASSUME NEW g \in File \cup {None}, g # None => g = f, Reading(c, s, o, k, r, l - 1, M)
      PROVE  Reading(c, u(g), o, k, r, l, M)
  <2> DEFINE v == u(g)
  <2>1. v.download = g /\ v.staged = Append(s.staged, Cmd("svc_download", g))
    BY <1>3
  <2> HIDE DEF v, u
  <2>2. Reading(c, v, o, k, r, l, M)
    BY <1>2, <1>4, <2>1, AnswerAgreed DEF Reading
  <2> QED BY <2>2 DEF v
<1> HIDE DEF u, t
<1>5. CASE t = u(None) /\ Fit(c, t)
  <2>1. t.out = s.out
    BY <1>3, <1>5
  <2>2. Reading(c, s, o, k, r, l - 1, M) => Reading(c, t, o, k, r, l, M)
    BY <1>4, <1>5
  <2> QED BY <1>5, <2>1, <2>2 DEF t, Executed
<1>6. CASE ChunkOf(u(f), t, 0) /\ Fit(c, u(f))
  <2>1. Fit(c, t) /\ t.out = u(f).out /\ u(f).out = s.out
    BY <1>2, <1>3, <1>6, ChunkFit DEF ChunkOf
  <2>2. Reading(c, s, o, k, r, l - 1, M) => Reading(c, u(f), o, k, r, l, M)
    BY <1>4
  <2>3. Reading(c, u(f), o, k, r, l, M) => Reading(c, t, o, k, r, l, M)
    BY <1>6, ChunkAgreed DEF Reading
  <2> QED BY <2>1, <2>2, <2>3 DEF t, Executed
<1> QED BY <1>1, <1>5, <1>6

(* The end of a file, or a request for a chunk.                            *)
LEMMA ExecuteStop ==
  ASSUME NEW c, NEW s, Fit(c, s), NEW o, NEW k, NEW r, Len(r) \in Nat, NEW l \in 1 .. Len(r), NEW M,
         r[l].name = "nextdl", r[l].arg[1] < 0
  PROVE  Executed(c, s, NextDl(s, r[l].arg), o, k, r, l, M)
<1> DEFINE t == NextDl(s, r[l].arg)
<1>1. Reading(c, s, o, k, r, l - 1, M) => Reading(c, s, o, k, r, l, M)
  BY AgreedCmd DEF Reading
<1>2. CASE s.download = None
  <2>1. t = s
    BY <1>2 DEF NextDl
  <2> QED BY <1>1, <2>1 DEF Executed
<1>3. CASE s.download # None
  <2>1. t = CompleteDownload(s)
    BY <1>3 DEF NextDl
  <2>2. Fit(c, t) /\ t.out = s.out
    <3>1. [s EXCEPT !.download = None].out = s.out
      BY DEF Fit, Server
    <3> QED BY <2>1, <3>1, CompleteDownloadFit DEF Kept
  <2>3. Stops(r, l - 1) # {}
    <3>1. l \in Stops(r, l - 1)
      BY DEF Stops, At
    <3> QED BY <3>1
  <2> HIDE DEF t
  <2>4. Reading(c, s, o, k, r, l - 1, M) => Reading(c, t, o, k, r, l - 1, M)
    BY <2>1, <2>3, CompleteDownloadAgreed
  <2>5. Reading(c, t, o, k, r, l - 1, M) => Reading(c, t, o, k, r, l, M)
    BY AgreedCmd DEF Reading
  <2> QED BY <2>2, <2>4, <2>5 DEF Executed, t
<1> QED BY <1>2, <1>3

(* A request for a chunk, outside the reliable stream, is executed.        *)
LEMMA ExecuteRequest ==
  ASSUME NEW c \in Client, NEW s, Fit(c, s), NEW o, NEW k, NEW r, NEW l, NEW M,
         NEW m \in Request, m.arg[2] <= c.number
  PROVE  LET t == Execute(s, m)
         IN  /\ Fit(c, t) /\ t.out = s.out
             /\ Reading(c, s, o, k, r, l, M) => Reading(c, t, o, k, r, l, M)
<1> DEFINE t == Execute(s, m)
<1>1. m.name = "nextdl" /\ m.arg[1] \in Nat /\ m.arg[2] \in Nat /\ ~(m.arg[1] < 0)
  BY DEF Request
<1>2. t = NextDl(s, m.arg)
  BY <1>1 DEF Execute
<1> HIDE DEF t
<1>3. CASE s.download = None
  <2>1. t = s
    BY <1>2, <1>3 DEF NextDl
  <2> QED BY <2>1 DEF t
<1>4. CASE s.download # None
  <2>1. t = NextChunk(s, m.arg[1], m.arg[2])
    BY <1>1, <1>2, <1>4 DEF NextDl
  <2>2. ChunkOf(s, t, m.arg[2])
    BY <1>1, <1>4, <2>1, NextChunkIs DEF Fit
  <2>3. Fit(c, t) /\ t.out = s.out
    BY <2>2, ChunkFit DEF ChunkOf
  <2>4. Reading(c, s, o, k, r, l, M) => Reading(c, t, o, k, r, l, M)
    BY <2>2, ChunkAgreed DEF Reading
  <2> QED BY <2>3, <2>4 DEF t
<1> QED BY <1>3, <1>4

(* Any command, at its place in what the packet brings.                    *)
LEMMA ExecuteReading ==
  ASSUME NEW c \in Client, NEW s, Fit(c, s), spawncount \in 1 .. MaxLevel,
         NEW o, NEW k, NEW r, Len(r) \in Nat, NEW l \in 1 .. Len(r), NEW M,
         r[l] \in ClientCmd \/ (r[l] \in Request /\ r[l].arg[2] <= c.number),
         r[l].name = "list" => c.level # 0
  PROVE  Executed(c, s, Execute(s, r[l]), o, k, r, l, M)
<1> DEFINE m == r[l]
           t == Execute(s, m)
<1>1. ASSUME NEW u PROVE Reading(c, u, o, k, r, l - 1, M) => Reading(c, u, o, k, r, l, M)
  BY AgreedCmd DEF Reading
<1>2. CASE m.name \in {"new", "list", "prespawn"}
  <2>1. Fit(c, t) /\ Kept(s, t)
    BY <1>2, ExecuteKept
  <2> HIDE DEF m, t
  <2>2. Reading(c, s, o, k, r, l - 1, M) => Reading(c, t, o, k, r, l - 1, M)
    BY <2>1, KeptAgreed DEF Reading
  <2> QED BY <1>1, <2>1, <2>2 DEF m, t, Kept, Executed
<1>3. CASE m \in [name : {"download"}, arg : File]
  <2>1. PICK f \in File : r[l] = Cmd("download", f)
    <3>1. m.arg \in File /\ m = Cmd("download", m.arg)
      BY <1>3 DEF Cmd
    <3> QED BY <3>1
  <2>2. t = StartDownload(s, f)
    BY <2>1 DEF Execute, Cmd
  <2>3. Executed(c, s, StartDownload(s, f), o, k, r, l, M)
    BY <2>1, ExecuteDownload
  <2> QED BY <2>2, <2>3
<1>4. CASE m \in [name : {"nextdl"}, arg : {-1} \X Nat]
  <2>1. r[l].name = "nextdl" /\ r[l].arg[1] < 0
    BY <1>4
  <2>2. t = NextDl(s, r[l].arg)
    BY <2>1 DEF Execute
  <2>3. Executed(c, s, NextDl(s, r[l].arg), o, k, r, l, M)
    BY <2>1, ExecuteStop
  <2> QED BY <2>2, <2>3
<1>5. CASE m \in Request /\ m.arg[2] <= c.number
  <2>1. /\ Fit(c, t) /\ t.out = s.out
        /\ Reading(c, s, o, k, r, l - 1, M) => Reading(c, t, o, k, r, l - 1, M)
    BY <1>5, ExecuteRequest
  <2> HIDE DEF m, t
  <2> QED BY <1>1, <2>1 DEF m, t, Executed
<1> QED BY <1>2, <1>3, <1>4, <1>5 DEF ClientCmd
-----------------------------------------------------------------------------
(* Packets under way, and what is left of them.                            *)
LEMMA BareIs ==
  ASSUME NEW T, NEW q \in Seq(T), \A t \in T : [t EXCEPT !.reliable = FALSE] \in T
  PROVE  /\ Bare(q) \in Seq(T) /\ Len(Bare(q)) = Len(q)
         /\ \A i \in 1 .. Len(q) : Bare(q)[i] = [q[i] EXCEPT !.reliable = FALSE]
<1>1. Len(q) \in Nat /\ DOMAIN q = 1 .. Len(q) /\ \A i \in 1 .. Len(q) : q[i] \in T
  BY LenProperties, ElementOfSeq
<1>2. Bare(q) = [i \in 1 .. Len(q) |-> [q[i] EXCEPT !.reliable = FALSE]]
  BY <1>1 DEF Bare
<1> QED BY <1>1, <1>2

(* The first packet has been read.                                         *)
LEMMA RestIs ==
  ASSUME NEW T, NEW q \in Seq(T), q # <<>>, \A t \in T : [t EXCEPT !.reliable = FALSE] \in T
  PROVE  /\ Head(q) = q[1] /\ q[1] \in T
         /\ Rest(q) \in Seq(T) /\ Len(q) \in Nat \ {0} /\ Len(Rest(q)) = Len(q) - 1
         /\ \A i \in 1 .. Len(q) - 1 :
              Rest(q)[i] = IF q[1].reliable THEN [q[i + 1] EXCEPT !.reliable = FALSE] ELSE q[i + 1]
<1>1. /\ Tail(q) \in Seq(T) /\ Len(q) \in Nat \ {0} /\ Len(Tail(q)) = Len(q) - 1
      /\ \A i \in 1 .. Len(q) - 1 : Tail(q)[i] = q[i + 1]
      /\ Head(q) = q[1] /\ q[1] \in T
  BY HeadTailProperties, EmptySeq, LenProperties, ElementOfSeq
<1>2. Rest(q) = IF q[1].reliable THEN Bare(Tail(q)) ELSE Tail(q)
  BY <1>1 DEF Rest
<1>3. CASE q[1].reliable
  <2>1. /\ Bare(Tail(q)) \in Seq(T) /\ Len(Bare(Tail(q))) = Len(Tail(q))
        /\ \A i \in 1 .. Len(Tail(q)) : Bare(Tail(q))[i] = [Tail(q)[i] EXCEPT !.reliable = FALSE]
    BY <1>1, BareIs
  <2> QED BY <1>1, <1>2, <1>3, <2>1
<1>4. CASE ~q[1].reliable
  BY <1>1, <1>2, <1>4
<1> QED BY <1>3, <1>4

(* Behind a sequence, items of other names.                                *)
LEMMA ConcatIs ==
  ASSUME NEW T, NEW q \in Seq(T), NEW z \in Seq(T)
  PROVE  /\ q \o z \in Seq(T) /\ Len(q) \in Nat /\ Len(z) \in Nat /\ Len(q \o z) = Len(q) + Len(z)
         /\ \A i \in 1 .. Len(q) : (q \o z)[i] = q[i]
         /\ \A i \in 1 .. Len(q \o z) : i > Len(q) => i - Len(q) \in 1 .. Len(z) /\ (q \o z)[i] = z[i - Len(q)]
  BY ConcatProperties, LenProperties

(* Items of other names appended are not among those of a name.            *)
LEMMA AtConcat ==
  ASSUME NEW T, NEW q \in Seq(T), NEW z \in Seq(T), NEW name, \A j \in 1 .. Len(z) : z[j].name # name
  PROVE  At(q \o z, 0, name) = At(q, 0, name)
<1>1. /\ Len(q) \in Nat /\ Len(z) \in Nat /\ Len(q \o z) = Len(q) + Len(z)
      /\ \A i \in 1 .. Len(q) : (q \o z)[i] = q[i]
      /\ \A i \in 1 .. Len(q \o z) : i > Len(q) => i - Len(q) \in 1 .. Len(z) /\ (q \o z)[i] = z[i - Len(q)]
  BY ConcatIs
<1> DEFINE w == q \o z
<1> HIDE DEF w
<1>2. \A i \in 1 .. Len(w) : w[i].name = name => i \in 1 .. Len(q)
  BY <1>1 DEF w
<1> QED BY <1>1, <1>2 DEF At, w
-----------------------------------------------------------------------------
(* A packet of the client's is read: a message of the reliable stream and  *)
(* the requests behind it, or only those.                                  *)
LEMMA ThroughReading ==
  ASSUME NEW c \in Client, NEW s, Fit(c, s), spawncount \in 1 .. MaxLevel,
         NEW r, Len(r) \in Nat,
         \A i \in 1 .. Len(r) : \/ r[i] \in ClientCmd
                                \/ r[i] \in Request /\ r[i].arg[2] <= c.number,
         \A i \in 1 .. Len(r) : r[i].name = "list" => c.level # 0,
         NEW o, NEW k, NEW M, NEW Q, Q \/ Reading(c, s, o, k, r, 0, M)
  PROVE  LET t == Through(Execute, s, r)
         IN  Fit(c, t) /\ t.out = s.out /\ (Q \/ Reading(c, t, o, k, r, Len(r), M))
<1> DEFINE n == Len(r)
           S(i) == {t \in Server : Fit(c, t) /\ t.out = s.out /\ (Q \/ Reading(c, t, o, k, r, i, M))}
           G == [i \in 0 .. n |-> S(i)]
<1>1. s \in S(0)
  BY DEF Fit
<1>2. ASSUME NEW i \in 1 .. n, NEW t \in S(i - 1) PROVE Execute(t, r[i]) \in S(i)
  <2>1. Executed(c, t, Execute(t, r[i]), o, k, r, i, M)
    BY ExecuteReading
  <2> QED BY <2>1 DEF Executed, Fit
<1>3. G \in [0 .. n -> SUBSET Server] /\ \A i \in 0 .. n : G[i] = S(i)
  OBVIOUS
<1> HIDE DEF S, G
<1>4. \A i \in 1 .. n : \A t \in G[i - 1] : Execute(t, r[i]) \in G[i]
  <2> TAKE i \in 1 .. n
  <2>1. i - 1 \in 0 .. n /\ i \in 0 .. n
    OBVIOUS
  <2> QED BY <1>2, <1>3, <2>1
<1>5. s \in G[0] /\ G[n] = S(n)
  BY <1>1, <1>3
<1>6. Through(Execute, s, r) \in G[n]
  BY <1>3, <1>4, <1>5, ThroughExecute
<1> QED BY <1>5, <1>6 DEF S

(* The requests of a packet are executed, one after the other.             *)
LEMMA ThroughAsked ==
  ASSUME NEW c \in Client, NEW s, Fit(c, s), NEW z \in Seq(Request),
         \A i \in 1 .. Len(z) : z[i].arg[2] <= c.number,
         NEW o, NEW k, NEW r, NEW l, NEW M, NEW Q, Q \/ Reading(c, s, o, k, r, l, M)
  PROVE  LET t == Through(Execute, s, z)
         IN  Fit(c, t) /\ t.out = s.out /\ (Q \/ Reading(c, t, o, k, r, l, M))
<1> DEFINE n == Len(z)
           S == {t \in Server : Fit(c, t) /\ t.out = s.out /\ (Q \/ Reading(c, t, o, k, r, l, M))}
           G == [i \in 0 .. n |-> S]
<1>1. s \in S
  BY DEF Fit
<1>2. n \in Nat /\ \A i \in 1 .. n : z[i] \in Request
  BY LenProperties, ElementOfSeq
<1>3. ASSUME NEW i \in 1 .. n, NEW t \in S PROVE Execute(t, z[i]) \in S
  <2>1. z[i] \in Request /\ z[i].arg[2] <= c.number
    BY <1>2
  <2> DEFINE m == z[i]
  <2> HIDE DEF m
  <2>2. LET u == Execute(t, m)
        IN  /\ Fit(c, u) /\ u.out = t.out
            /\ Reading(c, t, o, k, r, l, M) => Reading(c, u, o, k, r, l, M)
    BY <2>1, ExecuteRequest DEF m
  <2> QED BY <2>2 DEF Fit, m
<1>4. G \in [0 .. n -> SUBSET Server] /\ \A i \in 0 .. n : G[i] = S
  OBVIOUS
<1> HIDE DEF S, G
<1>5. \A i \in 1 .. n : \A t \in G[i - 1] : Execute(t, z[i]) \in G[i]
  <2> TAKE i \in 1 .. n
  <2>1. i - 1 \in 0 .. n /\ i \in 0 .. n
    BY <1>2
  <2> QED BY <1>3, <1>4, <2>1
<1>6. s \in G[0] /\ G[n] = S
  BY <1>1, <1>2, <1>4
<1>7. Through(Execute, s, z) \in G[n]
  BY <1>2, <1>4, <1>5, <1>6, ThroughExecute
<1> QED BY <1>6, <1>7 DEF S

(* Requests behind a message change nothing of what it asks for.           *)
LEMMA AgreedConcat ==
  ASSUME NEW c \in Client, NEW z \in Seq(Request), NEW s, NEW o, NEW k, NEW X, NEW M,
         Agreed(c, s, o, k, c.out, 0, X, M)
  PROVE  Agreed(c, s, o, k, c.out \o z, 0, X, M)
<1> DEFINE T == ClientCmd \cup Request
           r == c.out \o z
<1>1. c.out \in Seq(T) /\ z \in Seq(T) /\ \A j \in 1 .. Len(z) : z[j] \in Request
  <2>1. c.out \in Seq(ClientCmd) /\ z \in Seq(Request)
    BY DEF Client
  <2>2. ClientCmd \subseteq T /\ Request \subseteq T
    OBVIOUS
  <2> HIDE DEF T
  <2> QED BY <2>1, <2>2, ElementOfSeq
<1> HIDE DEF T
<1>2. \A j \in 1 .. Len(z) : z[j].name = "nextdl" /\ ~(z[j].arg[1] < 0)
  <2> TAKE j \in 1 .. Len(z)
  <2>1. z[j] \in Request
    BY <1>1
  <2> QED BY <2>1 DEF Request
<1>3. /\ r \in Seq(T) /\ Len(r) \in Nat /\ Len(c.out) \in Nat /\ Len(z) \in Nat
      /\ \A i \in 1 .. Len(c.out) : r[i] = c.out[i]
      /\ \A i \in 1 .. Len(r) : i > Len(c.out) =>
            i - Len(c.out) \in 1 .. Len(z) /\ r[i] = z[i - Len(c.out)]
      /\ Len(r) = Len(c.out) + Len(z)
  BY <1>1, ConcatIs
<1>4. At(r, 0, "download") = At(c.out, 0, "download")
  BY <1>1, <1>2, AtConcat
<1> HIDE DEF r
<1>5. Asked(r, 0) \subseteq Asked(c.out, 0) /\ \A i \in Asked(r, 0) : r[i] = c.out[i]
  <2>1. At(c.out, 0, "download") \subseteq 1 .. Len(c.out)
    BY <1>3 DEF At
  <2> QED BY <1>3, <1>4, <2>1 DEF Asked
<1>6. Stops(r, 0) \subseteq Stops(c.out, 0)
  <2> SUFFICES ASSUME NEW i \in Stops(r, 0) PROVE i \in Stops(c.out, 0)
    OBVIOUS
  <2>1. i \in 1 .. Len(r) /\ r[i].name = "nextdl" /\ r[i].arg[1] < 0
    BY DEF Stops, At
  <2>2. ~(i > Len(c.out))
    BY <1>2, <1>3, <2>1
  <2>3. i \in 1 .. Len(c.out)
    BY <1>3, <2>1, <2>2
  <2> QED BY <1>3, <2>1, <2>3 DEF Stops, At
<1>7. Answer(o, k) \subseteq Answer(o, k) /\ X \subseteq X /\ M \subseteq M /\ \A i \in Answer(o, k) : o[i] = o[i]
  OBVIOUS
<1>8. Agreed(c, s, o, k, r, 0, X, M)
  BY <1>5, <1>6, <1>7, AgreedLess
<1> QED BY <1>8 DEF r

(* All of the message has been read.                                       *)
LEMMA AgreedRead ==
  ASSUME NEW c, NEW s, NEW o, NEW k, NEW r, Len(r) \in Nat, NEW X, NEW M,
         Agreed(c, s, o, k, r, Len(r), X, M)
  PROVE  Agreed(c, s, o, k, <<>>, 0, X, M)
<1>1. Asked(r, Len(r)) = {} /\ Stops(r, Len(r)) = {} /\ Asked(<<>>, 0) = {} /\ Stops(<<>>, 0) = {}
  BY AtEnd DEF Asked
<1>2. Answer(o, k) \subseteq Answer(o, k) /\ X \subseteq X /\ M \subseteq M /\ \A i \in Answer(o, k) : o[i] = o[i]
  OBVIOUS
<1> QED BY <1>1, <1>2, AgreedLess

(* The client whose message was read.                                      *)
LEMMA EmptyOut ==
  ASSUME NEW c, Sound(c)
  PROVE  LET d == [c EXCEPT !.out = <<>>]
         IN  Sound(d) /\ Alike(c, d) /\ d.out = <<>> /\ d.crossed = c.crossed /\ d.level = c.level
<1> DEFINE d == [c EXCEPT !.out = <<>>]
<1>1. <<>> \in Seq(ClientCmd) /\ c \in Client
  BY DEF Sound
<1>2. /\ d \in Client /\ d.out = <<>> /\ d.crossed = c.crossed /\ d.level = c.level
      /\ d.name = c.name /\ d.method = c.method /\ d.open = c.open /\ d.number = c.number
      /\ d.disk = c.disk /\ d.state = c.state /\ d.staged = c.staged
      /\ d.size = c.size /\ d.content = c.content /\ d.first = c.first /\ d.got = c.got /\ d.type = c.type
  BY <1>1 DEF Client
<1> HIDE DEF d
<1>3. At(<<>>, 0, "list") = {}
  BY DEF At
<1>4. Sound(d)
  BY <1>2, <1>3 DEF Sound, Window, Known
<1>5. Alike(c, d)
  BY <1>2 DEF Alike, SameTalk, Asking
<1> QED BY <1>2, <1>4, <1>5 DEF d

(* The first packet to the server, or to the client, has been read.        *)
LEMMA UpRest ==
  ASSUME NEW q \in Seq(UpPacket), q # <<>>
  PROVE  /\ Head(q) = q[1] /\ q[1] \in UpPacket
         /\ Rest(q) \in Seq(UpPacket) /\ Len(q) \in Nat \ {0} /\ Len(Rest(q)) = Len(q) - 1
         /\ \A i \in 1 .. Len(q) - 1 : Rest(q)[i].cmds = q[i + 1].cmds
<1>1. \A x \in UpPacket : [x EXCEPT !.reliable = FALSE] \in UpPacket
  BY DEF UpPacket
<1>2. \A x \in UpPacket : [x EXCEPT !.reliable = FALSE].cmds = x.cmds
  BY DEF UpPacket
<1> DEFINE T == UpPacket
<1>3. /\ Head(q) = q[1] /\ q[1] \in T
      /\ Rest(q) \in Seq(T) /\ Len(q) \in Nat \ {0} /\ Len(Rest(q)) = Len(q) - 1
      /\ \A i \in 1 .. Len(q) - 1 :
           Rest(q)[i] = IF q[1].reliable THEN [q[i + 1] EXCEPT !.reliable = FALSE] ELSE q[i + 1]
  BY <1>1, RestIs
<1>4. \A i \in 1 .. Len(q) - 1 : q[i + 1] \in UpPacket
  <2> TAKE i \in 1 .. Len(q) - 1
  <2>1. i + 1 \in 1 .. Len(q)
    BY <1>3
  <2> QED BY <2>1, ElementOfSeq
<1> QED BY <1>2, <1>3, <1>4

(* What is left of the packets when the first was read, one by one.        *)
LEMMA DownRest ==
  ASSUME NEW q \in Seq(DownPacket), q # <<>>
  PROVE  /\ Head(q) = q[1] /\ q[1] \in DownPacket
         /\ Rest(q) \in Seq(DownPacket) /\ Len(q) \in Nat \ {0} /\ Len(Rest(q)) = Len(q) - 1
         /\ \A i \in 1 .. Len(q) - 1 : /\ Rest(q)[i].datagram = q[i + 1].datagram
                                       /\ Rest(q)[i].reliable => q[i + 1].reliable /\ ~q[1].reliable
<1>1. \A x \in DownPacket : [x EXCEPT !.reliable = FALSE] \in DownPacket
  BY DEF DownPacket
<1>2. \A x \in DownPacket : /\ [x EXCEPT !.reliable = FALSE].datagram = x.datagram
                            /\ ~[x EXCEPT !.reliable = FALSE].reliable
  BY DEF DownPacket
<1> DEFINE T == DownPacket
<1>3. /\ Head(q) = q[1] /\ q[1] \in T
      /\ Rest(q) \in Seq(T) /\ Len(q) \in Nat \ {0} /\ Len(Rest(q)) = Len(q) - 1
      /\ \A i \in 1 .. Len(q) - 1 :
           Rest(q)[i] = IF q[1].reliable THEN [q[i + 1] EXCEPT !.reliable = FALSE] ELSE q[i + 1]
  BY <1>1, RestIs
<1>4. \A i \in 1 .. Len(q) - 1 : /\ Rest(q)[i].datagram = q[i + 1].datagram
                                 /\ Rest(q)[i].reliable => q[i + 1].reliable /\ ~q[1].reliable
  <2> TAKE i \in 1 .. Len(q) - 1
  <2>1. i + 1 \in 1 .. Len(q)
    BY <1>3
  <2> DEFINE x == q[i + 1]
             y == Rest(q)[i]
  <2>2. x \in DownPacket /\ q[1] \in DownPacket
    BY <1>3, <2>1, ElementOfSeq
  <2>3. y = IF q[1].reliable THEN [x EXCEPT !.reliable = FALSE] ELSE x
    BY <1>3
  <2> HIDE DEF x, y
  <2>4. CASE q[1].reliable
    BY <1>2, <2>2, <2>3, <2>4 DEF x, y
  <2>5. CASE ~q[1].reliable
    BY <2>3, <2>5 DEF x, y
  <2> QED BY <2>4, <2>5
<1> QED BY <1>3, <1>4

(* What is left of the packets to the server fits still.                   *)
LEMMA UpRestOK ==
  ASSUME NEW c, NEW q, UpOK(q, c), q # <<>>
  PROVE  /\ UpOK(Rest(q), c) /\ Head(q) \in UpPacket
         /\ \A j \in 1 .. Len(Head(q).cmds) : Head(q).cmds[j].arg[2] <= c.number
<1>1. /\ Head(q) = q[1] /\ q[1] \in UpPacket
      /\ Rest(q) \in Seq(UpPacket) /\ Len(q) \in Nat \ {0} /\ Len(Rest(q)) = Len(q) - 1
      /\ \A i \in 1 .. Len(q) - 1 : Rest(q)[i].cmds = q[i + 1].cmds
  BY UpRest DEF UpOK
<1>2. Len(Rest(q)) <= MaxUnderWay
  BY <1>1, BoundsAreNats DEF UpOK
<1>3. \A i \in 1 .. Len(q) - 1 : i + 1 \in 1 .. Len(q)
  BY <1>1
<1> DEFINE w == Rest(q)
<1> HIDE DEF w
<1>4. \A i \in 1 .. Len(w) : \A j \in 1 .. Len(w[i].cmds) : w[i].cmds[j].arg[2] <= c.number
  <2> TAKE i \in 1 .. Len(w)
  <2>1. i \in 1 .. Len(q) - 1 /\ i + 1 \in 1 .. Len(q) /\ w[i].cmds = q[i + 1].cmds
    BY <1>1, <1>3 DEF w
  <2> QED BY <2>1 DEF UpOK
<1> QED BY <1>1, <1>2, <1>4 DEF UpOK, w

(* A client that keeps what the packets need.                              *)
LEMMA UpKeeps ==
  ASSUME NEW c \in Client, NEW d \in Client, Keeps(c, d), NEW q, UpOK(q, c)
  PROVE  UpOK(q, d)
<1>1. c.number \in Nat /\ d.number \in Nat /\ c.number <= d.number
  BY DEF Client, Keeps
<1>2. \A i \in 1 .. Len(q) : \A j \in 1 .. Len(q[i].cmds) : q[i].cmds[j].arg[2] \in Nat
  <2> TAKE i \in 1 .. Len(q)
  <2>1. q[i].cmds \in Seq(Request)
    <3>1. q[i] \in UpPacket
      BY ElementOfSeq DEF UpOK
    <3> QED BY <3>1 DEF UpPacket
  <2> TAKE j \in 1 .. Len(q[i].cmds)
  <2>2. q[i].cmds[j] \in Request
    BY <2>1, ElementOfSeq
  <2> QED BY <2>2 DEF Request
<1> QED BY <1>1, <1>2 DEF UpOK

(* The start of a packet.                                                  *)
LEMMA ForPacketKept ==
  ASSUME NEW c, NEW s, Fit(c, s)
  PROVE  Fit(c, ForPacket(s)) /\ Kept(s, ForPacket(s))
<1> DEFINE t == [s EXCEPT !.send_message = TRUE, !.sent = 0]
<1>1. /\ t \in Server /\ t.staged = s.staged /\ t.download = s.download /\ t.out = s.out
      /\ t.datagram = s.datagram /\ t.chunks = s.chunks /\ t.level = s.level
  BY DEF Fit, Server
<1>2. ForPacket(s) = t
  BY DEF ForPacket
<1> HIDE DEF t
<1> QED BY <1>1, <1>2 DEF Fit, NotListed, Kept, SameServer, Answering

(* The packet has been read: its chunks are under way.                     *)
LEMMA ChunksOut ==
  ASSUME NEW c, NEW s, Fit(c, s)
  PROVE  LET t == [s EXCEPT !.chunks = {}]
         IN  /\ Fit(c, t) /\ t.chunks = {} /\ t.out = s.out /\ t.datagram = s.datagram
             /\ SameServer(s, t)
<1> DEFINE t == [s EXCEPT !.chunks = {}]
<1>1. /\ t \in Server /\ t.staged = s.staged /\ t.download = s.download /\ t.out = s.out
      /\ t.datagram = s.datagram /\ t.chunks = {} /\ t.level = s.level
  BY DEF Fit, Server
<1> HIDE DEF t
<1>2. Fit(c, t) /\ SameServer(s, t)
  BY <1>1 DEF Fit, NotListed, Numbered, SameServer, Answering
<1> QED BY <1>1, <1>2 DEF t

(* ServerRead keeps the invariant.                                         *)
LEMMA ServerReadKeeps ==
  ASSUME DownloadInv, ServerRead
  PROVE  DownloadInv'
<1> DEFINE p == Head(up)
           q == IF p.reliable THEN cl.out ELSE <<>>
           s0 == ForPacket(sv)
           t == Through(Execute, s0, q \o p.cmds)
           Q == mixed \/ cl.crossed
<1>1. /\ up # <<>> /\ sv' = [t EXCEPT !.chunks = {}] /\ oob' = oob \cup t.chunks
      /\ cl' = (IF p.reliable THEN [cl EXCEPT !.out = <<>>] ELSE cl)
      /\ up' = Rest(up)
      /\ UNCHANGED <<spawncount, broadcast, down, requests, faults, mixed>>
  BY DEF ServerRead
<1>2. /\ Sound(cl) /\ cl \in Client /\ Fit(cl, sv) /\ NotListed(cl, sv.out, 0) /\ sv.chunks = {}
      /\ spawncount \in 1 .. MaxLevel /\ UpOK(up, cl) /\ DownOK(down, sv)
      /\ oob \subseteq Nat \X Frag /\ Numbered(cl, oob) /\ broadcast \in Seq(Stuff)
  BY DEF DownloadInv, Always, Sound
<1>3. /\ UpOK(Rest(up), cl) /\ p \in UpPacket
      /\ \A j \in 1 .. Len(p.cmds) : p.cmds[j].arg[2] <= cl.number
  BY <1>1, <1>2, UpRestOK
<1>4. p.cmds \in Seq(Request) /\ p.reliable \in BOOLEAN
  BY <1>3 DEF UpPacket
<1> HIDE DEF p
<1>5. Fit(cl, s0) /\ Kept(sv, s0) /\ s0.out = sv.out
  BY <1>2, ForPacketKept DEF Kept
<1>6. Q \/ Reading(cl, s0, sv.out, 0, cl.out, 0, oob)
  <2>1. Talk => Agreed(cl, sv, sv.out, 0, cl.out, 0, {sv.datagram}, oob \cup sv.chunks)
    <3>1. oob \cup sv.chunks = oob
      BY <1>2
    <3> QED BY <3>1 DEF Talk
  <2>2. Talk => Reading(cl, s0, sv.out, 0, cl.out, 0, oob)
    BY <1>5, <2>1, KeptAgreed DEF Reading
  <2> QED BY <2>2 DEF DownloadInv
<1> HIDE DEF s0
<1>7. /\ Fit(cl, t) /\ t.out = sv.out /\ Sound(cl') /\ cl'.crossed = cl.crossed /\ cl'.level = cl.level
      /\ Alike(cl, cl')
      /\ Q \/ Reading(cl, t, sv.out, 0, cl'.out, 0, oob)
  <2>1. CASE p.reliable
    <3> DEFINE r == cl.out \o p.cmds
               T == ClientCmd \cup Request
    <3>1. cl.out \in Seq(ClientCmd)
      BY <1>2 DEF Client
    <3>2. /\ Len(r) \in Nat /\ Len(cl.out) \in Nat
          /\ \A i \in 1 .. Len(cl.out) : r[i] = cl.out[i]
          /\ \A i \in 1 .. Len(r) : i > Len(cl.out) =>
               i - Len(cl.out) \in 1 .. Len(p.cmds) /\ r[i] = p.cmds[i - Len(cl.out)]
      <4>1. ClientCmd \subseteq T /\ Request \subseteq T
        OBVIOUS
      <4> HIDE DEF T
      <4>2. cl.out \in Seq(T) /\ p.cmds \in Seq(T)
        BY <1>4, <3>1, <4>1
      <4>3. Len(cl.out) \in Nat /\ Len(p.cmds) \in Nat /\ Len(r) = Len(cl.out) + Len(p.cmds)
        BY <4>2, ConcatIs
      <4>4. \A i \in 1 .. Len(cl.out) : r[i] = cl.out[i]
        BY <4>2, ConcatIs
      <4>5. \A i \in 1 .. Len(r) : i > Len(cl.out) =>
               i - Len(cl.out) \in 1 .. Len(p.cmds) /\ r[i] = p.cmds[i - Len(cl.out)]
        BY <4>2, ConcatIs
      <4> HIDE DEF r
      <4>6. Len(cl.out) + Len(p.cmds) \in Nat
        <5> DEFINE a == Len(cl.out)
                   b == Len(p.cmds)
        <5>1. a \in Nat /\ b \in Nat
          BY <4>3
        <5> HIDE DEF a, b
        <5>2. a + b \in Nat
          BY <5>1
        <5> QED BY <5>2 DEF a, b
      <4>7. Len(r) \in Nat
        BY <4>3, <4>6
      <4> QED BY <4>3, <4>4, <4>5, <4>7
    <3> HIDE DEF T
    <3>3. ASSUME NEW i \in 1 .. Len(r)
          PROVE  /\ r[i] \in ClientCmd \/ (r[i] \in Request /\ r[i].arg[2] <= cl.number)
                 /\ r[i].name = "list" => cl.level # 0
      <4>1. CASE i > Len(cl.out)
        <5>1. i - Len(cl.out) \in 1 .. Len(p.cmds) /\ r[i] = p.cmds[i - Len(cl.out)]
          BY <3>2, <4>1
        <5>2. r[i] \in Request /\ r[i].arg[2] <= cl.number
          BY <1>3, <1>4, <5>1, ElementOfSeq
        <5> QED BY <5>2 DEF Request
      <4>2. CASE ~(i > Len(cl.out))
        <5>1. i \in 1 .. Len(cl.out) /\ r[i] = cl.out[i]
          BY <3>2, <4>2
        <5>2. r[i] \in ClientCmd
          BY <3>1, <5>1, ElementOfSeq
        <5>3. r[i].name = "list" => i \in At(cl.out, 0, "list")
          BY <3>2, <5>1 DEF At
        <5> QED BY <1>2, <5>2, <5>3 DEF Sound, Known
      <4> QED BY <4>1, <4>2
    <3>4. Q \/ Reading(cl, s0, sv.out, 0, r, 0, oob)
      BY <1>2, <1>4, <1>6, AgreedConcat DEF Reading
    <3> HIDE DEF Q
    <3>5. t = Through(Execute, s0, r)
      BY <2>1
    <3> HIDE DEF r, t
    <3>6. Fit(cl, t) /\ t.out = s0.out /\ (Q \/ Reading(cl, t, sv.out, 0, r, Len(r), oob))
      BY <1>2, <1>5, <3>2, <3>3, <3>4, <3>5, ThroughReading
    <3>7. Q \/ Reading(cl, t, sv.out, 0, <<>>, 0, oob)
      BY <3>2, <3>6, AgreedRead DEF Reading
    <3>8. cl' = [cl EXCEPT !.out = <<>>]
      BY <1>1, <2>1
    <3>9. Sound(cl') /\ Alike(cl, cl') /\ cl'.out = <<>> /\ cl'.crossed = cl.crossed /\ cl'.level = cl.level
      BY <1>2, <3>8, EmptyOut
    <3> QED BY <1>5, <3>6, <3>7, <3>9
  <2>2. CASE ~p.reliable
    <3>1. q \o p.cmds = p.cmds
      BY <1>4, <2>2, ConcatEmptySeq
    <3>2. t = Through(Execute, s0, p.cmds)
      BY <3>1
    <3> HIDE DEF Q, t
    <3>3. Fit(cl, t) /\ t.out = s0.out /\ (Q \/ Reading(cl, t, sv.out, 0, cl.out, 0, oob))
      BY <1>2, <1>3, <1>4, <1>5, <1>6, <3>2, ThroughAsked
    <3>4. cl' = cl
      BY <1>1, <2>2
    <3>5. Alike(cl, cl')
      BY <3>4 DEF Alike, SameTalk
    <3> QED BY <1>2, <1>5, <3>3, <3>4, <3>5
  <2> QED BY <1>4, <2>1, <2>2
<1> HIDE DEF t
<1>8. /\ Fit(cl, sv') /\ sv'.chunks = {} /\ sv'.out = t.out /\ sv'.datagram = t.datagram
      /\ SameServer(t, sv')
  BY <1>1, <1>7, ChunksOut
<1>9. Always'
  <2>1. Fit(cl, sv)'
    <3>1. spawncount' = spawncount
      BY <1>1
    <3> QED BY <1>7, <1>8, <3>1 DEF Fit, NotListed, Numbered, Alike, SameTalk
  <2>2. UpOK(up', cl')
    BY <1>1, <1>3, <1>7 DEF UpOK, Alike, SameTalk
  <2>3. NotListed(cl', sv'.out, 0) /\ DownOK(down', sv')
    BY <1>1, <1>2, <1>7, <1>8 DEF NotListed, DownOK
  <2>4. oob' \subseteq Nat \X Frag /\ Numbered(cl', oob')
    BY <1>1, <1>2, <1>7 DEF Fit, Server, Numbered, Alike, SameTalk
  <2> QED BY <1>1, <1>2, <1>7, <1>8, <2>1, <2>2, <2>3, <2>4 DEF Always, Fit, UpOK, DownOK
<1>10. ~Q => Talk'
  <2> SUFFICES ASSUME ~Q PROVE Talk'
    OBVIOUS
  <2>1. Agreed(cl', t, sv.out, 0, cl'.out, 0, {t.datagram}, oob')
    BY <1>1, <1>7, AlikeAgreed DEF Reading
  <2>2. Agreed(cl', sv', sv'.out, 0, cl'.out, 0, {sv'.datagram}, oob')
    <3>1. Fresh(cl', sv.out, 0, {sv'.datagram}) /\ ProperOOB(cl', oob')
      BY <1>8, <2>1 DEF Agreed
    <3> QED BY <1>7, <1>8, <2>1, <3>1, AgreedServer
  <2>3. Ahead(down, cl, sv)
    BY DEF DownloadInv, Talk
  <2>4. Ahead(down', cl', sv')
    BY <1>1, <1>7, <1>8, <2>3 DEF Ahead, Alike, SameTalk, Answered, Answer
  <2> QED BY <2>2, <2>4 DEF Talk
<1> QED BY <1>1, <1>7, <1>9, <1>10 DEF DownloadInv
-----------------------------------------------------------------------------
(* What was so of the client's slot and of what is under way stays so when *)
(* the client keeps what it keeps.                                         *)
LEMMA ClientKeeps ==
  ASSUME NEW c \in Client, NEW d \in Client, Keeps(c, d)
  PROVE  /\ \A s : Fit(c, s) => Fit(d, s)
         /\ \A o, k : NotListed(c, o, k) => NotListed(d, o, k)
         /\ \A M : Numbered(c, M) /\ M \subseteq Nat \X Frag => Numbered(d, M)
<1>1. /\ c.number \in Nat /\ d.number \in Nat /\ c.number <= d.number
      /\ d.level = 0 => c.level = 0
  BY DEF Client, Keeps
<1>2. \A o, k : NotListed(c, o, k) => NotListed(d, o, k)
  BY <1>1 DEF NotListed
<1>3. ASSUME NEW M, Numbered(c, M), M \subseteq Nat \X Frag PROVE Numbered(d, M)
  <2> SUFFICES ASSUME NEW m \in M PROVE m[1] <= d.number
    BY DEF Numbered
  <2>1. m[1] \in Nat /\ m[1] <= c.number
    BY <1>3 DEF Numbered
  <2> QED BY <1>1, <2>1
<1>4. \A s : Fit(c, s) => Fit(d, s)
  <2> TAKE s
  <2> HAVE Fit(c, s)
  <2>1. s.chunks \subseteq Nat \X Frag
    BY DEF Fit, Server
  <2> QED BY <1>2, <1>3, <2>1 DEF Fit
<1> QED BY <1>2, <1>3, <1>4

(* A packet of the server's is read: a message of the reliable stream and  *)
(* the chunk behind it.                                                    *)
LEMMA ThroughParsing ==
  ASSUME NEW c, Sound(c), NEW w \in Seq(Item), NotListed(c, w, 0),
         NEW X, \A i \in 1 .. Len(w) : w[i].name = "chunk" => w[i].arg \in X,
         NEW s, NEW r, NEW l, NEW M, Numbered(c, M), M \subseteq Nat \X Frag,
         NEW Q, Q \/ c.crossed \/ Agreed(c, s, w, 0, r, l, X, M)
  PROVE  LET d == Through(Parse, c, w)
         IN  /\ Sound(d) /\ Keeps(c, d)
             /\ Q \/ d.crossed \/ Agreed(d, s, w, Len(w), r, l, X, M)
<1> DEFINE n == Len(w)
           S(i) == {d \in Client : /\ Sound(d) /\ Keeps(c, d) /\ NotListed(d, w, i)
                                   /\ Q \/ d.crossed \/ Agreed(d, s, w, i, r, l, X, M)}
           G == [i \in 0 .. n |-> S(i)]
<1>1. c \in S(0)
  BY KeepsSelf DEF Sound
<1>2. n \in Nat /\ \A i \in 1 .. n : w[i] \in Item
  BY LenProperties, ElementOfSeq
<1>3. ASSUME NEW i \in 1 .. n, NEW d \in S(i - 1) PROVE Parse(d, w[i]) \in S(i)
  <2> DEFINE e == Parse(d, w[i])
  <2>1. /\ d \in Client /\ c \in Client /\ Sound(d) /\ Keeps(c, d) /\ NotListed(d, w, i - 1)
        /\ Q \/ d.crossed \/ Agreed(d, s, w, i - 1, r, l, X, M)
    BY DEF Sound
  <2>2. w[i].name = "svc_list" => d.level # 0
    <3>1. w[i].name = "svc_list" => i \in At(w, i - 1, "svc_list")
      BY <1>2 DEF At
    <3> QED BY <2>1, <3>1 DEF NotListed
  <2>3. Sound(e) /\ Keeps(d, e)
    <3> DEFINE m == w[i]
    <3>1. m \in Item
      BY <1>2
    <3> HIDE DEF m
    <3>2. Sound(Parse(d, m)) /\ Keeps(d, Parse(d, m))
      BY <2>1, <2>2, <3>1, ParseSound DEF m
    <3> QED BY <3>2 DEF m
  <2>4. Numbered(d, M)
    BY <2>1, ClientKeeps
  <2>5. Agreed(d, s, w, i - 1, r, l, X, M) => e.crossed \/ Agreed(e, s, w, i, r, l, X, M)
    BY <2>1, <2>2, <2>4, ParseAgreed
  <2> HIDE DEF e
  <2>6. e \in Client /\ Keeps(c, e)
    BY <2>1, <2>3, KeepsOn DEF Sound
  <2>7. NotListed(e, w, i)
    <3>1. NotListed(e, w, i - 1)
      BY <2>1, <2>3, <2>6, ClientKeeps
    <3> QED BY <1>2, <3>1, AtNext DEF NotListed
  <2>8. Q \/ e.crossed \/ Agreed(e, s, w, i, r, l, X, M)
    BY <2>1, <2>3, <2>5 DEF Keeps
  <2> QED BY <2>3, <2>6, <2>7, <2>8 DEF e
<1>4. G \in [0 .. n -> SUBSET Client] /\ \A i \in 0 .. n : G[i] = S(i)
  OBVIOUS
<1> HIDE DEF S, G
<1>5. \A i \in 1 .. n : \A d \in G[i - 1] : Parse(d, w[i]) \in G[i]
  <2> TAKE i \in 1 .. n
  <2>1. i - 1 \in 0 .. n /\ i \in 0 .. n
    BY <1>2
  <2> QED BY <1>3, <1>4, <2>1
<1>6. c \in G[0] /\ G[n] = S(n)
  BY <1>1, <1>2, <1>4
<1>7. Through(Parse, c, w) \in G[n]
  BY <1>2, <1>4, <1>5, <1>6, ThroughParse
<1> QED BY <1>6, <1>7 DEF S

(* Without a message there is the chunk, or nothing.                       *)
LEMMA ThroughOne ==
  ASSUME NEW c, NEW x
  PROVE  Through(Parse, c, <<>>) = c /\ Through(Parse, c, <<x>>) = Parse(c, x)
<1>1. Through(Parse, c, <<>>) = c
  <2> DEFINE G == [i \in 0 .. 0 |-> {c}]
             e == <<>>
  <2>1. G \in [0 .. 0 -> SUBSET {c}] /\ G[0] = {c}
    OBVIOUS
  <2>2. Len(e) = 0
    OBVIOUS
  <2> HIDE DEF G, e
  <2>3. Through(Parse, c, e) \in G[Len(e)]
    BY <2>1, <2>2, ThroughParse
  <2> QED BY <2>1, <2>2, <2>3 DEF e
<1>2. Through(Parse, c, <<x>>) = Parse(c, x)
  <2> DEFINE d == Parse(c, x)
             G == [i \in 0 .. 1 |-> IF i = 0 THEN {c} ELSE {d}]
             e == <<x>>
  <2>1. Len(e) = 1 /\ e[1] = x
    OBVIOUS
  <2>2. G \in [0 .. 1 -> SUBSET {c, d}] /\ G[0] = {c} /\ G[1] = {d}
    OBVIOUS
  <2> HIDE DEF G, e
  <2>3. /\ \A i \in 1 .. Len(e) : \A y \in G[i - 1] : Parse(y, e[i]) \in G[i]
        /\ G \in [0 .. Len(e) -> SUBSET {c, d}] /\ Len(e) \in Nat /\ c \in G[0]
    BY <2>1, <2>2
  <2> HIDE DEF d
  <2>4. Through(Parse, c, e) \in G[Len(e)]
    BY <2>1, <2>2, <2>3, ThroughParse
  <2> QED BY <2>1, <2>2, <2>4 DEF d, e
<1> QED BY <1>1, <1>2

(* The server whose message was read.                                      *)
LEMMA EmptySaid ==
  ASSUME NEW c, NEW s, Fit(c, s)
  PROVE  LET t == [s EXCEPT !.out = <<>>]
         IN  /\ Fit(c, t) /\ t.out = <<>> /\ t.datagram = s.datagram /\ t.chunks = s.chunks
             /\ SameServer(s, t)
<1> DEFINE t == [s EXCEPT !.out = <<>>]
<1>1. <<>> \in Seq(ServerItem)
  OBVIOUS
<1>2. /\ t \in Server /\ t.staged = s.staged /\ t.download = s.download /\ t.out = <<>>
      /\ t.datagram = s.datagram /\ t.chunks = s.chunks /\ t.level = s.level
  BY <1>1 DEF Fit, Server
<1> HIDE DEF t
<1>3. Fit(c, t) /\ SameServer(s, t)
  BY <1>2 DEF Fit, NotListed, Numbered, SameServer, Answering
<1> QED BY <1>2, <1>3 DEF t

(* The packets that are left.                                              *)
LEMMA DownRestOK ==
  ASSUME NEW q, NEW s, DownOK(q, s), q # <<>>
  PROVE  /\ DownOK(Rest(q), s) /\ Head(q) = q[1] /\ q[1] \in DownPacket
         /\ q[1].reliable => \A t : DownOK(Rest(q), t)
         /\ 1 \in 1 .. Len(q) /\ Len(Rest(q)) \in Nat
         /\ \A i \in 1 .. Len(Rest(q)) : /\ i + 1 \in 1 .. Len(q) /\ Rest(q)[i].datagram = q[i + 1].datagram
                                         /\ Rest(q)[i].reliable => q[i + 1].reliable /\ ~q[1].reliable
<1> DEFINE w == Rest(q)
<1>1. /\ Head(q) = q[1] /\ q[1] \in DownPacket
      /\ w \in Seq(DownPacket) /\ Len(q) \in Nat \ {0} /\ Len(w) = Len(q) - 1
      /\ \A i \in 1 .. Len(q) - 1 : /\ w[i].datagram = q[i + 1].datagram
                                    /\ w[i].reliable => q[i + 1].reliable /\ ~q[1].reliable
  BY DownRest DEF DownOK
<1> HIDE DEF w
<1>2. Len(w) <= MaxUnderWay /\ Len(w) \in Nat /\ 1 \in 1 .. Len(q)
  BY <1>1, BoundsAreNats DEF DownOK
<1>3. \A i \in 1 .. Len(w) : /\ i + 1 \in 1 .. Len(q) /\ w[i].datagram = q[i + 1].datagram
                             /\ w[i].reliable => q[i + 1].reliable /\ ~q[1].reliable
  BY <1>1
<1>4. DownOK(w, s)
  BY <1>1, <1>2, <1>3 DEF DownOK
<1>5. q[1].reliable => \A t : DownOK(w, t)
  BY <1>1, <1>2, <1>3 DEF DownOK
<1> QED BY <1>1, <1>2, <1>3, <1>4, <1>5 DEF w

(* What is agreed on, of a message with a chunk behind it.                 *)
LEMMA AgreedBehind ==
  ASSUME NEW c, NEW s, NEW o \in Seq(Item), NEW z \in Seq(Item), \A j \in 1 .. Len(z) : z[j].name = "chunk",
         NEW r, NEW l, NEW X, NEW M, Agreed(c, s, o, 0, r, l, X, M)
  PROVE  Agreed(c, s, o \o z, 0, r, l, X, M) /\ (Answered(o \o z, 0) => Answered(o, 0))
<1>1. Answer(o \o z, 0) = Answer(o, 0)
  BY AtConcat DEF Answer
<1>2. \A i \in Answer(o, 0) : (o \o z)[i] = o[i]
  <2>1. Answer(o, 0) \subseteq 1 .. Len(o)
    BY LenProperties DEF Answer, At
  <2> QED BY <2>1, ConcatIs
<1>3. Asked(r, l) \subseteq Asked(r, l) /\ Stops(r, l) \subseteq Stops(r, l) /\ X \subseteq X /\ M \subseteq M
      /\ \A i \in Asked(r, l) : r[i] = r[i]
  OBVIOUS
<1> DEFINE w == o \o z
<1> HIDE DEF w
<1>4. Agreed(c, s, w, 0, r, l, X, M)
  BY <1>1, <1>2, <1>3, AgreedLess DEF w
<1> QED BY <1>1, <1>2, <1>4 DEF w, Answered

(* All of the message has been read, and nothing of it is left.            *)
LEMMA AgreedSaid ==
  ASSUME NEW c, NEW s, NEW o, Len(o) \in Nat, NEW r, NEW l, NEW X, NEW M,
         Agreed(c, s, o, Len(o), r, l, X, M), NEW Y, Y \subseteq X
  PROVE  Agreed(c, s, <<>>, 0, r, l, Y, M)
<1>1. Answer(o, Len(o)) = {} /\ Answer(<<>>, 0) = {}
  BY AtEnd DEF Answer
<1>2. Asked(r, l) \subseteq Asked(r, l) /\ Stops(r, l) \subseteq Stops(r, l) /\ M \subseteq M
      /\ \A i \in Asked(r, l) : r[i] = r[i]
  OBVIOUS
<1> QED BY <1>1, <1>2, AgreedLess

(* Packets behind the answer are behind it still.                          *)
LEMMA AheadRest ==
  ASSUME NEW c, NEW s, NEW q, Len(q) \in Nat, Ahead(q, c, s), NEW w, Len(w) \in Nat,
         NEW n \in Nat,
         \A i \in 1 .. Len(w) : /\ i + n \in 1 .. Len(q) /\ w[i].datagram = q[i + n].datagram
                                /\ w[i].reliable => q[i + n].reliable
  PROVE  Ahead(w, c, s)
<1>1. c.method = "DL_QWCHUNKS" => \A i \in 1 .. Len(w) : From(w[i].datagram, c.name)
  BY DEF Ahead
<1>2. ASSUME Answered(s.out, 0), NEW i \in 1 .. Len(w), NEW j \in 1 .. Len(w), i < j, w[i].reliable
      PROVE  From(w[j].datagram, c.name)
  <2>1. i + n < j + n /\ i + n \in 1 .. Len(q) /\ j + n \in 1 .. Len(q) /\ q[i + n].reliable
    BY <1>2
  <2>2. From(q[j + n].datagram, c.name)
    BY <1>2, <2>1 DEF Ahead
  <2> QED BY <2>2
<1> QED BY <1>1, <1>2 DEF Ahead

(* No chunk under way, nor the one in the slot, is of another file than    *)
(* the message starts, but the one in its own packet.                      *)
LEMMA FreshBehind ==
  ASSUME Always, Talk, down # <<>>, down[1].reliable,
         down[1].datagram # <<>> => ~Starts(sv.out, down[1].datagram)
  PROVE  Fresh(cl, sv.out, 0, {sv.datagram} \cup {down[i].datagram : i \in 1 .. Len(down)})
<1>1. /\ Token(cl, sv, sv.out, 0, cl.out, 0) /\ Fresh(cl, sv.out, 0, {sv.datagram})
      /\ Ahead(down, cl, sv)
  BY DEF Talk, Agreed
<1>2. Len(down) \in Nat
  BY LenProperties DEF Always, DownOK
<1> SUFFICES ASSUME cl.method = "DL_QWCHUNKS" \/ Answered(sv.out, 0), NEW i \in 1 .. Len(down)
             PROVE  From(down[i].datagram, cl.name)
  BY <1>1 DEF Fresh
<1>3. CASE cl.method = "DL_QWCHUNKS"
  BY <1>1, <1>3 DEF Ahead
<1>4. CASE Answered(sv.out, 0)
  <2>1. CASE i = 1
    <3>1. PICK j \in Answer(sv.out, 0) : sv.out[j].arg # None
      BY <1>4 DEF Answered
    <3>2. sv.out[j].arg = cl.name /\ sv.out[j].name = "svc_download"
      BY <1>1, <3>1 DEF Token, Answer, At
    <3>3. j \in DOMAIN sv.out
      <4>1. sv.out \in Seq(ServerItem)
        BY DEF Always, Fit, Server
      <4>2. Len(sv.out) \in Nat /\ DOMAIN sv.out = 1 .. Len(sv.out)
        BY <4>1, LenProperties
      <4> QED BY <3>1, <4>2 DEF Answer, At
    <3> QED BY <2>1, <3>1, <3>2, <3>3 DEF Starts, From
  <2>2. CASE i # 1
    <3>1. 1 \in 1 .. Len(down) /\ 1 < i
      BY <1>2, <2>2
    <3> QED BY <1>1, <1>4, <3>1 DEF Ahead
  <2> QED BY <2>1, <2>2
<1> QED BY <1>3, <1>4

(* ClientRead keeps the invariant.                                         *)
LEMMA ClientReadKeeps ==
  ASSUME DownloadInv, ClientRead
  PROVE  DownloadInv'
<1> DEFINE p == Head(down)
           o == IF p.reliable THEN sv.out ELSE <<>>
           chunk == IF p.datagram = <<>> THEN <<>> ELSE <<Cmd("chunk", p.datagram)>>
           d == Through(Parse, cl, o \o chunk)
           Q == mixed'
<1>1. /\ down # <<>> /\ cl' = d /\ cl.state \notin Gone
      /\ sv' = (IF p.reliable THEN [sv EXCEPT !.out = <<>>] ELSE sv)
      /\ mixed' = (mixed \/ (p.datagram # <<>> /\ Starts(o, p.datagram)))
      /\ down' = Rest(down)
      /\ UNCHANGED <<spawncount, broadcast, up, oob, requests, faults>>
  BY DEF ClientRead
<1>2. /\ Sound(cl) /\ cl \in Client /\ Fit(cl, sv) /\ NotListed(cl, sv.out, 0) /\ sv.chunks = {}
      /\ spawncount \in 1 .. MaxLevel /\ UpOK(up, cl) /\ DownOK(down, sv)
      /\ oob \subseteq Nat \X Frag /\ Numbered(cl, oob) /\ broadcast \in Seq(Stuff)
  BY DEF DownloadInv, Always, Sound
<1>3. /\ DownOK(Rest(down), sv) /\ p = down[1] /\ p \in DownPacket
      /\ p.reliable => \A t : DownOK(Rest(down), t)
      /\ 1 \in 1 .. Len(down) /\ Len(Rest(down)) \in Nat
      /\ \A i \in 1 .. Len(Rest(down)) :
            /\ i + 1 \in 1 .. Len(down) /\ Rest(down)[i].datagram = down[i + 1].datagram
            /\ Rest(down)[i].reliable => down[i + 1].reliable /\ ~down[1].reliable
  BY <1>1, <1>2, DownRestOK
<1>4. p.reliable \in BOOLEAN /\ p.datagram \in Block
  BY <1>3 DEF DownPacket
<1>5. Q \/ cl.crossed \/ (~mixed /\ Talk)
  BY <1>1 DEF DownloadInv
<1> HIDE DEF p
<1>6. /\ chunk \in Seq(Item) /\ \A j \in 1 .. Len(chunk) : chunk[j].name = "chunk" /\ chunk[j].arg = p.datagram
  <2>1. CASE p.datagram = <<>>
    BY <2>1
  <2>2. CASE p.datagram # <<>>
    <3>1. Cmd("chunk", p.datagram) \in Item
      BY <1>4, <2>2 DEF Cmd, Item, Block
    <3> QED BY <2>2, <3>1 DEF Cmd
  <2> QED BY <2>1, <2>2
<1>7. /\ Sound(d) /\ Keeps(cl, d) /\ Fit(d, sv') /\ sv'.chunks = {} /\ DownOK(down', sv')
      /\ NotListed(d, sv'.out, 0)
      /\ Q \/ d.crossed \/ (Agreed(d, sv', sv'.out, 0, d.out, 0, {sv'.datagram}, oob) /\ Ahead(down', d, sv'))
  <2>1. CASE p.reliable
    <3> DEFINE X == {sv.datagram} \cup {down[i].datagram : i \in 1 .. Len(down)}
               w == sv.out \o chunk
    <3> HIDE DEF chunk
    <3>1. sv.out \in Seq(Item) /\ sv.out \in Seq(ServerItem)
      <4>1. ServerItem \subseteq Item
        BY DEF Item
      <4> QED BY <1>2, <4>1 DEF Fit, Server
    <3>2. w \in Seq(Item) /\ Len(w) \in Nat
      BY <1>6, <3>1, ConcatIs, LenProperties
    <3>3. NotListed(cl, w, 0)
      <4>1. At(w, 0, "svc_list") = At(sv.out, 0, "svc_list")
        BY <1>6, <3>1, AtConcat
      <4> QED BY <1>2, <4>1 DEF NotListed
    <3>4. \A i \in 1 .. Len(w) : w[i].name = "chunk" => w[i].arg \in X
      <4>1. /\ Len(sv.out) \in Nat
            /\ \A i \in 1 .. Len(sv.out) : w[i] = sv.out[i]
            /\ \A i \in 1 .. Len(w) : i > Len(sv.out) =>
                 i - Len(sv.out) \in 1 .. Len(chunk) /\ w[i] = chunk[i - Len(sv.out)]
        BY <1>6, <3>1, ConcatIs
      <4>2. \A i \in 1 .. Len(sv.out) : sv.out[i].name # "chunk"
        <5> TAKE i \in 1 .. Len(sv.out)
        <5>1. sv.out[i] \in ServerItem
          BY <3>1, ElementOfSeq
        <5> QED BY <5>1 DEF ServerItem, Stuff
      <4>3. p.datagram \in X
        BY <1>3
      <4> HIDE DEF w, X
      <4> TAKE i \in 1 .. Len(w)
      <4> HAVE w[i].name = "chunk"
      <4>4. i > Len(sv.out)
        BY <3>2, <4>1, <4>2
      <4> QED BY <1>6, <4>1, <4>3, <4>4
    <3>5. Q \/ cl.crossed \/ Agreed(cl, sv, w, 0, cl.out, 0, X, oob)
      <4> SUFFICES ASSUME ~Q, Talk PROVE Agreed(cl, sv, w, 0, cl.out, 0, X, oob)
        BY <1>5
      <4>1. Fresh(cl, sv.out, 0, X)
        BY <1>1, <1>3, <2>1, FreshBehind DEF DownloadInv
      <4> HIDE DEF X
      <4>2. SameServer(sv, sv)
        BY DEF SameServer
      <4>3. Agreed(cl, sv, sv.out, 0, cl.out, 0, X, oob)
        BY <4>1, <4>2, AgreedServer DEF Talk, Agreed
      <4> QED BY <1>6, <3>1, <4>3, AgreedBehind
    <3>6. d = Through(Parse, cl, w)
      BY <2>1
    <3> HIDE DEF w, X, d, Q
    <3>7. /\ Sound(d) /\ Keeps(cl, d)
          /\ Q \/ d.crossed \/ Agreed(d, sv, w, Len(w), cl.out, 0, X, oob)
      BY <1>2, <3>2, <3>3, <3>4, <3>5, <3>6, ThroughParsing
    <3>8. /\ Fit(cl, sv') /\ sv'.out = <<>> /\ sv'.datagram = sv.datagram /\ sv'.chunks = {}
          /\ SameServer(sv, sv')
      <4>1. sv' = [sv EXCEPT !.out = <<>>]
        BY <1>1, <2>1
      <4> QED BY <1>2, <4>1, EmptySaid
    <3>9. Fit(d, sv')
      BY <1>2, <3>7, <3>8, ClientKeeps DEF Sound
    <3>10. DownOK(down', sv') /\ NotListed(d, sv'.out, 0)
      BY <1>1, <1>3, <2>1, <3>8 DEF NotListed, At
    <3>11. Q \/ d.crossed \/ (Agreed(d, sv', sv'.out, 0, d.out, 0, {sv'.datagram}, oob) /\ Ahead(down', d, sv'))
      <4> SUFFICES ASSUME Agreed(d, sv, w, Len(w), cl.out, 0, X, oob)
                   PROVE  Agreed(d, sv', <<>>, 0, cl.out, 0, {sv.datagram}, oob) /\ Ahead(down', d, sv')
        BY <3>7, <3>8 DEF Keeps
      <4>1. Agreed(d, sv, <<>>, 0, cl.out, 0, {sv.datagram}, oob)
        <5>1. {sv.datagram} \subseteq X
          BY DEF X
        <5> QED BY <3>2, <5>1, AgreedSaid
      <4>2. Agreed(d, sv', <<>>, 0, cl.out, 0, {sv.datagram}, oob)
        BY <3>8, <4>1, AgreedServer DEF Agreed
      <4>3. ~Answered(sv'.out, 0)
        BY <3>8 DEF Answered, Answer, At
      <4>4. d.method = "DL_QWCHUNKS" => \A i \in 1 .. Len(Rest(down)) : From(Rest(down)[i].datagram, d.name)
        <5>1. \A i \in 1 .. Len(Rest(down)) : Rest(down)[i].datagram \in X
          BY <1>3 DEF X
        <5> QED BY <5>1 DEF Agreed, Fresh
      <4> QED BY <1>1, <4>2, <4>3, <4>4 DEF Ahead
    <3> QED BY <3>7, <3>8, <3>9, <3>10, <3>11
  <2>2. CASE ~p.reliable
    <3>1. o \o chunk = chunk /\ sv' = sv
      BY <1>1, <1>6, <2>2, ConcatEmptySeq
    <3>2. Talk => Ahead(down', cl, sv)
      <4>1. Len(down) \in Nat
        BY <1>2, LenProperties DEF DownOK
      <4>2. Ahead(down, cl, sv) => Ahead(Rest(down), cl, sv)
        BY <1>3, <4>1, AheadRest
      <4> QED BY <1>1, <4>2 DEF Talk
    <3>3. CASE p.datagram = <<>>
      <4>1. d = cl
        BY <3>1, <3>3, ThroughOne
      <4> HIDE DEF d
      <4>2. Q \/ cl.crossed \/ (Agreed(cl, sv, sv.out, 0, cl.out, 0, {sv.datagram}, oob) /\ Ahead(down', cl, sv))
        BY <1>5, <3>2 DEF Talk
      <4> QED BY <1>1, <1>2, <1>3, <3>1, <4>1, <4>2, KeepsSelf
    <3>4. CASE p.datagram # <<>>
      <4> DEFINE data == p.datagram
                 e == ParseChunk(cl, data)
      <4>1. data \in Frag
        BY <1>4, <3>4 DEF Block
      <4>2. d = e
        <5>1. d = Parse(cl, Cmd("chunk", data))
          BY <3>1, <3>4, ThroughOne
        <5>2. Parse(cl, Cmd("chunk", data)) = e
          BY <1>1 DEF Parse, Cmd
        <5> QED BY <5>1, <5>2
      <4> HIDE DEF data, d
      <4>3. Sound(e) /\ Keeps(cl, e)
        BY <1>2, <4>1, ParseChunkSound
      <4>4. Fit(e, sv) /\ NotListed(e, sv.out, 0)
        BY <1>2, <4>3, ClientKeeps DEF Sound
      <4>5. Q \/ e.crossed \/ (Agreed(e, sv, sv.out, 0, e.out, 0, {sv.datagram}, oob) /\ Ahead(down', e, sv))
        <5> SUFFICES ASSUME Talk
                     PROVE  Agreed(e, sv, sv.out, 0, cl.out, 0, {sv.datagram}, oob) /\ Ahead(down', e, sv)
          BY <1>5, <4>3 DEF Keeps
        <5>1. cl.method = "DL_QWCHUNKS" => data[1] = cl.name
          <6>1. cl.method = "DL_QWCHUNKS" => From(data, cl.name)
            BY <1>3 DEF Talk, Ahead, data
          <6> QED BY <3>4, <6>1 DEF From, data
        <5>2. /\ Agreed(e, sv, sv.out, 0, cl.out, 0, {sv.datagram}, oob)
              /\ e.method = cl.method /\ e.name = cl.name
          BY <1>2, <4>1, <5>1, ParseChunkAgreed DEF Talk
        <5> HIDE DEF e
        <5> QED BY <3>2, <5>2 DEF Ahead
      <4> QED BY <1>1, <1>2, <1>3, <3>1, <4>2, <4>3, <4>4, <4>5
    <3> QED BY <3>3, <3>4
  <2> QED BY <1>4, <2>1, <2>2
<1> HIDE DEF d
<1>8. UpOK(up, d) /\ Numbered(d, oob)
  BY <1>2, <1>7, UpKeeps, ClientKeeps DEF Sound
<1>9. Always'
  BY <1>1, <1>2, <1>7, <1>8 DEF Always, Fit, UpOK, DownOK
<1> QED BY <1>1, <1>7, <1>9 DEF DownloadInv, Talk
-----------------------------------------------------------------------------
(* The client sends: what it staged is under way.                          *)
LEMMA SentClient ==
  ASSUME NEW c, Sound(c)
  PROVE  /\ Sound(Sent(c))
         /\ Sent(c).number = c.number /\ Sent(c).level = c.level /\ Sent(c).crossed = c.crossed
         /\ Sent(c).method = c.method /\ Sent(c).name = c.name
         /\ \A s, o, k, X, M : Agreed(c, s, o, k, c.out, 0, X, M) =>
                               Agreed(Sent(c), s, o, k, Sent(c).out, 0, X, M)
<1>1. CASE c.out # <<>>
  <2>1. Sent(c) = c
    BY <1>1 DEF Sent
  <2> QED BY <2>1
<1>2. CASE c.out = <<>>
  <2> DEFINE d == [c EXCEPT !.out = c.staged, !.staged = <<>>]
  <2>1. Sent(c) = d
    BY <1>2 DEF Sent
  <2>2. /\ <<>> \in Seq(ClientCmd) /\ c \in Client
        /\ \A name : At(<<>>, 0, name) = {}
        /\ Stops(<<>>, 0) = {}
    BY DEF Sound, At, Stops
  <2>3. /\ d \in Client /\ d.out = c.staged /\ d.staged = <<>>
        /\ d.crossed = c.crossed /\ d.level = c.level
        /\ d.name = c.name /\ d.method = c.method /\ d.open = c.open /\ d.number = c.number
        /\ d.disk = c.disk /\ d.state = c.state
        /\ d.size = c.size /\ d.content = c.content /\ d.first = c.first /\ d.got = c.got /\ d.type = c.type
    BY <2>2 DEF Client
  <2> HIDE DEF d
  <2>4. Sound(d)
    BY <2>2, <2>3 DEF Sound, Window, Known
  <2>5. ASSUME NEW s, NEW o, NEW k, NEW X, NEW M, Agreed(c, s, o, k, c.out, 0, X, M)
        PROVE  Agreed(d, s, o, k, d.out, 0, X, M)
    <3>1. /\ Asking(d) = {} /\ Asked(d.out, 0) = Asking(c) /\ Asked(c.out, 0) = {}
          /\ Stops(d.staged, 0) = {} /\ Stops(d.out, 0) = Stops(c.staged, 0) /\ Stops(c.out, 0) = {}
          /\ \A i : d.out[i] = c.staged[i]
      BY <1>2, <2>2, <2>3 DEF Asking, Asked
    <3>2. Token(c, s, o, k, c.out, 0) /\ Order(c, s, o, k, c.out, 0)
      BY <2>5 DEF Agreed
    <3>3. Token(d, s, o, k, d.out, 0)
      BY <2>3, <3>1, <3>2 DEF Token, Lone
    <3>4. Order(d, s, o, k, d.out, 0)
      BY <2>3, <3>1, <3>2 DEF Order
    <3>5. Stored(d) /\ Fine(d) /\ Fresh(d, o, k, X) /\ ProperOOB(d, M)
      BY <2>3, <2>5 DEF Agreed, Stored, Fine, Fresh, ProperOOB
    <3> QED BY <3>3, <3>4, <3>5 DEF Agreed
  <2> QED BY <2>1, <2>3, <2>4, <2>5
<1> QED BY <1>1, <1>2

(* A packet more to the server.                                            *)
LEMMA UpMore ==
  ASSUME NEW c, NEW q, UpOK(q, c), Len(q) < MaxUnderWay,
         NEW p \in UpPacket, \A j \in 1 .. Len(p.cmds) : p.cmds[j].arg[2] <= c.number
  PROVE  UpOK(Append(q, p), c)
<1> DEFINE w == Append(q, p)
<1>1. /\ w \in Seq(UpPacket) /\ Len(w) = Len(q) + 1 /\ Len(q) \in Nat
      /\ \A i \in 1 .. Len(q) : w[i] = q[i]
      /\ w[Len(q) + 1] = p
  BY AppendItem DEF UpOK
<1> HIDE DEF w
<1>2. Len(w) <= MaxUnderWay
  BY <1>1, BoundsAreNats
<1>3. \A i \in 1 .. Len(w) : \A j \in 1 .. Len(w[i].cmds) : w[i].cmds[j].arg[2] <= c.number
  <2> TAKE i \in 1 .. Len(w)
  <2>1. CASE i = Len(q) + 1
    BY <1>1, <2>1
  <2>2. CASE i # Len(q) + 1
    <3>1. i \in 1 .. Len(q)
      BY <1>1, <2>2
    <3> QED BY <1>1, <3>1 DEF UpOK
  <2> QED BY <2>1, <2>2
<1> QED BY <1>1, <1>2, <1>3 DEF UpOK, w

(* A client that is no nearer to a file than it was finds what is under    *)
(* way as it was.                                                          *)
LEMMA AheadStill ==
  ASSUME NEW c, NEW s, NEW r, NEW X, NEW M, Agreed(c, s, s.out, 0, r, 0, X, M),
         NEW d, NEW t, NEW q, NEW Y, NEW N, Agreed(d, t, t.out, 0, q, 0, Y, N),
         t.out = s.out, t.download = s.download,
         d.method = "DL_QWCHUNKS" => c.method = "DL_QWCHUNKS",
         NEW w, Ahead(w, c, s)
  PROVE  Ahead(w, d, t)
<1>1. d.method = "DL_QWCHUNKS" => d.name = c.name
  BY DEF Agreed, Order
<1>2. Answered(t.out, 0) => d.name = c.name
  BY DEF Agreed, Token, Answered
<1> QED BY <1>1, <1>2 DEF Ahead

(* ClientFrame keeps the invariant.                                        *)
LEMMA ClientFrameKeeps ==
  ASSUME DownloadInv, ClientFrame
  PROVE  DownloadInv'
<1> DEFINE c == ExecuteCbuf(cl)
           r == SendChunkDownloadReq(c)
           d == Sent(r.c)
           p == [cmds |-> r.asked, reliable |-> d.out # <<>>]
           P == mixed
           A(e, q) == Agreed(e, sv, sv.out, 0, q, 0, {sv.datagram}, oob)
<1>1. /\ Len(up) < MaxUnderWay
      /\ \/ cl' = c /\ UNCHANGED up
         \/ cl' = d /\ up' = Append(up, p)
      /\ UNCHANGED <<sv, spawncount, broadcast, down, oob, requests, faults, mixed>>
  BY DEF ClientFrame
<1>2. /\ Sound(cl) /\ cl \in Client /\ Fit(cl, sv) /\ NotListed(cl, sv.out, 0) /\ sv.chunks = {}
      /\ spawncount \in 1 .. MaxLevel /\ UpOK(up, cl) /\ DownOK(down, sv)
      /\ oob \subseteq Nat \X Frag /\ Numbered(cl, oob) /\ broadcast \in Seq(Stuff)
  BY DEF DownloadInv, Always, Sound
<1>3. Sound(c) /\ Keeps(cl, c) /\ Alike(cl, c) /\ c \in Client
  BY <1>2, ExecuteCbufSound DEF Sound
<1>4. P \/ cl.crossed \/ (Talk /\ A(cl, cl.out) /\ Ahead(down, cl, sv))
  BY DEF DownloadInv, Talk
<1> HIDE DEF c
<1>5. P \/ c.crossed \/ (A(c, c.out) /\ A(cl, cl.out) /\ Ahead(down, cl, sv))
  <2>1. A(cl, cl.out) => A(c, cl.out)
    BY <1>3, AlikeAgreed
  <2> HIDE DEF A
  <2> QED BY <1>3, <1>4, <2>1 DEF Keeps
<1>6. c.method = cl.method
  BY <1>3 DEF Alike, SameTalk
<1>7. /\ Requests(r) /\ Keeps(c, r.c) /\ (P \/ r.c.crossed \/ A(r.c, r.c.out)) /\ Sound(r.c) /\ r.c \in Client
      /\ r.c.method = "DL_QWCHUNKS" => cl.method = "DL_QWCHUNKS"
  <2>1. P \/ c.crossed \/ A(c, c.out)
    BY <1>5
  <2>2. /\ Requests(r) /\ Keeps(c, r.c) /\ (P \/ r.c.crossed \/ A(r.c, c.out))
        /\ r.c.method = "DL_QWCHUNKS" => c.method = "DL_QWCHUNKS"
    BY <1>3, <2>1, SendChunkDownloadReqSound
  <2> HIDE DEF r, A, P
  <2>3. r.c.out = c.out /\ Sound(r.c) /\ r.c \in Client
    BY <2>2 DEF Keeps, Requests, Sound
  <2> QED BY <1>6, <2>2, <2>3
<1> HIDE DEF r, P
<1>8. /\ Sound(d) /\ d.number = r.c.number /\ d.level = r.c.level /\ d.crossed = r.c.crossed
      /\ d.method = r.c.method /\ (P \/ d.crossed \/ A(d, d.out)) /\ d \in Client
  BY <1>7, SentClient DEF Sound
<1>9. Keeps(cl, r.c)
  BY <1>2, <1>3, <1>7, KeepsOn
<1>10. /\ \A s : Fit(cl, s) => Fit(d, s)
       /\ \A o, k : NotListed(cl, o, k) => NotListed(d, o, k)
       /\ \A M : Numbered(cl, M) /\ M \subseteq Nat \X Frag => Numbered(d, M)
       /\ UpOK(up, d) /\ (cl.crossed => d.crossed)
  <2>1. /\ \A s : Fit(cl, s) => Fit(r.c, s)
        /\ \A o, k : NotListed(cl, o, k) => NotListed(r.c, o, k)
        /\ \A M : Numbered(cl, M) /\ M \subseteq Nat \X Frag => Numbered(r.c, M)
        /\ UpOK(up, r.c)
    BY <1>2, <1>7, <1>9, ClientKeeps, UpKeeps
  <2> HIDE DEF d
  <2> QED BY <1>8, <1>9, <2>1 DEF Fit, NotListed, Numbered, UpOK, Keeps
<1> HIDE DEF A, d
<1>11. UpOK(Append(up, p), d)
  <2>1. p \in UpPacket /\ \A j \in 1 .. Len(p.cmds) : p.cmds[j].arg[2] <= d.number
    BY <1>7, <1>8 DEF UpPacket, Requests
  <2> QED BY <1>1, <1>10, <2>1, UpMore
<1>12. P \/ d.crossed \/ (A(d, d.out) /\ Ahead(down, d, sv))
  <2>1. ASSUME A(d, d.out), A(cl, cl.out), Ahead(down, cl, sv) PROVE Ahead(down, d, sv)
    BY <1>7, <1>8, <2>1, AheadStill DEF A
  <2> QED BY <1>4, <1>8, <1>10, <2>1
<1>13. CASE cl' = d /\ up' = Append(up, p)
  <2>1. Always'
    BY <1>1, <1>2, <1>8, <1>10, <1>11, <1>13 DEF Always, Fit, UpOK, DownOK
  <2>2. mixed' \/ cl'.crossed \/ Talk'
    BY <1>1, <1>12, <1>13 DEF A, Talk, P
  <2> QED BY <2>1, <2>2 DEF DownloadInv
<1>14. CASE cl' = c /\ UNCHANGED up
  <2>1. Fit(c, sv) /\ NotListed(c, sv.out, 0) /\ Numbered(c, oob) /\ UpOK(up, c)
    BY <1>2, <1>3, ClientKeeps, UpKeeps
  <2>2. Always'
    BY <1>1, <1>2, <1>3, <1>14, <2>1 DEF Always, Fit, UpOK, DownOK
  <2>3. P \/ c.crossed \/ (A(c, c.out) /\ Ahead(down, c, sv))
    BY <1>3, <1>5 DEF Ahead, Alike, SameTalk
  <2>4. mixed' \/ cl'.crossed \/ Talk'
    BY <1>1, <1>14, <2>3 DEF A, Talk, P
  <2> QED BY <2>2, <2>4 DEF DownloadInv
<1> QED BY <1>1, <1>13, <1>14
-----------------------------------------------------------------------------
(* The server says something else to every client.                         *)
LEMMA SayAllKept ==
  ASSUME NEW c, NEW s, Fit(c, s), NEW z \in Seq(Stuff)
  PROVE  LET t == [s EXCEPT !.staged = @ \o z] IN Fit(c, t) /\ Kept(s, t)
<1> DEFINE staged == s.staged \o z
           t == [s EXCEPT !.staged = staged]
<1>1. s \in Server /\ s.staged \in Seq(ServerItem) /\ z \in Seq(ServerItem)
  <2>1. Stuff \subseteq ServerItem
    BY DEF ServerItem
  <2> QED BY <2>1 DEF Fit, Server
<1>2. [s EXCEPT !.staged = @ \o z] = t
  BY <1>1 DEF Server
<1>3. \A j \in 1 .. Len(z) : z[j].name = "stufftext"
  <2> TAKE j \in 1 .. Len(z)
  <2>1. z[j] \in Stuff
    BY ElementOfSeq
  <2> QED BY <2>1 DEF Stuff
<1>4. /\ staged \in Seq(ServerItem)
      /\ At(staged, 0, "svc_download") = At(s.staged, 0, "svc_download")
      /\ At(staged, 0, "svc_list") = At(s.staged, 0, "svc_list")
      /\ \A i \in At(s.staged, 0, "svc_download") : staged[i] = s.staged[i]
  <2>1. staged \in Seq(ServerItem) /\ \A i \in 1 .. Len(s.staged) : staged[i] = s.staged[i]
    BY <1>1, ConcatIs
  <2>2. At(staged, 0, "svc_download") = At(s.staged, 0, "svc_download")
    BY <1>1, <1>3, AtConcat
  <2>3. At(staged, 0, "svc_list") = At(s.staged, 0, "svc_list")
    BY <1>1, <1>3, AtConcat
  <2>4. At(s.staged, 0, "svc_download") \subseteq 1 .. Len(s.staged)
    BY DEF At
  <2> HIDE DEF staged
  <2> QED BY <2>1, <2>2, <2>3, <2>4
<1> HIDE DEF staged
<1>5. /\ t \in Server /\ t.staged = staged /\ t.download = s.download /\ t.out = s.out
      /\ t.datagram = s.datagram /\ t.chunks = s.chunks /\ t.level = s.level
  BY <1>1, <1>4 DEF Server
<1> HIDE DEF t
<1>6. Kept(s, t)
  BY <1>4, <1>5 DEF Kept, SameServer, Answering
<1>7. Fit(c, t)
  BY <1>4, <1>5 DEF Fit, NotListed
<1> QED BY <1>2, <1>6, <1>7

(* The server sends: what it staged is under way, and its slot is empty.   *)
LEMMA SentServer ==
  ASSUME NEW c, NEW s, Fit(c, s), NotListed(c, s.out, 0), s.datagram = <<>>
  PROVE  /\ Fit(c, Sent(s)) /\ NotListed(c, Sent(s).out, 0) /\ Sent(s).datagram = <<>>
         /\ Sent(s).chunks = s.chunks /\ (s.out # <<>> => Sent(s).out = s.out)
         /\ \A r, l, M : Agreed(c, s, s.out, 0, r, l, {<<>>}, M) =>
                         Agreed(c, Sent(s), Sent(s).out, 0, r, l, {<<>>}, M)
<1>1. CASE s.out # <<>>
  <2>1. Sent(s) = s
    BY <1>1 DEF Sent
  <2> QED BY <2>1
<1>2. CASE s.out = <<>>
  <2> DEFINE t == [s EXCEPT !.out = s.staged, !.staged = <<>>]
  <2>1. Sent(s) = t
    BY <1>2 DEF Sent
  <2>2. <<>> \in Seq(ServerItem) /\ s \in Server /\ \A name : At(<<>>, 0, name) = {}
    BY DEF Fit, At
  <2>3. /\ t \in Server /\ t.staged = <<>> /\ t.out = s.staged /\ t.download = s.download
        /\ t.datagram = s.datagram /\ t.chunks = s.chunks /\ t.level = s.level
    BY <2>2 DEF Server
  <2> HIDE DEF t
  <2>4. Fit(c, t) /\ NotListed(c, t.out, 0)
    BY <2>2, <2>3 DEF Fit, NotListed
  <2>5. ASSUME NEW r, NEW l, NEW M, Agreed(c, s, s.out, 0, r, l, {<<>>}, M)
        PROVE  Agreed(c, t, t.out, 0, r, l, {<<>>}, M)
    <3>1. /\ Answering(t) = {} /\ Answer(t.out, 0) = Answering(s) /\ Answer(s.out, 0) = {}
          /\ \A i : t.out[i] = s.staged[i]
      BY <1>2, <2>2, <2>3 DEF Answering, Answer
    <3>2. Token(c, s, s.out, 0, r, l) /\ Order(c, s, s.out, 0, r, l)
      BY <2>5 DEF Agreed
    <3>3. Token(c, t, t.out, 0, r, l)
      BY <2>3, <3>1, <3>2 DEF Token, Lone
    <3>4. Order(c, t, t.out, 0, r, l)
      BY <2>3, <3>1, <3>2 DEF Order
    <3>5. Fresh(c, t.out, 0, {<<>>})
      BY DEF Fresh, From
    <3> QED BY <2>5, <3>3, <3>4, <3>5 DEF Agreed
  <2> QED BY <1>2, <2>1, <2>3, <2>4, <2>5
<1> QED BY <1>1, <1>2

(* A packet more to the client.                                            *)
LEMMA DownMore ==
  ASSUME NEW q, NEW s, DownOK(q, s), Len(q) < MaxUnderWay, NEW data \in Block,
         NEW t, s.out # <<>> => t.out = s.out, NEW c
  PROVE  LET w == Append(q, [datagram |-> data, reliable |-> t.out # <<>>])
         IN  /\ DownOK(w, t)
             /\ Ahead(q, c, s) /\ Fresh(c, s.out, 0, {data}) => Ahead(w, c, t)
<1> DEFINE p == [datagram |-> data, reliable |-> t.out # <<>>]
           w == Append(q, p)
           n == Len(q)
<1>1. p \in DownPacket /\ p.datagram = data /\ (p.reliable <=> t.out # <<>>)
  BY DEF DownPacket
<1> HIDE DEF p
<1>2. /\ w \in Seq(DownPacket) /\ Len(w) = n + 1 /\ n \in Nat /\ w[n + 1] = p
      /\ \A i \in 1 .. n : w[i] = q[i]
  BY <1>1, AppendItem DEF DownOK
<1> HIDE DEF w
<1>3. \A i \in 1 .. Len(w) : i \in 1 .. n \/ i = n + 1
  BY <1>2
<1>4. DownOK(w, t)
  <2>1. Len(w) <= MaxUnderWay
    BY <1>2, BoundsAreNats
  <2>2. t.out = <<>> => s.out = <<>>
    OBVIOUS
  <2> QED BY <1>1, <1>2, <1>3, <2>1, <2>2 DEF DownOK
<1>5. ASSUME Ahead(q, c, s), Fresh(c, s.out, 0, {data}) PROVE Ahead(w, c, t)
  <2>1. c.method = "DL_QWCHUNKS" \/ Answered(s.out, 0) => From(data, c.name)
    BY <1>5 DEF Fresh
  <2>2. c.method = "DL_QWCHUNKS" => \A i \in 1 .. Len(w) : From(w[i].datagram, c.name)
    BY <1>1, <1>2, <1>3, <1>5, <2>1 DEF Ahead
  <2>3. ASSUME Answered(t.out, 0), NEW i \in 1 .. Len(w), NEW j \in 1 .. Len(w), i < j, w[i].reliable
        PROVE  From(w[j].datagram, c.name)
    <3>1. i \in 1 .. n /\ q[i].reliable
      BY <1>2, <1>3, <2>3
    <3>2. s.out # <<>> /\ Answered(s.out, 0)
      BY <2>3, <3>1 DEF DownOK
    <3>3. CASE j = n + 1
      BY <1>1, <1>2, <2>1, <3>2, <3>3
    <3>4. CASE j \in 1 .. n
      BY <1>2, <1>5, <2>3, <3>1, <3>2, <3>4 DEF Ahead
    <3> QED BY <1>3, <3>3, <3>4
  <2> QED BY <2>2, <2>3 DEF Ahead
<1> QED BY <1>4, <1>5 DEF w, p

(* SV_SendClientMessages.                                                  *)
LEMMA ReplyKeeps ==
  ASSUME NEW s, Fit(cl, s), s.chunks = {}, DownOK(down, s), NotListed(cl, s.out, 0),
         NEW P, P \/ (Agreed(cl, s, s.out, 0, cl.out, 0, {s.datagram}, oob) /\ Ahead(down, cl, s)),
         NEW choked \in BOOLEAN, choked \/ Len(down) < MaxUnderWay, Reply(s, choked)
  PROVE  /\ Fit(cl, sv') /\ sv'.chunks = {} /\ DownOK(down', sv') /\ NotListed(cl, sv'.out, 0)
         /\ \/ P
            \/ /\ Agreed(cl, sv', sv'.out, 0, cl.out, 0, {sv'.datagram}, oob)
               /\ Ahead(down', cl, sv')
<1> DEFINE A(t, X) == Agreed(cl, t, t.out, 0, cl.out, 0, X, oob)
<1>1. s \in Server
  BY DEF Fit
<1>2. CASE choked
  <2> DEFINE t == [s EXCEPT !.send_message = FALSE]
  <2>1. sv' = t /\ down' = down
    BY <1>2 DEF Reply
  <2>2. /\ t \in Server /\ t.staged = s.staged /\ t.download = s.download /\ t.out = s.out
        /\ t.datagram = s.datagram /\ t.chunks = s.chunks /\ t.level = s.level
    BY <1>1 DEF Server
  <2> HIDE DEF t
  <2>3. SameServer(s, t) /\ Fit(cl, t) /\ NotListed(cl, t.out, 0) /\ DownOK(down, t)
    BY <2>2 DEF SameServer, Answering, Fit, NotListed, DownOK
  <2>4. A(s, {s.datagram}) => A(t, {t.datagram})
    <3>1. A(s, {s.datagram}) => Fresh(cl, s.out, 0, {s.datagram}) /\ ProperOOB(cl, oob)
      BY DEF Agreed
    <3> QED BY <2>2, <2>3, <3>1, AgreedServer
  <2> HIDE DEF A
  <2>5. Ahead(down, cl, s) => Ahead(down, cl, t)
    BY <2>2 DEF Ahead
  <2>6. P \/ (A(t, {t.datagram}) /\ Ahead(down, cl, t))
    BY <2>4, <2>5 DEF A
  <2> QED BY <2>1, <2>2, <2>3, <2>6 DEF A
<1>3. CASE ~choked
  <2> DEFINE v == [s EXCEPT !.send_message = FALSE, !.datagram = <<>>]
             p == [datagram |-> s.datagram, reliable |-> sv'.out # <<>>]
  <2>1. sv' = Sent(v) /\ down' = Append(down, p)
    BY <1>3 DEF Reply
  <2>2. /\ v \in Server /\ v.staged = s.staged /\ v.download = s.download /\ v.out = s.out
        /\ v.datagram = <<>> /\ v.chunks = s.chunks /\ v.level = s.level
    <3>1. <<>> \in Block
      BY DEF Block
    <3> QED BY <1>1, <3>1 DEF Server
  <2> HIDE DEF v
  <2>3. SameServer(s, v) /\ Fit(cl, v) /\ NotListed(cl, v.out, 0) /\ DownOK(down, v)
    BY <2>2 DEF SameServer, Answering, Fit, NotListed, DownOK
  <2>4. A(s, {s.datagram}) => A(v, {<<>>})
    <3>1. A(s, {s.datagram}) => ProperOOB(cl, oob)
      BY DEF Agreed
    <3>2. Fresh(cl, s.out, 0, {<<>>})
      BY DEF Fresh, From
    <3> QED BY <2>2, <2>3, <3>1, <3>2, AgreedServer
  <2>5. /\ Fit(cl, sv') /\ NotListed(cl, sv'.out, 0) /\ sv'.datagram = <<>>
        /\ sv'.chunks = {} /\ (s.out # <<>> => sv'.out = s.out)
        /\ A(v, {<<>>}) => A(sv', {<<>>})
    BY <2>1, <2>2, <2>3, SentServer
  <2>6. s.datagram \in Block
    BY <1>1 DEF Server
  <2>7. /\ DownOK(down', sv')
        /\ Ahead(down, cl, s) /\ Fresh(cl, s.out, 0, {s.datagram}) => Ahead(down', cl, sv')
    BY <1>3, <2>1, <2>5, <2>6, DownMore
  <2>8. A(s, {s.datagram}) => Fresh(cl, s.out, 0, {s.datagram})
    BY DEF Agreed
  <2> QED BY <2>4, <2>5, <2>7, <2>8
<1> QED BY <1>2, <1>3

(* A slot that has only more to say agrees with the client to the same.    *)
LEMMA KeptTalk ==
  ASSUME DownloadInv, NEW s, Kept(sv, s)
  PROVE  /\ s.chunks = {} /\ DownOK(down, s) /\ NotListed(cl, s.out, 0)
         /\ \/ mixed \/ cl.crossed
            \/ Agreed(cl, s, s.out, 0, cl.out, 0, {s.datagram}, oob) /\ Ahead(down, cl, s)
<1>1. s.out = sv.out /\ sv.chunks = {} /\ s.chunks = {} /\ DownOK(down, s) /\ NotListed(cl, s.out, 0)
  BY DEF DownloadInv, Always, Kept, DownOK
<1>2. oob \cup sv.chunks = oob /\ oob \cup s.chunks = oob
  BY <1>1
<1>3. Talk => Agreed(cl, s, s.out, 0, cl.out, 0, {s.datagram}, oob)
  <2>1. Talk => Agreed(cl, sv, sv.out, 0, cl.out, 0, {sv.datagram}, oob \cup sv.chunks)
    BY <1>2 DEF Talk
  <2>2. Talk => Agreed(cl, s, sv.out, 0, cl.out, 0, {s.datagram}, oob \cup s.chunks)
    BY <2>1, KeptAgreed
  <2> QED BY <1>1, <1>2, <2>2
<1>4. Talk => Ahead(down, cl, s)
  BY <1>1 DEF Talk, Ahead
<1> QED BY <1>1, <1>3, <1>4 DEF DownloadInv

(* ServerFrame keeps the invariant, whether the slot is choked or not.     *)
LEMMA ServerFrameKeeps ==
  ASSUME DownloadInv, NEW choked \in BOOLEAN, ServerFrame(choked)
  PROVE  DownloadInv'
<1> DEFINE s == [sv EXCEPT !.staged = @ \o broadcast]
           P == mixed \/ cl.crossed
           A(t) == Agreed(cl, t, t.out, 0, cl.out, 0, {t.datagram}, oob)
<1>1. /\ \/ (choked \/ Len(down) < MaxUnderWay) /\ Reply(s, choked)
         \/ sv' = s /\ UNCHANGED down
      /\ broadcast' = <<>> /\ UNCHANGED <<cl, spawncount, up, oob, requests, mixed>>
  BY DEF ServerFrame
<1>2. /\ Sound(cl) /\ Fit(cl, sv) /\ spawncount \in 1 .. MaxLevel /\ UpOK(up, cl)
      /\ oob \subseteq Nat \X Frag /\ Numbered(cl, oob) /\ broadcast \in Seq(Stuff)
  BY DEF DownloadInv, Always
<1>3. Fit(cl, s) /\ Kept(sv, s)
  BY <1>2, SayAllKept
<1> HIDE DEF s
<1>4. /\ s.chunks = {} /\ DownOK(down, s) /\ NotListed(cl, s.out, 0)
      /\ P \/ (A(s) /\ Ahead(down, cl, s))
  BY <1>3, KeptTalk
<1> HIDE DEF P
<1>5. /\ Fit(cl, sv') /\ sv'.chunks = {} /\ DownOK(down', sv') /\ NotListed(cl, sv'.out, 0)
      /\ P \/ (A(sv') /\ Ahead(down', cl, sv'))
  <2>1. CASE (choked \/ Len(down) < MaxUnderWay) /\ Reply(s, choked)
    BY <1>3, <1>4, <2>1, ReplyKeeps
  <2>2. CASE sv' = s /\ UNCHANGED down
    BY <1>3, <1>4, <2>2
  <2> QED BY <1>1, <2>1, <2>2
<1>6. Always'
  <2>1. broadcast' \in Seq(Stuff)
    BY <1>1
  <2> QED BY <1>1, <1>2, <1>5, <2>1 DEF Always, Fit, UpOK, DownOK
<1> QED BY <1>1, <1>5, <1>6 DEF DownloadInv, Talk, P

(* Map keeps the invariant.                                                *)
LEMMA MapKeeps ==
  ASSUME DownloadInv, NEW choked \in BOOLEAN, Map(choked)
  PROVE  DownloadInv'
<1> DEFINE word(w) == <<Cmd("stufftext", <<w>>)>>
           u == [sv EXCEPT !.staged = @ \o broadcast]
           s == [u EXCEPT !.staged = @ \o word("changing")]
           P == mixed \/ cl.crossed
           A(t) == Agreed(cl, t, t.out, 0, cl.out, 0, {t.datagram}, oob)
<1>1. \A w \in Word : word(w) \in Seq(Stuff)
  <2> TAKE w \in Word
  <2>1. Cmd("stufftext", <<w>>) \in Stuff
    BY DEF Cmd, Stuff
  <2> QED BY <2>1
<1>2. /\ Sound(cl) /\ Fit(cl, sv) /\ spawncount \in 1 .. MaxLevel /\ UpOK(up, cl)
      /\ oob \subseteq Nat \X Frag /\ Numbered(cl, oob) /\ broadcast \in Seq(Stuff)
  BY DEF DownloadInv, Always
<1>3. /\ choked \/ Len(down) < MaxUnderWay
      /\ Reply(s, choked)
      /\ broadcast' = word("reconnect") /\ spawncount' = spawncount + 1 /\ spawncount < MaxLevel
      /\ UNCHANGED <<cl, up, oob, requests, faults, mixed>>
  <2>1. [sv EXCEPT !.staged = @ \o broadcast \o word("changing")] = s
    BY <1>2 DEF Fit, Server
  <2> QED BY <2>1 DEF Map
<1>4. word("changing") \in Seq(Stuff) /\ word("reconnect") \in Seq(Stuff)
  BY <1>1 DEF Word
<1> HIDE DEF word
<1>5. Fit(cl, s) /\ Kept(sv, s)
  <2>1. Fit(cl, u) /\ Kept(sv, u)
    BY <1>2, SayAllKept
  <2> HIDE DEF u
  <2>2. Fit(cl, s) /\ Kept(u, s)
    BY <1>4, <2>1, SayAllKept
  <2> HIDE DEF s
  <2> QED BY <2>1, <2>2, KeptOn
<1> HIDE DEF s
<1>6. /\ s.chunks = {} /\ DownOK(down, s) /\ NotListed(cl, s.out, 0)
      /\ P \/ (A(s) /\ Ahead(down, cl, s))
  BY <1>5, KeptTalk
<1> HIDE DEF P
<1>7. /\ Fit(cl, sv') /\ sv'.chunks = {} /\ DownOK(down', sv') /\ NotListed(cl, sv'.out, 0)
      /\ P \/ (A(sv') /\ Ahead(down', cl, sv'))
  BY <1>3, <1>5, <1>6, ReplyKeeps
<1>8. Always'
  <2>1. broadcast' \in Seq(Stuff)
    BY <1>3, <1>4
  <2>2. spawncount' \in 1 .. MaxLevel /\ Fit(cl, sv)'
    <3>1. sv'.level \in 0 .. MaxLevel
      BY <1>7 DEF Fit, Server
    <3>2. spawncount' \in 1 .. MaxLevel /\ spawncount <= spawncount'
      BY <1>2, <1>3, NeedsAreFiles
    <3>3. sv'.level <= spawncount
      BY <1>7 DEF Fit
    <3>4. sv'.level <= spawncount'
      <4>1. sv'.level \in Int /\ spawncount \in Int /\ spawncount' \in Int
        BY <1>2, <3>1, <3>2
      <4> QED BY <3>2, <3>3, <4>1
    <3> QED BY <1>3, <1>7, <3>2, <3>4 DEF Fit
  <2>3. UpOK(up, cl)' /\ DownOK(down, sv)'
    BY <1>2, <1>3, <1>7 DEF UpOK, DownOK
  <2>4. (oob \subseteq Nat \X Frag)' /\ Numbered(cl, oob)' /\ Sound(cl)'
    BY <1>2, <1>3
  <2>5. NotListed(cl, sv.out, 0)' /\ (sv.chunks = {})'
    BY <1>3, <1>7
  <2> QED BY <2>1, <2>2, <2>3, <2>4, <2>5 DEF Always
<1> QED BY <1>3, <1>7, <1>8 DEF DownloadInv, Talk, P
-----------------------------------------------------------------------------
(* A chunk that came outside the channel.                                  *)
LEMMA ReadOOBKeeps ==
  ASSUME DownloadInv, NEW m \in oob, ReadOOB(m)
  PROVE  DownloadInv'
<1> DEFINE P == mixed \/ cl.crossed
           A(c, M) == Agreed(c, sv, sv.out, 0, c.out, 0, {sv.datagram}, M)
           e == ParseChunk(cl, m[2])
           M == oob \ {m}
<1>1. /\ oob' = M /\ cl' = IF Proper(m) THEN e ELSE cl
      /\ UNCHANGED <<sv, spawncount, broadcast, up, down, requests, faults, mixed>>
  BY DEF ReadOOB
<1>2. /\ Sound(cl) /\ cl \in Client /\ Fit(cl, sv) /\ NotListed(cl, sv.out, 0) /\ sv.chunks = {}
      /\ spawncount \in 1 .. MaxLevel /\ UpOK(up, cl) /\ DownOK(down, sv)
      /\ oob \subseteq Nat \X Frag /\ Numbered(cl, oob) /\ broadcast \in Seq(Stuff)
  BY DEF DownloadInv, Always, Sound
<1>3. M \subseteq oob /\ M \subseteq Nat \X Frag /\ Numbered(cl, M) /\ m[2] \in Frag
  BY <1>2 DEF Numbered
<1>4. P \/ (A(cl, oob) /\ A(cl, M) /\ Ahead(down, cl, sv))
  <2>1. A(cl, oob) => A(cl, M)
    <3>1. SameServer(sv, sv)
      BY DEF SameServer
    <3>2. A(cl, oob) => Fresh(cl, sv.out, 0, {sv.datagram}) /\ ProperOOB(cl, M)
      BY <1>3 DEF Agreed, ProperOOB
    <3> QED BY <3>1, <3>2, AgreedServer
  <2> QED BY <2>1 DEF DownloadInv, Talk
<1> HIDE DEF M
<1>5. CASE Proper(m)
  <2>1. cl' = e /\ m[1] = cl.number
    BY <1>1, <1>5 DEF Proper
  <2>2. Sound(e) /\ Keeps(cl, e) /\ e \in Client
    BY <1>2, <1>3, ParseChunkSound DEF Sound
  <2>3. Fit(e, sv) /\ NotListed(e, sv.out, 0) /\ Numbered(e, M) /\ UpOK(up, e)
    BY <1>2, <1>3, <2>2, ClientKeeps, UpKeeps
  <2>4. P \/ (A(e, M) /\ Ahead(down, e, sv))
    <3> SUFFICES ASSUME ~P PROVE A(e, M) /\ Ahead(down, e, sv)
      OBVIOUS
    <3>1. cl.method = "DL_QWCHUNKS" => m[2][1] = cl.name
      BY <1>4, <2>1 DEF Agreed, ProperOOB
    <3> DEFINE data == m[2]
    <3> HIDE DEF data, P
    <3>2. /\ Agreed(ParseChunk(cl, data), sv, sv.out, 0, cl.out, 0, {sv.datagram}, M)
          /\ ParseChunk(cl, data).method = cl.method /\ ParseChunk(cl, data).name = cl.name
      BY <1>2, <1>3, <1>4, <3>1, ParseChunkAgreed DEF data
    <3>3. ParseChunk(cl, data) = e
      BY DEF data
    <3> HIDE DEF e
    <3> QED BY <1>4, <2>2, <3>2, <3>3 DEF Ahead, Keeps
  <2>5. Always'
    BY <1>1, <1>2, <1>3, <2>1, <2>2, <2>3 DEF Always, Fit, UpOK, DownOK
  <2> QED BY <1>1, <2>1, <2>2, <2>4, <2>5 DEF DownloadInv, Talk, Keeps
<1>6. CASE ~Proper(m)
  <2>1. cl' = cl
    BY <1>1, <1>6
  <2>2. Always'
    BY <1>1, <1>2, <1>3, <2>1 DEF Always, Fit, UpOK, DownOK
  <2> QED BY <1>1, <1>4, <2>1, <2>2 DEF DownloadInv, Talk
<1> QED BY <1>5, <1>6

(* The user asks for a file.                                               *)
LEMMA DownloadKeeps ==
  ASSUME DownloadInv, NEW f \in File, Download(f)
  PROVE  DownloadInv'
<1> DEFINE c == Ask(cl, f)
           d == [c EXCEPT !.type = "dl_single"]
           P == mixed
           A(e, q) == Agreed(e, sv, sv.out, 0, q, 0, {sv.datagram}, oob)
<1>1. cl' = d /\ UNCHANGED <<sv, spawncount, broadcast, up, down, oob, faults, mixed>>
  BY DEF Download
<1>2. /\ Sound(cl) /\ cl \in Client /\ Fit(cl, sv) /\ NotListed(cl, sv.out, 0) /\ sv.chunks = {}
      /\ spawncount \in 1 .. MaxLevel /\ UpOK(up, cl) /\ DownOK(down, sv)
      /\ oob \subseteq Nat \X Frag /\ Numbered(cl, oob) /\ broadcast \in Seq(Stuff)
  BY DEF DownloadInv, Always, Sound
<1>3. Sound(c) /\ Keeps(cl, c) /\ c \in Client
  BY <1>2, AskSound DEF Sound
<1>4. c.method = "DL_QW"
  BY <1>2, AskIs
<1>5. A(cl, cl.out) => c.crossed \/ A(c, cl.out)
  BY <1>2, AskAgreed
<1> HIDE DEF c
<1>6. /\ d \in Client /\ d.out = c.out /\ d.crossed = c.crossed /\ d.level = c.level
      /\ d.name = c.name /\ d.method = c.method /\ d.open = c.open /\ d.number = c.number
      /\ d.disk = c.disk /\ d.state = c.state /\ d.staged = c.staged /\ d.type = "dl_single"
      /\ d.size = c.size /\ d.content = c.content /\ d.first = c.first /\ d.got = c.got
  BY <1>3 DEF Client
<1> HIDE DEF d
<1>7. Sound(d) /\ Keeps(c, d) /\ Alike(c, d)
  <2>1. Window(d) /\ Known(d)
    BY <1>3, <1>6 DEF Sound, Window, Known
  <2>2. Keeps(c, d)
    BY <1>3, <1>6 DEF Keeps, Client
  <2>3. Alike(c, d)
    BY <1>6 DEF Alike, SameTalk, Asking
  <2> QED BY <1>6, <2>1, <2>2, <2>3 DEF Sound
<1>8. Keeps(cl, d)
  BY <1>2, <1>3, <1>6, <1>7, KeepsOn
<1>9. Fit(d, sv) /\ NotListed(d, sv.out, 0) /\ Numbered(d, oob) /\ UpOK(up, d)
  BY <1>2, <1>6, <1>8, ClientKeeps, UpKeeps
<1>10. P \/ d.crossed \/ (A(d, d.out) /\ Ahead(down, d, sv))
  <2> SUFFICES ASSUME ~P, ~d.crossed PROVE A(d, d.out) /\ Ahead(down, d, sv)
    OBVIOUS
  <2>1. A(cl, cl.out) /\ Ahead(down, cl, sv)
    BY <1>8 DEF DownloadInv, Talk, Keeps
  <2>2. A(d, cl.out)
    BY <1>5, <1>6, <1>7, <2>1, AlikeAgreed
  <2>3. Ahead(down, d, sv)
    BY <1>4, <1>6, <2>1, <2>2, AheadStill
  <2> HIDE DEF A
  <2> QED BY <1>8, <2>2, <2>3 DEF Keeps
<1>11. Always'
  BY <1>1, <1>2, <1>7, <1>9 DEF Always, Fit, UpOK, DownOK
<1> QED BY <1>1, <1>10, <1>11 DEF DownloadInv, Talk

(* What is left when the first packet, or its reliable part, is lost.      *)
Left(w, q, T) ==
  /\ w \in Seq(T) /\ Len(w) \in Nat /\ Len(q) \in Nat /\ Len(w) <= Len(q)
  /\ \E n \in {0, 1} : \A i \in 1 .. Len(w) :
        /\ i + n \in 1 .. Len(q)
        /\ w[i] = q[i + n] \/ w[i] = [q[i + n] EXCEPT !.reliable = FALSE]

(* What Lose leaves of a sequence of packets is of that kind.              *)
LEMMA LostFromIs ==
  ASSUME NEW T, NEW q \in Seq(T), q # <<>>, \A t \in T : [t EXCEPT !.reliable = FALSE] \in T,
         NEW w \in LostFrom(q)
  PROVE  Left(w, q, T)
<1>1. /\ Tail(q) \in Seq(T) /\ Len(q) \in Nat \ {0} /\ Len(Tail(q)) = Len(q) - 1
      /\ \A i \in 1 .. Len(q) - 1 : Tail(q)[i] = q[i + 1]
      /\ \A i \in 1 .. Len(q) : q[i] \in T
  BY HeadTailProperties, EmptySeq, LenProperties, ElementOfSeq
<1>2. CASE w = Tail(q)
  <2>1. \A i \in 1 .. Len(w) : i + 1 \in 1 .. Len(q) /\ w[i] = q[i + 1]
    BY <1>1, <1>2
  <2> QED BY <1>1, <1>2, <2>1 DEF Left
<1>3. CASE w = [q EXCEPT ![1].reliable = FALSE]
  <2> DEFINE x == [q[1] EXCEPT !.reliable = FALSE]
  <2>1. 1 \in 1 .. Len(q) /\ x \in T
    BY <1>1
  <2>2. w = [q EXCEPT ![1] = x]
    BY <1>3
  <2> HIDE DEF x
  <2>3. w \in Seq(T) /\ Len(w) = Len(q) /\ \A i \in 1 .. Len(q) : w[i] = IF i = 1 THEN x ELSE q[i]
    BY <1>1, <2>1, <2>2, ExceptSeq
  <2>4. \A i \in 1 .. Len(w) : i + 0 \in 1 .. Len(q) /\ (w[i] = q[i + 0] \/ w[i] = [q[i + 0] EXCEPT !.reliable = FALSE])
    <3> TAKE i \in 1 .. Len(w)
    <3>1. i \in 1 .. Len(q) /\ i + 0 = i
      BY <1>1, <2>3
    <3>2. w[i] = q[i] \/ w[i] = [q[i] EXCEPT !.reliable = FALSE]
      BY <2>3, <3>1 DEF x
    <3> QED BY <3>1, <3>2
  <2> QED BY <1>1, <2>3, <2>4 DEF Left
<1> QED BY <1>2, <1>3 DEF LostFrom

(* Packets lost on the way to the server.                                  *)
LEMMA LoseUp ==
  ASSUME NEW c, NEW q, UpOK(q, c), q # <<>>, NEW w \in LostFrom(q)
  PROVE  UpOK(w, c)
<1> DEFINE T == UpPacket
<1>1. /\ \A x \in T : [x EXCEPT !.reliable = FALSE] \in T
      /\ \A x \in T : [x EXCEPT !.reliable = FALSE].cmds = x.cmds
  BY DEF UpPacket
<1>2. q \in Seq(T) /\ Len(q) \in Nat /\ \A i \in 1 .. Len(q) : q[i] \in T
  BY LenProperties, ElementOfSeq DEF UpOK
<1> HIDE DEF T
<1>3. Left(w, q, T)
  BY <1>1, <1>2, LostFromIs
<1>4. PICK n \in {0, 1} : \A i \in 1 .. Len(w) :
            /\ i + n \in 1 .. Len(q)
            /\ w[i] = q[i + n] \/ w[i] = [q[i + n] EXCEPT !.reliable = FALSE]
  BY <1>3 DEF Left
<1>5. \A i \in 1 .. Len(w) : \A j \in 1 .. Len(w[i].cmds) : w[i].cmds[j].arg[2] <= c.number
  <2> TAKE i \in 1 .. Len(w)
  <2>1. i + n \in 1 .. Len(q) /\ w[i].cmds = q[i + n].cmds
    BY <1>1, <1>2, <1>4
  <2> QED BY <2>1 DEF UpOK
<1>6. Len(w) <= MaxUnderWay
  BY <1>3, BoundsAreNats DEF Left, UpOK
<1> QED BY <1>3, <1>5, <1>6 DEF Left, UpOK, T

(* Packets lost on the way to the client.                                  *)
LEMMA LoseDown ==
  ASSUME NEW c, NEW s, NEW q, DownOK(q, s), q # <<>>, NEW w \in LostFrom(q)
  PROVE  DownOK(w, s) /\ (Ahead(q, c, s) => Ahead(w, c, s))
<1> DEFINE T == DownPacket
<1>1. /\ \A x \in T : [x EXCEPT !.reliable = FALSE] \in T
      /\ \A x \in T : /\ [x EXCEPT !.reliable = FALSE].datagram = x.datagram
                      /\ ~[x EXCEPT !.reliable = FALSE].reliable
  BY DEF DownPacket
<1>2. q \in Seq(T) /\ Len(q) \in Nat /\ \A i \in 1 .. Len(q) : q[i] \in T
  BY LenProperties, ElementOfSeq DEF DownOK
<1> HIDE DEF T
<1>3. Left(w, q, T)
  BY <1>1, <1>2, LostFromIs
<1>4. PICK n \in {0, 1} : \A i \in 1 .. Len(w) :
            /\ i + n \in 1 .. Len(q)
            /\ w[i] = q[i + n] \/ w[i] = [q[i + n] EXCEPT !.reliable = FALSE]
  BY <1>3 DEF Left
<1>5. n \in Nat /\ \A i \in 1 .. Len(w) : /\ i + n \in 1 .. Len(q) /\ w[i].datagram = q[i + n].datagram
                                          /\ w[i].reliable => q[i + n].reliable
  <2> SUFFICES ASSUME NEW i \in 1 .. Len(w)
               PROVE  /\ i + n \in 1 .. Len(q) /\ w[i].datagram = q[i + n].datagram
                      /\ w[i].reliable => q[i + n].reliable
    OBVIOUS
  <2> DEFINE x == q[i + n]
             y == w[i]
  <2>1. i + n \in 1 .. Len(q) /\ x \in T /\ (y = x \/ y = [x EXCEPT !.reliable = FALSE])
    BY <1>2, <1>4
  <2> HIDE DEF x, y
  <2>2. y.datagram = x.datagram /\ (y.reliable => x.reliable)
    BY <1>1, <2>1
  <2> QED BY <2>1, <2>2 DEF x, y
<1>6. Len(w) <= MaxUnderWay
  BY <1>3, BoundsAreNats DEF Left, DownOK
<1>7. DownOK(w, s)
  BY <1>3, <1>5, <1>6 DEF Left, DownOK, T
<1>8. Ahead(q, c, s) => Ahead(w, c, s)
  BY <1>2, <1>3, <1>5, AheadRest DEF Left
<1> QED BY <1>7, <1>8

(* Lose keeps the invariant.                                               *)
LEMMA LoseKeeps ==
  ASSUME DownloadInv, Lose
  PROVE  DownloadInv'
<1> DEFINE P == mixed \/ cl.crossed
           A(M) == Agreed(cl, sv, sv.out, 0, cl.out, 0, {sv.datagram}, M)
<1>1. UNCHANGED <<cl, sv, spawncount, broadcast, requests, mixed>>
  BY DEF Lose
<1>2. /\ Sound(cl) /\ Fit(cl, sv) /\ NotListed(cl, sv.out, 0) /\ sv.chunks = {}
      /\ spawncount \in 1 .. MaxLevel /\ UpOK(up, cl) /\ DownOK(down, sv)
      /\ oob \subseteq Nat \X Frag /\ Numbered(cl, oob) /\ broadcast \in Seq(Stuff)
      /\ P \/ (A(oob) /\ Ahead(down, cl, sv))
  BY DEF DownloadInv, Always, Talk
<1> HIDE DEF P
<1>3. CASE up # <<>> /\ up' \in LostFrom(up) /\ UNCHANGED <<down, oob>>
  <2>1. UpOK(up', cl)
    BY <1>2, <1>3, LoseUp
  <2> QED BY <1>1, <1>2, <1>3, <2>1 DEF DownloadInv, Always, Talk, Fit, UpOK, DownOK, P
<1>4. CASE down # <<>> /\ down' \in LostFrom(down) /\ UNCHANGED <<up, oob>>
  <2>1. DownOK(down', sv) /\ (Ahead(down, cl, sv) => Ahead(down', cl, sv))
    BY <1>2, <1>4, LoseDown
  <2> QED BY <1>1, <1>2, <1>4, <2>1 DEF DownloadInv, Always, Talk, Fit, UpOK, DownOK, P
<1>5. CASE \E m \in oob : oob' = oob \ {m} /\ UNCHANGED <<up, down>>
  <2>1. PICK m \in oob : oob' = oob \ {m} /\ UNCHANGED <<up, down>>
    BY <1>5
  <2>2. oob' \subseteq Nat \X Frag /\ Numbered(cl, oob')
    BY <1>2, <2>1 DEF Numbered
  <2>3. A(oob) => A(oob')
    BY <2>1 DEF Agreed, ProperOOB
  <2> QED BY <1>1, <1>2, <2>1, <2>2, <2>3 DEF DownloadInv, Always, Talk, Fit, UpOK, DownOK, P
<1> QED BY <1>3, <1>4, <1>5 DEF Lose

-----------------------------------------------------------------------------
(* The invariant holds at first, and whatever happens.                     *)
LEMMA DownloadStarts ==
  ASSUME Init
  PROVE  DownloadInv
<1> DEFINE new == <<Cmd("new", 0)>>
<1>1. /\ new \in Seq(ClientCmd) /\ Len(new) = 1 /\ new[1].name = "new"
      /\ <<>> \in Seq(ClientCmd) /\ <<>> \in Seq(ServerItem) /\ <<>> \in Seq(Stuff) /\ <<>> \in Seq(Word)
      /\ <<>> \in Seq(UpPacket) /\ <<>> \in Seq(DownPacket) /\ Len(<<>>) = 0
      /\ <<>> \in Block
  BY DEF Cmd, ClientCmd, Block
<1>2. \A name : At(<<>>, 0, name) = {}
  BY DEF At
<1>3. At(new, 0, "list") = {} /\ At(new, 0, "download") = {} /\ Stops(new, 0) = {} /\ Stops(<<>>, 0) = {}
  BY <1>1 DEF At, Stops
<1>4. <<>> \in UNION {[0 .. n - 1 -> Block] : n \in Nat}
  <2>1. <<>> \in [0 .. 0 - 1 -> Block]
    OBVIOUS
  <2> QED BY <2>1
<1>5. /\ 0 \in 0 .. MAXBLOCKS - 1 /\ 0 \in 0 .. MaxLevel /\ 1 \in 1 .. MaxLevel /\ 0 <= MaxUnderWay
      /\ [f \in File |-> "missing"] \in [File -> {"missing", "whole", "broken"}]
      /\ [i \in 0 .. MAXBLOCKS - 1 |-> FALSE] \in [0 .. MAXBLOCKS - 1 -> BOOLEAN]
  BY BlocksArePos, NeedsAreFiles, BoundsAreNats
<1> HIDE DEF new
<1>6. /\ cl.staged = new /\ cl.out = <<>> /\ cl.level = 0 /\ cl.type = "dl_none"
      /\ cl.first = 0 /\ cl.size = 0 /\ cl.got = [i \in 0 .. MAXBLOCKS - 1 |-> FALSE]
      /\ cl.method = "DL_NONE" /\ ~cl.open /\ cl.state = "ca_connected"
      /\ cl.disk = [f \in File |-> "missing"]
  BY DEF Init, new
<1>7. cl \in Client
  BY <1>1, <1>4, <1>5 DEF Init, Client, new
<1>8. sv \in Server /\ sv.staged = <<>> /\ sv.out = <<>> /\ sv.chunks = {} /\ sv.level = 0
  BY <1>1, <1>5 DEF Init, Server
<1>9. Sound(cl)
  <2>1. \A b \in Nat : Place(b) \in 0 .. MAXBLOCKS - 1
    BY PlaceIn
  <2> QED BY <1>2, <1>3, <1>6, <1>7, <2>1 DEF Sound, Window, Known
<1>10. /\ spawncount = 1 /\ broadcast = <<>> /\ up = <<>> /\ down = <<>> /\ oob = {}
  BY DEF Init
<1>11. Fit(cl, sv) /\ NotListed(cl, sv.out, 0)
  BY <1>2, <1>8, <1>10 DEF Fit, NotListed, Numbered
<1>12. UpOK(up, cl) /\ DownOK(down, sv) /\ Numbered(cl, oob)
  BY <1>1, <1>5, <1>10 DEF UpOK, DownOK, Numbered
<1>13. Always
  BY <1>1, <1>5, <1>8, <1>9, <1>10, <1>11, <1>12 DEF Always
<1>14. Agreed(cl, sv, sv.out, 0, cl.out, 0, {sv.datagram}, oob)
  <2>1. Silent(cl, sv, sv.out, 0, cl.out, 0)
    BY <1>2, <1>3, <1>6, <1>8 DEF Silent, Asking, Asked, Answering, Answer
  <2>2. Idle(cl)
    BY <1>6 DEF Idle, Fine
  <2> QED BY <2>1, <2>2, IdleAgreed
<1>15. Ahead(down, cl, sv)
  BY <1>1, <1>10 DEF Ahead
<1> QED BY <1>13, <1>14, <1>15 DEF DownloadInv, Talk

(* Every step keeps the invariant.                                         *)
LEMMA DownloadSteps ==
  ASSUME DownloadInv, [Next]_vars
  PROVE  DownloadInv'
<1>1. CASE UNCHANGED vars
  BY <1>1 DEF vars, DownloadInv, Always, Talk, Fit, UpOK, DownOK
<1>2. CASE ClientFrame
  BY <1>2, ClientFrameKeeps
<1>3. CASE ServerRead
  BY <1>3, ServerReadKeeps
<1>4. CASE \E choked \in BOOLEAN : ServerFrame(choked) \/ Map(choked)
  BY <1>4, ServerFrameKeeps, MapKeeps
<1>5. CASE ClientRead
  BY <1>5, ClientReadKeeps
<1>6. CASE \E m \in oob : ReadOOB(m)
  BY <1>6, ReadOOBKeeps
<1>7. CASE \E f \in File : Download(f)
  BY <1>7, DownloadKeeps
<1>8. CASE Lose
  BY <1>8, LoseKeeps
<1> QED BY <1>1, <1>2, <1>3, <1>4, <1>5, <1>6, <1>7, <1>8 DEF Next

(* The invariant holds always.                                             *)
LEMMA DownloadAlways == Spec => []DownloadInv
  BY DownloadStarts, DownloadSteps, PTL DEF Spec

(* The invariant bounds what TypeOK bounds.                                *)
LEMMA InvIsTyped == DownloadInv => TypeOK
<1> SUFFICES ASSUME DownloadInv PROVE TypeOK
  OBVIOUS
<1>1. /\ cl \in Client /\ Window(cl) /\ sv \in Server /\ sv.level <= spawncount /\ sv.chunks = {}
      /\ spawncount \in 1 .. MaxLevel /\ UpOK(up, cl) /\ DownOK(down, sv) /\ oob \subseteq Nat \X Frag
  BY DEF DownloadInv, Always, Sound, Fit
<1>2. Block \subseteq Data /\ Frag \subseteq Data
  BY DEF Block, Frag, Data
<1>3. cl.first \in 0 .. cl.size
  BY <1>1 DEF Client, Window
<1>4. sv.level \in 0 .. spawncount
  BY <1>1 DEF Server
<1>5. oob \subseteq Nat \X Data /\ sv.datagram \in Data
  BY <1>1, <1>2 DEF Server
<1> QED BY <1>1, <1>3, <1>4, <1>5 DEF Client, Server, UpOK, DownOK, TypeOK

(* Every value keeps its type: the window lies within the file, what is    *)
(* under way is within its bounds (Sound, Fit, Keeps).                     *)
THEOREM DownloadTypeCorrect == Spec => []TypeOK
  BY DownloadAlways, InvIsTyped, PTL

(* A file that was renamed to its name is the server's file, and the client*)
(* never stops for what the server sent, but for the two exceptions.       *)
THEOREM WhatIsStoredIsWhole == Spec => []WholeUnlessMixed
<1>1. DownloadInv => WholeUnlessMixed
  BY DEF DownloadInv, Talk, Agreed, Fine, WholeUnlessMixed, FileIsWhole
<1> QED BY <1>1, DownloadAlways, PTL
=============================================================================
