--------------------------- MODULE SvDelayProofs ---------------------------
(***************************************************************************)
(* Proofs about SvDelay, for any number of slots and nodes, any delay and  *)
(* any bounds: no node is in two lists, and the packets of a connection    *)
(* are executed in the order they came in.                                 *)
(***************************************************************************)
EXTENDS SvDelay, NaturalsInduction, WellFoundedInduction, TLAPS

-----------------------------------------------------------------------------
(* The invariant.  What a pointer points to is at home in the list the     *)
(* pointer is in.                                                          *)
Homes ==
  /\ free_packets # NULL => home[free_packets] = Pool
  /\ \A s \in Slot : packets[s] # NULL => home[packets[s]] = s
  /\ \A n \in Node : next[n] # NULL => home[next[n]] = home[n]

(* No two nodes point to the same one, and none to the head of a list.     *)
Apart ==
  /\ \A m, n \in Node : next[m] = next[n] /\ next[m] # NULL => m = n
  /\ \A n \in Node : next[n] # NULL => next[n] # free_packets
  /\ \A n \in Node, s \in Slot : next[n] # NULL => next[n] # packets[s]

Reached ==
  \A n \in Node : home[n] # Lost =>
    \/ n = free_packets
    \/ \E s \in Slot : packets[s] = n
    \/ \E m \in Node : next[m] = n

(* A queue holds the packets that have arrived and were not executed, in   *)
(* the order of their numbers.                                             *)
Queue(s) ==
  /\ packets[s] = NULL => executed[s] = arrived[s] /\ \A n \in Node : home[n] # s
  /\ packets[s] # NULL =>
       /\ number[packets[s]] = executed[s] + 1
       /\ last_packet[s] # NULL
       /\ home[last_packet[s]] = s /\ next[last_packet[s]] = NULL
  /\ \A n \in Node : home[n] = s =>
       /\ executed[s] < number[n] /\ number[n] <= arrived[s]
       /\ next[n] # NULL => number[next[n]] = number[n] + 1
       /\ next[n] = NULL => number[n] = arrived[s]
  /\ \A m, n \in Node : home[m] = s /\ home[n] = s /\ number[m] = number[n] => m = n

Queues == \A s \in Slot : Queue(s)

(* When the socket is read, nobody without a delay has packets waiting.    *)
Drained == \A s \in Slot : InUse(s) /\ turn > s /\ delay[s] = 0 => packets[s] = NULL

-----------------------------------------------------------------------------
LEMMA Names ==
  /\ \A s \in Slot : s \in Nat /\ s # Pool /\ s # Lost
  /\ NULL \notin Node /\ Pool # Lost /\ Node \subseteq Nat /\ Slot \subseteq Nat
  BY SlotsAreNat, PoolIsThere DEF Slot, Pool, Lost, Node, NULL

(* Min picks a member of a set of naturals that is not empty.              *)
LEMMA LeastSlot ==
  ASSUME NEW S \in SUBSET Nat, S # {}
  PROVE  Min(S) \in S
<1>1. OpToRel(<, Nat) = {ss \in Nat \X Nat : ss[1] < ss[2]}
  BY Zenon DEF OpToRel
<1>2. PICK x \in S : \A y \in S : ~(<<y, x>> \in OpToRel(<, Nat))
  BY WFMin, NatLessThanWellFounded, Zenon
<1>3. \A y \in Nat : y < x => <<y, x>> \in {ss \in Nat \X Nat : ss[1] < ss[2]}
  BY SMT
<1>4. \A y \in S : x <= y
  <2>1. \A y \in S : ~(y < x)
    BY <1>1, <1>2, <1>3, Zenon
  <2> QED BY <2>1
<1> QED BY <1>4 DEF Min

-----------------------------------------------------------------------------
(* Lists. *)
LEMMA FreeHeadLists ==
  ASSUME TypeOK, Homes, Apart, Reached, NEW s \in Slot, packets[s] # NULL, FreeHead(s)
  PROVE  Homes' /\ Apart' /\ Reached'
<1> DEFINE head == packets[s]
<1>1. /\ head \in Node /\ head # NULL /\ home[head] = s /\ next[head] # head
      /\ head # free_packets /\ s # Pool /\ s # Lost
  <2>1. head \in Node /\ head # NULL
    BY DEF TypeOK
  <2>2. home[head] = s /\ s # Pool /\ s # Lost
    BY Names DEF Homes
  <2>3. next[head] # head
    BY <2>1 DEF Apart
  <2>4. head # free_packets
    <3> SUFFICES ASSUME head = free_packets PROVE FALSE
      OBVIOUS
    <3> HIDE DEF head
    <3>1. home[head] = Pool
      BY <2>1 DEF Homes
    <3> QED BY <3>1, <2>2
  <2> QED BY <2>1, <2>2, <2>3, <2>4
<1>2. /\ free_packets' = head
      /\ \A n \in Node : next'[n] = IF n = head THEN free_packets ELSE next[n]
      /\ \A t \in Slot : packets'[t] = IF t = s THEN next[head] ELSE packets[t]
      /\ \A n \in Node : home'[n] = IF n = head THEN Pool ELSE home[n]
  BY DEF FreeHead, TypeOK
<1>3. /\ \A n \in Node : next[n] \in Node \cup {NULL} /\ next[n] # head
      /\ \A t \in Slot : packets[t] \in Node \cup {NULL} /\ (packets[t] = head => t = s)
      /\ free_packets \in Node \cup {NULL}
  BY <1>1, Names DEF TypeOK, Homes, Apart
<1> HIDE DEF head
<1>4. Homes'
  <2>1. home'[free_packets'] = Pool
    BY <1>1, <1>2
  <2>2. ASSUME NEW t \in Slot, packets'[t] # NULL PROVE home'[packets'[t]] = t
    <3>1. CASE t = s
      BY <3>1, <2>2, <1>1, <1>2, <1>3 DEF Homes
    <3>2. CASE t # s
      BY <3>2, <2>2, <1>1, <1>2, <1>3 DEF Homes
    <3> QED BY <3>1, <3>2
  <2>3. ASSUME NEW n \in Node, next'[n] # NULL PROVE home'[next'[n]] = home'[n]
    <3>1. CASE n = head
      BY <3>1, <2>3, <1>1, <1>2, <1>3 DEF Homes
    <3>2. CASE n # head
      BY <3>2, <2>3, <1>1, <1>2, <1>3 DEF Homes
    <3> QED BY <3>1, <3>2
  <2> QED BY <2>1, <2>2, <2>3 DEF Homes
<1>5. Apart'
  <2>1. ASSUME NEW m \in Node, NEW n \in Node, next'[m] = next'[n], next'[m] # NULL
        PROVE  m = n
    BY <2>1, <1>2, <1>3 DEF Apart
  <2>2. ASSUME NEW n \in Node, next'[n] # NULL PROVE next'[n] # free_packets'
    BY <2>2, <1>1, <1>2, <1>3
  <2>3. ASSUME NEW n \in Node, NEW t \in Slot, next'[n] # NULL PROVE next'[n] # packets'[t]
    <3>1. CASE n = head
      <4>1. next'[n] = free_packets /\ free_packets # NULL /\ home[free_packets] = Pool
        BY <3>1, <2>3, <1>2 DEF Homes
      <4>2. CASE t = s
        BY <4>1, <4>2, <1>1, <1>2 DEF Apart
      <4>3. CASE t # s
        BY <4>1, <4>3, <1>2, Names DEF Homes
      <4> QED BY <4>2, <4>3
    <3>2. CASE n # head
      <4>1. next'[n] = next[n] /\ next[n] # NULL
        BY <3>2, <2>3, <1>2
      <4>2. CASE t = s
        BY <4>1, <4>2, <3>2, <1>1, <1>2 DEF Apart
      <4>3. CASE t # s
        BY <4>1, <4>3, <1>2 DEF Apart
      <4> QED BY <4>2, <4>3
    <3> QED BY <3>1, <3>2
  <2> QED BY <2>1, <2>2, <2>3 DEF Apart
<1>6. Reached'
  <2> SUFFICES ASSUME NEW n \in Node, home'[n] # Lost
               PROVE  \/ n = free_packets'
                      \/ \E t \in Slot : packets'[t] = n
                      \/ \E m \in Node : next'[m] = n
    BY DEF Reached
  <2>1. CASE n = head
    BY <2>1, <1>2
  <2>2. CASE n # head
    <3>1. home[n] # Lost
      BY <2>2, <1>2
    <3>2. CASE n = free_packets
      BY <3>2, <1>1, <1>2
    <3>3. ASSUME NEW t \in Slot, packets[t] = n PROVE packets'[t] = n
      BY <3>3, <2>2, <1>2, <1>3 DEF head
    <3>4. ASSUME NEW m \in Node, next[m] = n
          PROVE  (\E t \in Slot : packets'[t] = n) \/ next'[m] = n
      BY <3>4, <1>2
    <3> QED BY <3>1, <3>2, <3>3, <3>4 DEF Reached
  <2> QED BY <2>1, <2>2
<1> QED BY <1>4, <1>5, <1>6

LEMMA InsertLists ==
  ASSUME TypeOK, Homes, Apart, Reached, Queues, NEW s \in Slot, free_packets # NULL,
         InsertAtEnd(s)
  PROVE  Homes' /\ Apart' /\ Reached'
<1> DEFINE node == free_packets
           last == last_packet[s]
           empty == packets[s] = NULL
<1>1. /\ node \in Node /\ node # NULL /\ home[node] = Pool /\ s # Pool /\ s # Lost
      /\ ~empty => last \in Node /\ last # node /\ next[last] = NULL /\ home[last] = s
  <2>1. node \in Node /\ node # NULL /\ home[node] = Pool /\ s # Pool /\ s # Lost
    BY Names DEF TypeOK, Homes
  <2>2. ~empty => last # NULL /\ next[last] = NULL /\ home[last] = s
    BY DEF Queues, Queue
  <2>3. last \in Node \cup {NULL}
    BY DEF TypeOK
  <2> QED BY <2>1, <2>2, <2>3
<1>2. /\ free_packets' = next[node]
      /\ \A n \in Node : next'[n] = IF n = node THEN NULL
                                    ELSE IF ~empty /\ n = last THEN node ELSE next[n]
      /\ \A t \in Slot : packets'[t] = IF t = s /\ empty THEN node ELSE packets[t]
      /\ \A n \in Node : home'[n] = IF n = node THEN s ELSE home[n]
  BY DEF InsertAtEnd, TypeOK
<1>3. /\ \A n \in Node : next[n] \in Node \cup {NULL} /\ next[n] # node
      /\ \A t \in Slot : packets[t] \in Node \cup {NULL} /\ packets[t] # node
  <2>1. /\ \A n \in Node : next[n] \in Node \cup {NULL}
        /\ \A t \in Slot : packets[t] \in Node \cup {NULL}
    BY DEF TypeOK
  <2>2. \A n \in Node : next[n] # node
    BY <1>1 DEF Apart
  <2>3. \A t \in Slot : packets[t] # node
    BY <1>1, Names DEF Homes
  <2> QED BY <2>1, <2>2, <2>3
<1> HIDE DEF node, last, empty
<1>4. Homes'
  <2>1. free_packets' # NULL => home'[free_packets'] = Pool
    BY <1>1, <1>2, <1>3 DEF Homes
  <2>2. ASSUME NEW t \in Slot, packets'[t] # NULL PROVE home'[packets'[t]] = t
    BY <2>2, <1>1, <1>2, <1>3 DEF Homes
  <2>3. ASSUME NEW n \in Node, next'[n] # NULL PROVE home'[next'[n]] = home'[n]
    <3>1. CASE ~empty /\ n = last
      BY <3>1, <2>3, <1>1, <1>2
    <3>2. CASE ~(~empty /\ n = last)
      BY <3>2, <2>3, <1>1, <1>2, <1>3 DEF Homes
    <3> QED BY <3>1, <3>2
  <2> QED BY <2>1, <2>2, <2>3 DEF Homes
<1>5. Apart'
  <2>1. ASSUME NEW m \in Node, NEW n \in Node, next'[m] = next'[n], next'[m] # NULL
        PROVE  m = n
    BY <2>1, <1>1, <1>2, <1>3 DEF Apart
  <2>2. ASSUME NEW n \in Node, next'[n] # NULL PROVE next'[n] # free_packets'
    BY <2>2, <1>1, <1>2, <1>3 DEF Apart
  <2>3. ASSUME NEW n \in Node, NEW t \in Slot, next'[n] # NULL PROVE next'[n] # packets'[t]
    <3>1. CASE ~empty /\ n = last
      BY <3>1, <2>3, <1>1, <1>2, <1>3
    <3>2. CASE ~(~empty /\ n = last)
      BY <3>2, <2>3, <1>1, <1>2, <1>3 DEF Apart
    <3> QED BY <3>1, <3>2
  <2> QED BY <2>1, <2>2, <2>3 DEF Apart
<1>6. Reached'
  <2> SUFFICES ASSUME NEW n \in Node, home'[n] # Lost
               PROVE  \/ n = free_packets'
                      \/ \E t \in Slot : packets'[t] = n
                      \/ \E m \in Node : next'[m] = n
    BY DEF Reached
  <2>1. CASE n = node
    BY <2>1, <1>1, <1>2
  <2>2. CASE n # node
    <3>1. home[n] # Lost
      BY <2>2, <1>2
    <3>2. ASSUME NEW t \in Slot, packets[t] = n PROVE packets'[t] = n
      <4>1. packets[t] # NULL
        BY <3>2, Names
      <4> QED BY <4>1, <3>2, <1>2 DEF empty
    <3>3. ASSUME NEW m \in Node, next[m] = n PROVE free_packets' = n \/ next'[m] = n
      <4>1. next[m] # NULL
        BY <3>3, Names
      <4> QED BY <4>1, <3>3, <1>1, <1>2
    <3> QED BY <3>1, <3>2, <3>3, <2>2 DEF Reached, node
  <2> QED BY <2>1, <2>2
<1> QED BY <1>4, <1>5, <1>6

LEMMA WipeLists ==
  ASSUME TypeOK, Homes, Apart, Reached, NEW s \in Slot, Wipe(s)
  PROVE  Homes' /\ Apart' /\ Reached'
<1>1. /\ free_packets' = free_packets /\ next' = next /\ s # Pool /\ s # Lost
      /\ \A t \in Slot : packets'[t] = IF t = s THEN NULL ELSE packets[t]
      /\ \A n \in Node : home'[n] = IF home[n] = s THEN Lost ELSE home[n]
  BY Names DEF Wipe, TypeOK
<1>2. /\ \A n \in Node : next[n] \in Node \cup {NULL}
      /\ \A t \in Slot : packets[t] \in Node \cup {NULL}
      /\ free_packets \in Node \cup {NULL}
  BY DEF TypeOK
<1>3. Homes'
  <2>1. free_packets' # NULL => home'[free_packets'] = Pool
    BY <1>1, <1>2 DEF Homes
  <2>2. \A t \in Slot : packets'[t] # NULL => home'[packets'[t]] = t
    BY <1>1, <1>2 DEF Homes
  <2>3. \A n \in Node : next'[n] # NULL => home'[next'[n]] = home'[n]
    BY <1>1, <1>2 DEF Homes
  <2> QED BY <2>1, <2>2, <2>3 DEF Homes
<1>4. Apart'
  BY <1>1, <1>2 DEF Apart
<1>5. Reached'
  <2> SUFFICES ASSUME NEW n \in Node, home'[n] # Lost
               PROVE  \/ n = free_packets
                      \/ \E t \in Slot : packets'[t] = n
                      \/ \E m \in Node : next[m] = n
    BY <1>1 DEF Reached
  <2>1. home[n] # Lost /\ home[n] # s
    BY <1>1
  <2>2. ASSUME NEW t \in Slot, packets[t] = n PROVE packets'[t] = n
    <3>1. home[n] = t
      BY <2>2, Names DEF Homes
    <3> QED BY <3>1, <2>1, <2>2, <1>1
  <2> QED BY <2>1, <2>2 DEF Reached
<1> QED BY <1>3, <1>4, <1>5

-----------------------------------------------------------------------------
(* Queues. *)
LEMMA QueueTyped ==
  TypeOK => /\ \A n \in Node : number[n] \in Nat /\ next[n] \in Node \cup {NULL}
            /\ \A t \in Slot : /\ executed[t] \in Nat /\ arrived[t] \in Nat
                               /\ packets[t] \in Node \cup {NULL}
                               /\ last_packet[t] \in Node \cup {NULL}
  BY DEF TypeOK

LEMMA FreeHeadQueues ==
  ASSUME TypeOK, Homes, Apart, Queues, NEW s \in Slot, packets[s] # NULL, FreeHead(s),
         executed' = [executed EXCEPT ![s] = @ + 1], UNCHANGED arrived
  PROVE  Queues'
<1> DEFINE head == packets[s]
<1>1. /\ head \in Node /\ head # NULL /\ home[head] = s /\ s # Pool /\ s # Lost
      /\ number[head] = executed[s] + 1
      /\ executed[s] \in Nat /\ arrived[s] \in Nat
  BY Names, QueueTyped DEF Homes, Queues, Queue
<1>2. /\ \A n \in Node : next'[n] = IF n = head THEN free_packets ELSE next[n]
      /\ \A t \in Slot : packets'[t] = IF t = s THEN next[head] ELSE packets[t]
      /\ \A n \in Node : home'[n] = IF n = head THEN Pool ELSE home[n]
      /\ \A n \in Node : number'[n] = IF n = head THEN 0 ELSE number[n]
      /\ last_packet' = last_packet /\ arrived' = arrived
      /\ \A t \in Slot : executed'[t] = IF t = s THEN executed[s] + 1 ELSE executed[t]
  BY DEF FreeHead, TypeOK
<1>3. /\ \A n \in Node : next[n] \in Node \cup {NULL} /\ next[n] # head
      /\ \A t \in Slot : packets[t] \in Node \cup {NULL} /\ (packets[t] = head => t = s)
      /\ \A n \in Node : number[n] \in Nat
  BY <1>1, Names, QueueTyped DEF Homes, Apart
<1>4. /\ head \in Node => next[head] \in Node \cup {NULL} /\ next[head] # head
      /\ next[head] # NULL => home[next[head]] = s /\ number[next[head]] = executed[s] + 2
      /\ next[head] = NULL => executed[s] + 1 = arrived[s]
  BY <1>1, <1>3 DEF Homes, Queues, Queue
<1> HIDE DEF head
<1>5. ASSUME NEW t \in Slot, t # s PROVE Queue(t)'
  <2>1. Queue(t)
    BY DEF Queues
  <2>2. /\ packets'[t] = packets[t] /\ packets[t] # head /\ executed'[t] = executed[t]
        /\ \A n \in Node : home'[n] = t <=> home[n] = t
        /\ \A n \in Node : home[n] = t => n # head
        /\ t # Pool /\ packets[t] \in Node \cup {NULL}
        /\ last_packet[t] \in Node \cup {NULL}
    BY <1>1, <1>2, <1>3, <1>5, Names, QueueTyped
  <2>3. packets'[t] = NULL => executed'[t] = arrived'[t] /\ \A n \in Node : home'[n] # t
    BY <2>1, <2>2, <1>2 DEF Queue
  <2>4. packets'[t] # NULL =>
          /\ number'[packets'[t]] = executed'[t] + 1 /\ last_packet'[t] # NULL
          /\ home'[last_packet'[t]] = t /\ next'[last_packet'[t]] = NULL
    BY <2>1, <2>2, <1>2 DEF Queue
  <2>5. ASSUME NEW n \in Node, home'[n] = t
        PROVE  /\ executed'[t] < number'[n] /\ number'[n] <= arrived'[t]
               /\ next'[n] # NULL => number'[next'[n]] = number'[n] + 1
               /\ next'[n] = NULL => number'[n] = arrived'[t]
    BY <2>1, <2>2, <2>5, <1>2, <1>3 DEF Queue
  <2>6. \A m, n \in Node : home'[m] = t /\ home'[n] = t /\ number'[m] = number'[n] => m = n
    BY <2>1, <2>2, <1>2 DEF Queue
  <2> QED BY <2>3, <2>4, <2>5, <2>6 DEF Queue
<1>6. Queue(s)'
  <2>1. Queue(s)
    BY DEF Queues
  <2>2. ASSUME NEW n \in Node, home'[n] = s
        PROVE  /\ n # head /\ home[n] = s /\ number'[n] = number[n] /\ next'[n] = next[n]
               /\ executed[s] + 1 < number[n] /\ number[n] <= arrived[s]
    <3>1. n # head /\ home[n] = s
      BY <2>2, <1>1, <1>2
    <3>2. executed[s] < number[n] /\ number[n] # number[head] /\ number[n] <= arrived[s]
      BY <3>1, <2>1, <1>1 DEF Queue
    <3> QED BY <3>1, <3>2, <1>1, <1>2, <1>3
  <2>3. packets'[s] = NULL => executed'[s] = arrived'[s] /\ \A n \in Node : home'[n] # s
    <3> SUFFICES ASSUME next[head] = NULL
                 PROVE  executed'[s] = arrived[s] /\ \A n \in Node : home'[n] # s
      BY <1>2
    <3>1. executed[s] + 1 = arrived[s]
      BY <1>4
    <3>2. ASSUME NEW n \in Node, home'[n] = s PROVE FALSE
      <4>1. executed[s] + 1 < number[n] /\ number[n] <= executed[s] + 1 /\ number[n] \in Nat
        BY <3>1, <3>2, <2>2, <1>3
      <4> QED BY <4>1, <1>1
    <3> QED BY <3>1, <3>2, <1>2
  <2>4. packets'[s] # NULL =>
          /\ number'[packets'[s]] = executed'[s] + 1 /\ last_packet'[s] # NULL
          /\ home'[last_packet'[s]] = s /\ next'[last_packet'[s]] = NULL
    <3> SUFFICES ASSUME next[head] # NULL
                 PROVE  /\ number'[next[head]] = executed'[s] + 1 /\ last_packet[s] # NULL
                        /\ home'[last_packet[s]] = s /\ next'[last_packet[s]] = NULL
      BY <1>2
    <3>1. /\ last_packet[s] # NULL /\ home[last_packet[s]] = s /\ next[last_packet[s]] = NULL
          /\ last_packet[s] \in Node
      BY <2>1, QueueTyped DEF Queue
    <3>2. last_packet[s] # head
      BY <3>1
    <3>3. next[head] \in Node /\ next[head] # head /\ number[next[head]] = executed[s] + 2
      BY <1>1, <1>4
    <3>4. number'[next[head]] = executed'[s] + 1
      BY <3>3, <1>1, <1>2
    <3> QED BY <3>1, <3>2, <3>4, <1>2
  <2>5. ASSUME NEW n \in Node, home'[n] = s
        PROVE  /\ executed'[s] < number'[n] /\ number'[n] <= arrived'[s]
               /\ next'[n] # NULL => number'[next'[n]] = number'[n] + 1
               /\ next'[n] = NULL => number'[n] = arrived'[s]
    <3>1. /\ n # head /\ home[n] = s /\ number'[n] = number[n] /\ next'[n] = next[n]
          /\ executed[s] + 1 < number[n] /\ number[n] <= arrived[s]
      BY <2>2, <2>5
    <3>2. next[n] # NULL => number'[next[n]] = number[n] + 1
      BY <3>1, <2>1, <1>2, <1>3 DEF Queue
    <3>3. next[n] = NULL => number[n] = arrived[s]
      BY <3>1, <2>1 DEF Queue
    <3> QED BY <3>1, <3>2, <3>3, <1>2
  <2>6. \A m, n \in Node : home'[m] = s /\ home'[n] = s /\ number'[m] = number'[n] => m = n
    BY <2>1, <2>2 DEF Queue
  <2> QED BY <2>3, <2>4, <2>5, <2>6 DEF Queue
<1> QED BY <1>5, <1>6 DEF Queues

LEMMA InsertQueues ==
  ASSUME TypeOK, Homes, Apart, Queues, NEW s \in Slot, free_packets # NULL, InsertAtEnd(s),
         arrived' = [arrived EXCEPT ![s] = @ + 1], UNCHANGED executed
  PROVE  Queues'
<1> DEFINE node == free_packets
           last == last_packet[s]
           empty == packets[s] = NULL
<1>1. /\ node \in Node /\ node # NULL /\ home[node] = Pool /\ s # Pool
      /\ ~empty => last \in Node /\ last # node /\ next[last] = NULL /\ home[last] = s
      /\ empty => executed[s] = arrived[s] /\ \A n \in Node : home[n] # s
      /\ executed[s] \in Nat /\ arrived[s] \in Nat
  <2>1. node \in Node /\ node # NULL /\ home[node] = Pool /\ s # Pool
    BY Names DEF TypeOK, Homes
  <2>2. /\ ~empty => last # NULL /\ next[last] = NULL /\ home[last] = s
        /\ empty => executed[s] = arrived[s] /\ \A n \in Node : home[n] # s
    BY DEF Queues, Queue
  <2>3. last \in Node \cup {NULL} /\ executed[s] \in Nat /\ arrived[s] \in Nat
    BY QueueTyped
  <2> QED BY <2>1, <2>2, <2>3
<1>2. /\ \A n \in Node : next'[n] = IF n = node THEN NULL
                                    ELSE IF ~empty /\ n = last THEN node ELSE next[n]
      /\ \A t \in Slot : packets'[t] = IF t = s /\ empty THEN node ELSE packets[t]
      /\ \A n \in Node : home'[n] = IF n = node THEN s ELSE home[n]
      /\ \A n \in Node : number'[n] = IF n = node THEN arrived[s] + 1 ELSE number[n]
      /\ \A t \in Slot : last_packet'[t] = IF t = s THEN node ELSE last_packet[t]
      /\ executed' = executed
      /\ \A t \in Slot : arrived'[t] = IF t = s THEN arrived[s] + 1 ELSE arrived[t]
  BY DEF InsertAtEnd, TypeOK
<1>3. /\ \A n \in Node : next[n] \in Node \cup {NULL} /\ next[n] # node
      /\ \A t \in Slot : packets[t] \in Node \cup {NULL} /\ packets[t] # node
      /\ \A n \in Node : number[n] \in Nat
  BY <1>1, Names, QueueTyped DEF Homes, Apart
<1>4. ~empty => number[packets[s]] = executed[s] + 1 /\ number[last] = arrived[s]
  BY <1>1 DEF Queues, Queue
<1>5. ~empty <=> packets[s] # NULL
  OBVIOUS
<1> HIDE DEF node, last, empty
<1>6. ASSUME NEW t \in Slot, t # s PROVE Queue(t)'
  <2>1. Queue(t)
    BY DEF Queues
  <2>2. /\ packets'[t] = packets[t] /\ packets[t] # node
        /\ \A n \in Node : home'[n] = t <=> home[n] = t
        /\ \A n \in Node : home[n] = t => n # node /\ (empty \/ n # last)
        /\ t # Pool /\ packets[t] \in Node \cup {NULL}
        /\ last_packet[t] \in Node \cup {NULL} /\ last_packet'[t] = last_packet[t]
        /\ arrived'[t] = arrived[t]
    BY <1>1, <1>2, <1>3, <1>6, Names, QueueTyped
  <2>3. packets'[t] = NULL => executed'[t] = arrived'[t] /\ \A n \in Node : home'[n] # t
    BY <2>1, <2>2, <1>2 DEF Queue
  <2>4. packets'[t] # NULL =>
          /\ number'[packets'[t]] = executed'[t] + 1 /\ last_packet'[t] # NULL
          /\ home'[last_packet'[t]] = t /\ next'[last_packet'[t]] = NULL
    BY <2>1, <2>2, <1>2 DEF Queue
  <2>5. ASSUME NEW n \in Node, home'[n] = t
        PROVE  /\ executed'[t] < number'[n] /\ number'[n] <= arrived'[t]
               /\ next'[n] # NULL => number'[next'[n]] = number'[n] + 1
               /\ next'[n] = NULL => number'[n] = arrived'[t]
    BY <2>1, <2>2, <2>5, <1>2, <1>3 DEF Queue
  <2>6. \A m, n \in Node : home'[m] = t /\ home'[n] = t /\ number'[m] = number'[n] => m = n
    BY <2>1, <2>2, <1>2 DEF Queue
  <2> QED BY <2>3, <2>4, <2>5, <2>6 DEF Queue
<1>7. Queue(s)'
  <2>1. Queue(s)
    BY DEF Queues
  <2>2. ASSUME NEW n \in Node, home'[n] = s, n # node
        PROVE  /\ home[n] = s /\ ~empty /\ number'[n] = number[n]
               /\ executed[s] < number[n] /\ number[n] <= arrived[s]
    BY <2>1, <2>2, <1>1, <1>2 DEF Queue
  <2>3. packets'[s] # NULL
    BY <1>1, <1>2, <1>5
  <2>4. /\ number'[packets'[s]] = executed'[s] + 1 /\ last_packet'[s] # NULL
        /\ home'[last_packet'[s]] = s /\ next'[last_packet'[s]] = NULL
    <3>1. number'[packets'[s]] = executed[s] + 1
      <4>1. CASE empty
        BY <4>1, <1>1, <1>2
      <4>2. CASE ~empty
        <5>1. packets[s] \in Node /\ packets[s] # node
          BY <4>2, <1>3, <1>5
        <5> QED BY <4>2, <5>1, <1>2, <1>4
      <4> QED BY <4>1, <4>2
    <3> QED BY <3>1, <1>1, <1>2
  <2>5. ASSUME NEW n \in Node, home'[n] = s
        PROVE  /\ executed'[s] < number'[n] /\ number'[n] <= arrived'[s]
               /\ next'[n] # NULL => number'[next'[n]] = number'[n] + 1
               /\ next'[n] = NULL => number'[n] = arrived'[s]
    <3>1. CASE n = node
      <4>1. executed[s] <= arrived[s]
        <5>1. CASE empty
          BY <5>1, <1>1
        <5>2. CASE ~empty
          <6>1. executed[s] < number[last] /\ number[last] <= arrived[s] /\ number[last] \in Nat
            BY <5>2, <2>1, <1>1, <1>3 DEF Queue
          <6> QED BY <6>1, <1>1
        <5> QED BY <5>1, <5>2
      <4>2. number'[n] = arrived[s] + 1 /\ next'[n] = NULL /\ arrived'[s] = arrived[s] + 1
        BY <3>1, <1>2
      <4> QED BY <4>1, <4>2, <1>1, <1>2
    <3>2. CASE n # node
      <4>1. /\ home[n] = s /\ ~empty /\ number'[n] = number[n] /\ number[n] \in Nat
            /\ executed[s] < number[n] /\ number[n] <= arrived[s]
        BY <3>2, <2>2, <2>5, <1>3
      <4>2. executed'[s] < number'[n] /\ number'[n] <= arrived'[s]
        BY <4>1, <1>1, <1>2
      <4>3. CASE n = last
        <5>1. next'[n] = node /\ number'[node] = arrived[s] + 1 /\ number[n] = arrived[s]
          BY <4>1, <4>3, <3>2, <1>1, <1>2, <1>4
        <5> QED BY <5>1, <4>1, <4>2, <1>1
      <4>4. CASE n # last
        <5>1. next'[n] = next[n]
          BY <4>4, <3>2, <1>2
        <5>2. next[n] # NULL
          <6>1. next[n] = NULL => number[n] = arrived[s]
            BY <4>1, <2>1 DEF Queue
          <6>2. number[last] = arrived[s] /\ last \in Node /\ home[last] = s
            BY <4>1, <1>1, <1>4
          <6> QED BY <6>1, <6>2, <4>1, <4>4, <2>1 DEF Queue
        <5>3. number'[next[n]] = number[n] + 1
          BY <5>2, <4>1, <2>1, <1>2, <1>3 DEF Queue
        <5> QED BY <5>1, <5>2, <5>3, <4>1, <4>2
      <4> QED BY <4>3, <4>4
    <3> QED BY <3>1, <3>2
  <2>6. ASSUME NEW m \in Node, NEW n \in Node, home'[m] = s, home'[n] = s,
               number'[m] = number'[n]
        PROVE  m = n
    <3>1. CASE m = node /\ n # node
      BY <3>1, <2>2, <2>6, <1>1, <1>2, <1>3
    <3>2. CASE n = node /\ m # node
      BY <3>2, <2>2, <2>6, <1>1, <1>2, <1>3
    <3>3. CASE n # node /\ m # node
      BY <3>3, <2>1, <2>2, <2>6 DEF Queue
    <3> QED BY <3>1, <3>2, <3>3
  <2> QED BY <2>3, <2>4, <2>5, <2>6 DEF Queue
<1> QED BY <1>6, <1>7 DEF Queues

LEMMA WipeQueues ==
  ASSUME TypeOK, Homes, Queues, NEW s \in Slot, Wipe(s)
  PROVE  Queues'
<1>1. /\ next' = next /\ s # Lost
      /\ \A t \in Slot : packets'[t] = IF t = s THEN NULL ELSE packets[t]
      /\ \A t \in Slot : last_packet'[t] = IF t = s THEN NULL ELSE last_packet[t]
      /\ \A t \in Slot : executed'[t] = IF t = s THEN 0 ELSE executed[t]
      /\ \A t \in Slot : arrived'[t] = IF t = s THEN 0 ELSE arrived[t]
      /\ \A n \in Node : home'[n] = IF home[n] = s THEN Lost ELSE home[n]
      /\ \A n \in Node : number'[n] = IF home[n] = s THEN 0 ELSE number[n]
  BY Names DEF Wipe, TypeOK
<1>2. Queue(s)'
  BY <1>1 DEF Queue
<1>3. ASSUME NEW t \in Slot, t # s PROVE Queue(t)'
  <2>1. Queue(t)
    BY DEF Queues
  <2>2. /\ \A n \in Node : home'[n] = t <=> home[n] = t
        /\ \A n \in Node : home[n] = t => number'[n] = number[n]
        /\ packets'[t] = packets[t] /\ last_packet'[t] = last_packet[t]
        /\ executed'[t] = executed[t] /\ arrived'[t] = arrived[t]
        /\ packets[t] \in Node \cup {NULL} /\ last_packet[t] \in Node \cup {NULL}
    BY <1>1, <1>3, Names, QueueTyped
  <2>3. packets'[t] # NULL =>
          /\ number'[packets'[t]] = executed'[t] + 1 /\ last_packet'[t] # NULL
          /\ home'[last_packet'[t]] = t /\ next'[last_packet'[t]] = NULL
    BY <2>1, <2>2, <1>1 DEF Queue, Homes
  <2>4. ASSUME NEW n \in Node, home'[n] = t
        PROVE  /\ executed'[t] < number'[n] /\ number'[n] <= arrived'[t]
               /\ next'[n] # NULL => number'[next'[n]] = number'[n] + 1
               /\ next'[n] = NULL => number'[n] = arrived'[t]
    <3>1. home[n] = t /\ next[n] \in Node \cup {NULL}
      BY <2>2, <2>4, QueueTyped
    <3>2. next[n] # NULL => number'[next[n]] = number[next[n]]
      BY <3>1, <2>2 DEF Homes
    <3> QED BY <3>1, <3>2, <2>1, <2>2, <1>1 DEF Queue
  <2>5. \A m, n \in Node : home'[m] = t /\ home'[n] = t /\ number'[m] = number'[n] => m = n
    BY <2>1, <2>2 DEF Queue
  <2>6. packets'[t] = NULL => executed'[t] = arrived'[t] /\ \A n \in Node : home'[n] # t
    BY <2>1, <2>2 DEF Queue
  <2> QED BY <2>3, <2>4, <2>5, <2>6 DEF Queue
<1> QED BY <1>2, <1>3 DEF Queues

LEMMA QueuesOn ==
  ASSUME Queues, UNCHANGED <<packets, last_packet, next, home, number>>, NEW s \in Slot,
         \A t \in Slot \ {s} : executed'[t] = executed[t] /\ arrived'[t] = arrived[t],
         \/ executed'[s] = executed[s] /\ arrived'[s] = arrived[s]
         \/ packets[s] = NULL /\ executed'[s] = executed[s] + 1 /\ arrived'[s] = arrived[s] + 1
  PROVE  Queues'
<1> SUFFICES ASSUME NEW t \in Slot PROVE Queue(t)'
  BY DEF Queues
<1>1. Queue(t)
  BY DEF Queues
<1>2. CASE executed'[t] = executed[t] /\ arrived'[t] = arrived[t]
  BY <1>1, <1>2 DEF Queue
<1>3. CASE packets[t] = NULL /\ executed'[t] = executed[t] + 1 /\ arrived'[t] = arrived[t] + 1
  BY <1>1, <1>3 DEF Queue
<1> QED BY <1>2, <1>3

-----------------------------------------------------------------------------
(* Types. *)
LEMMA FreeHeadTyped ==
  ASSUME TypeOK, NEW s \in Slot, packets[s] # NULL, FreeHead(s)
  PROVE  /\ free_packets' \in Node \cup {NULL}
         /\ next' \in [Node -> Node \cup {NULL}]
         /\ packets' \in [Slot -> Node \cup {NULL}]
         /\ last_packet' \in [Slot -> Node \cup {NULL}]
         /\ age' \in [Node -> 0 .. MaxDelay]
         /\ home' \in [Node -> Slot \cup {Pool, Lost}]
         /\ number' \in [Node -> Nat]
<1>1. packets[s] \in Node /\ next[packets[s]] \in Node \cup {NULL}
  BY DEF TypeOK
<1>2. 0 \in 0 .. MaxDelay
  BY DelayIsNat
<1> QED BY <1>1, <1>2 DEF FreeHead, TypeOK

LEMMA InsertTyped ==
  ASSUME TypeOK, NEW s \in Slot, free_packets # NULL, InsertAtEnd(s)
  PROVE  /\ free_packets' \in Node \cup {NULL}
         /\ next' \in [Node -> Node \cup {NULL}]
         /\ packets' \in [Slot -> Node \cup {NULL}]
         /\ last_packet' \in [Slot -> Node \cup {NULL}]
         /\ age' \in [Node -> 0 .. MaxDelay]
         /\ home' \in [Node -> Slot \cup {Pool, Lost}]
         /\ number' \in [Node -> Nat]
<1>1. free_packets \in Node /\ next[free_packets] \in Node \cup {NULL}
  BY DEF TypeOK
<1>2. 0 \in 0 .. MaxDelay /\ arrived[s] + 1 \in Nat
  BY DelayIsNat DEF TypeOK
<1>3. next' \in [Node -> Node \cup {NULL}] /\ packets' \in [Slot -> Node \cup {NULL}]
  BY <1>1 DEF InsertAtEnd, TypeOK
<1> QED BY <1>1, <1>2, <1>3 DEF InsertAtEnd, TypeOK

LEMMA WipeTyped ==
  ASSUME TypeOK, NEW s \in Slot, Wipe(s)
  PROVE  /\ free_packets' \in Node \cup {NULL}
         /\ next' \in [Node -> Node \cup {NULL}]
         /\ packets' \in [Slot -> Node \cup {NULL}]
         /\ last_packet' \in [Slot -> Node \cup {NULL}]
         /\ age' \in [Node -> 0 .. MaxDelay]
         /\ home' \in [Node -> Slot \cup {Pool, Lost}]
         /\ number' \in [Node -> Nat]
         /\ delay' \in [Slot -> 0 .. MaxDelay]
         /\ arrived' \in [Slot -> Nat]
         /\ executed' \in [Slot -> Nat]
<1>1. 0 \in 0 .. MaxDelay
  BY DelayIsNat
<1>2. /\ age' \in [Node -> 0 .. MaxDelay] /\ home' \in [Node -> Slot \cup {Pool, Lost}]
      /\ number' \in [Node -> Nat]
  BY <1>1 DEF Wipe, TypeOK
<1>3. /\ packets' \in [Slot -> Node \cup {NULL}] /\ last_packet' \in [Slot -> Node \cup {NULL}]
      /\ UNCHANGED <<free_packets, next>>
  BY DEF Wipe, TypeOK
<1>4. /\ delay' \in [Slot -> 0 .. MaxDelay]
      /\ arrived' \in [Slot -> Nat] /\ executed' \in [Slot -> Nat]
  BY <1>1 DEF Wipe, TypeOK
<1> QED BY <1>2, <1>3, <1>4 DEF TypeOK

LEMMA ExecuteTyped ==
  ASSUME TypeOK, NEW s \in Slot, Execute(s)
  PROVE  /\ delay' \in [Slot -> 0 .. MaxDelay] /\ paused' \in BOOLEAN
         /\ executed' \in [Slot -> Nat]
         /\ \A t \in Slot \ {s} : delay'[t] = delay[t] /\ executed'[t] = executed[t]
         /\ executed'[s] = executed[s] + 1
<1>1. PICK d \in 0 .. MaxDelay : delay' = [delay EXCEPT ![s] = d]
  <2>1. delay[s] \in 0 .. MaxDelay
    BY DEF TypeOK
  <2> QED BY <2>1 DEF Execute, Nearby
<1>2. /\ executed' = [executed EXCEPT ![s] = @ + 1] /\ paused' \in BOOLEAN
      /\ executed[s] + 1 \in Nat
  BY DEF Execute, TypeOK
<1> QED BY <1>1, <1>2 DEF TypeOK

LEMMA FreeSlot ==
  ASSUME TypeOK, NEW r \in Remotes
  PROVE  /\ AfterReconnect(r) \in [Slot -> Remotes \cup {"nobody"}]
         /\ LET free == {s \in Slot : AfterReconnect(r)[s] = "nobody"}
            IN  free # {} => Min(free) \in free
<1>1. AfterReconnect(r) \in [Slot -> Remotes \cup {"nobody"}]
  BY DEF AfterReconnect, TypeOK
<1> QED BY <1>1, Names, LeastSlot

LEMMA SocketTyped ==
  ASSUME TypeOK, Reading
  PROVE  /\ Tail(socket) \in Seq(Packet) /\ Head(socket) \in Packet
         /\ Head(socket).from \in Remotes
<1>1. socket \in Seq(Packet) /\ socket # <<>>
  BY DEF TypeOK, Reading
<1>2. Tail(socket) \in Seq(Packet) /\ Head(socket) \in Packet
  BY <1>1
<1> QED BY <1>2 DEF Packet

ListsTyped ==
  /\ free_packets \in Node \cup {NULL}
  /\ next \in [Node -> Node \cup {NULL}]
  /\ packets \in [Slot -> Node \cup {NULL}]
  /\ last_packet \in [Slot -> Node \cup {NULL}]
  /\ age \in [Node -> 0 .. MaxDelay]
  /\ home \in [Node -> Slot \cup {Pool, Lost}]
  /\ number \in [Node -> Nat]

RestTyped ==
  /\ remote \in [Slot -> Remotes \cup {"nobody"}]
  /\ delay \in [Slot -> 0 .. MaxDelay]
  /\ paused \in BOOLEAN
  /\ socket \in Seq(Packet)
  /\ turn \in Slot \cup {MaxSlots, Idle}
  /\ arrivals \in Nat
  /\ arrived \in [Slot -> Nat]
  /\ executed \in [Slot -> Nat]

LEMMA Typed == TypeOK <=> ListsTyped /\ RestTyped
  BY DEF TypeOK, ListsTyped, RestTyped

LEMMA ListsTypedOn == ListsTyped /\ UNCHANGED lists => ListsTyped'
  BY DEF ListsTyped, lists

LEMMA ConnectTyped ==
  ASSUME TypeOK, Connect
  PROVE  TypeOK'
<1> DEFINE r    == Head(socket).from
           free == {s \in Slot : AfterReconnect(r)[s] = "nobody"}
<1>1. /\ r \in Remotes /\ socket' \in Seq(Packet)
      /\ paused' \in BOOLEAN /\ turn' \in Slot \cup {MaxSlots, Idle} /\ arrivals' \in Nat
  BY SocketTyped DEF Connect, Taken, TypeOK
<1>2. /\ AfterReconnect(r) \in [Slot -> Remotes \cup {"nobody"}]
      /\ free # {} => Min(free) \in Slot
  BY <1>1, FreeSlot
<1>3. CASE free = {}
  <2>1. remote' = AfterReconnect(r) /\ UNCHANGED <<lists, delay, arrived, executed>>
    BY <1>3 DEF Connect
  <2>2. ListsTyped' /\ RestTyped'
    BY <2>1, <1>1, <1>2, Typed, ListsTypedOn DEF RestTyped
  <2> QED BY <2>2 DEF TypeOK, ListsTyped, RestTyped
<1>4. CASE free # {}
  <2>1. remote' = [AfterReconnect(r) EXCEPT ![Min(free)] = r] /\ Wipe(Min(free))
    BY <1>4 DEF Connect
  <2> HIDE DEF free, r
  <2>2. remote' \in [Slot -> Remotes \cup {"nobody"}]
    BY <2>1, <1>1, <1>2
  <2>3. ListsTyped' /\ RestTyped'
    BY <2>1, <2>2, <1>1, <1>2, <1>4, WipeTyped DEF ListsTyped, RestTyped
  <2> QED BY <2>3 DEF TypeOK, ListsTyped, RestTyped
<1> QED BY <1>3, <1>4

LEMMA DrainTyped ==
  ASSUME TypeOK, NEW s \in Slot, Drain(s)
  PROVE  TypeOK'
<1>1. packets[s] # NULL /\ FreeHead(s) /\ Execute(s)
      /\ UNCHANGED <<remote, socket, turn, arrivals, arrived>>
  BY DEF Drain, Due
<1>2. ListsTyped'
  BY <1>1, FreeHeadTyped DEF ListsTyped
<1>3. RestTyped'
  BY <1>1, ExecuteTyped, Typed DEF RestTyped
<1> QED BY <1>2, <1>3 DEF TypeOK, ListsTyped, RestTyped

LEMMA ExecuteNowTyped ==
  ASSUME TypeOK, NEW s \in Slot, ExecuteNow(s)
  PROVE  TypeOK'
<1>1. /\ Execute(s) /\ UNCHANGED <<lists, remote, turn, arrivals>>
      /\ arrived' = [arrived EXCEPT ![s] = @ + 1] /\ socket' \in Seq(Packet)
  BY SocketTyped DEF ExecuteNow, Taken
<1>2. ListsTyped'
  BY <1>1, Typed, ListsTypedOn
<1>3. RestTyped'
  <2>1. RestTyped
    BY Typed
  <2>2. arrived' \in [Slot -> Nat]
    BY <1>1, <2>1 DEF RestTyped
  <2>3. remote' = remote /\ turn' = turn /\ arrivals' = arrivals
    BY <1>1
  <2> QED BY <1>1, <2>1, <2>2, <2>3, ExecuteTyped DEF RestTyped
<1> QED BY <1>2, <1>3 DEF TypeOK, ListsTyped, RestTyped

LEMMA DelayTyped ==
  ASSUME TypeOK, NEW s \in Slot, Delay(s)
  PROVE  TypeOK'
<1>1. /\ free_packets # NULL /\ InsertAtEnd(s)
      /\ UNCHANGED <<remote, delay, paused, turn, arrivals, executed>>
      /\ arrived' = [arrived EXCEPT ![s] = @ + 1] /\ socket' \in Seq(Packet)
  BY SocketTyped DEF Delay, Taken
<1>2. ListsTyped'
  BY <1>1, InsertTyped DEF ListsTyped
<1>3. RestTyped'
  BY <1>1, Typed DEF RestTyped
<1> QED BY <1>2, <1>3 DEF TypeOK, ListsTyped, RestTyped

LEMMA FrameTyped ==
  ASSUME TypeOK, NEW gone \in SUBSET Slot, Frame(gone)
  PROVE  TypeOK'
<1>1. age' \in [Node -> 0 .. MaxDelay]
  BY DelayIsNat DEF Frame, Older, TypeOK
<1>2. /\ remote' \in [Slot -> Remotes \cup {"nobody"}]
      /\ turn' \in Slot \cup {MaxSlots, Idle}
  BY SlotsAreNat DEF Frame, Slot, TypeOK
<1>3. UNCHANGED <<free_packets, next, packets, last_packet, home, number,
                  delay, paused, socket, arrivals, arrived, executed>>
  BY DEF Frame
<1> QED BY <1>1, <1>2, <1>3 DEF TypeOK

(* Steps that leave the lists and what was executed alone.                 *)
LEMMA QuietTyped ==
  ASSUME TypeOK, UNCHANGED <<lists, remote, delay, paused, arrived, executed>>,
         socket' \in Seq(Packet), turn' \in Slot \cup {MaxSlots, Idle}, arrivals' \in Nat
  PROVE  TypeOK'
<1>1. ListsTyped'
  BY Typed, ListsTypedOn
<1>2. RestTyped'
  BY Typed DEF RestTyped
<1> QED BY <1>1, <1>2 DEF TypeOK, ListsTyped, RestTyped

LEMMA NextTyped ==
  ASSUME TypeOK, [Next]_vars
  PROVE  TypeOK'
<1>1. ASSUME NEW s \in Slot, NextQueue(s) PROVE TypeOK'
  <2>1. s + 1 \in Slot \cup {MaxSlots}
    BY SlotsAreNat DEF Slot
  <2>2. /\ UNCHANGED <<lists, remote, delay, paused, socket, arrivals, arrived, executed>>
        /\ turn' = s + 1
    BY <1>1 DEF NextQueue
  <2> QED BY <2>1, <2>2, QuietTyped DEF TypeOK
<1>2. ASSUME NEW s \in Slot, PoolEmpty(s) PROVE TypeOK'
  <2>1. /\ UNCHANGED <<lists, remote, delay, paused, arrivals, arrived, executed>>
        /\ turn' = Idle /\ socket' \in Seq(Packet)
    BY <1>2, SocketTyped DEF PoolEmpty, Taken
  <2> QED BY <2>1, QuietTyped DEF TypeOK
<1>3. CASE Unknown
  <2>1. /\ UNCHANGED <<lists, remote, delay, paused, turn, arrivals, arrived, executed>>
        /\ socket' \in Seq(Packet)
    BY <1>3, SocketTyped DEF Unknown, Taken
  <2> QED BY <2>1, QuietTyped DEF TypeOK
<1>4. CASE SocketEmpty
  <2>1. /\ UNCHANGED <<lists, remote, delay, paused, socket, arrivals, arrived, executed>>
        /\ turn' = Idle
    BY <1>4 DEF SocketEmpty
  <2> QED BY <2>1, QuietTyped DEF TypeOK
<1>5. ASSUME NEW p \in Packet, Arrive(p) PROVE TypeOK'
  <2>1. /\ UNCHANGED <<lists, remote, delay, paused, turn, arrived, executed>>
        /\ arrivals' = arrivals + 1 /\ socket' = Append(socket, p)
    BY <1>5 DEF Arrive
  <2>2. socket' \in Seq(Packet) /\ arrivals' \in Nat
    BY <2>1 DEF TypeOK
  <2> QED BY <2>1, <2>2, QuietTyped DEF TypeOK
<1>6. CASE UNCHANGED vars
  <2>1. UNCHANGED <<lists, remote, delay, paused, socket, turn, arrivals, arrived, executed>>
    BY <1>6 DEF vars
  <2> QED BY <2>1, QuietTyped DEF TypeOK
<1> QED BY <1>1, <1>2, <1>3, <1>4, <1>5, <1>6, DrainTyped, ExecuteNowTyped, DelayTyped,
           ConnectTyped, FrameTyped DEF Next, ReadPackets

-----------------------------------------------------------------------------
(* Every step keeps the lists, the queues, and the queues that are empty.  *)
Lists == Homes /\ Apart /\ Reached

LEMMA ListsOn ==
  Lists /\ UNCHANGED <<free_packets, next, packets, home>> => Lists'
  BY DEF Lists, Homes, Apart, Reached

LEMMA DrainedOn ==
  ASSUME Drained, UNCHANGED <<packets, delay>>, turn' = turn,
         \A s \in Slot : InUse(s)' => InUse(s)
  PROVE  Drained'
  BY DEF Drained

LEMMA DrainInv ==
  ASSUME TypeOK, Lists, Queues, Drained, NEW s \in Slot, Drain(s)
  PROVE  Lists' /\ Queues' /\ Drained'
<1>1. /\ packets[s] # NULL /\ FreeHead(s) /\ Execute(s) /\ turn = s
      /\ UNCHANGED <<remote, turn, arrived>>
      /\ executed' = [executed EXCEPT ![s] = @ + 1]
  BY DEF Drain, Due, Execute
<1>2. Lists' /\ Queues'
  BY <1>1, FreeHeadLists, FreeHeadQueues DEF Lists
<1>3. Drained'
  <2> SUFFICES ASSUME NEW t \in Slot, InUse(t)', turn' > t, delay'[t] = 0
               PROVE  packets'[t] = NULL
    BY DEF Drained
  <2>1. t # s /\ InUse(t) /\ turn > t
    BY <1>1, Names DEF InUse
  <2>2. delay'[t] = delay[t]
    BY <2>1, <1>1, ExecuteTyped
  <2>3. packets'[t] = packets[t]
    BY <2>1, <1>1 DEF FreeHead, TypeOK
  <2> QED BY <2>1, <2>2, <2>3 DEF Drained
<1> QED BY <1>2, <1>3

LEMMA NextQueueInv ==
  ASSUME TypeOK, Lists, Queues, Drained, NEW s \in Slot, NextQueue(s)
  PROVE  Lists' /\ Queues' /\ Drained'
<1>1. /\ turn = s /\ turn' = s + 1 /\ ~(InUse(s) /\ Due(s))
      /\ UNCHANGED <<lists, remote, delay, arrived, executed>>
  BY DEF NextQueue
<1>2. Lists' /\ Queues'
  BY <1>1, ListsOn, QueuesOn DEF lists
<1>3. Drained'
  <2> SUFFICES ASSUME NEW t \in Slot, InUse(t), s + 1 > t, delay[t] = 0
               PROVE  packets[t] = NULL
    BY <1>1 DEF Drained, InUse, lists
  <2>1. CASE t = s
    <3>1. packets[s] # NULL => age[packets[s]] \in 0 .. MaxDelay
      BY DEF TypeOK
    <3> QED BY <2>1, <3>1, <1>1, DelayIsNat DEF Due
  <2>2. CASE t # s
    <3>1. turn > t
      BY <2>2, <1>1, Names
    <3> QED BY <3>1 DEF Drained
  <2> QED BY <2>1, <2>2
<1> QED BY <1>2, <1>3

LEMMA ExecuteNowInv ==
  ASSUME TypeOK, Lists, Queues, Drained, NEW s \in Slot, ExecuteNow(s)
  PROVE  Lists' /\ Queues' /\ Drained'
<1>1. /\ turn = MaxSlots /\ delay[s] = 0 /\ remote[s] = Head(socket).from
      /\ Execute(s) /\ UNCHANGED <<lists, remote, turn>>
      /\ arrived' = [arrived EXCEPT ![s] = @ + 1]
      /\ executed' = [executed EXCEPT ![s] = @ + 1]
  BY DEF ExecuteNow, Reading, Execute
<1>2. packets[s] = NULL
  <2>1. InUse(s)
    <3>1. Reading
      BY DEF ExecuteNow
    <3> QED BY <3>1, <1>1, SocketTyped, NobodyIsRemote DEF InUse
  <2>2. turn > s
    BY <1>1, SlotsAreNat DEF Slot
  <2> QED BY <2>1, <2>2, <1>1 DEF Drained
<1>3. Lists'
  BY <1>1, ListsOn DEF lists
<1>4. Queues'
  <2>1. /\ \A t \in Slot \ {s} : executed'[t] = executed[t] /\ arrived'[t] = arrived[t]
        /\ executed'[s] = executed[s] + 1 /\ arrived'[s] = arrived[s] + 1
    BY <1>1 DEF TypeOK
  <2> QED BY <2>1, <1>1, <1>2, QueuesOn DEF lists
<1>5. Drained'
  <2> SUFFICES ASSUME NEW t \in Slot, InUse(t), turn > t, delay'[t] = 0
               PROVE  packets[t] = NULL
    BY <1>1 DEF Drained, InUse, lists
  <2>1. CASE t = s
    BY <2>1, <1>2
  <2>2. CASE t # s
    BY <2>2, <1>1, ExecuteTyped DEF Drained
  <2> QED BY <2>1, <2>2
<1> QED BY <1>3, <1>4, <1>5

LEMMA DelayInv ==
  ASSUME TypeOK, Lists, Queues, Drained, NEW s \in Slot, Delay(s)
  PROVE  Lists' /\ Queues' /\ Drained'
<1>1. /\ free_packets # NULL /\ InsertAtEnd(s) /\ delay[s] > 0
      /\ UNCHANGED <<remote, delay, turn, executed>>
      /\ arrived' = [arrived EXCEPT ![s] = @ + 1]
  BY DEF Delay
<1>2. Lists' /\ Queues'
  BY <1>1, InsertLists, InsertQueues DEF Lists
<1>3. Drained'
  <2> SUFFICES ASSUME NEW t \in Slot, InUse(t), turn > t, delay[t] = 0
               PROVE  packets'[t] = NULL
    BY <1>1 DEF Drained, InUse
  <2>1. t # s /\ packets[t] = NULL
    BY <1>1 DEF Drained
  <2> QED BY <2>1, <1>1 DEF InsertAtEnd, TypeOK
<1> QED BY <1>2, <1>3

LEMMA ConnectInv ==
  ASSUME TypeOK, Lists, Queues, Drained, Connect
  PROVE  Lists' /\ Queues' /\ Drained'
<1> DEFINE r    == Head(socket).from
           free == {s \in Slot : AfterReconnect(r)[s] = "nobody"}
<1>1. r \in Remotes /\ turn' = turn
  BY SocketTyped DEF Connect
<1>2. /\ AfterReconnect(r) \in [Slot -> Remotes \cup {"nobody"}]
      /\ free # {} => Min(free) \in Slot
  BY <1>1, FreeSlot
<1>3. \A t \in Slot : AfterReconnect(r)[t] # "nobody" => InUse(t)
  BY DEF AfterReconnect, InUse
<1>4. CASE free = {}
  <2>1. remote' = AfterReconnect(r) /\ UNCHANGED <<lists, delay, arrived, executed>>
    BY <1>4 DEF Connect
  <2>2. Lists' /\ Queues'
    <3>1. CASE Slot = {}
      BY <3>1, <2>1, ListsOn DEF lists, Queues
    <3>2. CASE Slot # {}
      BY <3>2, <2>1, ListsOn, QueuesOn DEF lists
    <3> QED BY <3>1, <3>2
  <2>3. Drained'
    BY <2>1, <1>1, <1>3, DrainedOn DEF lists, InUse
  <2> QED BY <2>2, <2>3
<1>5. CASE free # {}
  <2>1. remote' = [AfterReconnect(r) EXCEPT ![Min(free)] = r] /\ Wipe(Min(free))
    BY <1>5 DEF Connect
  <2>2. PICK s \in Slot : s = Min(free)
    BY <1>2, <1>5
  <2>3. remote' = [AfterReconnect(r) EXCEPT ![s] = r] /\ Wipe(s)
    BY <2>1, <2>2
  <2>4. Lists' /\ Queues'
    BY <2>3, WipeLists, WipeQueues DEF Lists
  <2> HIDE DEF free, r
  <2>5. Drained'
    <3> SUFFICES ASSUME NEW t \in Slot, InUse(t)', turn > t, delay'[t] = 0
                 PROVE  packets'[t] = NULL
      BY <1>1 DEF Drained
    <3>1. CASE t = s
      BY <3>1, <2>3 DEF Wipe, TypeOK
    <3>2. CASE t # s
      <4>1. InUse(t)
        BY <3>2, <2>3, <1>2, <1>3 DEF InUse
      <4>2. delay'[t] = delay[t] /\ packets'[t] = packets[t]
        BY <3>2, <2>3 DEF Wipe, TypeOK
      <4> QED BY <4>1, <4>2 DEF Drained
    <3> QED BY <3>1, <3>2
  <2> QED BY <2>4, <2>5
<1> QED BY <1>4, <1>5

LEMMA FrameInv ==
  ASSUME TypeOK, Lists, Queues, Drained, NEW gone \in SUBSET Slot, Frame(gone)
  PROVE  Lists' /\ Queues' /\ Drained'
<1>1. /\ UNCHANGED <<free_packets, next, packets, last_packet, home, number, arrived, executed>>
      /\ turn' = 0
  BY DEF Frame
<1>2. Lists' /\ Queues'
  BY <1>1, ListsOn DEF Queues, Queue
<1>3. Drained'
  BY <1>1, Names DEF Drained
<1> QED BY <1>2, <1>3

(* Steps that leave lists and connections alone; turn may be Idle.         *)
LEMMA QuietInv ==
  ASSUME Lists, Queues, Drained, UNCHANGED <<lists, remote, delay, arrived, executed>>,
         turn' = turn \/ turn' = Idle
  PROVE  Lists' /\ Queues' /\ Drained'
<1>1. Lists' /\ Queues'
  BY ListsOn DEF lists, Queues, Queue
<1>2. CASE turn' = turn
  BY <1>1, <1>2, DrainedOn DEF lists, InUse
<1>3. CASE turn' = Idle
  BY <1>1, <1>3, Names DEF Drained, Idle
<1> QED BY <1>2, <1>3

-----------------------------------------------------------------------------
(* The theorems. *)
Inv == TypeOK /\ Lists /\ Queues /\ Drained

LEMMA InitInv == Init => Inv
<1> SUFFICES ASSUME Init PROVE Inv
  OBVIOUS
<1>1. TypeOK
  <2>1. 0 \in 0 .. MaxDelay /\ 1 \in Node /\ <<>> \in Seq(Packet)
    BY DelayIsNat, PoolIsThere DEF Node
  <2>2. next \in [Node -> Node \cup {NULL}]
    BY PoolIsThere DEF Init, Node
  <2>3. ListsTyped
    BY <2>1, <2>2 DEF Init, ListsTyped
  <2>4. RestTyped
    BY <2>1 DEF Init, RestTyped
  <2> QED BY <2>3, <2>4, Typed
<1>2. /\ free_packets = 1 /\ \A n \in Node : next[n] = IF n < PoolSize THEN n + 1 ELSE NULL
      /\ \A s \in Slot : packets[s] = NULL /\ executed[s] = 0 /\ arrived[s] = 0
      /\ \A n \in Node : home[n] = Pool
  BY DEF Init
<1>3. Homes /\ Apart
  BY <1>2, PoolIsThere DEF Homes, Apart, Node, NULL
<1>4. Reached
  <2> SUFFICES ASSUME NEW n \in Node
               PROVE  n = free_packets \/ \E m \in Node : next[m] = n
    BY DEF Reached
  <2>1. CASE n = 1
    BY <2>1, <1>2
  <2>2. CASE n # 1
    <3>1. n - 1 \in Node /\ next[n - 1] = n
      BY <2>2, <1>2, PoolIsThere DEF Node
    <3> QED BY <3>1
  <2> QED BY <2>1, <2>2
<1>5. Queues
  BY <1>2, Names DEF Queues, Queue
<1>6. Drained
  BY <1>2 DEF Drained
<1> QED BY <1>1, <1>3, <1>4, <1>5, <1>6 DEF Inv, Lists

LEMMA NextInv == Inv /\ [Next]_vars => Inv'
<1> SUFFICES ASSUME TypeOK, Lists, Queues, Drained, [Next]_vars
             PROVE  Lists' /\ Queues' /\ Drained'
  BY NextTyped DEF Inv
<1>1. ASSUME NEW s \in Slot, PoolEmpty(s) PROVE Lists' /\ Queues' /\ Drained'
  BY <1>1, QuietInv DEF PoolEmpty
<1>2. CASE Unknown
  BY <1>2, QuietInv DEF Unknown
<1>3. CASE SocketEmpty
  BY <1>3, QuietInv DEF SocketEmpty
<1>4. ASSUME NEW p \in Packet, Arrive(p) PROVE Lists' /\ Queues' /\ Drained'
  BY <1>4, QuietInv DEF Arrive
<1>5. CASE UNCHANGED vars
  BY <1>5, QuietInv DEF vars
<1> QED BY <1>1, <1>2, <1>3, <1>4, <1>5, DrainInv, NextQueueInv, ExecuteNowInv, DelayInv,
           ConnectInv, FrameInv DEF Next, ReadPackets

LEMMA Invariance == Spec => []Inv
<1> QED BY InitInv, NextInv, PTL DEF Spec

(* Pointers point to nodes or nowhere, and ages stay within the longest    *)
(* delay.                                                                  *)
THEOREM SvDelayTypeCorrect == Spec => []TypeOK
<1>1. Inv => TypeOK
  BY DEF Inv
<1> QED BY <1>1, Invariance, PTL

LEMMA PlacesApart == TypeOK /\ Lists => LinkedOnce
<1> SUFFICES ASSUME TypeOK, Lists, NEW n \in Node
             PROVE  /\ \A p, q \in Place : At(p) = n /\ At(q) = n => p = q
                    /\ home[n] # Lost => \E p \in Place : At(p) = n
  BY DEF LinkedOnce
<1>1. /\ At(<<"pool", 0>>) = free_packets /\ <<"pool", 0>> \in Place
      /\ \A s \in Slot : At(<<"slot", s>>) = packets[s] /\ <<"slot", s>> \in Place
      /\ \A m \in Node : At(<<"node", m>>) = next[m] /\ <<"node", m>> \in Place
  BY DEF At, Place
<1>2. ASSUME NEW p \in Place
      PROVE  \/ p = <<"pool", 0>>
             \/ \E s \in Slot : p = <<"slot", s>>
             \/ \E m \in Node : p = <<"node", m>>
  BY DEF Place
<1>3. /\ free_packets = n => home[n] = Pool
      /\ \A s \in Slot : packets[s] = n => home[n] = s /\ home[n] # Pool
      /\ \A m \in Node : next[m] = n => n # free_packets /\ \A s \in Slot : packets[s] # n
      /\ \A l, m \in Node : next[l] = n /\ next[m] = n => l = m
  BY Names DEF Lists, Homes, Apart
<1>4. ASSUME NEW p \in Place, NEW q \in Place, At(p) = n, At(q) = n PROVE p = q
  <2>1. CASE p = <<"pool", 0>>
    BY <2>1, <1>1, <1>2, <1>3, <1>4
  <2>2. ASSUME NEW s \in Slot, p = <<"slot", s>> PROVE p = q
    BY <2>2, <1>1, <1>2, <1>3, <1>4
  <2>3. ASSUME NEW m \in Node, p = <<"node", m>> PROVE p = q
    BY <2>3, <1>1, <1>2, <1>3, <1>4
  <2> QED BY <2>1, <2>2, <2>3, <1>2
<1>5. ASSUME home[n] # Lost PROVE \E p \in Place : At(p) = n
  <2>1. \/ n = free_packets
        \/ \E s \in Slot : packets[s] = n
        \/ \E m \in Node : next[m] = n
    BY <1>5 DEF Lists, Reached
  <2>2. CASE n = free_packets
    BY <2>2, <1>1
  <2>3. ASSUME NEW s \in Slot, packets[s] = n PROVE \E p \in Place : At(p) = n
    BY <2>3, <1>1
  <2>4. ASSUME NEW m \in Node, next[m] = n PROVE \E p \in Place : At(p) = n
    BY <2>4, <1>1
  <2> QED BY <2>1, <2>2, <2>3, <2>4
<1> QED BY <1>4, <1>5

(* Two lists never share a node, and none is lost but by the memset of a   *)
(* slot, for any number of nodes and slots.                                *)
THEOREM ListsAreApart == Spec => []LinkedOnce
<1>1. Inv => LinkedOnce
  BY PlacesApart DEF Inv
<1> QED BY <1>1, Invariance, PTL

(* Packets of a connection are executed in the order they came in, though  *)
(* the delay of the client shrinks and grows while they wait.              *)
THEOREM ExecutedInTurn == Spec => []InTurn
<1>1. Inv => InTurn
  BY DEF Inv, Queues, Queue, InTurn
<1> QED BY <1>1, Invariance, PTL

=============================================================================
