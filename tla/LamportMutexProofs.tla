------------------------- MODULE LamportMutexProofs -------------------------
(***************************************************************************)
(* The lock on every tree, with any number of nodes and of requests.       *)
(*                                                                         *)
(* Handlers and loops are interleaved in any way.  First the clocks and    *)
(* queues; then that whoever has been acknowledged by all is alone, as     *)
(* long as nobody else is let in and no node acknowledges a later request  *)
(* in the middle of its own request or release.                            *)
(***************************************************************************)
EXTENDS LamportMutex, NetworkProofs, FiniteSetTheorems

Loops == {"sleep", "ticked", "wait", "critical", "release"}
Sorted(q) == \A i, j \in DOMAIN q : i < j => q[i].lc < q[j].lc
Queues == {q \in Seq(Entry) : Sorted(q)}
Outbox == Seq(Node \X Message)

-----------------------------------------------------------------------------
(***************************************************************************)
(* The queue.                                                              *)
(***************************************************************************)
\* What a queue is.
LEMMA QueueType ==
  ASSUME NEW q \in Queues
  PROVE  /\ q \in Seq(Entry) /\ Len(q) \in Nat /\ DOMAIN q = 1 .. Len(q) /\ Sorted(q)
         /\ \A i \in DOMAIN q : q[i] \in Entry /\ q[i].lc \in Nat /\ q[i].uid \in Node
<1>1. q \in Seq(Entry) /\ Sorted(q)
  BY DEF Queues
<1>2. Len(q) \in Nat /\ DOMAIN q = 1 .. Len(q) /\ \A i \in DOMAIN q : q[i] \in Entry
  BY <1>1, Elements
<1>3. \A e \in Entry : e.lc \in Nat /\ e.uid \in Node
  BY DEF Entry
<1> QED
  BY <1>1, <1>2, <1>3

\* In a sorted queue the earlier entries are the first ones.
LEMMA EarlierFirst ==
  ASSUME NEW q \in Queues, NEW lc \in Nat
  PROVE  /\ Earlier(q, lc) \in 0 .. Len(q)
         /\ \A i \in DOMAIN q : q[i].lc < lc <=> i <= Earlier(q, lc)
<1> DEFINE S == {i \in DOMAIN q : q[i].lc < lc}
<1>1. /\ Len(q) \in Nat /\ DOMAIN q = 1 .. Len(q) /\ q \in Seq(Entry) /\ Sorted(q)
      /\ \A i \in DOMAIN q : q[i].lc \in Nat
  <2>1. Len(q) \in Nat /\ DOMAIN q = 1 .. Len(q) /\ q \in Seq(Entry) /\ Sorted(q)
    BY QueueType
  <2>2. \A i \in DOMAIN q : q[i].lc \in Nat
    BY QueueType
  <2> QED
    BY <2>1, <2>2
<1>2. IsFiniteSet(1 .. Len(q)) /\ Cardinality(1 .. Len(q)) = Len(q) /\ S \subseteq 1 .. Len(q)
  <2>1. 1 \in Int /\ Len(q) \in Int /\ S \subseteq 1 .. Len(q)
    BY <1>1
  <2> HIDE DEF S
  <2>2. IsFiniteSet(1 .. Len(q)) /\ Cardinality(1 .. Len(q)) = IF 1 > Len(q) THEN 0 ELSE Len(q) - 1 + 1
    BY <2>1, FS_Interval
  <2> QED
    BY <1>1, <2>1, <2>2
<1>3. IsFiniteSet(S) /\ Cardinality(S) \in Nat /\ Cardinality(S) <= Len(q)
  BY <1>2, FS_Subset, FS_CardinalityType
<1>4. \A i \in 1 .. Len(q) :
        /\ IsFiniteSet(1 .. i) /\ Cardinality(1 .. i) = i
        /\ IsFiniteSet(1 .. i - 1) /\ Cardinality(1 .. i - 1) = i - 1
  <2> SUFFICES ASSUME NEW i \in 1 .. Len(q)
               PROVE  /\ IsFiniteSet(1 .. i) /\ Cardinality(1 .. i) = i
                      /\ IsFiniteSet(1 .. i - 1) /\ Cardinality(1 .. i - 1) = i - 1
    OBVIOUS
  <2>1. i \in Int /\ i - 1 \in Int /\ i >= 1
    BY <1>1
  <2>2. IsFiniteSet(1 .. i) /\ Cardinality(1 .. i) = IF 1 > i THEN 0 ELSE i - 1 + 1
    BY <2>1, FS_Interval
  <2>3. IsFiniteSet(1 .. i - 1) /\ Cardinality(1 .. i - 1) = IF 1 > i - 1 THEN 0 ELSE i - 1 - 1 + 1
    BY <2>1, FS_Interval
  <2> QED
    BY <2>1, <2>2, <2>3
<1>5. ASSUME NEW i \in DOMAIN q, q[i].lc < lc PROVE i <= Cardinality(S)
  <2>1. 1 .. i \subseteq S
    <3> SUFFICES ASSUME NEW j \in 1 .. i PROVE j \in DOMAIN q /\ q[j].lc < lc
      OBVIOUS
    <3>1. j \in DOMAIN q /\ (j = i \/ j < i) /\ q[j].lc \in Nat /\ q[i].lc \in Nat
      BY <1>1
    <3> QED
      BY <1>1, <1>5, <3>1 DEF Sorted
  <2>2. Cardinality(1 .. i) <= Cardinality(S)
    BY <1>3, <2>1, FS_Subset
  <2> QED
    BY <1>1, <1>4, <2>2
<1>6. ASSUME NEW i \in DOMAIN q, ~ (q[i].lc < lc) PROVE ~ (i <= Cardinality(S))
  <2>1. S \subseteq 1 .. i - 1
    <3> SUFFICES ASSUME NEW j \in DOMAIN q, q[j].lc < lc PROVE j \in 1 .. i - 1
      OBVIOUS
    <3>1. q[j].lc \in Nat /\ q[i].lc \in Nat /\ i \in 1 .. Len(q) /\ j \in 1 .. Len(q)
      BY <1>1
    <3>2. ~ (i < j) /\ i # j
      BY <1>1, <1>6, <3>1 DEF Sorted
    <3> QED
      BY <1>1, <3>1, <3>2
  <2>2. Cardinality(S) <= Cardinality(1 .. i - 1)
    BY <1>1, <1>4, <2>1, FS_Subset
  <2> QED
    BY <1>1, <1>3, <1>4, <2>2
<1>7. Earlier(q, lc) = Cardinality(S)
  BY DEF Earlier
<1> HIDE DEF S
<1> QED
  BY <1>1, <1>3, <1>5, <1>6, <1>7

\* Add puts an entry where it belongs.
LEMMA AddType ==
  ASSUME NEW q \in Queues, NEW lc \in Nat, NEW uid \in Node, ~ Known(q, lc)
  PROVE  /\ Add(q, lc, uid) \in Queues
         /\ \A i \in DOMAIN Add(q, lc, uid) :
              Add(q, lc, uid)[i].lc = lc \/ \E j \in DOMAIN q : Add(q, lc, uid)[i] = q[j]
<1> DEFINE k == Earlier(q, lc)
           entry == [lc |-> lc, uid |-> uid]
           new == Add(q, lc, uid)
<1>1. /\ Len(q) \in Nat /\ DOMAIN q = 1 .. Len(q) /\ Sorted(q)
      /\ \A i \in DOMAIN q : q[i] \in Entry /\ q[i].lc \in Nat
      /\ entry \in Entry /\ entry.lc = lc
  BY QueueType DEF Entry
<1>2. k \in 0 .. Len(q) /\ \A i \in DOMAIN q : q[i].lc < lc <=> i <= k
  BY EarlierFirst
<1>3. \A i \in DOMAIN q : i > k => q[i].lc > lc
  BY <1>1, <1>2 DEF Known
<1> HIDE DEF k, entry
<1>4. new = [i \in 1 .. Len(q) + 1 |-> IF i <= k THEN q[i] ELSE IF i = k + 1 THEN entry ELSE q[i - 1]]
  BY DEF Add, k, entry
<1> HIDE DEF new
<1>5. /\ DOMAIN new = 1 .. Len(q) + 1
      /\ \A i \in 1 .. Len(q) + 1 :
           \/ i <= k /\ i \in DOMAIN q /\ new[i] = q[i]
           \/ i = k + 1 /\ new[i] = entry
           \/ i > k + 1 /\ i - 1 \in DOMAIN q /\ new[i] = q[i - 1]
  BY <1>1, <1>2, <1>4
<1>6. \A i \in 1 .. Len(q) + 1 : new[i] \in Entry
  BY <1>1, <1>5
<1>7. new \in Seq(Entry)
  BY <1>1, <1>4, <1>6
<1>8. Sorted(new)
  <2> SUFFICES ASSUME NEW i \in 1 .. Len(q) + 1, NEW j \in 1 .. Len(q) + 1, i < j
               PROVE  new[i].lc < new[j].lc
    BY <1>5 DEF Sorted
  <2>1. CASE i <= k /\ j <= k
    <3>1. new[i] = q[i] /\ new[j] = q[j] /\ i \in DOMAIN q /\ j \in DOMAIN q
      BY <1>2, <1>5, <2>1
    <3> QED
      BY <1>1, <3>1 DEF Sorted
  <2>2. CASE i <= k /\ j = k + 1
    BY <1>1, <1>2, <1>5, <2>2
  <2>3. CASE i <= k /\ j > k + 1
    <3>1. new[i] = q[i] /\ new[j] = q[j - 1] /\ i \in DOMAIN q /\ j - 1 \in DOMAIN q /\ i < j - 1
      BY <1>2, <1>5, <2>3
    <3> QED
      BY <1>1, <3>1 DEF Sorted
  <2>4. CASE i = k + 1
    <3>1. new[i] = entry /\ new[j] = q[j - 1] /\ j - 1 \in DOMAIN q /\ j - 1 > k
      BY <1>2, <1>5, <2>4
    <3> QED
      BY <1>1, <1>3, <3>1
  <2>5. CASE i > k + 1
    <3>1. new[i] = q[i - 1] /\ new[j] = q[j - 1] /\ i - 1 \in DOMAIN q /\ j - 1 \in DOMAIN q /\ i - 1 < j - 1
      BY <1>2, <1>5, <2>5
    <3> QED
      BY <1>1, <3>1 DEF Sorted
  <2> QED
    BY <1>1, <1>2, <2>1, <2>2, <2>3, <2>4, <2>5
<1>9. \A i \in DOMAIN new : new[i].lc = lc \/ \E j \in DOMAIN q : new[i] = q[j]
  BY <1>1, <1>5
<1> QED
  BY <1>7, <1>8, <1>9 DEF Queues, new

\* Pop takes the first entry.
LEMMA PopType ==
  ASSUME NEW q \in Queues
  PROVE  Pop(q) \in Queues /\ \A i \in DOMAIN Pop(q) : \E j \in DOMAIN q : Pop(q)[i] = q[j]
<1>1. CASE q = <<>>
  BY <1>1 DEF Pop
<1>2. CASE q # <<>>
  <2>1. q \in Seq(Entry) /\ Sorted(q) /\ Pop(q) = Tail(q)
    BY <1>2 DEF Pop, Queues
  <2>2. /\ Tail(q) \in Seq(Entry)
        /\ \A i \in DOMAIN Tail(q) : i \in Nat /\ i + 1 \in DOMAIN q /\ Tail(q)[i] = q[i + 1]
    BY <1>2, <2>1, Uncons
  <2>3. Sorted(Tail(q))
    BY <2>1, <2>2 DEF Sorted
  <2> QED
    BY <2>1, <2>2, <2>3 DEF Queues
<1> QED
  BY <1>1, <1>2
-----------------------------------------------------------------------------
(***************************************************************************)
(* The invariant.  What is under way is stamped later than its request;    *)
(* what a node knows of requests, in its queue or its loop, is no later    *)
(* than its clock, which stamps everything it sends.                       *)
(***************************************************************************)
Stamped == {m \in Message : m.ts > m.lc}

InvChan == chan \in Channels(Stamped) /\ LC \in [Node -> Nat]
InvQueue ==
  /\ queue \in [Node -> Queues]
  /\ \A n \in Node : \A i \in DOMAIN queue[n] : queue[n][i].lc <= LC[n]
InvLock == lockRequestActive \in [Node -> BOOLEAN] /\ lockAckCounter \in [Node -> Nat]
InvLoop ==
  /\ loop \in [Node -> Loops]
  /\ reqLC \in [Node -> Nat]
  /\ \A n \in Node : reqLC[n] <= LC[n]
  /\ outbox \in [Node -> Outbox]
  /\ \A n \in Node : \A i \in DOMAIN outbox[n] : outbox[n][i][2].lc <= LC[n]
  /\ requests \in [Node -> Nat]
  /\ \A n \in Node : requests[n] <= MaxRequests[n]
Inv == InvChan /\ InvQueue /\ InvLock /\ InvLoop

\* What a node puts into its outbox.
LEMMA ToSendType ==
  ASSUME NEW n \in Node, NEW m \in Message
  PROVE  /\ ToSend(n, m) \in Outbox
         /\ \A i \in DOMAIN ToSend(n, m) : ToSend(n, m)[i][2] = m
<1>1. Tree[n] \in Seq(Node)
  BY TreeAssumption
<1>2. Len(Tree[n]) \in Nat /\ DOMAIN Tree[n] = 1 .. Len(Tree[n]) /\ \A i \in 1 .. Len(Tree[n]) : Tree[n][i] \in Node
  BY <1>1, Elements
<1> QED
  BY <1>2 DEF ToSend, Outbox

\* How often a clock ticks.
LEMMA TicksType ==
  ASSUME NEW n \in Node, NEW src
  PROVE  Ticks(n, src) \in Nat /\ \A r : TicksTo(n, src, r) \in Nat
<1>1. Tree[n] \in Seq(Node)
  BY TreeAssumption
<1>2. Len(Tree[n]) \in Int /\ Others(n, src) \subseteq 1 .. Len(Tree[n])
  BY <1>1, Elements DEF Others
<1>3. IsFiniteSet(Others(n, src))
  <2>1. IsFiniteSet(1 .. Len(Tree[n]))
    BY <1>2, FS_Interval
  <2> QED
    BY <1>2, <2>1, FS_Subset
<1>4. ASSUME NEW r PROVE TicksTo(n, src, r) \in Nat
  <2> DEFINE T == {i \in Others(n, src) : \E j \in Others(n, src) : i <= j /\ Tree[n][j] = r}
  <2>1. T \subseteq Others(n, src)
    OBVIOUS
  <2> HIDE DEF T
  <2>2. Cardinality(T) \in Nat
    BY <1>3, <2>1, FS_Subset, FS_CardinalityType
  <2> QED
    BY <2>2 DEF TicksTo, T
<1> QED
  BY <1>3, <1>4, FS_CardinalityType DEF Ticks

\* A message of a request no later than the clock is stamped later than it.
LEMMA DistributeType ==
  ASSUME NEW n \in Node, NEW src, NEW lc \in Nat, NEW m \in Message, m.lc <= lc
  PROVE  Distribute(n, src, lc, m) \in Outgoing(Stamped)
<1> SUFFICES ASSUME NEW r \in Node
             PROVE  (IF TicksTo(n, src, r) = 0 THEN <<>>
                     ELSE <<[m EXCEPT !.ts = lc + TicksTo(n, src, r)]>>) \in Seq(Stamped)
  BY DEF Distribute, Outgoing
<1>1. TicksTo(n, src, r) \in Nat
  BY TicksType
<1>2. CASE TicksTo(n, src, r) = 0
  BY <1>2, EmptySeq
<1>3. CASE TicksTo(n, src, r) # 0
  <2> DEFINE copy == [m EXCEPT !.ts = lc + TicksTo(n, src, r)]
  <2>1. copy \in Message /\ copy.ts = lc + TicksTo(n, src, r) /\ copy.lc = m.lc /\ m.lc \in Nat
    BY <1>1 DEF Message
  <2>2. copy.ts > copy.lc
    BY <1>1, <1>3, <2>1
  <2> HIDE DEF copy
  <2>3. <<copy>> \in Seq(Stamped)
    BY <2>1, <2>2 DEF Stamped
  <2> QED
    BY <1>3, <2>3 DEF copy
<1> QED
  BY <1>2, <1>3

\* What a handler finds, and the clock it sets.
LEMMA TakesType ==
  ASSUME Inv, NEW n \in Node, NEW q \in Node, NEW kind, Takes(n, q, kind)
  PROVE  /\ chan[q][n] # <<>> /\ Head(chan[q][n]) \in Message
         /\ Head(chan[q][n]).lc \in Nat /\ Head(chan[q][n]).uid \in Node
         /\ Clock(n, q) \in Nat /\ Clock(n, q) >= LC[n] /\ Head(chan[q][n]).lc <= Clock(n, q)
         /\ UNCHANGED loopVars
<1> DEFINE m == Head(chan[q][n])
<1>1. chan[q][n] # <<>> /\ UNCHANGED loopVars /\ chan \in Channels(Stamped) /\ LC[n] \in Nat
  BY DEF Takes, Inv, InvChan
<1>2. m \in Stamped
  BY <1>1, HeadType
<1>3. m \in Message /\ m.ts > m.lc /\ m.ts \in Nat /\ m.lc \in Nat /\ m.uid \in Node
  BY <1>2 DEF Stamped, Message
<1> HIDE DEF m
<1>4. Clock(n, q) = IF m.ts > LC[n] THEN m.ts + 1 ELSE LC[n]
  BY DEF Clock, ReceiveEventTS, m
<1> QED
  BY <1>1, <1>3, <1>4 DEF m

\* The clock of n moves on, and its queue and outbox hold nothing later than it.
LEMMA Step ==
  ASSUME Inv, NEW n \in Node, chan' \in Channels(Stamped),
         NEW clock \in Nat, clock >= LC[n], LC' = [LC EXCEPT ![n] = clock],
         NEW new \in Queues, \A i \in DOMAIN new : new[i].lc <= clock,
         queue' = [queue EXCEPT ![n] = new],
         NEW box \in Outbox, \A i \in DOMAIN box : box[i][2].lc <= clock,
         outbox' = [outbox EXCEPT ![n] = box],
         NEW lc \in Nat, lc <= clock, reqLC' = [reqLC EXCEPT ![n] = lc],
         InvLock', loop' \in [Node -> Loops],
         requests' \in [Node -> Nat], \A k \in Node : requests'[k] <= MaxRequests[k]
  PROVE  Inv' /\ \A k \in Node : LC'[k] >= LC[k]
<1>1. /\ LC' \in [Node -> Nat] /\ \A k \in Node : LC[k] \in Nat /\ LC'[k] \in Nat /\ LC'[k] >= LC[k]
      /\ LC'[n] = clock /\ \A k \in Node : k # n => LC'[k] = LC[k]
  BY DEF Inv, InvChan
<1>2. InvChan'
  BY <1>1 DEF InvChan
<1>3. InvQueue'
  <2>1. queue' \in [Node -> Queues] /\ queue'[n] = new /\ \A k \in Node : k # n => queue'[k] = queue[k]
    BY DEF Inv, InvQueue
  <2> SUFFICES ASSUME NEW k \in Node, NEW i \in DOMAIN queue'[k] PROVE queue'[k][i].lc <= LC'[k]
    BY <2>1 DEF InvQueue
  <2>2. CASE k = n
    BY <1>1, <2>1, <2>2
  <2>3. CASE k # n
    BY <1>1, <2>1, <2>3 DEF Inv, InvQueue
  <2> QED
    BY <2>2, <2>3
<1>4. InvLoop'
  <2>1. /\ outbox' \in [Node -> Outbox] /\ outbox'[n] = box /\ \A k \in Node : k # n => outbox'[k] = outbox[k]
        /\ reqLC' \in [Node -> Nat] /\ reqLC'[n] = lc /\ \A k \in Node : k # n => reqLC'[k] = reqLC[k]
    BY DEF Inv, InvLoop
  <2>2. \A k \in Node : reqLC'[k] <= LC'[k]
    BY <1>1, <2>1 DEF Inv, InvLoop
  <2>3. \A k \in Node : \A i \in DOMAIN outbox'[k] : outbox'[k][i][2].lc <= LC'[k]
    <3> SUFFICES ASSUME NEW k \in Node, NEW i \in DOMAIN outbox'[k] PROVE outbox'[k][i][2].lc <= LC'[k]
      OBVIOUS
    <3>1. CASE k = n
      BY <1>1, <2>1, <3>1
    <3>2. CASE k # n
      BY <1>1, <2>1, <3>2 DEF Inv, InvLoop
    <3> QED
      BY <3>1, <3>2
  <2> QED
    BY <2>1, <2>2, <2>3 DEF InvLoop
<1> QED
  BY <1>1, <1>2, <1>3, <1>4 DEF Inv

\* What a node has still to send is no later than any later clock.
LEMMA OutboxType ==
  ASSUME Inv, NEW n \in Node, NEW clock \in Nat, clock >= LC[n]
  PROVE  /\ outbox[n] \in Outbox /\ LC[n] \in Nat
         /\ \A i \in DOMAIN outbox[n] : /\ outbox[n][i] \in Node \X Message /\ outbox[n][i][2].lc \in Nat
                                        /\ outbox[n][i][2].lc <= clock
<1>1. /\ outbox[n] \in Outbox /\ LC[n] \in Nat
      /\ \A i \in DOMAIN outbox[n] : outbox[n][i][2].lc <= LC[n]
  BY DEF Inv, InvChan, InvLoop
<1>2. ASSUME NEW i \in DOMAIN outbox[n]
      PROVE  outbox[n][i] \in Node \X Message /\ outbox[n][i][2].lc \in Nat
  <2>1. outbox[n][i] \in Node \X Message
    BY <1>1, Elements DEF Outbox
  <2> QED
    BY <2>1 DEF Message
<1> QED
  BY <1>1, <1>2

\* A handler that sends stamped messages and moves the clock on.
LEMMA HandlerStep ==
  ASSUME Inv, NEW n \in Node, NEW q \in Node, chan[q][n] # <<>>,
         NEW out \in Outgoing(Stamped), chan' = Taken(chan, q, n) \/ chan' = Exchanged(chan, q, n, out),
         NEW clock \in Nat, clock >= LC[n], LC' = [LC EXCEPT ![n] = clock],
         NEW new \in Queues, \A i \in DOMAIN new : new[i].lc <= clock,
         queue' = [queue EXCEPT ![n] = new],
         InvLock', UNCHANGED loopVars
  PROVE  Inv' /\ \A k \in Node : LC'[k] >= LC[k]
<1>1. chan \in Channels(Stamped) /\ UNCHANGED <<loop, reqLC, outbox, requests>> /\ InvLoop
  BY DEF Inv, InvChan, loopVars
<1>2. chan' \in Channels(Stamped)
  BY <1>1, TakenAt, ExchangedType
<1>3. /\ outbox[n] \in Outbox /\ LC[n] \in Nat /\ \A i \in DOMAIN outbox[n] : outbox[n][i][2].lc <= clock
      /\ outbox' = [outbox EXCEPT ![n] = outbox[n]]
  BY <1>1, OutboxType DEF InvLoop
<1>4. reqLC[n] \in Nat /\ reqLC[n] <= clock /\ reqLC' = [reqLC EXCEPT ![n] = reqLC[n]]
  BY <1>1, <1>3 DEF InvLoop
<1>5. /\ loop' \in [Node -> Loops] /\ requests' \in [Node -> Nat]
      /\ \A k \in Node : requests'[k] <= MaxRequests[k]
  BY <1>1 DEF InvLoop
<1> QED
  BY <1>2, <1>3, <1>4, <1>5, Step

\* The acknowledgement of a request is a message of the lock.
LEMMA MsgType ==
  /\ \A kind \in Kinds, uid \in Node, lc \in Nat, by \in Node :
       Msg(kind, uid, lc, by) \in Message /\ Msg(kind, uid, lc, by).lc = lc
  /\ {"lockRequest", "lockAck", "lockRelease"} \subseteq Kinds
BY DEF Msg, Message, Kinds

\* An acknowledgement and the message itself, both passed on.
LEMMA AckAndForwardType ==
  ASSUME NEW n \in Node, NEW q \in Node, LC \in [Node -> Nat], Clock(n, q) \in Nat, Clock(n, q) >= LC[n],
         Head(chan[q][n]) \in Message, Head(chan[q][n]).lc <= Clock(n, q),
         NEW wanted \in BOOLEAN, NEW ack, wanted => ack \in Message /\ ack.lc <= Clock(n, q),
         AckAndForward(n, q, wanted, ack)
  PROVE  \E out \in Outgoing(Stamped), clock \in Nat :
           /\ chan' = Exchanged(chan, q, n, out)
           /\ clock >= Clock(n, q) /\ LC' = [LC EXCEPT ![n] = clock]
<1> DEFINE m == Head(chan[q][n])
           lc == Clock(n, q)
           lc2 == IF wanted THEN lc + Ticks(n, n) ELSE lc
           first == IF wanted THEN Distribute(n, n, lc, ack) ELSE Nothing
           second == Distribute(n, q, lc2, m)
<1>1. Ticks(n, n) \in Nat /\ Ticks(n, q) \in Nat
  BY TicksType
<1>2. lc2 \in Nat /\ lc2 >= lc /\ lc2 + Ticks(n, q) \in Nat /\ lc2 + Ticks(n, q) >= lc
  BY <1>1
<1>3. m.lc <= lc2
  <2>1. m.lc \in Nat
    BY DEF Message
  <2> HIDE DEF m, lc2
  <2> QED
    BY <1>2, <2>1 DEF m
<1>4. chan' = Exchanged(chan, q, n, Then(first, second)) /\ LC' = [LC EXCEPT ![n] = lc2 + Ticks(n, q)]
  BY DEF AckAndForward
<1>5. first \in Outgoing(Stamped)
  BY DistributeType, NothingType
<1> HIDE DEF lc2
<1>6. second \in Outgoing(Stamped)
  BY <1>2, <1>3, DistributeType
<1> HIDE DEF first, second
<1>7. Then(first, second) \in Outgoing(Stamped)
  BY <1>5, <1>6, ThenType
<1> QED
  BY <1>2, <1>4, <1>7
\* The handler of a request.
LEMMA RequestStep ==
  ASSUME Inv, NEW n \in Node, NEW q \in Node, handle_lockRequest(n, q)
  PROVE  Inv' /\ \A k \in Node : LC'[k] >= LC[k]
<1> DEFINE m == Head(chan[q][n])
           new == Add(queue[n], m.lc, m.uid)
<1>1. Takes(n, q, "lockRequest") /\ UNCHANGED <<lockRequestActive, lockAckCounter>>
  BY DEF handle_lockRequest
<1>2. /\ chan[q][n] # <<>> /\ m \in Message /\ m.lc \in Nat /\ m.uid \in Node
      /\ Clock(n, q) \in Nat /\ Clock(n, q) >= LC[n] /\ m.lc <= Clock(n, q) /\ UNCHANGED loopVars
  BY <1>1, TakesType
<1>3. /\ LC \in [Node -> Nat] /\ queue[n] \in Queues /\ InvLock'
      /\ \A i \in DOMAIN queue[n] : queue[n][i].lc <= LC[n] /\ queue[n][i].lc \in Nat
  BY <1>1, QueueType DEF Inv, InvChan, InvQueue, InvLock
<1>4. CASE ~Known(queue[n], m.lc)
  <2>1. queue' = [queue EXCEPT ![n] = new]
        /\ AckAndForward(n, q, IsFirst(new, m.lc), Msg("lockAck", m.uid, m.lc, n))
    BY <1>4 DEF handle_lockRequest
  <2>2. Msg("lockAck", m.uid, m.lc, n) \in Message /\ Msg("lockAck", m.uid, m.lc, n).lc = m.lc
    <3>1. m.uid \in Node /\ m.lc \in Nat
      BY <1>2
    <3> HIDE DEF m
    <3> QED
      BY <3>1, MsgType DEF Kinds
  <2>3. new \in Queues /\ \A i \in DOMAIN new : new[i].lc = m.lc \/ \E j \in DOMAIN queue[n] : new[i] = queue[n][j]
    <3>1. m.lc \in Nat /\ m.uid \in Node /\ queue[n] \in Queues /\ ~ Known(queue[n], m.lc)
      BY <1>2, <1>3, <1>4
    <3> HIDE DEF m
    <3>2. \A q1 \in Queues, lc1 \in Nat, uid1 \in Node : ~ Known(q1, lc1) =>
            /\ Add(q1, lc1, uid1) \in Queues
            /\ \A i \in DOMAIN Add(q1, lc1, uid1) :
                 Add(q1, lc1, uid1)[i].lc = lc1 \/ \E j \in DOMAIN q1 : Add(q1, lc1, uid1)[i] = q1[j]
      BY AddType
    <3> QED
      BY <3>1, <3>2
  <2> DEFINE wanted == IsFirst(new, m.lc)
  <2>4. wanted \in BOOLEAN
    BY DEF IsFirst
  <2> HIDE DEF m, new, wanted
  <2>5. PICK out \in Outgoing(Stamped), clock \in Nat :
          /\ chan' = Exchanged(chan, q, n, out)
          /\ clock >= Clock(n, q) /\ LC' = [LC EXCEPT ![n] = clock]
    BY <1>2, <1>3, <2>1, <2>2, <2>4, AckAndForwardType DEF m, wanted
  <2>6. clock >= LC[n] /\ \A i \in DOMAIN new : new[i].lc <= clock
    BY <1>2, <1>3, <2>3, <2>5
  <2> QED
    BY <1>2, <1>3, <2>1, <2>3, <2>5, <2>6, HandlerStep
<1>5. CASE Known(queue[n], m.lc)
  <2>1. /\ LC' = [LC EXCEPT ![n] = Clock(n, q)] /\ chan' = Taken(chan, q, n) /\ UNCHANGED queue
    BY <1>5 DEF handle_lockRequest
  <2>2. queue' = [queue EXCEPT ![n] = queue[n]]
    BY <2>1 DEF Inv, InvQueue
  <2>3. \A i \in DOMAIN queue[n] : queue[n][i].lc <= Clock(n, q)
    BY <1>2, <1>3
  <2> QED
    BY <1>2, <1>3, <2>1, <2>2, <2>3, NothingType, HandlerStep
<1> QED
  BY <1>4, <1>5

\* The handler of a release.
LEMMA ReleaseStep ==
  ASSUME Inv, NEW n \in Node, NEW q \in Node, handle_lockRelease(n, q)
  PROVE  Inv' /\ \A k \in Node : LC'[k] >= LC[k]
<1> DEFINE m == Head(chan[q][n])
           new == Pop(queue[n])
<1>1. /\ Takes(n, q, "lockRelease") /\ UNCHANGED <<lockRequestActive, lockAckCounter>>
      /\ queue' = [queue EXCEPT ![n] = new]
  BY DEF handle_lockRelease
<1>2. /\ chan[q][n] # <<>> /\ m \in Message
      /\ Clock(n, q) \in Nat /\ Clock(n, q) >= LC[n] /\ m.lc <= Clock(n, q) /\ UNCHANGED loopVars
  BY <1>1, TakesType
<1>3. /\ LC \in [Node -> Nat] /\ queue[n] \in Queues /\ InvLock'
      /\ \A i \in DOMAIN queue[n] : queue[n][i].lc <= LC[n] /\ queue[n][i].lc \in Nat
  BY <1>1, QueueType DEF Inv, InvChan, InvQueue, InvLock
<1>4. new \in Queues /\ \A i \in DOMAIN new : \E j \in DOMAIN queue[n] : new[i] = queue[n][j]
  BY <1>3, PopType
<1> HIDE DEF new
<1>5. \A i \in DOMAIN new : new[i].lc <= Clock(n, q) /\ new[i].lc \in Nat
  BY <1>2, <1>3, <1>4
<1>6. CASE Accepts(queue[n], m)
  <2>1. AckAndForward(n, q, new # <<>>, AckFor(n, new))
    BY <1>6 DEF handle_lockRelease, new
  <2>2. new # <<>> => AckFor(n, new) \in Message /\ AckFor(n, new).lc <= Clock(n, q)
    <3> SUFFICES ASSUME new # <<>> PROVE AckFor(n, new) \in Message /\ AckFor(n, new).lc <= Clock(n, q)
      OBVIOUS
    <3>1. Head(new) = new[1] /\ 1 \in DOMAIN new /\ Head(new) \in Entry
      BY <1>4, QueueType, Uncons
    <3>2. Head(new).lc \in Nat /\ Head(new).uid \in Node /\ Head(new).lc <= Clock(n, q)
      BY <1>5, <3>1 DEF Entry
    <3> QED
      BY <3>2, MsgType DEF AckFor
  <2> DEFINE wanted == new # <<>>
  <2>3. wanted \in BOOLEAN
    OBVIOUS
  <2> HIDE DEF m, wanted
  <2>4. PICK out \in Outgoing(Stamped), clock \in Nat :
          /\ chan' = Exchanged(chan, q, n, out)
          /\ clock >= Clock(n, q) /\ LC' = [LC EXCEPT ![n] = clock]
    BY <1>2, <1>3, <2>1, <2>2, <2>3, AckAndForwardType DEF m, wanted
  <2>5. clock >= LC[n] /\ \A i \in DOMAIN new : new[i].lc <= clock
    BY <1>2, <1>3, <1>5, <2>4
  <2> QED
    BY <1>1, <1>2, <1>3, <1>4, <2>4, <2>5, HandlerStep
<1>7. CASE ~Accepts(queue[n], m)
  <2>1. LC' = [LC EXCEPT ![n] = Clock(n, q)] /\ chan' = Taken(chan, q, n)
    BY <1>7 DEF handle_lockRelease
  <2> QED
    BY <1>1, <1>2, <1>3, <1>4, <1>5, <2>1, NothingType, HandlerStep
<1> QED
  BY <1>6, <1>7

\* The handler of an acknowledgement.
LEMMA AckStep ==
  ASSUME Inv, NEW n \in Node, NEW q \in Node, handle_lockAck(n, q)
  PROVE  Inv' /\ \A k \in Node : LC'[k] >= LC[k]
<1> DEFINE m == Head(chan[q][n])
           counted == lockAckCounter[n] + (IF m.ts > m.lc THEN 1 ELSE 0)
<1>1. Takes(n, q, "lockAck") /\ UNCHANGED queue
  BY DEF handle_lockAck
<1>2. /\ chan[q][n] # <<>> /\ m \in Message
      /\ Clock(n, q) \in Nat /\ Clock(n, q) >= LC[n] /\ m.lc <= Clock(n, q) /\ UNCHANGED loopVars
  BY <1>1, TakesType
<1>3. /\ LC \in [Node -> Nat] /\ queue[n] \in Queues /\ queue' = [queue EXCEPT ![n] = queue[n]]
      /\ LC[n] \in Nat /\ InvLock
      /\ \A i \in DOMAIN queue[n] : queue[n][i].lc <= LC[n] /\ queue[n][i].lc \in Nat
  BY <1>1, QueueType DEF Inv, InvChan, InvQueue
<1>4. CASE m.uid = n
  <2>1. /\ lockAckCounter' = [lockAckCounter EXCEPT ![n] = counted]
        /\ lockRequestActive' = [lockRequestActive EXCEPT ![n] = @ \/ counted = Needed]
        /\ LC' = [LC EXCEPT ![n] = Clock(n, q)] /\ chan' = Taken(chan, q, n)
    BY <1>4 DEF handle_lockAck
  <2>2. counted \in Nat
    BY <1>3 DEF InvLock
  <2> HIDE DEF counted
  <2>3. lockRequestActive' \in [Node -> BOOLEAN]
    BY <1>3, <2>1 DEF InvLock
  <2>4. InvLock'
    BY <1>3, <2>1, <2>2, <2>3 DEF InvLock
  <2>5. \A i \in DOMAIN queue[n] : queue[n][i].lc <= Clock(n, q)
    BY <1>2, <1>3
  <2> QED
    BY <1>2, <1>3, <2>1, <2>4, <2>5, NothingType, HandlerStep
<1>5. CASE m.uid # n
  <2> DEFINE clock == Clock(n, q) + Ticks(n, q)
             out == Distribute(n, q, Clock(n, q), m)
  <2>1. /\ LC' = [LC EXCEPT ![n] = clock] /\ chan' = Exchanged(chan, q, n, out)
        /\ UNCHANGED <<lockAckCounter, lockRequestActive>>
    BY <1>5 DEF handle_lockAck
  <2>2. clock \in Nat /\ clock >= LC[n] /\ clock >= Clock(n, q)
    BY <1>2, <1>3, TicksType
  <2>3. out \in Outgoing(Stamped)
    BY <1>2, DistributeType
  <2> HIDE DEF clock, out
  <2>4. InvLock'
    BY <1>3, <2>1 DEF InvLock
  <2>5. \A i \in DOMAIN queue[n] : queue[n][i].lc <= clock
    BY <1>2, <1>3, <2>2
  <2> QED
    BY <1>2, <1>3, <2>1, <2>2, <2>3, <2>4, <2>5, HandlerStep
<1> QED
  BY <1>4, <1>5
\* A step of the transaction loop.
LEMMA LoopStep ==
  ASSUME Inv, NEW n \in Node, RequestTick(n) \/ Advance(n)
  PROVE  Inv' /\ \A k \in Node : LC'[k] >= LC[k]
<1>1. /\ chan \in Channels(Stamped) /\ LC \in [Node -> Nat] /\ LC[n] \in Nat /\ LC[n] + 1 \in Nat
      /\ LC[n] >= LC[n] /\ LC[n] + 1 >= LC[n]
  BY DEF Inv, InvChan
<1>2. /\ queue \in [Node -> Queues] /\ queue[n] \in Queues /\ queue[n] \in Seq(Entry)
      /\ \A i \in DOMAIN queue[n] : /\ queue[n][i].lc \in Nat /\ queue[n][i].uid \in Node
                                    /\ queue[n][i].lc <= LC[n] /\ queue[n][i].lc <= LC[n] + 1
  BY <1>1, QueueType DEF Inv, InvQueue
<1>3. /\ outbox[n] \in Outbox
      /\ \A i \in DOMAIN outbox[n] : /\ outbox[n][i] \in Node \X Message /\ outbox[n][i][2].lc \in Nat
                                     /\ outbox[n][i][2].lc <= LC[n] /\ outbox[n][i][2].lc <= LC[n] + 1
  BY <1>1, OutboxType
<1>4. /\ reqLC[n] \in Nat /\ reqLC[n] <= LC[n] /\ reqLC[n] <= LC[n] + 1
      /\ reqLC \in [Node -> Nat] /\ outbox \in [Node -> Outbox] /\ loop \in [Node -> Loops]
      /\ requests \in [Node -> Nat] /\ \A k \in Node : requests[k] <= MaxRequests[k]
  BY <1>1 DEF Inv, InvLoop
<1>5. \A l \in Loops : [loop EXCEPT ![n] = l] \in [Node -> Loops]
  BY <1>4
<1>6. /\ LC = [LC EXCEPT ![n] = LC[n]] /\ queue = [queue EXCEPT ![n] = queue[n]]
      /\ reqLC = [reqLC EXCEPT ![n] = reqLC[n]] /\ outbox = [outbox EXCEPT ![n] = outbox[n]]
  BY <1>1, <1>2, <1>4
<1>7. CASE RequestTick(n)
  <2>1. /\ LC' = [LC EXCEPT ![n] = LC[n] + 1] /\ reqLC' = [reqLC EXCEPT ![n] = LC[n] + 1]
        /\ requests[n] < MaxRequests[n] /\ requests' = [requests EXCEPT ![n] = @ + 1]
        /\ loop' = [loop EXCEPT ![n] = "ticked"]
        /\ UNCHANGED <<chan, queue, lockRequestActive, lockAckCounter, outbox>>
    BY <1>7 DEF RequestTick
  <2>2. requests' \in [Node -> Nat] /\ \A k \in Node : requests'[k] <= MaxRequests[k]
    <3>1. requests[n] \in Nat /\ MaxRequests[n] \in Nat
      BY <1>4, BoundAssumption
    <3>2. requests[n] + 1 \in Nat /\ requests[n] + 1 <= MaxRequests[n]
      BY <2>1, <3>1
    <3> QED
      BY <1>4, <2>1, <3>2
  <2>3. InvLock' /\ loop' \in [Node -> Loops]
    BY <1>5, <2>1 DEF Inv, InvLock, Loops
  <2>4. LC[n] + 1 <= LC[n] + 1
    BY <1>1
  <2> QED
    BY <1>1, <1>2, <1>3, <1>6, <2>1, <2>2, <2>3, <2>4, Step
<1>8. CASE RequestAdd(n)
  <2>1. /\ lockAckCounter' = [lockAckCounter EXCEPT ![n] = 0]
        /\ queue' = IF Known(queue[n], reqLC[n]) THEN queue
                    ELSE [queue EXCEPT ![n] = Add(queue[n], reqLC[n], n)]
        /\ outbox' = [outbox EXCEPT ![n] = ToSend(n, Msg("lockRequest", n, reqLC[n], n))]
        /\ loop' = [loop EXCEPT ![n] = "wait"]
        /\ UNCHANGED <<chan, LC, lockRequestActive, reqLC, requests>>
    BY <1>8 DEF RequestAdd
  <2> DEFINE m == Msg("lockRequest", n, reqLC[n], n)
             new == IF Known(queue[n], reqLC[n]) THEN queue[n] ELSE Add(queue[n], reqLC[n], n)
  <2>2. m \in Message /\ m.lc = reqLC[n]
    BY <1>4, MsgType
  <2>3. new \in Queues /\ \A i \in DOMAIN new : new[i].lc <= LC[n]
    <3>1. CASE Known(queue[n], reqLC[n])
      BY <1>2, <3>1
    <3>2. CASE ~Known(queue[n], reqLC[n])
      <4>1. /\ new \in Queues
            /\ \A i \in DOMAIN new : new[i].lc = reqLC[n] \/ \E j \in DOMAIN queue[n] : new[i] = queue[n][j]
        BY <1>2, <1>4, <3>2, AddType
      <4> HIDE DEF new
      <4> QED
        BY <1>2, <1>4, <4>1
    <3> QED
      BY <3>1, <3>2
  <2>4. queue' = [queue EXCEPT ![n] = new]
    BY <1>6, <2>1
  <2> HIDE DEF new, m
  <2>5. ToSend(n, m) \in Outbox /\ \A i \in DOMAIN ToSend(n, m) : ToSend(n, m)[i][2].lc <= LC[n]
    BY <1>4, <2>2, ToSendType
  <2>6. InvLock' /\ loop' \in [Node -> Loops]
    BY <1>5, <2>1 DEF Inv, InvLock, Loops
  <2> QED
    BY <1>1, <1>4, <1>6, <2>1, <2>3, <2>4, <2>5, <2>6, Step DEF m
<1>9. CASE LoopSend(n)
  <2> DEFINE to == Head(outbox[n])[1]
             m == [Head(outbox[n])[2] EXCEPT !.ts = LC[n] + 1]
  <2>1. /\ outbox[n] # <<>> /\ chan' = Sent(chan, n, To({to}, m))
        /\ LC' = [LC EXCEPT ![n] = LC[n] + 1] /\ outbox' = [outbox EXCEPT ![n] = Tail(outbox[n])]
        /\ UNCHANGED <<queue, lockRequestActive, lockAckCounter, loop, reqLC, requests>>
    BY <1>9 DEF LoopSend
  <2>2. /\ Head(outbox[n]) = outbox[n][1] /\ 1 \in DOMAIN outbox[n]
        /\ Tail(outbox[n]) \in Outbox
        /\ \A i \in DOMAIN Tail(outbox[n]) : i + 1 \in DOMAIN outbox[n] /\ Tail(outbox[n])[i] = outbox[n][i + 1]
    BY <1>3, <2>1, Uncons DEF Outbox
  <2>3. m \in Stamped
    <3> DEFINE old == outbox[n][1][2]
    <3>1. old \in Message /\ old.lc <= LC[n] /\ old.lc \in Nat /\ m = [old EXCEPT !.ts = LC[n] + 1]
      BY <1>3, <2>2
    <3> HIDE DEF old, m
    <3>2. m \in Message /\ m.ts = LC[n] + 1 /\ m.lc = old.lc
      BY <1>1, <3>1 DEF Message
    <3>3. m.ts > m.lc
      BY <1>1, <3>1, <3>2
    <3> QED
      BY <3>2, <3>3 DEF Stamped
  <2> HIDE DEF m, to
  <2>4. chan' \in Channels(Stamped)
    BY <1>1, <2>1, <2>3, ToType, SentAt
  <2>5. \A i \in DOMAIN Tail(outbox[n]) : Tail(outbox[n])[i][2].lc <= LC[n] + 1
    BY <1>3, <2>2
  <2>6. InvLock'
    BY <2>1 DEF Inv, InvLock
  <2>7. /\ queue' = [queue EXCEPT ![n] = queue[n]] /\ reqLC' = [reqLC EXCEPT ![n] = reqLC[n]]
        /\ loop' \in [Node -> Loops] /\ requests' \in [Node -> Nat]
        /\ \A k \in Node : requests'[k] <= MaxRequests[k]
    BY <1>4, <1>5, <1>6, <2>1
  <2>8. /\ queue[n] \in Queues /\ \A i \in DOMAIN queue[n] : queue[n][i].lc <= LC[n] + 1
        /\ reqLC[n] \in Nat /\ reqLC[n] <= LC[n] + 1 /\ LC[n] + 1 >= LC[n]
    BY <1>1, <1>2, <1>4 DEF Queues, Entry
  <2> DEFINE rest == Tail(outbox[n])
  <2>9. /\ rest \in Outbox /\ \A i \in DOMAIN rest : rest[i][2].lc <= LC[n] + 1
        /\ outbox' = [outbox EXCEPT ![n] = rest]
    BY <2>1, <2>2, <2>5
  <2> HIDE DEF rest
  <2> QED
    BY <1>1, <2>1, <2>4, <2>6, <2>7, <2>8, <2>9, Step
<1>10. CASE Enter(n)
  <2>1. /\ loop' = [loop EXCEPT ![n] = "critical"]
        /\ UNCHANGED <<chan, LC, queue, lockRequestActive, lockAckCounter, reqLC, outbox, requests>>
    BY <1>10 DEF Enter, clockVars
  <2>2. InvLock' /\ loop' \in [Node -> Loops]
    BY <1>5, <2>1 DEF Inv, InvLock, Loops
  <2> QED
    BY <1>1, <1>2, <1>3, <1>4, <1>6, <2>1, <2>2, Step
<1>11. CASE Release(n)
  <2> DEFINE m == Msg("lockRelease", n, reqLC[n], n)
  <2>1. /\ queue' = [queue EXCEPT ![n] = Pop(queue[n])]
        /\ lockRequestActive' = [lockRequestActive EXCEPT ![n] = FALSE]
        /\ outbox' = [outbox EXCEPT ![n] = ToSend(n, m)]
        /\ loop' = [loop EXCEPT ![n] = "release"]
        /\ UNCHANGED <<chan, LC, lockAckCounter, reqLC, requests>>
    BY <1>11 DEF Release
  <2>2. m \in Message /\ m.lc = reqLC[n]
    BY <1>4, MsgType
  <2> HIDE DEF m
  <2>3. ToSend(n, m) \in Outbox /\ \A i \in DOMAIN ToSend(n, m) : ToSend(n, m)[i][2].lc <= LC[n]
    BY <1>4, <2>2, ToSendType
  <2>4. Pop(queue[n]) \in Queues /\ \A i \in DOMAIN Pop(queue[n]) : Pop(queue[n])[i].lc <= LC[n]
    BY <1>2, PopType
  <2>5. InvLock' /\ loop' \in [Node -> Loops]
    BY <1>5, <2>1 DEF Inv, InvLock, Loops
  <2> QED
    BY <1>1, <1>4, <1>6, <2>1, <2>3, <2>4, <2>5, Step
<1>12. CASE AckNext(n)
  <2> DEFINE box == IF queue[n] = <<>> THEN <<>> ELSE ToSend(n, AckFor(n, queue[n]))
  <2>1. /\ outbox' = [outbox EXCEPT ![n] = box] /\ loop' = [loop EXCEPT ![n] = "sleep"]
        /\ UNCHANGED <<chan, LC, queue, lockRequestActive, lockAckCounter, reqLC, requests>>
    BY <1>12 DEF AckNext, clockVars
  <2>2. box \in Outbox /\ \A i \in DOMAIN box : box[i][2].lc <= LC[n]
    <3>1. CASE queue[n] = <<>>
      BY <3>1, EmptySeq DEF Outbox
    <3>2. CASE queue[n] # <<>>
      <4>1. Head(queue[n]) = queue[n][1] /\ 1 \in DOMAIN queue[n]
        BY <1>2, <3>2, Uncons
      <4>2. Head(queue[n]).lc \in Nat /\ Head(queue[n]).uid \in Node /\ Head(queue[n]).lc <= LC[n]
        BY <1>2, <4>1
      <4>3. AckFor(n, queue[n]) \in Message /\ AckFor(n, queue[n]).lc = Head(queue[n]).lc
        BY <4>2, MsgType DEF AckFor
      <4> QED
        BY <3>2, <4>2, <4>3, ToSendType
    <3> QED
      BY <3>1, <3>2
  <2> HIDE DEF box
  <2>3. InvLock' /\ loop' \in [Node -> Loops]
    BY <1>5, <2>1 DEF Inv, InvLock, Loops
  <2> QED
    BY <1>1, <1>2, <1>4, <1>6, <2>1, <2>2, <2>3, Step
<1> QED
  BY <1>7, <1>8, <1>9, <1>10, <1>11, <1>12 DEF Advance

-----------------------------------------------------------------------------
(***************************************************************************)
(* The theorems.                                                           *)
(***************************************************************************)
\* The start.
LEMMA InvInit == Init => Inv
<1> SUFFICES ASSUME Init PROVE Inv
  OBVIOUS
<1>1. InvChan
  BY EmptySeq DEF Init, EmptyNet, InvChan, Channels, Outgoing
<1>2. InvQueue
  BY EmptySeq DEF Init, InvQueue, Queues, Sorted
<1>3. InvLock
  BY DEF Init, InvLock
<1>4. InvLoop
  BY EmptySeq, BoundAssumption DEF Init, InvLoop, Loops, Outbox
<1> QED
  BY <1>1, <1>2, <1>3, <1>4 DEF Inv

\* The invariant and the clocks, step by step.
LEMMA InvNext == Inv /\ [Next]_vars => Inv' /\ \A n \in Node : LC'[n] >= LC[n]
<1> SUFFICES ASSUME Inv, [Next]_vars PROVE Inv' /\ \A n \in Node : LC'[n] >= LC[n]
  OBVIOUS
<1>1. ASSUME NEW n \in Node, NEW q \in Node, Handle(n, q)
      PROVE  Inv' /\ \A k \in Node : LC'[k] >= LC[k]
  BY <1>1, RequestStep, ReleaseStep, AckStep DEF Handle
<1>2. ASSUME NEW n \in Node, RequestTick(n) \/ Advance(n)
      PROVE  Inv' /\ \A k \in Node : LC'[k] >= LC[k]
  BY <1>2, LoopStep
<1>3. CASE UNCHANGED vars
  <2>1. UNCHANGED <<chan, LC, queue, lockRequestActive, lockAckCounter, loop, reqLC, outbox, requests>>
    BY <1>3 DEF vars, clockVars, loopVars
  <2>2. \A n \in Node : LC[n] \in Nat /\ LC[n] >= LC[n]
    BY DEF Inv, InvChan
  <2> QED
    BY <2>1, <2>2 DEF Inv, InvChan, InvQueue, InvLock, InvLoop
<1> QED
  BY <1>1, <1>2, <1>3 DEF Next

\* The invariant gives the types.
LEMMA InvTypes == Inv => TypeOK
<1> SUFFICES ASSUME Inv PROVE TypeOK
  OBVIOUS
<1>1. chan \in [Node -> [Node -> Seq(Message)]]
  <2> SUFFICES ASSUME NEW p \in Node, NEW r \in Node PROVE chan[p][r] \in Seq(Message)
    BY DEF Inv, InvChan, Channels, Outgoing
  <2>1. chan[p][r] \in Seq(Stamped) /\ \A m \in Stamped : m \in Message
    BY DEF Inv, InvChan, Channels, Outgoing, Stamped
  <2> QED
    BY <2>1
<1>2. /\ queue \in [Node -> Seq(Entry)]
      /\ \A n \in Node : \A i, j \in DOMAIN queue[n] : i < j => queue[n][i].lc < queue[n][j].lc
  BY DEF Inv, InvQueue, Queues, Sorted
<1>3. \A n \in Node : requests[n] \in 0 .. MaxRequests[n]
  <2> SUFFICES ASSUME NEW n \in Node PROVE requests[n] \in 0 .. MaxRequests[n]
    OBVIOUS
  <2>1. requests[n] \in Nat /\ MaxRequests[n] \in Nat /\ requests[n] <= MaxRequests[n]
    BY BoundAssumption DEF Inv, InvLoop
  <2> QED
    BY <2>1
<1> QED
  BY <1>1, <1>2, <1>3 DEF TypeOK, Inv, InvChan, InvLock, InvLoop, Loops, Outbox

\* And acknowledgements that count.
LEMMA InvAcks == Inv => AcksLater
<1> SUFFICES ASSUME Inv, NEW q \in Node, NEW n \in Node, NEW i \in DOMAIN chan[q][n]
             PROVE  chan[q][n][i].ts > chan[q][n][i].lc
  BY DEF AcksLater
<1>1. chan[q][n] \in Seq(Stamped)
  BY DEF Inv, InvChan, Channels, Outgoing
<1>2. chan[q][n][i] \in Stamped
  BY <1>1, Elements
<1> QED
  BY <1>2 DEF Stamped

\* Every variable keeps its Go type, and the queue is sorted with one entry for each
\* timestamp (TypeOK), on every tree and whatever is interleaved with what.
THEOREM TypeCorrect == Spec => []TypeOK
BY InvInit, InvNext, InvTypes, PTL DEF Spec

\* Whatever way it has come, an acknowledgement is stamped later than the request it is
\* for, so that handle_lockAck counts it (AcksLater).
THEOREM AcknowledgesLater == Spec => []AcksLater
BY InvInit, InvNext, InvAcks, PTL DEF Spec

\* No clock ever goes back (ClocksAdvance).
THEOREM ClocksNeverGoBack == Spec => ClocksAdvance
<1>1. Inv /\ [Next]_vars => [\A n \in Node : LC'[n] >= LC[n]]_vars
  BY InvNext
<1> QED
  BY <1>1, InvInit, InvNext, PTL DEF Spec, ClocksAdvance
-----------------------------------------------------------------------------
(***************************************************************************)
(* The tree.  Side(p, r) is what lies beyond the edge from p to r: what    *)
(* can be reached from r without taking that edge back.                    *)
(***************************************************************************)
Links(n) == {Tree[n][i] : i \in DOMAIN Tree[n]}
Closed(S, p, r) == \A x \in S : \A y \in Links(x) : y \in S \/ (x = r /\ y = p)
Side(p, r) == {x \in Node : \A S \in SUBSET Node : r \in S /\ Closed(S, p, r) => x \in S}

\* The neighbours of a node.
LEMMA LinksType ==
  ASSUME NEW n \in Node
  PROVE  Links(n) \subseteq Node /\ n \notin Links(n) /\ \A r \in Links(n) : n \in Links(r)
<1>1. Tree[n] \in Seq(Node)
  BY TreeAssumption
<1>2. \A i \in DOMAIN Tree[n] : Tree[n][i] \in Node
  BY <1>1, Elements
<1>3. \A i \in DOMAIN Tree[n] : Tree[n][i] # n
  BY TreeAssumption
<1>4. \A i \in DOMAIN Tree[n] : \E k \in DOMAIN Tree[Tree[n][i]] : Tree[Tree[n][i]][k] = n
  BY TreeAssumption
<1> QED
  BY <1>2, <1>3, <1>4 DEF Links

\* Nothing but all nodes is closed in every direction.
LEMMA Connected ==
  ASSUME NEW S \in SUBSET Node, NEW z \in S, \A x \in S : Links(x) \subseteq S
  PROVE  S = Node
<1>1. \A x \in S : \A i \in DOMAIN Tree[x] : Tree[x][i] \in S
  BY DEF Links
<1> QED
  BY <1>1, SpanningAssumption

\* A side begins beyond its edge, and leaves only by it.
LEMMA SideEdge ==
  ASSUME NEW p \in Node, NEW r \in Links(p)
  PROVE  /\ r \in Node /\ p \in Links(r) /\ p # r
         /\ Side(p, r) \subseteq Node /\ r \in Side(p, r) /\ p \notin Side(p, r)
         /\ Closed(Side(p, r), p, r)
<1>1. r \in Node /\ p \in Links(r) /\ p # r
  BY LinksType
<1>2. Side(p, r) \subseteq Node /\ r \in Side(p, r)
  BY <1>1 DEF Side
<1>3. p \notin Side(p, r)
  <2>1. PICK k \in DOMAIN Tree[p] : r = Tree[p][k]
    BY DEF Links
  <2>2. PICK S \in SUBSET Node :
          /\ p \notin S /\ Tree[p][k] \in S
          /\ \A x \in S : \A i \in DOMAIN Tree[x] : Tree[x][i] \in S \/ (x = Tree[p][k] /\ Tree[x][i] = p)
    BY <2>1, SpanningAssumption
  <2>3. p \notin S /\ r \in S /\ Closed(S, p, r)
    BY <2>1, <2>2 DEF Closed, Links
  <2> QED
    BY <2>3 DEF Side
<1>4. Closed(Side(p, r), p, r)
  <2> SUFFICES ASSUME NEW x \in Side(p, r), NEW y \in Links(x), ~ (x = r /\ y = p) PROVE y \in Side(p, r)
    BY DEF Closed
  <2>1. x \in Node /\ y \in Node
    BY <1>2, LinksType
  <2> SUFFICES ASSUME NEW S \in SUBSET Node, r \in S, Closed(S, p, r) PROVE y \in S
    BY <2>1 DEF Side
  <2>2. x \in S
    BY DEF Side
  <2> QED
    BY <2>2 DEF Closed
<1> QED
  BY <1>1, <1>2, <1>3, <1>4

\* A closed set that holds the far end holds the side.
LEMMA SideLeast ==
  ASSUME NEW p \in Node, NEW r \in Node, NEW S \in SUBSET Node, r \in S, Closed(S, p, r)
  PROVE  Side(p, r) \subseteq S
BY DEF Side

\* An edge parts the nodes in two.
LEMMA SideOther ==
  ASSUME NEW p \in Node, NEW r \in Links(p)
  PROVE  \A x \in Node : x \in Side(r, p) <=> x \notin Side(p, r)
<1>1. /\ r \in Node /\ p \in Links(r) /\ Closed(Side(p, r), p, r)
      /\ p \notin Side(p, r) /\ Side(p, r) \subseteq Node /\ r \in Side(p, r)
  BY SideEdge
<1>2. Closed(Side(r, p), r, p) /\ Side(r, p) \subseteq Node /\ p \in Side(r, p)
  BY <1>1, SideEdge
<1>3. Side(r, p) \subseteq Node \ Side(p, r)
  <2>1. Closed(Node \ Side(p, r), r, p)
    <3> SUFFICES ASSUME NEW x \in Node, x \notin Side(p, r), NEW y \in Links(x), ~ (x = p /\ y = r)
                 PROVE  y \in Node /\ y \notin Side(p, r)
      BY DEF Closed
    <3>1. y \in Node /\ x \in Links(y)
      BY LinksType
    <3> QED
      BY <1>1, <3>1 DEF Closed
  <2> QED
    BY <1>1, <2>1, SideLeast
<1>4. Side(p, r) \cup Side(r, p) = Node
  <2> DEFINE U == Side(p, r) \cup Side(r, p)
  <2>1. U \in SUBSET Node /\ p \in U
    BY <1>1, <1>2
  <2>2. \A x \in U : Links(x) \subseteq U
    BY <1>1, <1>2 DEF Closed
  <2> HIDE DEF U
  <2>3. U = Node
    BY <2>1, <2>2, Connected
  <2> QED
    BY <2>3 DEF U
<1> QED
  BY <1>3, <1>4

\* Beyond r there is no way back to p.
LEMMA SideOn ==
  ASSUME NEW p \in Node, NEW r \in Links(p), NEW s \in Links(r), s # p
  PROVE  Side(r, s) \subseteq Side(p, r)
<1>1. r \in Node /\ Side(p, r) \subseteq Node /\ r \in Side(p, r) /\ Closed(Side(p, r), p, r)
  BY SideEdge
<1>2. s \in Node /\ Side(r, s) \subseteq Node /\ s \in Side(r, s) /\ r \notin Side(r, s) /\ Closed(Side(r, s), r, s)
  BY <1>1, SideEdge
<1> DEFINE S == Side(r, s) \cap Side(p, r)
<1>3. S \in SUBSET Node /\ s \in S
  BY <1>1, <1>2 DEF Closed
<1>4. Closed(S, r, s)
  BY <1>1, <1>2 DEF Closed
<1> HIDE DEF S
<1>5. Side(r, s) \subseteq S
  BY <1>1, <1>2, <1>3, <1>4, SideLeast
<1> QED
  BY <1>5 DEF S

\* There is one way to a node.
LEMMA OneWay ==
  ASSUME NEW n \in Node, NEW p \in Node, NEW q \in Node, n \in Links(p), n \in Links(q),
         NEW u \in Node, u \notin Side(p, n), u \notin Side(q, n)
  PROVE  p = q
<1>1. p \in Links(n) /\ q \in Links(n)
  BY LinksType
<1>2. u \in Side(n, q)
  BY SideOther
<1> SUFFICES ASSUME p # q PROVE FALSE
  OBVIOUS
<1>3. Side(n, q) \subseteq Side(p, n)
  BY <1>1, SideOn
<1> QED
  BY <1>2, <1>3

-----------------------------------------------------------------------------
(***************************************************************************)
(* What is under way.  The properties from here on tell messages apart by  *)
(* everything but ts, which is stamped anew on every hop.  A message the   *)
(* loop has still to send counts as under way, behind all that has been    *)
(* sent: LoopSend changes nothing about that.                              *)
(***************************************************************************)
Core(m) == [m EXCEPT !.ts = 0]
Cores(s) == {Core(s[i]) : i \in DOMAIN s}
Ahead(s, i) == {Core(s[j]) : j \in {k \in DOMAIN s : k < i}}

Pending(p, r) == {outbox[p][i][2] : i \in {k \in DOMAIN outbox[p] : outbox[p][k][1] = r}}
Way(p, r) == Cores(chan[p][r]) \cup Pending(p, r)

\* m is under way from p to r, and A is ahead of it.
Carried(p, r, m, A) ==
  \/ \E i \in DOMAIN chan[p][r] : m = Core(chan[p][r][i]) /\ A = Ahead(chan[p][r], i)
  \/ m \in Pending(p, r) /\ A = Cores(chan[p][r])

\* What a step of the loop has put into the outbox: one message for every neighbour,
\* of the kind that belongs to where the loop is.
LoopKinds == {<<"wait", "lockRequest">>, <<"release", "lockRelease">>, <<"sleep", "lockAck">>}
Outboxes ==
  \A p \in Node : \A i \in DOMAIN outbox[p] :
    /\ \A j \in DOMAIN outbox[p] : i # j => outbox[p][i][1] # outbox[p][j][1]
    /\ outbox[p][i][2].ts = 0
    /\ <<loop[p], outbox[p][i][2].type>> \in LoopKinds

\* A message without its stamp.
LEMMA CoreType ==
  ASSUME NEW m \in Message
  PROVE  /\ Core(m) \in Message /\ Core(m).ts = 0 /\ Core(m).type = m.type
         /\ Core(m).uid = m.uid /\ Core(m).lc = m.lc /\ Core(m).by = m.by
         /\ m.ts = 0 => Core(m) = m
         /\ m.type \in Kinds /\ m.uid \in Node /\ m.lc \in Nat /\ m.by \in Node
BY DEF Core, Message

\* A message and its stamps.
LEMMA CoreStamp ==
  ASSUME NEW m \in Message, NEW t \in Nat
  PROVE  [m EXCEPT !.ts = t] \in Message /\ Core([m EXCEPT !.ts = t]) = Core(m)
BY DEF Core, Message

\* A channel whose first message is taken.
LEMMA AheadTail ==
  ASSUME NEW s \in Seq(Message), s # <<>>
  PROVE  /\ Head(s) \in Message /\ Tail(s) \in Seq(Message) /\ 1 \in DOMAIN s /\ Head(s) = s[1] /\ Ahead(s, 1) = {}
         /\ Cores(s) = Cores(Tail(s)) \cup {Core(Head(s))}
         /\ \A i \in DOMAIN Tail(s) :
              /\ i + 1 \in DOMAIN s /\ Tail(s)[i] = s[i + 1]
              /\ Ahead(s, i + 1) = Ahead(Tail(s), i) \cup {Core(Head(s))}
<1> DEFINE t == Tail(s)
<1>1. /\ Head(s) \in Message /\ t \in Seq(Message) /\ 1 \in DOMAIN s /\ Head(s) = s[1]
      /\ \A i \in DOMAIN t : i \in Nat /\ i >= 1 /\ i + 1 \in DOMAIN s /\ t[i] = s[i + 1]
      /\ \A i \in DOMAIN s : i \in Nat /\ (i = 1 \/ (i - 1 \in DOMAIN t /\ t[i - 1] = s[i]))
  BY Uncons
<1> HIDE DEF t
<1>2. \A i \in DOMAIN s : i >= 1
  BY <1>1
<1>3. Ahead(s, 1) = {}
  BY <1>1, <1>2 DEF Ahead
<1>4. Cores(s) = Cores(t) \cup {Core(Head(s))}
  <2>1. \A i \in DOMAIN s : Core(s[i]) \in Cores(t) \cup {Core(Head(s))}
    BY <1>1 DEF Cores
  <2>2. \A i \in DOMAIN t : Core(t[i]) \in Cores(s)
    BY <1>1 DEF Cores
  <2>3. Core(Head(s)) \in Cores(s)
    BY <1>1 DEF Cores
  <2> QED
    BY <2>1, <2>2, <2>3 DEF Cores
<1>5. ASSUME NEW i \in DOMAIN t PROVE Ahead(s, i + 1) = Ahead(t, i) \cup {Core(Head(s))}
  <2>1. ASSUME NEW j \in DOMAIN s, j < i + 1 PROVE Core(s[j]) \in Ahead(t, i) \cup {Core(Head(s))}
    <3>1. CASE j = 1
      BY <1>1, <3>1
    <3>2. CASE j # 1
      <4>1. j - 1 \in DOMAIN t /\ t[j - 1] = s[j] /\ j \in Nat /\ i \in Nat
        BY <1>1, <3>2
      <4>2. j - 1 < i
        BY <2>1, <4>1
      <4> QED
        BY <4>1, <4>2 DEF Ahead
    <3> QED
      BY <3>1, <3>2
  <2>2. ASSUME NEW j \in DOMAIN t, j < i PROVE Core(t[j]) \in Ahead(s, i + 1)
    <3>1. j + 1 \in DOMAIN s /\ t[j] = s[j + 1] /\ j + 1 < i + 1
      BY <1>1, <2>2
    <3> QED
      BY <3>1 DEF Ahead
  <2>3. Core(Head(s)) \in Ahead(s, i + 1)
    <3>1. 1 \in DOMAIN s /\ 1 < i + 1 /\ Head(s) = s[1]
      BY <1>1
    <3> QED
      BY <3>1 DEF Ahead
  <2> QED
    BY <2>1, <2>2, <2>3 DEF Ahead
<1> QED
  BY <1>1, <1>3, <1>4, <1>5 DEF t

\* A channel something is appended to.
LEMMA AheadConcat ==
  ASSUME NEW s \in Seq(Message), NEW t \in Seq(Message)
  PROVE  /\ s \o t \in Seq(Message) /\ Cores(s \o t) = Cores(s) \cup Cores(t)
         /\ \A i \in DOMAIN (s \o t) :
              \/ i \in DOMAIN s /\ (s \o t)[i] = s[i] /\ Ahead(s \o t, i) = Ahead(s, i)
              \/ \E k \in DOMAIN t : (s \o t)[i] = t[k] /\ Ahead(s \o t, i) = Cores(s) \cup Ahead(t, k)
<1> DEFINE u == s \o t
<1>1. /\ u \in Seq(Message) /\ Len(s) \in Nat /\ DOMAIN s = 1 .. Len(s)
      /\ \A i \in DOMAIN s : i \in Nat /\ i \in DOMAIN u /\ u[i] = s[i]
      /\ \A i \in DOMAIN u :
           \/ i \in DOMAIN s /\ u[i] = s[i]
           \/ i - Len(s) \in DOMAIN t /\ u[i] = t[i - Len(s)] /\ i > Len(s)
  BY Concat, Elements
<1>2. /\ \A k \in DOMAIN t : k \in Nat /\ k >= 1 /\ k + Len(s) \in DOMAIN u /\ u[k + Len(s)] = t[k]
      /\ \A i \in DOMAIN u : i \in Nat /\ i >= 1
  OBVIOUS
<1> HIDE DEF u
<1>3. Cores(u) = Cores(s) \cup Cores(t)
  <2>1. \A i \in DOMAIN u : Core(u[i]) \in Cores(s) \cup Cores(t)
    BY <1>1 DEF Cores
  <2>2. \A i \in DOMAIN s : Core(s[i]) \in Cores(u)
    BY <1>1 DEF Cores
  <2>3. \A k \in DOMAIN t : Core(t[k]) \in Cores(u)
    BY <1>2 DEF Cores
  <2> QED
    BY <2>1, <2>2, <2>3 DEF Cores
<1>4. ASSUME NEW i \in DOMAIN s PROVE Ahead(u, i) = Ahead(s, i)
  <2>1. \A j \in DOMAIN u : j < i => j \in DOMAIN s
    BY <1>1, <1>2
  <2> QED
    BY <1>1, <2>1 DEF Ahead
<1>5. ASSUME NEW i \in DOMAIN u, NEW k \in DOMAIN t, k = i - Len(s), i > Len(s)
      PROVE  Ahead(u, i) = Cores(s) \cup Ahead(t, k)
  <2>1. ASSUME NEW j \in DOMAIN u, j < i PROVE Core(u[j]) \in Cores(s) \cup Ahead(t, k)
    <3>1. CASE j \in DOMAIN s /\ u[j] = s[j]
      BY <3>1 DEF Cores
    <3>2. CASE j - Len(s) \in DOMAIN t /\ u[j] = t[j - Len(s)]
      <4>1. j - Len(s) < k
        BY <1>1, <1>2, <1>5, <2>1
      <4> QED
        BY <3>2, <4>1 DEF Ahead
    <3> QED
      BY <1>1, <3>1, <3>2
  <2>2. ASSUME NEW j \in DOMAIN s PROVE Core(s[j]) \in Ahead(u, i)
    <3>1. j \in DOMAIN u /\ u[j] = s[j] /\ j < i
      BY <1>1, <1>2, <1>5
    <3> QED
      BY <3>1 DEF Ahead
  <2>3. ASSUME NEW j \in DOMAIN t, j < k PROVE Core(t[j]) \in Ahead(u, i)
    <3>1. j + Len(s) \in DOMAIN u /\ u[j + Len(s)] = t[j] /\ j + Len(s) < i
      BY <1>1, <1>2, <1>5, <2>3
    <3> QED
      BY <3>1 DEF Ahead
  <2>4. Ahead(u, i) \subseteq Cores(s) \cup Ahead(t, k)
    BY <2>1 DEF Ahead
  <2>5. Cores(s) \subseteq Ahead(u, i)
    BY <2>2 DEF Cores
  <2>6. Ahead(t, k) \subseteq Ahead(u, i)
    BY <2>3 DEF Ahead
  <2> QED
    BY <2>4, <2>5, <2>6
<1>6. ASSUME NEW i \in DOMAIN u
      PROVE  \/ i \in DOMAIN s /\ u[i] = s[i] /\ Ahead(u, i) = Ahead(s, i)
             \/ \E k \in DOMAIN t : u[i] = t[k] /\ Ahead(u, i) = Cores(s) \cup Ahead(t, k)
  BY <1>1, <1>4, <1>5
<1> QED
  BY <1>1, <1>3, <1>6 DEF u

\* What is under way is a message, and the first message under way has nothing ahead.
LEMMA CarriedType ==
  ASSUME Inv, Outboxes, NEW p \in Node, NEW r \in Node
  PROVE  /\ chan[p][r] \in Seq(Message) /\ Way(p, r) \subseteq Message
         /\ \A m, A : Carried(p, r, m, A) => m \in Way(p, r) /\ A \subseteq Cores(chan[p][r])
         /\ \A m \in Way(p, r) : \E A : Carried(p, r, m, A)
         /\ chan[p][r] # <<>> => Carried(p, r, Core(Head(chan[p][r])), {})
         /\ \A m \in Pending(p, r) : <<loop[p], m.type>> \in LoopKinds
<1>1. chan[p][r] \in Seq(Message)
  <2>1. chan[p][r] \in Seq(Stamped) /\ Stamped \subseteq Message
    BY DEF Inv, InvChan, Channels, Outgoing, Stamped
  <2>2. \A i \in DOMAIN chan[p][r] : chan[p][r][i] \in Message
    BY <2>1, Elements
  <2> QED
    BY <2>1, <2>2
<1>2. \A i \in DOMAIN chan[p][r] : chan[p][r][i] \in Message
  BY <1>1, Elements
<1>3. Cores(chan[p][r]) \subseteq Message
  BY <1>2, CoreType DEF Cores
<1>4. Pending(p, r) \subseteq Message
  <2>1. outbox[p] \in Outbox
    BY DEF Inv, InvLoop
  <2>2. \A i \in DOMAIN outbox[p] : outbox[p][i] \in Node \X Message
    BY <2>1, Elements DEF Outbox
  <2>3. \A i \in DOMAIN outbox[p] : outbox[p][i][2] \in Message
    BY <2>2
  <2> QED
    BY <2>3 DEF Pending
<1>5. ASSUME NEW m, NEW A, Carried(p, r, m, A) PROVE m \in Way(p, r) /\ A \subseteq Cores(chan[p][r])
  BY <1>5 DEF Carried, Way, Cores, Ahead
<1>6. ASSUME NEW m \in Way(p, r) PROVE \E A : Carried(p, r, m, A)
  BY DEF Carried, Way, Cores
<1>7. ASSUME chan[p][r] # <<>> PROVE Carried(p, r, Core(Head(chan[p][r])), {})
  <2>1. 1 \in DOMAIN chan[p][r] /\ Head(chan[p][r]) = chan[p][r][1] /\ Ahead(chan[p][r], 1) = {}
    BY <1>1, <1>7, AheadTail
  <2> QED
    BY <2>1 DEF Carried
<1>8. \A m \in Pending(p, r) : <<loop[p], m.type>> \in LoopKinds
  BY DEF Outboxes, Pending
<1> QED
  BY <1>1, <1>3, <1>4, <1>5, <1>6, <1>7, <1>8 DEF Way

(***************************************************************************)
(* A handler of n that takes the first message from q and sends out.       *)
(* Stays: m was under way from p to r before, and what was ahead of it is  *)
(* still, but for the message taken; only behind what the handler sends    *)
(* can a message of the loop come to be.                                   *)
(***************************************************************************)
Stays(n, q, sent, p, r, m, A) ==
  \E B : /\ Carried(p, r, m, B)
         /\ p = q /\ r = n => Core(Head(chan[q][n])) \in B
         /\ \A b \in B : b \in A \/ (p = q /\ r = n /\ b = Core(Head(chan[q][n])))
         /\ \A a \in A : a \in B \/ (p = n /\ m \in Pending(n, r) /\ a \in sent)

\* What is under way after a handler has taken its message and sent.
LEMMA Exchange ==
  ASSUME Inv, Outboxes, NEW n \in Node, NEW q \in Node, n # q, chan[q][n] # <<>>,
         NEW out \in Outgoing(Message), chan' = Exchanged(chan, q, n, out), outbox' = outbox,
         NEW p \in Node, NEW r \in Node
  PROVE  /\ \A m, A : Carried(p, r, m, A)' =>
              \/ Stays(n, q, Cores(out[r]), p, r, m, A)
              \/ p = n /\ \E k \in DOMAIN out[r] :
                            m = Core(out[r][k]) /\ A = Cores(chan[n][r]) \cup Ahead(out[r], k)
         /\ \A m \in Way(p, r) : m \in Way(p, r)' \/ (p = q /\ r = n /\ m = Core(Head(chan[q][n])))
         /\ p = n => Cores(out[r]) \subseteq Cores(chan[p][r])' /\ Cores(out[r]) \subseteq Way(p, r)'
<1>1. chan \in Channels(Message)
  <2>1. chan \in Channels(Stamped) /\ Stamped \subseteq Message
    BY DEF Inv, InvChan, Stamped
  <2> QED
    BY <2>1, CarriedType DEF Channels, Outgoing
<1>2. /\ Taken(chan, q, n) \in Channels(Message)
      /\ \A x, y \in Node : Taken(chan, q, n)[x][y] = IF x = q /\ y = n THEN Tail(chan[q][n]) ELSE chan[x][y]
  BY <1>1, TakenAt
<1>3. \A x, y \in Node : chan'[x][y] = IF x = n THEN Taken(chan, q, n)[n][y] \o out[y] ELSE Taken(chan, q, n)[x][y]
  BY <1>2, SentAt DEF Exchanged
<1>4. \A x, y \in Node : chan'[x][y] = IF x = n THEN chan[n][y] \o out[y]
                                       ELSE IF x = q /\ y = n THEN Tail(chan[q][n]) ELSE chan[x][y]
  BY <1>2, <1>3
<1>5. Pending(p, r)' = Pending(p, r)
  BY DEF Pending
<1>6. chan[p][r] \in Seq(Message) /\ out[r] \in Seq(Message)
  BY CarriedType DEF Outgoing
<1>7. CASE p = n
  <2>1. chan'[p][r] = chan[n][r] \o out[r] /\ ~ (p = q /\ r = n)
    BY <1>4, <1>7
  <2> DEFINE s == chan[n][r]
             t == out[r]
             new == chan'[p][r]
  <2>3. chan[p][r] = s /\ s \in Seq(Message) /\ t \in Seq(Message) /\ new = s \o t
    BY <1>6, <1>7, <2>1
  <2> HIDE DEF s, t, new
  <2>2. /\ Cores(new) = Cores(s) \cup Cores(t)
        /\ \A i \in DOMAIN new :
             \/ i \in DOMAIN s /\ new[i] = s[i] /\ Ahead(new, i) = Ahead(s, i)
             \/ \E k \in DOMAIN t : new[i] = t[k] /\ Ahead(new, i) = Cores(s) \cup Ahead(t, k)
    BY <2>3, AheadConcat
  <2>4. ASSUME NEW m, NEW A, Carried(p, r, m, A)'
        PROVE  \/ Stays(n, q, Cores(t), p, r, m, A)
               \/ \E k \in DOMAIN t : m = Core(t[k]) /\ A = Cores(s) \cup Ahead(t, k)
    <3>1. \/ \E i \in DOMAIN new : m = Core(new[i]) /\ A = Ahead(new, i)
          \/ m \in Pending(p, r) /\ A = Cores(new)
      BY <1>5, <2>4 DEF Carried, new
    <3>2. CASE m \in Pending(p, r) /\ A = Cores(new)
      <4>1. Carried(p, r, m, Cores(s)) /\ m \in Pending(n, r)
        BY <1>7, <2>3, <3>2 DEF Carried
      <4> QED
        BY <1>7, <2>1, <2>2, <3>2, <4>1 DEF Stays
    <3>3. ASSUME NEW i \in DOMAIN new, m = Core(new[i]), A = Ahead(new, i),
                 i \in DOMAIN s, new[i] = s[i], Ahead(new, i) = Ahead(s, i)
          PROVE  Stays(n, q, Cores(t), p, r, m, A)
      <4>1. Carried(p, r, m, A)
        BY <2>3, <3>3 DEF Carried
      <4> QED
        BY <2>1, <4>1 DEF Stays
    <3> QED
      BY <2>2, <3>1, <3>2, <3>3
  <2>5. \A m \in Way(p, r) : m \in Way(p, r)'
    BY <1>5, <2>2, <2>3 DEF Way, new
  <2>6. Cores(t) \subseteq Cores(chan[p][r])' /\ Cores(t) \subseteq Way(p, r)'
    BY <2>2 DEF Way, new
  <2> QED
    BY <1>7, <2>4, <2>5, <2>6 DEF s, t
<1>8. CASE p = q /\ r = n
  <2> DEFINE s == chan[q][n]
             h == Core(Head(s))
  <2>1. chan'[p][r] = Tail(s) /\ p # n
    BY <1>4, <1>8
  <2>2. /\ Cores(s) = Cores(Tail(s)) \cup {h}
        /\ \A i \in DOMAIN Tail(s) : i + 1 \in DOMAIN s /\ Tail(s)[i] = s[i + 1]
                                     /\ Ahead(s, i + 1) = Ahead(Tail(s), i) \cup {h}
    BY <1>6, <1>8, AheadTail
  <2>3. chan[p][r] = s
    BY <1>8
  <2> HIDE DEF s, h
  <2>4. ASSUME NEW m, NEW A, Carried(p, r, m, A)'
        PROVE  Stays(n, q, Cores(out[r]), p, r, m, A)
    <3>1. \/ \E i \in DOMAIN Tail(s) : m = Core(Tail(s)[i]) /\ A = Ahead(Tail(s), i)
          \/ m \in Pending(p, r) /\ A = Cores(Tail(s))
      BY <1>5, <2>1, <2>4 DEF Carried
    <3>2. CASE m \in Pending(p, r) /\ A = Cores(Tail(s))
      <4>1. Carried(p, r, m, A \cup {h})
        BY <2>2, <2>3, <3>2 DEF Carried
      <4> QED
        BY <1>8, <4>1 DEF Stays, s, h
    <3>3. ASSUME NEW i \in DOMAIN Tail(s), m = Core(Tail(s)[i]), A = Ahead(Tail(s), i)
          PROVE  Stays(n, q, Cores(out[r]), p, r, m, A)
      <4>1. i + 1 \in DOMAIN s /\ m = Core(s[i + 1]) /\ Ahead(s, i + 1) = A \cup {h}
        BY <2>2, <3>3
      <4>2. Carried(p, r, m, A \cup {h})
        BY <2>3, <4>1 DEF Carried
      <4> QED
        BY <1>8, <4>2 DEF Stays, s, h
    <3> QED
      BY <3>1, <3>2, <3>3
  <2>5. \A m \in Way(p, r) : m \in Way(p, r)' \/ m = h
    BY <1>5, <2>1, <2>2, <2>3 DEF Way
  <2> QED
    BY <1>8, <2>1, <2>4, <2>5 DEF s, h
<1>9. CASE p # n /\ ~ (p = q /\ r = n)
  <2>1. chan'[p][r] = chan[p][r]
    BY <1>4, <1>9
  <2>2. \A m, A : Carried(p, r, m, A)' => Carried(p, r, m, A)
    BY <1>5, <2>1 DEF Carried
  <2>3. Way(p, r)' = Way(p, r)
    BY <1>5, <2>1 DEF Way
  <2>4. ASSUME NEW m, NEW A, Carried(p, r, m, A) PROVE Stays(n, q, Cores(out[r]), p, r, m, A)
    BY <1>9, <2>4 DEF Stays
  <2> QED
    BY <1>9, <2>2, <2>3, <2>4
<1> QED
  BY <1>7, <1>8, <1>9

\* At most one message: S holds it, without its stamp.
One(s, S) == s \in Seq(Message) /\ Cores(s) = S /\ \A k \in DOMAIN s : Ahead(s, k) = {}

\* No message, and one.
LEMMA OneType ==
  /\ One(<<>>, {})
  /\ \A m \in Message : One(<<m>>, {Core(m)})
<1>1. DOMAIN <<>> = {} /\ <<>> \in Seq(Message)
  BY EmptySeq
<1>2. One(<<>>, {})
  BY <1>1 DEF One, Cores
<1>3. ASSUME NEW m \in Message PROVE One(<<m>>, {Core(m)})
  <2> DEFINE s == <<m>>
  <2>1. s \in Seq(Message) /\ DOMAIN s = {1} /\ s[1] = m
    OBVIOUS
  <2> HIDE DEF s
  <2>2. Cores(s) = {Core(m)} /\ \A k \in DOMAIN s : Ahead(s, k) = {}
    BY <2>1 DEF Cores, Ahead
  <2> QED
    BY <2>1, <2>2 DEF One, s
<1> QED
  BY <1>2, <1>3

\* distributeWithLamportClock sends one copy to every neighbour but the one it came from.
Copy(n, src, r, m) == {c \in {m} : r \in Links(n) /\ r # src}

\* What distributeWithLamportClock sends to each neighbour.
LEMMA DistributeCopies ==
  ASSUME NEW n \in Node, NEW src, NEW lc \in Nat, NEW m \in Message
  PROVE  /\ Distribute(n, src, lc, m) \in Outgoing(Message)
         /\ \A r \in Node : One(Distribute(n, src, lc, m)[r], Copy(n, src, r, Core(m)))
<1>1. ASSUME NEW r \in Node PROVE TicksTo(n, src, r) = 0 <=> ~ (r \in Links(n) /\ r # src)
  <2> DEFINE T == {i \in Others(n, src) : \E j \in Others(n, src) : i <= j /\ Tree[n][j] = r}
  <2>1. IsFiniteSet(T) /\ TicksTo(n, src, r) = Cardinality(T)
    <3>1. Tree[n] \in Seq(Node)
      BY TreeAssumption
    <3>2. Len(Tree[n]) \in Int /\ T \subseteq 1 .. Len(Tree[n])
      BY <3>1, Elements DEF Others
    <3>3. IsFiniteSet(1 .. Len(Tree[n]))
      BY <3>2, FS_Interval
    <3>4. IsFiniteSet(T)
      BY <3>2, <3>3, FS_Subset
    <3> QED
      BY <3>4 DEF TicksTo
  <2>2. ASSUME r \in Links(n), r # src PROVE T # {}
    <3>1. PICK i \in DOMAIN Tree[n] : Tree[n][i] = r
      BY <2>2 DEF Links
    <3>2. i \in Others(n, src) /\ i <= i
      <4>1. Tree[n] \in Seq(Node)
        BY TreeAssumption
      <4> QED
        BY <2>2, <3>1, <4>1 DEF Others
    <3> QED
      BY <3>1, <3>2
  <2>3. ASSUME T # {} PROVE r \in Links(n) /\ r # src
    BY <2>3 DEF Others, Links
  <2> HIDE DEF T
  <2> QED
    BY <2>1, <2>2, <2>3, FS_EmptySet
<1>2. ASSUME NEW r \in Node
      PROVE  One(Distribute(n, src, lc, m)[r], Copy(n, src, r, Core(m)))
  <2>1. Distribute(n, src, lc, m)[r] =
          IF TicksTo(n, src, r) = 0 THEN <<>> ELSE <<[m EXCEPT !.ts = lc + TicksTo(n, src, r)]>>
    BY DEF Distribute
  <2>2. CASE r \in Links(n) /\ r # src
    <3> DEFINE x == [m EXCEPT !.ts = lc + TicksTo(n, src, r)]
    <3>1. lc + TicksTo(n, src, r) \in Nat
      BY TicksType
    <3>2. x \in Message /\ Core(x) = Core(m) /\ Distribute(n, src, lc, m)[r] = <<x>>
      BY <1>1, <2>1, <2>2, <3>1, CoreStamp
    <3> HIDE DEF x
    <3>3. One(<<x>>, {Core(m)})
      BY <3>2, OneType
    <3>4. Copy(n, src, r, Core(m)) = {Core(m)}
      BY <2>2 DEF Copy
    <3> QED
      BY <3>2, <3>3, <3>4
  <2>3. CASE ~ (r \in Links(n) /\ r # src)
    <3>1. Distribute(n, src, lc, m)[r] = <<>>
      BY <1>1, <2>1, <2>3
    <3>2. Copy(n, src, r, Core(m)) = {}
      BY <2>3 DEF Copy
    <3> QED
      BY <3>1, <3>2, OneType
  <2> QED
    BY <2>2, <2>3
<1>3. \A r \in Node : Distribute(n, src, lc, m)[r] \in Seq(Message)
  BY <1>2 DEF One
<1> QED
  BY <1>2, <1>3 DEF Distribute, Outgoing

(***************************************************************************)
(* What a handler of n does with the first message from q: it sends ack to *)
(* all neighbours, if wanted, and passes the message on, or does not.      *)
(***************************************************************************)
First(n, q) == Core(Head(chan[q][n]))
Added(n, q, wanted, ack, passed, r) == {a \in {ack} : wanted} \cup {a \in {First(n, q)} : passed /\ r # q}
Passing(n, q, wanted, ack, passed) ==
  \A p, r \in Node :
    /\ \A m, A : Carried(p, r, m, A)' =>
         \/ /\ r \in Links(n) \/ p # n
            /\ Stays(n, q, Added(n, q, wanted, ack, passed, r), p, r, m, A)
         \/ Stays(n, q, {}, p, r, m, A)
         \/ p = n /\ r \in Links(n) /\ wanted /\ m = ack /\ A = Cores(chan[n][r])
         \/ /\ p = n /\ r \in Links(n) /\ r # q /\ passed /\ m = First(n, q)
            /\ Cores(chan[n][r]) \subseteq A
            /\ \A a \in A : a \in Cores(chan[n][r]) \/ (wanted /\ a = ack)
    /\ \A m \in Way(p, r) : m \in Way(p, r)' \/ (p = q /\ r = n /\ m = First(n, q))
    /\ p = n /\ r \in Links(n) /\ r # q /\ passed => First(n, q) \in Way(p, r)'
    /\ p = n /\ r \in Links(n) /\ wanted => ack \in Cores(chan[p][r])'

\* A handler that passes its message on, and acknowledges before that if wanted.
LEMMA ExchangePassing ==
  ASSUME Inv, Outboxes, NEW n \in Node, NEW q \in Node, n # q, chan[q][n] # <<>>, outbox' = outbox,
         NEW wanted \in BOOLEAN, NEW ack, wanted => ack \in Message /\ ack.ts = 0, NEW lc \in Nat, NEW lc2 \in Nat,
         chan' = Exchanged(chan, q, n, Then(IF wanted THEN Distribute(n, n, lc, ack) ELSE Nothing,
                                            Distribute(n, q, lc2, Head(chan[q][n]))))
  PROVE  Passing(n, q, wanted, ack, TRUE)
<1> DEFINE h == Head(chan[q][n])
           out1 == IF wanted THEN Distribute(n, n, lc, ack) ELSE Nothing
           out2 == Distribute(n, q, lc2, h)
           out == Then(out1, out2)
<1>1. h \in Message
  BY CarriedType, AheadTail
<1>2. out1 \in Outgoing(Message)
  <2>1. CASE wanted
    BY <2>1, DistributeCopies
  <2>2. CASE ~wanted
    BY <2>2, NothingType
  <2> QED
    BY <2>1, <2>2
<1>3. out2 \in Outgoing(Message)
  BY <1>1, DistributeCopies
<1>4. out \in Outgoing(Message)
  BY <1>2, <1>3, ThenType
<1>5. n \notin Links(n)
  BY LinksType
<1>6. ASSUME NEW r \in Node
      PROVE  /\ One(out1[r], {c \in {ack} : wanted /\ r \in Links(n)})
             /\ One(out2[r], Copy(n, q, r, Core(h)))
             /\ out[r] = out1[r] \o out2[r]
  <2>1. One(out2[r], Copy(n, q, r, Core(h)))
    BY <1>1, DistributeCopies
  <2>2. CASE wanted
    <3>1. ack \in Message /\ Core(ack) = ack /\ out1 = Distribute(n, n, lc, ack)
      BY <2>2, CoreType
    <3>2. One(Distribute(n, n, lc, ack)[r], Copy(n, n, r, Core(ack)))
      BY <3>1, DistributeCopies
    <3>3. Copy(n, n, r, Core(ack)) = {c \in {ack} : wanted /\ r \in Links(n)}
      BY <1>5, <2>2, <3>1 DEF Copy
    <3>4. One(out1[r], {c \in {ack} : wanted /\ r \in Links(n)})
      BY <3>1, <3>2, <3>3
    <3> QED
      BY <2>1, <3>4 DEF Then
  <2>3. CASE ~wanted
    <3>1. out1[r] = <<>> /\ {c \in {ack} : wanted /\ r \in Links(n)} = {}
      BY <2>3 DEF Nothing
    <3>2. One(out1[r], {c \in {ack} : wanted /\ r \in Links(n)})
      BY <3>1, OneType
    <3> QED
      BY <2>1, <3>2 DEF Then
  <2> QED
    BY <2>2, <2>3
<1>7. chan' = Exchanged(chan, q, n, out)
  OBVIOUS
<1> HIDE DEF out, out1, out2
<1> SUFFICES ASSUME NEW p \in Node, NEW r \in Node
             PROVE
    /\ \A m, A : Carried(p, r, m, A)' =>
         \/ /\ r \in Links(n) \/ p # n
            /\ Stays(n, q, Added(n, q, wanted, ack, TRUE, r), p, r, m, A)
         \/ Stays(n, q, {}, p, r, m, A)
         \/ p = n /\ r \in Links(n) /\ wanted /\ m = ack /\ A = Cores(chan[n][r])
         \/ /\ p = n /\ r \in Links(n) /\ r # q /\ TRUE /\ m = First(n, q)
            /\ Cores(chan[n][r]) \subseteq A
            /\ \A a \in A : a \in Cores(chan[n][r]) \/ (wanted /\ a = ack)
    /\ \A m \in Way(p, r) : m \in Way(p, r)' \/ (p = q /\ r = n /\ m = First(n, q))
    /\ p = n /\ r \in Links(n) /\ r # q /\ TRUE => First(n, q) \in Way(p, r)'
    /\ p = n /\ r \in Links(n) /\ wanted => ack \in Cores(chan[p][r])'
  BY DEF Passing
<1>8. /\ \A m, A : Carried(p, r, m, A)' =>
           \/ Stays(n, q, Cores(out[r]), p, r, m, A)
           \/ p = n /\ \E k \in DOMAIN out[r] :
                         m = Core(out[r][k]) /\ A = Cores(chan[n][r]) \cup Ahead(out[r], k)
      /\ \A m \in Way(p, r) : m \in Way(p, r)' \/ (p = q /\ r = n /\ m = Core(Head(chan[q][n])))
      /\ p = n => Cores(out[r]) \subseteq Cores(chan[p][r])' /\ Cores(out[r]) \subseteq Way(p, r)'
  BY <1>4, <1>7, Exchange
<1> DEFINE hc == First(n, q)
<1>9. hc = Core(h)
  BY DEF First
<1> DEFINE SA == {c \in {ack} : wanted /\ r \in Links(n)}
           SH == Copy(n, q, r, Core(h))
           t1 == out1[r]
           t2 == out2[r]
           t == out[r]
<1>10. One(t1, SA) /\ One(t2, SH) /\ t = t1 \o t2
  BY <1>6
<1> HIDE DEF hc, SA, SH, t1, t2, t
<1>11. /\ Cores(t) = SA \cup SH
       /\ \A k \in DOMAIN t : \/ Core(t[k]) \in SA /\ Ahead(t, k) = {}
                              \/ Core(t[k]) \in SH /\ Ahead(t, k) = SA
  <2>1. /\ t1 \in Seq(Message) /\ Cores(t1) = SA /\ \A k \in DOMAIN t1 : Ahead(t1, k) = {} /\ Core(t1[k]) \in SA
        /\ t2 \in Seq(Message) /\ Cores(t2) = SH /\ \A k \in DOMAIN t2 : Ahead(t2, k) = {} /\ Core(t2[k]) \in SH
    BY <1>10 DEF One, Cores
  <2>2. /\ Cores(t) = Cores(t1) \cup Cores(t2)
        /\ \A i \in DOMAIN t :
             \/ i \in DOMAIN t1 /\ t[i] = t1[i] /\ Ahead(t, i) = Ahead(t1, i)
             \/ \E k \in DOMAIN t2 : t[i] = t2[k] /\ Ahead(t, i) = Cores(t1) \cup Ahead(t2, k)
    <3>1. /\ Cores(t1 \o t2) = Cores(t1) \cup Cores(t2)
          /\ \A i \in DOMAIN (t1 \o t2) :
               \/ i \in DOMAIN t1 /\ (t1 \o t2)[i] = t1[i] /\ Ahead(t1 \o t2, i) = Ahead(t1, i)
               \/ \E k \in DOMAIN t2 : (t1 \o t2)[i] = t2[k] /\ Ahead(t1 \o t2, i) = Cores(t1) \cup Ahead(t2, k)
      BY <2>1, AheadConcat
    <3>2. t = t1 \o t2
      BY <1>10
    <3> QED
      BY <3>1, <3>2
  <2> QED
    BY <2>1, <2>2
<1>12. ASSUME NEW m, NEW A, Carried(p, r, m, A)'
       PROVE  \/ Stays(n, q, SA \cup SH, p, r, m, A)
              \/ p = n /\ m \in SA /\ A = Cores(chan[n][r])
              \/ p = n /\ m \in SH /\ A = Cores(chan[n][r]) \cup SA
  <2>1. \/ Stays(n, q, Cores(t), p, r, m, A)
        \/ p = n /\ \E k \in DOMAIN t : m = Core(t[k]) /\ A = Cores(chan[n][r]) \cup Ahead(t, k)
    BY <1>8, <1>12 DEF t
  <2> QED
    BY <1>11, <2>1
<1>13. /\ SH = {c \in {hc} : r \in Links(n) /\ r # q}
       /\ SA = {c \in {ack} : wanted /\ r \in Links(n)}
       /\ p = n => SH \subseteq Way(p, r)' /\ SA \subseteq Cores(chan[p][r])'
  BY <1>8, <1>9, <1>11 DEF SH, SA, t, Copy
<1>14. ASSUME NEW m, NEW A, Stays(n, q, SA \cup SH, p, r, m, A)
       PROVE  \/ /\ r \in Links(n) \/ p # n
                 /\ Stays(n, q, Added(n, q, wanted, ack, TRUE, r), p, r, m, A)
              \/ Stays(n, q, {}, p, r, m, A)
  <2>1. CASE r \in Links(n)
    BY <1>13, <1>14, <2>1 DEF Stays, Added, hc
  <2>2. CASE r \notin Links(n)
    <3>1. SA \cup SH = {}
      BY <1>13, <2>2
    <3> QED
      BY <1>14, <3>1
  <2> QED
    BY <2>1, <2>2
<1>15. \A m, A : Carried(p, r, m, A)' =>
         \/ /\ r \in Links(n) \/ p # n
            /\ Stays(n, q, Added(n, q, wanted, ack, TRUE, r), p, r, m, A)
         \/ Stays(n, q, {}, p, r, m, A)
         \/ p = n /\ r \in Links(n) /\ wanted /\ m = ack /\ A = Cores(chan[n][r])
         \/ /\ p = n /\ r \in Links(n) /\ r # q /\ TRUE /\ m = hc
            /\ Cores(chan[n][r]) \subseteq A
            /\ \A a \in A : a \in Cores(chan[n][r]) \/ (wanted /\ a = ack)
  <2> SUFFICES ASSUME NEW m, NEW A, Carried(p, r, m, A)'
               PROVE  \/ /\ r \in Links(n) \/ p # n
                         /\ Stays(n, q, Added(n, q, wanted, ack, TRUE, r), p, r, m, A)
                      \/ Stays(n, q, {}, p, r, m, A)
                      \/ p = n /\ r \in Links(n) /\ wanted /\ m = ack /\ A = Cores(chan[n][r])
                      \/ /\ p = n /\ r \in Links(n) /\ r # q /\ TRUE /\ m = hc
                         /\ Cores(chan[n][r]) \subseteq A
                         /\ \A a \in A : a \in Cores(chan[n][r]) \/ (wanted /\ a = ack)
    OBVIOUS
  <2>1. CASE Stays(n, q, SA \cup SH, p, r, m, A)
    BY <1>14, <2>1
  <2>2. CASE p = n /\ m \in SA /\ A = Cores(chan[n][r])
    BY <1>13, <2>2
  <2>3. CASE p = n /\ m \in SH /\ A = Cores(chan[n][r]) \cup SA
    BY <1>13, <2>3
  <2> QED
    BY <1>12, <2>1, <2>2, <2>3
<1>16. p = n /\ r \in Links(n) /\ r # q => hc \in Way(p, r)'
  BY <1>13
<1>17. \A m \in Way(p, r) : m \in Way(p, r)' \/ (p = q /\ r = n /\ m = hc)
  BY <1>8, <1>9
<1>18. p = n /\ r \in Links(n) /\ wanted => ack \in Cores(chan[p][r])'
  BY <1>13
<1> QED
  BY <1>15, <1>16, <1>17, <1>18 DEF hc

\* A handler that only takes its message.
LEMMA TakenPassing ==
  ASSUME Inv, Outboxes, NEW n \in Node, NEW q \in Node, n # q, chan[q][n] # <<>>, outbox' = outbox,
         chan' = Taken(chan, q, n), NEW ack
  PROVE  Passing(n, q, FALSE, ack, FALSE)
<1>1. chan \in Channels(Message)
  <2>1. chan \in Channels(Stamped) /\ Stamped \subseteq Message
    BY DEF Inv, InvChan, Stamped
  <2> QED
    BY <2>1, CarriedType DEF Channels, Outgoing
<1>2. Nothing \in Outgoing(Message)
  BY NothingType
<1>3. Taken(chan, q, n) \in Channels(Message)
  BY <1>1, TakenAt
<1>4. chan' = Exchanged(chan, q, n, Nothing)
  BY <1>3, SentNothing DEF Exchanged
<1> SUFFICES ASSUME NEW p \in Node, NEW r \in Node
             PROVE  /\ \A m, A : Carried(p, r, m, A)' => Stays(n, q, {}, p, r, m, A)
                    /\ \A m \in Way(p, r) : m \in Way(p, r)' \/ (p = q /\ r = n /\ m = First(n, q))
  BY DEF Passing
<1>5. /\ \A m, A : Carried(p, r, m, A)' =>
           \/ Stays(n, q, Cores(Nothing[r]), p, r, m, A)
           \/ p = n /\ \E k \in DOMAIN Nothing[r] :
                         m = Core(Nothing[r][k]) /\ A = Cores(chan[n][r]) \cup Ahead(Nothing[r], k)
      /\ \A m \in Way(p, r) : m \in Way(p, r)' \/ (p = q /\ r = n /\ m = Core(Head(chan[q][n])))
  BY <1>2, <1>4, Exchange
<1>6. Nothing[r] = <<>> /\ DOMAIN Nothing[r] = {} /\ Cores(Nothing[r]) = {}
  BY DEF Nothing, Cores
<1> QED
  BY <1>5, <1>6 DEF First

\* The loop's next send: what was the first of the outbox is the last of a channel.
LEMMA SendCarried ==
  ASSUME Inv, Outboxes, NEW n \in Node, LoopSend(n)
  PROVE  /\ Outboxes'
         /\ \A p, r \in Node : /\ \A m, A : Carried(p, r, m, A)' => Carried(p, r, m, A)
                               /\ Way(p, r) \subseteq Way(p, r)'
<1> DEFINE old == outbox[n]
           to == Head(old)[1]
           m0 == Head(old)[2]
           sent == [m0 EXCEPT !.ts = LC[n] + 1]
<1>1. /\ old # <<>> /\ chan' = Sent(chan, n, To({to}, sent))
      /\ outbox' = [outbox EXCEPT ![n] = Tail(old)] /\ loop' = loop
  BY DEF LoopSend
<1>2. outbox \in [Node -> Outbox] /\ old \in Seq(Node \X Message) /\ LC[n] \in Nat
  BY DEF Inv, InvLoop, InvChan, Outbox
<1>3. /\ Head(old) = old[1] /\ 1 \in DOMAIN old /\ old[1] \in Node \X Message
      /\ \A i \in DOMAIN Tail(old) : i \in Nat /\ i >= 1 /\ i + 1 \in DOMAIN old /\ Tail(old)[i] = old[i + 1]
      /\ \A i \in DOMAIN old : i \in Nat /\ (i = 1 \/ (i - 1 \in DOMAIN Tail(old) /\ Tail(old)[i - 1] = old[i]))
  BY <1>1, <1>2, Uncons
<1>4. /\ \A i \in DOMAIN old : /\ \A j \in DOMAIN old : i # j => old[i][1] # old[j][1]
                               /\ old[i][2].ts = 0 /\ <<loop[n], old[i][2].type>> \in LoopKinds
      /\ outbox'[n] = Tail(old) /\ \A p \in Node : p # n => outbox'[p] = outbox[p]
  BY <1>1, <1>2 DEF Outboxes
<1>5. to \in Node /\ m0 \in Message /\ m0.ts = 0 /\ to = old[1][1] /\ m0 = old[1][2]
  BY <1>3, <1>4
<1> HIDE DEF m0, to, old
<1>6. sent \in Message /\ Core(sent) = m0
  <2>1. LC[n] + 1 \in Nat
    BY <1>2
  <2> QED
    BY <1>5, <2>1, CoreStamp, CoreType
<1> HIDE DEF sent
<1>7. Outboxes'
  <2> SUFFICES ASSUME NEW p \in Node, NEW i \in DOMAIN outbox'[p]
               PROVE  /\ \A j \in DOMAIN outbox'[p] : i # j => outbox'[p][i][1] # outbox'[p][j][1]
                      /\ outbox'[p][i][2].ts = 0
                      /\ <<loop'[p], outbox'[p][i][2].type>> \in LoopKinds
    BY DEF Outboxes
  <2>1. CASE p = n
    <3>1. i \in DOMAIN Tail(old) /\ outbox'[p] = Tail(old) /\ loop'[p] = loop[n]
      BY <1>1, <1>4, <2>1
    <3>2. PICK a \in DOMAIN old : a = i + 1 /\ Tail(old)[i] = old[a]
      BY <1>3, <3>1
    <3>3. ASSUME NEW j \in DOMAIN Tail(old), i # j PROVE Tail(old)[i][1] # Tail(old)[j][1]
      <4>1. PICK b \in DOMAIN old : b = j + 1 /\ Tail(old)[j] = old[b]
        BY <1>3
      <4>2. a # b
        <5>1. i \in Nat /\ j \in Nat
          BY <1>3, <3>1
        <5> QED
          BY <3>2, <3>3, <4>1, <5>1
      <4>3. old[a][1] # old[b][1]
        BY <1>4, <4>2
      <4> QED
        BY <3>2, <4>1, <4>3
    <3> QED
      BY <1>4, <3>1, <3>2, <3>3
  <2>2. CASE p # n
    <3>1. outbox'[p] = outbox[p] /\ loop'[p] = loop[p]
      BY <1>1, <1>4, <2>2
    <3> QED
      BY <3>1 DEF Outboxes
  <2> QED
    BY <2>1, <2>2
<1>8. chan \in Channels(Message)
  <2>1. chan \in Channels(Stamped) /\ Stamped \subseteq Message
    BY DEF Inv, InvChan, Stamped
  <2> QED
    BY <2>1, CarriedType DEF Channels, Outgoing
<1>9. \A p, r \in Node : chan'[p][r] = IF p = n THEN chan[n][r] \o To({to}, sent)[r] ELSE chan[p][r]
  <2>1. To({to}, sent) \in Outgoing(Message)
    BY <1>6, ToType
  <2> QED
    BY <1>1, <1>8, <2>1, SentAt
<1>10. ASSUME NEW r \in Node
       PROVE  /\ \A m \in Pending(n, r)' : m \in Pending(n, r) /\ r # to
              /\ \A m \in Pending(n, r) : m \in Pending(n, r)' \/ (r = to /\ m = m0)
  <2>1. ASSUME NEW i \in DOMAIN Tail(old), Tail(old)[i][1] = r
        PROVE  Tail(old)[i][2] \in Pending(n, r) /\ r # to
    <3>1. PICK a \in DOMAIN old : a # 1 /\ Tail(old)[i] = old[a]
      <4>1. i \in Nat /\ i >= 1 /\ i + 1 \in DOMAIN old /\ Tail(old)[i] = old[i + 1]
        BY <1>3
      <4>2. i + 1 # 1
        BY <4>1
      <4> QED
        BY <4>1, <4>2
    <3>2. r # to
      <4>1. old[a][1] # old[1][1]
        BY <1>3, <1>4, <3>1
      <4> QED
        BY <1>5, <2>1, <3>1, <4>1
    <3> QED
      BY <2>1, <3>1, <3>2 DEF Pending, old
  <2>2. \A m \in Pending(n, r)' : m \in Pending(n, r) /\ r # to
    <3>1. Pending(n, r)' = {Tail(old)[i][2] : i \in {k \in DOMAIN Tail(old) : Tail(old)[k][1] = r}}
      BY <1>4 DEF Pending
    <3> QED
      BY <2>1, <3>1
  <2>3. ASSUME NEW i \in DOMAIN old, old[i][1] = r
        PROVE  old[i][2] \in Pending(n, r)' \/ (r = to /\ old[i][2] = m0)
    <3>1. CASE i = 1
      BY <1>5, <2>3, <3>1
    <3>2. CASE i # 1
      <4>1. i - 1 \in DOMAIN Tail(old) /\ Tail(old)[i - 1] = old[i]
        BY <1>3, <3>2
      <4> QED
        BY <1>4, <2>3, <4>1 DEF Pending
    <3> QED
      BY <3>1, <3>2
  <2> QED
    BY <2>2, <2>3 DEF Pending, old
<1>11. m0 \in Pending(n, to)
  BY <1>3, <1>5 DEF Pending, old
<1>12. ASSUME NEW p \in Node, NEW r \in Node
       PROVE  /\ \A m, A : Carried(p, r, m, A)' => Carried(p, r, m, A)
              /\ Way(p, r) \subseteq Way(p, r)'
  <2>1. CASE p # n
    <3>1. chan'[p][r] = chan[p][r] /\ Pending(p, r)' = Pending(p, r)
      BY <1>4, <1>9, <2>1 DEF Pending
    <3> QED
      BY <3>1 DEF Carried, Way
  <2>2. CASE p = n /\ r # to
    <3>1. chan[n][r] \o <<>> = chan[n][r]
      BY CarriedType
    <3>2. To({to}, sent)[r] = <<>>
      BY <2>2 DEF To
    <3>3. chan'[n][r] = chan[n][r]
      BY <1>9, <2>2, <3>1, <3>2
    <3>4. Pending(n, r)' = Pending(n, r)
      BY <1>10, <2>2
    <3> QED
      BY <2>2, <3>3, <3>4 DEF Carried, Way
  <2>3. CASE p = n /\ r = to
    <3> DEFINE s == chan[n][to]
               t == <<sent>>
               new == chan'[n][to]
    <3>1. s \in Seq(Message) /\ t \in Seq(Message) /\ new = s \o t
      <4>1. To({to}, sent)[to] = <<sent>>
        BY <1>5 DEF To
      <4>2. chan'[n][to] = chan[n][to] \o To({to}, sent)[to]
        BY <1>5, <1>9
      <4>3. chan[n][to] \in Seq(Message)
        BY <1>5, CarriedType
      <4>4. <<sent>> \in Seq(Message)
        BY <1>6
      <4> QED
        BY <4>1, <4>2, <4>3, <4>4
    <3>2. Cores(t) = {m0} /\ \A k \in DOMAIN t : t[k] = sent /\ Ahead(t, k) = {}
      <4>1. DOMAIN t = {1} /\ t[1] = sent
        OBVIOUS
      <4> HIDE DEF t
      <4> QED
        BY <1>6, <4>1 DEF Cores, Ahead
    <3> HIDE DEF s, t
    <3>3. /\ Cores(s \o t) = Cores(s) \cup Cores(t)
          /\ \A i \in DOMAIN (s \o t) :
               \/ i \in DOMAIN s /\ (s \o t)[i] = s[i] /\ Ahead(s \o t, i) = Ahead(s, i)
               \/ \E k \in DOMAIN t : (s \o t)[i] = t[k] /\ Ahead(s \o t, i) = Cores(s) \cup Ahead(t, k)
      BY <3>1, AheadConcat
    <3> HIDE DEF new
    <3>4. /\ Cores(new) = Cores(s) \cup {m0}
          /\ \A i \in DOMAIN new : \/ i \in DOMAIN s /\ new[i] = s[i] /\ Ahead(new, i) = Ahead(s, i)
                                   \/ new[i] = sent /\ Ahead(new, i) = Cores(s)
      BY <3>1, <3>2, <3>3
    <3>5. Pending(p, r)' = {} /\ Pending(p, r) \subseteq {m0}
      <4>1. /\ \A m \in Pending(n, r)' : m \in Pending(n, r) /\ r # to
            /\ \A m \in Pending(n, r) : m \in Pending(n, r)' \/ (r = to /\ m = m0)
        BY <1>10
      <4>2. Pending(n, r)' = {} /\ Pending(n, r) \subseteq {m0}
        BY <2>3, <4>1
      <4> QED
        BY <2>3, <4>2
    <3>6. s = chan[p][r] /\ new = chan'[p][r] /\ p = n /\ r = to
      BY <2>3 DEF s, new
    <3>7. Way(p, r) \subseteq Way(p, r)'
      BY <3>4, <3>5, <3>6 DEF Way
    <3>8. ASSUME NEW m, NEW A, Carried(p, r, m, A)' PROVE Carried(p, r, m, A)
      <4>0. m \notin Pending(p, r)'
        BY <3>5
      <4>1. PICK i \in DOMAIN new : m = Core(new[i]) /\ A = Ahead(new, i)
        BY <3>6, <3>8, <4>0 DEF Carried
      <4>2. CASE i \in DOMAIN s /\ new[i] = s[i] /\ Ahead(new, i) = Ahead(s, i)
        BY <3>6, <4>1, <4>2 DEF Carried
      <4>3. CASE new[i] = sent /\ Ahead(new, i) = Cores(s)
        BY <1>6, <1>11, <3>6, <4>1, <4>3 DEF Carried
      <4> QED
        BY <3>4, <4>2, <4>3
    <3> QED
      BY <3>7, <3>8
  <2> QED
    BY <2>1, <2>2, <2>3
<1> QED
  BY <1>7, <1>12

\* A step of the loop that fills its outbox, or leaves it empty.
LEMMA FillCarried ==
  ASSUME Inv, Outboxes, NEW n \in Node, outbox[n] = <<>>, chan' = chan,
         NEW m \in Message, m.ts = 0, NEW l, <<l, m.type>> \in LoopKinds,
         outbox' = [outbox EXCEPT ![n] = ToSend(n, m)], loop' = [loop EXCEPT ![n] = l]
  PROVE  /\ Outboxes'
         /\ \A p, r \in Node :
              /\ \A x, A : Carried(p, r, x, A)' =>
                   Carried(p, r, x, A) \/ (p = n /\ r \in Links(n) /\ x = m /\ A = Cores(chan[n][r]))
              /\ Way(p, r) \subseteq Way(p, r)'
              /\ p = n /\ r \in Links(n) => m \in Way(p, r)'
<1> DEFINE box == ToSend(n, m)
<1>1. /\ outbox \in [Node -> Outbox] /\ outbox'[n] = box /\ \A p \in Node : p # n => outbox'[p] = outbox[p]
      /\ loop \in [Node -> Loops] /\ loop'[n] = l /\ \A p \in Node : p # n => loop'[p] = loop[p]
  BY DEF Inv, InvLoop
<1>2. DOMAIN box = DOMAIN Tree[n] /\ \A i \in DOMAIN box : box[i][1] = Tree[n][i] /\ box[i][2] = m
  BY DEF ToSend
<1>3. \A i, j \in DOMAIN box : i # j => box[i][1] # box[j][1]
  BY <1>2, TreeAssumption
<1> HIDE DEF box
<1>4. Outboxes'
  <2> SUFFICES ASSUME NEW p \in Node, NEW i \in DOMAIN outbox'[p]
               PROVE  /\ \A j \in DOMAIN outbox'[p] : i # j => outbox'[p][i][1] # outbox'[p][j][1]
                      /\ outbox'[p][i][2].ts = 0
                      /\ <<loop'[p], outbox'[p][i][2].type>> \in LoopKinds
    BY DEF Outboxes
  <2>1. CASE p = n
    BY <1>1, <1>2, <1>3, <2>1
  <2>2. CASE p # n
    BY <1>1, <2>2 DEF Outboxes
  <2> QED
    BY <2>1, <2>2
<1>5. ASSUME NEW p \in Node, NEW r \in Node
      PROVE  /\ \A x, A : Carried(p, r, x, A)' =>
                  Carried(p, r, x, A) \/ (p = n /\ r \in Links(n) /\ x = m /\ A = Cores(chan[n][r]))
             /\ Way(p, r) \subseteq Way(p, r)'
             /\ p = n /\ r \in Links(n) => m \in Way(p, r)'
  <2>1. CASE p # n
    <3>1. Pending(p, r)' = Pending(p, r)
      BY <1>1, <2>1 DEF Pending
    <3> QED
      BY <2>1, <3>1 DEF Carried, Way
  <2>2. CASE p = n
    <3>1. Pending(p, r)' = {box[i][2] : i \in {k \in DOMAIN box : box[k][1] = r}}
      BY <1>1, <2>2 DEF Pending
    <3>2. (Pending(p, r)' \subseteq {m}) /\ (Pending(p, r)' # {} => r \in Links(n))
      BY <1>2, <3>1 DEF Links
    <3>3. r \in Links(n) => m \in Pending(p, r)'
      BY <1>2, <3>1 DEF Links
    <3>4. Pending(p, r) = {}
      BY <2>2 DEF Pending
    <3> QED
      BY <2>2, <3>2, <3>3, <3>4 DEF Carried, Way
  <2> QED
    BY <2>1, <2>2
<1> QED
  BY <1>4, <1>5

-----------------------------------------------------------------------------
(***************************************************************************)
(* The lock as long as nobody is let in on duplicate acknowledgements.     *)
(*                                                                         *)
(* An entry of a queue is current while its request waits for the lock or  *)
(* has it, and old from then on until the release has come: the release    *)
(* goes through the tree as a wave that leaves no entry behind.            *)
(***************************************************************************)
Placed(u) == loop[u] \in {"wait", "critical"}
Active(u) == Placed(u) \/ loop[u] = "ticked"
Mine(u) == [lc |-> reqLC[u], uid |-> u]
Ent(m) == [lc |-> m.lc, uid |-> m.uid]
Entries(q) == {q[i] : i \in DOMAIN q}
Queued(v) == Entries(queue[v])
Current(e) == Placed(e.uid) /\ e.lc = reqLC[e.uid]
Old(v) == {e \in Queued(v) : ~Current(e)}
ReleaseOf(e, A) == \E a \in A : a.type = "lockRelease" /\ Ent(a) = e

\* What w says of itself when it acknowledges u's request, and what stays true of it.
Grants(w, u) ==
  /\ Mine(u) \in Queued(w) /\ LC[w] >= reqLC[u]
  /\ Active(w) => reqLC[w] > reqLC[u]

\* A request is on its way from those who have it to those who do not, once on every edge.
GoodRequest(p, r, m, A) ==
  /\ Current(Ent(m)) /\ m.uid \notin Side(p, r)
  /\ Ent(m) \in Queued(p) /\ Ent(m) \notin Queued(r)
  /\ \A a \in A : a.type = "lockRequest" => Ent(a) # Ent(m)

\* A release is on its way from those who are done with the entry to those who are not,
\* and releases are on their way in the order of the queue.
GoodRelease(p, r, m, A) ==
  /\ Ent(m) \in Old(r) /\ Ent(m) \notin Queued(p) /\ m.uid \notin Side(p, r)
  /\ \A e \in Queued(p) : e.lc > m.lc
  /\ \A a \in A : a.type = "lockRelease" => a.lc < m.lc

\* An acknowledgement of a current request comes from a node that has granted it, and
\* comes after the releases of that node.
GoodAck(p, r, m, A) ==
  /\ m.lc <= reqLC[m.uid] /\ (loop[m.uid] = "ticked" => m.lc < reqLC[m.uid])
  /\ Current(Ent(m)) /\ m.by # m.uid =>
       /\ Grants(m.by, m.uid) /\ m.by \notin Side(p, r)
       /\ \A e \in Old(r) : e.uid = m.by => ReleaseOf(e, A)

Good(p, r, m, A) ==
  /\ r \in Links(p)
  /\ m.type = "lockRequest" => GoodRequest(p, r, m, A)
  /\ m.type = "lockRelease" => GoodRelease(p, r, m, A)
  /\ m.type = "lockAck" => GoodAck(p, r, m, A)
Fine == \A p, r \in Node : \A m, A : Carried(p, r, m, A) => Good(p, r, m, A)

\* What is old is behind its node, and behind all who now wait for the lock.
Olds ==
  \A v \in Node : \A e \in Old(v) :
    /\ e.uid # v /\ e.lc <= reqLC[e.uid]
    /\ \A u \in Node : LC[u] >= e.lc /\ (Active(u) => reqLC[u] > e.lc)

\* Along every edge: who is further away from the requester has an old entry still when
\* who is nearer has, unless its release is between them, and has a current entry only
\* if who is nearer has.
Trails ==
  \A p \in Node : \A r \in Links(p) :
    /\ \A e \in Old(r) : e.uid \in Side(p, r) => e \in Queued(p)
    /\ \A e \in Old(r) : e.uid \notin Side(p, r) /\ e \notin Queued(p) => ReleaseOf(e, Way(p, r))
    /\ \A e \in Queued(r) : Current(e) /\ e.uid \notin Side(p, r) => e \in Queued(p)

\* What a node has of its own request, and of those who have acknowledged it.
Own ==
  \A u \in Node :
    /\ Placed(u) => Mine(u) \in Queued(u)
    /\ loop[u] = "ticked" => ackedBy[u] = {}
    /\ Placed(u) => \A w \in ackedBy[u] : w = u \/ (w \in Node /\ Grants(w, u) /\ \A e \in Old(u) : e.uid # w)

\* While a node sends its releases nothing old is left in its queue, and nobody who waits
\* for the lock has been acknowledged by it or will be by what is under way.
Sending(n) == loop[n] = "release" /\ outbox[n] # <<>>
Withholds(n) ==
  /\ \A i \in DOMAIN outbox[n] : outbox[n][i][2].uid = n /\ outbox[n][i][2].lc = reqLC[n]
  /\ Old(n) = {}
  /\ \A u \in Node : u # n /\ Placed(u) => n \notin ackedBy[u]
  /\ \A p, r \in Node : \A m \in Way(p, r) :
       m.type = "lockAck" /\ m.by = n /\ m.uid # n => ~Current(Ent(m))
Releasing == \A n \in Node : Sending(n) => Withholds(n)

Orderly == Inv /\ Outboxes /\ Fine /\ Olds /\ Trails /\ Own /\ Releasing

\* The entries of a queue: the first is the earliest, and no two are of the same time.
LEMMA EntriesType ==
  ASSUME NEW q \in Queues
  PROVE  /\ Entries(q) \subseteq Entry
         /\ \A e, f \in Entries(q) : e.lc = f.lc => e = f
         /\ Entries(q) = {} <=> q = <<>>
         /\ q # <<>> => Head(q) \in Entries(q) /\ \A e \in Entries(q) : e = Head(q) \/ e.lc > Head(q).lc
<1>1. /\ q \in Seq(Entry) /\ Len(q) \in Nat /\ DOMAIN q = 1 .. Len(q) /\ Sorted(q)
      /\ \A i \in DOMAIN q : q[i] \in Entry /\ q[i].lc \in Nat
  BY QueueType
<1>2. Entries(q) \subseteq Entry
  BY <1>1 DEF Entries
<1>3. ASSUME NEW i \in DOMAIN q, NEW j \in DOMAIN q, q[i].lc = q[j].lc PROVE q[i] = q[j]
  <2>1. ~ (i < j) /\ ~ (j < i)
    BY <1>1, <1>3 DEF Sorted
  <2>2. i = j
    BY <1>1, <2>1
  <2> QED
    BY <2>2
<1>4. \A e, f \in Entries(q) : e.lc = f.lc => e = f
  BY <1>3 DEF Entries
<1>5. ASSUME q # <<>>
      PROVE  Head(q) \in Entries(q) /\ \A e \in Entries(q) : e = Head(q) \/ e.lc > Head(q).lc
  <2>1. Head(q) = q[1] /\ 1 \in DOMAIN q
    BY <1>1, <1>5, Uncons
  <2>2. \A i \in DOMAIN q : i = 1 \/ q[1].lc < q[i].lc
    BY <1>1, <2>1 DEF Sorted
  <2>3. \A i \in DOMAIN q : q[1].lc < q[i].lc => q[i].lc > q[1].lc
    BY <1>1, <2>1
  <2> QED
    BY <2>1, <2>2, <2>3 DEF Entries
<1>6. ASSUME q = <<>> PROVE Entries(q) = {}
  BY <1>6 DEF Entries
<1> QED
  BY <1>2, <1>4, <1>5, <1>6

\* The error of Add: the time is taken.
LEMMA KnownEntries ==
  ASSUME NEW q, NEW lc
  PROVE  Known(q, lc) <=> \E e \in Entries(q) : e.lc = lc
BY DEF Known, Entries

\* Add puts in one entry, and takes none.
LEMMA AddEntries ==
  ASSUME NEW q \in Queues, NEW lc \in Nat, NEW uid \in Node, ~ Known(q, lc)
  PROVE  Entries(Add(q, lc, uid)) = Entries(q) \cup {[lc |-> lc, uid |-> uid]}
<1> DEFINE k == Earlier(q, lc)
           entry == [lc |-> lc, uid |-> uid]
           new == Add(q, lc, uid)
<1>1. Len(q) \in Nat /\ DOMAIN q = 1 .. Len(q)
  BY QueueType
<1>2. k \in 0 .. Len(q)
  BY EarlierFirst
<1> HIDE DEF k, entry
<1>3. new = [i \in 1 .. Len(q) + 1 |-> IF i <= k THEN q[i] ELSE IF i = k + 1 THEN entry ELSE q[i - 1]]
  BY DEF Add, k, entry
<1> HIDE DEF new
<1>4. /\ DOMAIN new = 1 .. Len(q) + 1
      /\ \A i \in 1 .. Len(q) + 1 :
           \/ i <= k /\ i \in DOMAIN q /\ new[i] = q[i]
           \/ i = k + 1 /\ new[i] = entry
           \/ i > k + 1 /\ i - 1 \in DOMAIN q /\ new[i] = q[i - 1]
      /\ k + 1 \in DOMAIN new /\ new[k + 1] = entry
  BY <1>1, <1>2, <1>3
<1>5. ASSUME NEW i \in DOMAIN q PROVE q[i] \in Entries(new)
  <2>1. CASE i <= k
    <3>1. i \in DOMAIN new /\ new[i] = q[i]
      BY <1>1, <1>2, <1>3, <2>1
    <3> QED
      BY <3>1 DEF Entries
  <2>2. CASE i > k
    <3>1. i + 1 \in DOMAIN new /\ new[i + 1] = q[i]
      BY <1>1, <1>2, <1>3, <2>2
    <3> QED
      BY <3>1 DEF Entries
  <2> QED
    BY <1>1, <1>2, <2>1, <2>2
<1>6. \A i \in DOMAIN new : new[i] \in Entries(q) \cup {entry}
  BY <1>4 DEF Entries
<1>7. Entries(new) \subseteq Entries(q) \cup {entry}
  BY <1>6 DEF Entries
<1>8. Entries(q) \subseteq Entries(new)
  BY <1>5 DEF Entries
<1>9. entry \in Entries(new)
  BY <1>4 DEF Entries
<1> QED
  BY <1>7, <1>8, <1>9 DEF new, entry

\* Pop takes the first entry, and no other.
LEMMA PopEntries ==
  ASSUME NEW q \in Queues, q # <<>>
  PROVE  Entries(Pop(q)) = Entries(q) \ {Head(q)}
<1>1. q \in Seq(Entry) /\ Pop(q) = Tail(q) /\ Sorted(q)
  BY DEF Pop, Queues
<1>2. \A i \in DOMAIN q : q[i] \in Entry /\ q[i].lc \in Nat
  BY QueueType
<1> DEFINE t == Tail(q)
<1>3. /\ Head(q) = q[1] /\ 1 \in DOMAIN q
      /\ \A i \in DOMAIN t : i \in Nat /\ i >= 1 /\ i + 1 \in DOMAIN q /\ t[i] = q[i + 1]
      /\ \A i \in DOMAIN q : i \in Nat /\ (i = 1 \/ (i - 1 \in DOMAIN t /\ t[i - 1] = q[i]))
  BY <1>1, Uncons
<1> HIDE DEF t
<1>4. ASSUME NEW i \in DOMAIN t PROVE t[i] \in Entries(q) \ {Head(q)}
  <2>1. PICK j \in DOMAIN q : j = i + 1 /\ t[i] = q[j]
    BY <1>3
  <2>2. 1 < j
    BY <1>3, <2>1
  <2>3. q[1].lc < q[j].lc
    BY <1>1, <1>3, <2>2 DEF Sorted
  <2>4. q[j] # q[1]
    BY <1>2, <1>3, <2>3
  <2> QED
    BY <1>3, <2>1, <2>4 DEF Entries
<1>5. \A i \in DOMAIN q : q[i] \in Entries(t) \cup {Head(q)}
  BY <1>3 DEF Entries
<1>6. Entries(t) \subseteq Entries(q) \ {Head(q)}
  BY <1>4 DEF Entries
<1>7. Entries(q) \subseteq Entries(t) \cup {Head(q)}
  BY <1>5 DEF Entries
<1> QED
  BY <1>1, <1>6, <1>7 DEF t

-----------------------------------------------------------------------------
(***************************************************************************)
(* The handlers keep the order.                                            *)
(***************************************************************************)
LEMMA OrderlyTypes ==
  ASSUME Inv
  PROVE  \A v \in Node :
           /\ queue[v] \in Queues /\ Queued(v) \subseteq Entry /\ loop[v] \in Loops
           /\ reqLC[v] \in Nat /\ LC[v] \in Nat /\ reqLC[v] <= LC[v] /\ Mine(v) \in Entry
           /\ \A e \in Queued(v) : e.lc \in Nat /\ e.uid \in Node /\ e.lc <= LC[v]
<1> SUFFICES ASSUME NEW v \in Node
             PROVE  /\ queue[v] \in Queues /\ Queued(v) \subseteq Entry /\ loop[v] \in Loops
                    /\ reqLC[v] \in Nat /\ LC[v] \in Nat /\ reqLC[v] <= LC[v] /\ Mine(v) \in Entry
                    /\ \A e \in Queued(v) : e.lc \in Nat /\ e.uid \in Node /\ e.lc <= LC[v]
  OBVIOUS
<1>1. queue[v] \in Queues /\ loop[v] \in Loops /\ reqLC[v] \in Nat /\ LC[v] \in Nat /\ reqLC[v] <= LC[v]
  BY DEF Inv, InvQueue, InvLoop, InvChan
<1>2. Queued(v) \subseteq Entry
  BY <1>1, EntriesType DEF Queued
<1>3. Mine(v) \in Entry
  BY <1>1 DEF Mine, Entry
<1>4. \A e \in Queued(v) : e.lc <= LC[v]
  BY DEF Inv, InvQueue, Queued, Entries
<1>5. \A e \in Entry : e.lc \in Nat /\ e.uid \in Node
  BY DEF Entry
<1> QED
  BY <1>1, <1>2, <1>3, <1>4, <1>5

\* An entry is its timestamp and its node.
LEMMA EntryIs ==
  /\ \A e \in Entry : e = [lc |-> e.lc, uid |-> e.uid]
  /\ \A m \in Message : Ent(m) \in Entry /\ Ent(m).lc = m.lc /\ Ent(m).uid = m.uid
  /\ \A e \in Entry : Current(e) => e = Mine(e.uid)
  /\ \A u : Mine(u).lc = reqLC[u] /\ Mine(u).uid = u /\ (Current(Mine(u)) <=> Placed(u))
<1>1. \A e \in Entry : e = [lc |-> e.lc, uid |-> e.uid]
  BY DEF Entry
<1>2. \A m \in Message : m.lc \in Nat /\ m.uid \in Node
  BY CoreType
<1> QED
  BY <1>1, <1>2 DEF Ent, Entry, Current, Mine

\* A message that is under way is good, and so is what is ahead of it.
LEMMA WayGood ==
  ASSUME Orderly, NEW p \in Node, NEW r \in Node, NEW m \in Way(p, r)
  PROVE  m \in Message /\ \E A : Carried(p, r, m, A) /\ Good(p, r, m, A)
BY CarriedType DEF Orderly, Fine

\* What a node is sending is its own release, and whoever asks for the lock meanwhile, or
\* has asked before, is behind it.
LEMMA SendingFirst ==
  ASSUME Orderly, NEW n \in Node, Sending(n)
  PROVE  /\ \A r \in Node : \A a \in Pending(n, r) : a.uid = n /\ a.lc = reqLC[n]
         /\ \A u \in Node : Active(u) => reqLC[u] > reqLC[n]
         /\ \A m \in Message : m.uid # n /\ m.lc <= reqLC[n] => ~Current(Ent(m))
<1>1. \A i \in DOMAIN outbox[n] : outbox[n][i][2].uid = n /\ outbox[n][i][2].lc = reqLC[n]
  BY DEF Orderly, Releasing, Withholds
<1>2. \A r \in Node : \A a \in Pending(n, r) : a.uid = n /\ a.lc = reqLC[n]
  BY <1>1 DEF Pending
<1>3. PICK r \in Node : \E a : a \in Pending(n, r)
  <2>1. outbox[n] \in Seq(Node \X Message) /\ outbox[n] # <<>>
    BY DEF Orderly, Inv, InvLoop, Outbox, Sending
  <2>2. 1 \in DOMAIN outbox[n] /\ outbox[n][1] \in Node \X Message
    BY <2>1, Uncons
  <2> QED
    BY <2>2 DEF Pending
<1>4. PICK a : a \in Pending(n, r)
  BY <1>3
<1>5. a.type = "lockRelease" /\ a \in Way(n, r)
  <2>1. <<loop[n], a.type>> \in LoopKinds
    BY <1>4, CarriedType DEF Orderly
  <2> QED
    BY <1>4, <2>1 DEF LoopKinds, Sending, Way
<1>6. Ent(a) \in Old(r) /\ Ent(a).lc = reqLC[n]
  <2>1. PICK B : Good(n, r, a, B)
    BY <1>5, WayGood
  <2> QED
    BY <1>2, <1>4, <1>5, <2>1 DEF Good, GoodRelease, Ent
<1>7. \A u \in Node : Active(u) => reqLC[u] > reqLC[n]
  BY <1>6 DEF Orderly, Olds
<1>8. ASSUME NEW m \in Message, m.uid # n, m.lc <= reqLC[n], Current(Ent(m)) PROVE FALSE
  <2>1. m.uid \in Node /\ Active(m.uid) /\ m.lc = reqLC[m.uid]
    BY <1>8, CoreType DEF Current, Ent, Active
  <2>2. reqLC[m.uid] > reqLC[n] /\ reqLC[n] \in Nat /\ reqLC[m.uid] \in Nat
    BY <1>7, <2>1, OrderlyTypes DEF Orderly
  <2> QED
    BY <1>8, <2>1, <2>2
<1> QED
  BY <1>2, <1>7, <1>8

\* Where a node further away still has an old entry the node itself is done with, the
\* release has been sent, if it is not the one the node is just sending.
LEMMA Behind ==
  ASSUME Orderly, NEW n \in Node, NEW r \in Links(n),
         NEW e \in Old(r), e.uid \notin Side(n, r), e \notin Queued(n), e.uid # n \/ ~Sending(n)
  PROVE  ReleaseOf(e, Cores(chan[n][r]))
<1>1. ReleaseOf(e, Way(n, r))
  BY DEF Orderly, Trails
<1>2. PICK a \in Way(n, r) : a.type = "lockRelease" /\ Ent(a) = e
  BY <1>1 DEF ReleaseOf
<1>3. a \notin Pending(n, r)
  <2> SUFFICES ASSUME a \in Pending(n, r) PROVE FALSE
    OBVIOUS
  <2>1. r \in Node
    BY LinksType
  <2>2. <<loop[n], a.type>> \in LoopKinds
    BY <2>1, CarriedType DEF Orderly
  <2>3. Sending(n)
    BY <1>2, <2>2 DEF LoopKinds, Sending, Pending
  <2>4. a.uid = n
    BY <2>1, <2>3, SendingFirst
  <2> QED
    BY <1>2, <2>3, <2>4 DEF Ent
<1> QED
  BY <1>2, <1>3 DEF Way, ReleaseOf

(***************************************************************************)
(* What the handlers have in common: n takes the first message from q,     *)
(* acknowledges a request if wanted, and passes the message on or not.     *)
(***************************************************************************)
Acknowledging(n, ack) ==
  /\ ack.type = "lockAck" /\ ack.by = n
  /\ ack.lc <= reqLC[ack.uid] /\ (loop[ack.uid] = "ticked" => ack.lc < reqLC[ack.uid])
  /\ Current(Ent(ack)) /\ ack.uid # n => Grants(n, ack.uid)'

Handling(n, q, wanted, ack, passed) ==
  LET h == First(n, q)
  IN /\ n \in Links(q) /\ h \in Message /\ Carried(q, n, h, {})
     /\ loop' = loop /\ reqLC' = reqLC /\ outbox' = outbox /\ \A k \in Node : LC'[k] >= LC[k]
     /\ Passing(n, q, wanted, ack, passed)
     /\ wanted => ack \in Message /\ Acknowledging(n, ack) /\ (Sending(n) => ack.lc <= reqLC[n])
     /\ \A w \in Node : w # n => Queued(w)' = Queued(w) /\ ackedBy'[w] = ackedBy[w]
     /\ \A e \in Queued(n)' : e \in Queued(n) \/ (h.type = "lockRequest" /\ e = Ent(h))
     /\ \A e \in Queued(n) : e \in Queued(n)' \/ (h.type = "lockRelease" /\ e = Ent(h))
     /\ h.type = "lockRequest" /\ passed => Ent(h) \in Queued(n)'
     /\ h.type = "lockRelease" => /\ passed /\ Ent(h) \notin Queued(n)'
                                  /\ \A e \in Queued(n)' : e.lc > h.lc
     /\ \A w \in ackedBy'[n] : \/ w \in ackedBy[n]
                               \/ w = h.by /\ h.type = "lockAck" /\ h.uid = n /\ h.lc = reqLC[n]

\* Nobody starts or ends to wait for the lock, current entries stay, and no entry becomes old.
LEMMA HandlingEntries ==
  ASSUME Orderly, Inv', NEW n \in Node, NEW q \in Node, NEW wanted \in BOOLEAN, NEW ack, NEW passed \in BOOLEAN,
         Handling(n, q, wanted, ack, passed)
  PROVE  /\ \A e : Current(e)' = Current(e) /\ Ent(e)' = Ent(e)
         /\ \A u : Placed(u)' = Placed(u) /\ Active(u)' = Active(u) /\ Mine(u)' = Mine(u)
         /\ \A w \in Node : \A e \in Queued(w) : Current(e) => e \in Queued(w)'
         /\ \A w \in Node : Old(w)' \subseteq Old(w)
         /\ \A w \in Node : w # n => Old(w)' = Old(w)
         /\ \A e \in Old(n) : e \in Old(n)' \/ (First(n, q).type = "lockRelease" /\ e = Ent(First(n, q)))
         /\ \A w, u \in Node : Grants(w, u) /\ Placed(u) => Grants(w, u)'
         /\ Good(q, n, First(n, q), {}) /\ q \in Links(n) /\ q # n
<1> DEFINE h == First(n, q)
<1>1. /\ n \in Links(q) /\ h \in Message /\ Carried(q, n, h, {})
      /\ loop' = loop /\ reqLC' = reqLC /\ \A k \in Node : LC'[k] >= LC[k]
      /\ \A w \in Node : w # n => Queued(w)' = Queued(w)
      /\ \A e \in Queued(n)' : e \in Queued(n) \/ (h.type = "lockRequest" /\ e = Ent(h))
      /\ \A e \in Queued(n) : e \in Queued(n)' \/ (h.type = "lockRelease" /\ e = Ent(h))
  BY DEF Handling
<1> HIDE DEF h
<1>2. Good(q, n, h, {}) /\ q \in Links(n) /\ q # n
  BY <1>1, LinksType DEF Orderly, Fine
<1>3. h.type = "lockRequest" => Current(Ent(h))
  BY <1>2 DEF Good, GoodRequest
<1>4. h.type = "lockRelease" => ~Current(Ent(h))
  BY <1>2 DEF Good, GoodRelease, Old
<1>5. /\ \A e : Current(e)' = Current(e) /\ Ent(e)' = Ent(e)
      /\ \A u : Placed(u)' = Placed(u) /\ Active(u)' = Active(u) /\ Mine(u)' = Mine(u)
  BY <1>1 DEF Current, Ent, Placed, Active, Mine
<1>6. \A w \in Node : \A e \in Queued(w) : Current(e) => e \in Queued(w)'
  BY <1>1, <1>4
<1>7. \A w \in Node : Old(w)' = {e \in Queued(w)' : ~Current(e)}
  BY <1>5 DEF Old
<1>8. /\ \A w \in Node : Old(w)' \subseteq Old(w)
      /\ \A w \in Node : w # n => Old(w)' = Old(w)
      /\ \A e \in Old(n) : e \in Old(n)' \/ (h.type = "lockRelease" /\ e = Ent(h))
  BY <1>1, <1>3, <1>7 DEF Old
<1>9. ASSUME NEW w \in Node, NEW u \in Node, Grants(w, u), Placed(u) PROVE Grants(w, u)'
  <2>1. Mine(u) \in Queued(w)'
    BY <1>6, <1>9, EntryIs DEF Grants
  <2>2. LC'[w] >= LC[w] /\ LC[w] >= reqLC[u] /\ LC[w] \in Nat /\ LC'[w] \in Nat /\ reqLC[u] \in Nat
    <3>1. LC[w] \in Nat /\ reqLC[u] \in Nat
      BY OrderlyTypes DEF Orderly
    <3>2. LC'[w] \in Nat
      BY DEF Inv, InvChan
    <3> QED
      BY <1>1, <1>9, <3>1, <3>2 DEF Grants
  <2>3. LC'[w] >= reqLC'[u]
    BY <1>1, <2>2
  <2> QED
    BY <1>1, <1>5, <1>9, <2>1, <2>3 DEF Grants
<1> QED
  BY <1>1, <1>2, <1>5, <1>6, <1>8, <1>9 DEF h

\* The acknowledgements under way.
LEMMA HandlingAcks ==
  ASSUME Orderly, Inv', NEW n \in Node, NEW q \in Node, NEW wanted \in BOOLEAN, NEW ack, NEW passed \in BOOLEAN,
         Handling(n, q, wanted, ack, passed),
         NEW p \in Node, NEW r \in Node, NEW m, NEW A, Carried(p, r, m, A)', m.type = "lockAck"
  PROVE  GoodAck(p, r, m, A)'
<1> DEFINE h == First(n, q)
<1>1. /\ n \in Links(q) /\ h \in Message /\ loop' = loop /\ reqLC' = reqLC
      /\ Passing(n, q, wanted, ack, passed)
      /\ wanted => ack \in Message /\ Acknowledging(n, ack) /\ (Sending(n) => ack.lc <= reqLC[n])
      /\ h.type = "lockRelease" => Ent(h) \notin Queued(n)'
  BY DEF Handling
<1>2. /\ \A e : Current(e)' = Current(e) /\ Ent(e)' = Ent(e)
      /\ \A w \in Node : Old(w)' \subseteq Old(w)
      /\ \A w, u \in Node : Grants(w, u) /\ Placed(u) => Grants(w, u)'
      /\ Good(q, n, h, {}) /\ q \in Links(n) /\ q # n
  BY HandlingEntries
<1> HIDE DEF h
<1>3. \/ \E S : Stays(n, q, S, p, r, m, A)
      \/ p = n /\ r \in Links(n) /\ wanted /\ m = ack /\ A = Cores(chan[n][r])
      \/ p = n /\ r \in Links(n) /\ r # q /\ m = h /\ Cores(chan[n][r]) \subseteq A
  <2>1. \/ Stays(n, q, Added(n, q, wanted, ack, passed, r), p, r, m, A)
        \/ Stays(n, q, {}, p, r, m, A)
        \/ p = n /\ r \in Links(n) /\ wanted /\ m = ack /\ A = Cores(chan[n][r])
        \/ p = n /\ r \in Links(n) /\ r # q /\ m = h /\ Cores(chan[n][r]) \subseteq A
    BY <1>1 DEF Passing, h
  <2> QED
    BY <2>1
\* Who acknowledges has sent all its releases before, or acknowledges nothing current.
<1>4. ASSUME r \in Links(n), NEW e \in Old(r)', e.uid \notin Side(n, r), e \notin Queued(n), Cores(chan[n][r]) \subseteq A,
             e.uid # n \/ ~Sending(n)
      PROVE  ReleaseOf(e, A)
  <2>1. e \in Old(r)
    BY <1>2
  <2>2. ReleaseOf(e, Cores(chan[n][r]))
    BY <1>4, <2>1, Behind
  <2> QED
    BY <1>4, <2>2 DEF ReleaseOf
<1>5. \A e : ReleaseOf(e, A)' = ReleaseOf(e, A)
  BY DEF ReleaseOf, Ent
<1>6. CASE \E S : Stays(n, q, S, p, r, m, A)
  <2>1. PICK B : /\ Carried(p, r, m, B)
                 /\ \A b \in B : b \in A \/ (p = q /\ r = n /\ b = h)
    BY <1>6 DEF Stays, h, First
  <2>2. m \in Message /\ GoodAck(p, r, m, B)
    <3>1. Good(p, r, m, B)
      BY <2>1 DEF Orderly, Fine
    <3>2. m \in Message
      BY <2>1, CarriedType DEF Orderly
    <3> QED
      BY <3>1, <3>2 DEF Good
  <2>3. m.uid \in Node /\ m.by \in Node
    BY <2>2, CoreType
  <2>4. ASSUME Current(Ent(m)), m.by # m.uid, NEW e \in Old(r)', e.uid = m.by PROVE ReleaseOf(e, A)
    <3>1. e \in Old(r)
      BY <1>2
    <3>2. ReleaseOf(e, B)
      BY <2>2, <2>4, <3>1 DEF GoodAck
    <3>3. PICK b \in B : b.type = "lockRelease" /\ Ent(b) = e
      BY <3>2 DEF ReleaseOf
    <3>4. ~ (p = q /\ r = n /\ b = h)
      BY <1>1, <2>4, <3>3 DEF Old
    <3> QED
      BY <2>1, <3>3, <3>4 DEF ReleaseOf
  <2>5. Current(Ent(m)) /\ m.by # m.uid => Grants(m.by, m.uid)' /\ m.by \notin Side(p, r)
    <3>1. Current(Ent(m)) => Placed(m.uid)
      BY DEF Current, Ent
    <3> QED
      BY <1>2, <2>2, <2>3, <3>1 DEF GoodAck
  <2> QED
    BY <1>1, <1>2, <1>5, <2>2, <2>4, <2>5 DEF GoodAck
<1>7. CASE p = n /\ r \in Links(n) /\ wanted /\ m = ack /\ A = Cores(chan[n][r])
  <2>1. Acknowledging(n, m)
    BY <1>1, <1>7
  <2>2. n \notin Side(n, r)
    BY <1>7, SideEdge
  <2>3. ASSUME Current(Ent(m)), m.uid # n, NEW e \in Old(r)', e.uid = n PROVE ReleaseOf(e, A)
    <3>0. ~Sending(n)
      BY <1>1, <1>7, <2>3, SendingFirst
    <3>1. e \notin Queued(n)
      <4>1. e \in Old(r) /\ r # n
        BY <1>2, <1>7, LinksType
      <4>2. ~Current(e) /\ \A f \in Old(n) : f.uid # n
        BY <4>1 DEF Old, Orderly, Olds
      <4> QED
        BY <2>3, <4>2 DEF Old
    <3> QED
      BY <1>4, <1>7, <2>2, <2>3, <3>0, <3>1
  <2> QED
    BY <1>1, <1>2, <1>5, <1>7, <2>1, <2>2, <2>3 DEF GoodAck, Acknowledging
<1>8. CASE p = n /\ r \in Links(n) /\ r # q /\ m = h /\ Cores(chan[n][r]) \subseteq A
  <2>1. GoodAck(q, n, m, {}) /\ m \in Message /\ m.uid \in Node /\ m.by \in Node
    BY <1>1, <1>2, <1>8, CoreType DEF Good
  <2>2. Side(n, r) \subseteq Side(q, n)
    BY <1>1, <1>8, SideOn
  <2>3. Current(Ent(m)) /\ m.by # m.uid => Grants(m.by, m.uid)' /\ m.by \notin Side(p, r)
    <3>1. Current(Ent(m)) => Placed(m.uid)
      BY DEF Current, Ent
    <3> QED
      BY <1>2, <1>8, <2>1, <2>2, <3>1 DEF GoodAck
  <2>4. ASSUME Current(Ent(m)), m.by # m.uid, NEW e \in Old(r)', e.uid = m.by PROVE ReleaseOf(e, A)
    <3>1. e \notin Queued(n)
      <4>1. ~Current(e)
        BY <1>2 DEF Old
      <4>2. \A f \in Old(n) : f.uid # m.by
        BY <2>1, <2>4 DEF GoodAck, ReleaseOf
      <4> QED
        BY <2>4, <4>1, <4>2 DEF Old
    <3>2. m.by # n
      BY <1>1, <2>1, <2>4, SideEdge DEF GoodAck
    <3> QED
      BY <1>4, <1>8, <2>3, <2>4, <3>1, <3>2
  <2> QED
    BY <1>1, <1>2, <1>5, <2>1, <2>3, <2>4 DEF GoodAck
<1> QED
  BY <1>3, <1>6, <1>7, <1>8

\* The requests under way.
LEMMA HandlingRequests ==
  ASSUME Orderly, Inv', NEW n \in Node, NEW q \in Node, NEW wanted \in BOOLEAN, NEW ack, NEW passed \in BOOLEAN,
         Handling(n, q, wanted, ack, passed),
         NEW p \in Node, NEW r \in Node, NEW m, NEW A, Carried(p, r, m, A)', m.type = "lockRequest"
  PROVE  GoodRequest(p, r, m, A)'
<1> DEFINE h == First(n, q)
<1>1. /\ n \in Links(q) /\ h \in Message
      /\ Passing(n, q, wanted, ack, passed) /\ (wanted => ack.type = "lockAck")
      /\ \A w \in Node : w # n => Queued(w)' = Queued(w)
      /\ \A e \in Queued(n)' : e \in Queued(n) \/ (h.type = "lockRequest" /\ e = Ent(h))
      /\ h.type = "lockRequest" /\ passed => Ent(h) \in Queued(n)'
  BY DEF Handling, Acknowledging
<1>2. /\ \A e : Current(e)' = Current(e) /\ Ent(e)' = Ent(e)
      /\ \A w \in Node : \A e \in Queued(w) : Current(e) => e \in Queued(w)'
      /\ Good(q, n, h, {}) /\ q \in Links(n) /\ q # n
  BY HandlingEntries
<1>3. h.type = "lockRequest" => GoodRequest(q, n, h, {})
  BY <1>2 DEF Good
<1> HIDE DEF h
<1>4. \/ Stays(n, q, Added(n, q, wanted, ack, passed, r), p, r, m, A)
      \/ Stays(n, q, {}, p, r, m, A)
      \/ p = n /\ r \in Links(n) /\ r # q /\ passed /\ m = h /\ \A a \in A : a \in Cores(chan[n][r]) \/ (wanted /\ a = ack)
  BY <1>1 DEF Passing, h
<1>5. ASSUME NEW B, Carried(p, r, m, B),
             p = q /\ r = n => h \in B,
             \A a \in A : a \in B \/ (p = n /\ a \in {ack} /\ wanted) \/ (p = n /\ a = h /\ passed /\ r # q)
      PROVE  GoodRequest(p, r, m, A)'
  <2>1. Good(p, r, m, B) /\ m \in Message
    BY <1>5, CarriedType DEF Orderly, Fine
  <2>2. GoodRequest(p, r, m, B) /\ r \in Links(p) /\ m.uid \in Node
    BY <2>1, CoreType DEF Good
  <2>3. Ent(m) \notin Queued(r)'
    <3>1. CASE r # n
      BY <1>1, <2>2, <3>1 DEF GoodRequest
    <3>2. CASE r = n
      <4> SUFFICES ASSUME h.type = "lockRequest", Ent(m) = Ent(h) PROVE FALSE
        BY <1>1, <2>2, <3>2 DEF GoodRequest
      <4>1. m.uid = h.uid
        BY DEF Ent
      <4>2. m.uid \notin Side(p, n) /\ m.uid \notin Side(q, n)
        BY <1>3, <2>2, <3>2, <4>1 DEF GoodRequest
      <4>3. p = q
        BY <1>1, <2>2, <3>2, <4>2, OneWay
      <4> QED
        BY <1>5, <2>2, <3>2, <4>3 DEF GoodRequest
    <3> QED
      BY <3>1, <3>2
  <2>4. ASSUME NEW a \in A, a.type = "lockRequest" PROVE Ent(a) # Ent(m)
    <3>1. CASE a \in B
      BY <2>2, <2>4, <3>1 DEF GoodRequest
    <3>2. CASE p = n /\ a = h
      BY <1>3, <2>2, <2>4, <3>2 DEF GoodRequest
    <3> QED
      BY <1>1, <1>5, <2>4, <3>1, <3>2
  <2>5. Ent(m) \in Queued(p)'
    BY <1>2, <2>2 DEF GoodRequest
  <2> QED
    BY <1>2, <2>2, <2>3, <2>4, <2>5 DEF GoodRequest
<1>6. CASE Stays(n, q, Added(n, q, wanted, ack, passed, r), p, r, m, A)
  <2>1. PICK B : /\ Carried(p, r, m, B)
                 /\ p = q /\ r = n => h \in B
                 /\ \A a \in A : a \in B \/ (p = n /\ a \in Added(n, q, wanted, ack, passed, r))
    BY <1>6 DEF Stays, h, First
  <2>2. \A a \in Added(n, q, wanted, ack, passed, r) : (a \in {ack} /\ wanted) \/ (a = h /\ passed /\ r # q)
    BY DEF Added, h
  <2>3. \A a \in A : a \in B \/ (p = n /\ a \in {ack} /\ wanted) \/ (p = n /\ a = h /\ passed /\ r # q)
    BY <2>1, <2>2
  <2> QED
    BY <1>5, <2>1, <2>3
<1>7. CASE Stays(n, q, {}, p, r, m, A)
  <2>1. PICK B : /\ Carried(p, r, m, B)
                 /\ p = q /\ r = n => h \in B
                 /\ \A a \in A : a \in B
    BY <1>7 DEF Stays, h, First
  <2> QED
    BY <1>5, <2>1
<1>8. CASE /\ p = n /\ r \in Links(n) /\ r # q /\ passed /\ m = h
           /\ \A a \in A : a \in Cores(chan[n][r]) \/ (wanted /\ a = ack)
  <2>1. GoodRequest(q, n, h, {}) /\ h.type = "lockRequest" /\ h.uid \in Node
    BY <1>1, <1>3, <1>8, CoreType
  <2>2. Side(n, r) \subseteq Side(q, n)
    BY <1>1, <1>8, SideOn
  <2>3. h.uid \notin Side(n, r)
    BY <2>1, <2>2 DEF GoodRequest
  <2>4. Ent(h) \notin Queued(r)'
    <3>1. r \in Node /\ r # n
      BY <1>8, LinksType
    <3>2. Ent(h) \notin Queued(n) /\ Current(Ent(h)) /\ Ent(h).uid = h.uid
      BY <2>1 DEF GoodRequest, Ent
    <3>3. Ent(h) \notin Queued(r)
      BY <1>8, <2>3, <3>2 DEF Orderly, Trails
    <3> QED
      BY <1>1, <3>1, <3>3
  <2>5. ASSUME NEW a \in A, a.type = "lockRequest" PROVE Ent(a) # Ent(h)
    <3>1. a \in Way(n, r)
      BY <1>1, <1>8, <2>5 DEF Way
    <3>2. GoodRequest(n, r, a, {}) \/ Ent(a) \in Queued(n)
      <4>1. PICK B : Good(n, r, a, B)
        BY <1>8, <3>1, WayGood
      <4> QED
        BY <2>5, <4>1 DEF Good, GoodRequest
    <3> QED
      BY <2>1, <3>2 DEF GoodRequest
  <2>6. Ent(h) \in Queued(n)' /\ Current(Ent(h))
    BY <1>1, <1>8, <2>1 DEF GoodRequest
  <2> QED
    BY <1>2, <1>8, <2>3, <2>4, <2>5, <2>6 DEF GoodRequest
<1> QED
  BY <1>4, <1>6, <1>7, <1>8

\* The releases under way.
LEMMA HandlingReleases ==
  ASSUME Orderly, Inv', NEW n \in Node, NEW q \in Node, NEW wanted \in BOOLEAN, NEW ack, NEW passed \in BOOLEAN,
         Handling(n, q, wanted, ack, passed),
         NEW p \in Node, NEW r \in Node, NEW m, NEW A, Carried(p, r, m, A)', m.type = "lockRelease"
  PROVE  GoodRelease(p, r, m, A)'
<1> DEFINE h == First(n, q)
<1>1. /\ n \in Links(q) /\ h \in Message
      /\ Passing(n, q, wanted, ack, passed) /\ (wanted => ack.type = "lockAck")
      /\ \A w \in Node : w # n => Queued(w)' = Queued(w)
      /\ \A e \in Queued(n)' : e \in Queued(n) \/ (h.type = "lockRequest" /\ e = Ent(h))
      /\ h.type = "lockRelease" => Ent(h) \notin Queued(n)' /\ \A e \in Queued(n)' : e.lc > h.lc
  BY DEF Handling, Acknowledging
<1>2. /\ \A e : Current(e)' = Current(e) /\ Ent(e)' = Ent(e)
      /\ \A w \in Node : w # n => Old(w)' = Old(w)
      /\ \A e \in Old(n) : e \in Old(n)' \/ (h.type = "lockRelease" /\ e = Ent(h))
      /\ Good(q, n, h, {}) /\ q \in Links(n) /\ q # n
  BY HandlingEntries
<1>3. /\ h.type = "lockRequest" => GoodRequest(q, n, h, {})
      /\ h.type = "lockRelease" => GoodRelease(q, n, h, {})
  BY <1>2 DEF Good
<1> HIDE DEF h
<1>4. \/ \E S : Stays(n, q, S, p, r, m, A) /\ \A a \in S : (wanted /\ a = ack) \/ a = h
      \/ p = n /\ r \in Links(n) /\ r # q /\ passed /\ m = h /\ \A a \in A : a \in Cores(chan[n][r]) \/ (wanted /\ a = ack)
  <2>1. \/ Stays(n, q, Added(n, q, wanted, ack, passed, r), p, r, m, A)
        \/ Stays(n, q, {}, p, r, m, A)
        \/ p = n /\ r \in Links(n) /\ r # q /\ passed /\ m = h /\ \A a \in A : a \in Cores(chan[n][r]) \/ (wanted /\ a = ack)
    BY <1>1 DEF Passing, h
  <2>2. \A a \in Added(n, q, wanted, ack, passed, r) : (wanted /\ a = ack) \/ a = h
    BY DEF Added, h
  <2> QED
    BY <2>1, <2>2
<1>5. CASE \E S : Stays(n, q, S, p, r, m, A) /\ \A a \in S : (wanted /\ a = ack) \/ a = h
  <2>1. PICK B : /\ Carried(p, r, m, B)
                 /\ p = q /\ r = n => h \in B
                 /\ \A a \in A : a \in B \/ (p = n /\ m \in Pending(n, r) /\ ((wanted /\ a = ack) \/ a = h))
    BY <1>5 DEF Stays, h, First
  <2>2. Good(p, r, m, B) /\ m \in Message
    BY <2>1, CarriedType DEF Orderly, Fine
  <2>3. GoodRelease(p, r, m, B) /\ r \in Links(p) /\ m.uid \in Node /\ m.lc \in Nat
    BY <2>2, CoreType DEF Good
  <2>4. Ent(m) \in Old(r)'
    <3>1. CASE r # n
      BY <1>2, <2>3, <3>1 DEF GoodRelease
    <3>2. CASE r = n
      <4> SUFFICES ASSUME h.type = "lockRelease", Ent(m) = Ent(h) PROVE FALSE
        BY <1>2, <2>3, <3>2 DEF GoodRelease
      <4>1. m.uid = h.uid /\ m.lc = h.lc
        BY DEF Ent
      <4>2. m.uid \notin Side(p, n) /\ m.uid \notin Side(q, n)
        BY <1>3, <2>3, <3>2, <4>1 DEF GoodRelease
      <4>3. p = q
        BY <1>1, <2>3, <3>2, <4>2, OneWay
      <4>4. h.lc < m.lc
        BY <2>1, <2>3, <3>2, <4>3 DEF GoodRelease
      <4> QED
        BY <2>3, <4>1, <4>4
    <3> QED
      BY <3>1, <3>2
  <2>5. ASSUME NEW e \in Queued(p)' PROVE e.lc > m.lc /\ e # Ent(m)
    <3>1. CASE e \in Queued(p)
      BY <2>3, <3>1 DEF GoodRelease
    <3>2. CASE p = n /\ h.type = "lockRequest" /\ e = Ent(h)
      <4>1. Current(e) /\ Ent(m) \in Old(r)
        BY <1>3, <2>3, <3>2 DEF GoodRequest, GoodRelease
      <4>2. Placed(e.uid) /\ e.lc = reqLC[e.uid] /\ e.uid \in Node
        BY <1>1, <3>2, <4>1, EntryIs, CoreType DEF Current
      <4>3. reqLC[e.uid] > Ent(m).lc
        BY <4>1, <4>2 DEF Orderly, Olds, Active
      <4>4. Ent(m).lc = m.lc
        BY DEF Ent
      <4> QED
        BY <4>1, <4>2, <4>3, <4>4 DEF Old
    <3> QED
      BY <1>1, <3>1, <3>2
  <2>6. ASSUME NEW a \in A, a.type = "lockRelease" PROVE a.lc < m.lc
    <3>1. ASSUME m \in Pending(n, r), h.type = "lockRelease" PROVE FALSE
      <4>1. <<loop[n], m.type>> \in LoopKinds
        BY <3>1, CarriedType DEF Orderly
      <4>2. Sending(n)
        BY <3>1, <4>1 DEF LoopKinds, Sending, Pending
      <4>3. Old(n) = {}
        BY <4>2 DEF Orderly, Releasing, Withholds
      <4> QED
        BY <1>3, <3>1, <4>3 DEF GoodRelease
    <3> QED
      BY <1>1, <2>1, <2>3, <2>6, <3>1 DEF GoodRelease
  <2> QED
    BY <1>2, <2>3, <2>4, <2>5, <2>6 DEF GoodRelease
<1>6. CASE /\ p = n /\ r \in Links(n) /\ r # q /\ passed /\ m = h
           /\ \A a \in A : a \in Cores(chan[n][r]) \/ (wanted /\ a = ack)
  <2>1. GoodRelease(q, n, h, {}) /\ h.type = "lockRelease" /\ h.uid \in Node /\ h.lc \in Nat
    BY <1>1, <1>3, <1>6, CoreType
  <2>2. Side(n, r) \subseteq Side(q, n)
    BY <1>1, <1>6, SideOn
  <2>3. h.uid \notin Side(n, r)
    BY <2>1, <2>2 DEF GoodRelease
  <2>4. Ent(h) \in Old(r)'
    <3>1. r \in Node /\ r # n /\ n \in Links(r)
      BY <1>6, LinksType
    <3>2. Ent(h) \in Old(n) /\ Ent(h).uid = h.uid
      BY <2>1 DEF GoodRelease, Ent
    <3>3. h.uid \in Side(r, n)
      BY <1>6, <2>1, <2>3, SideOther
    <3>4. Ent(h) \in Queued(r)
      BY <3>1, <3>2, <3>3 DEF Orderly, Trails
    <3>5. Ent(h) \in Old(r)
      BY <3>2, <3>4 DEF Old
    <3> QED
      BY <1>2, <3>1, <3>5
  <2>5. ASSUME NEW a \in A, a.type = "lockRelease" PROVE a.lc < h.lc
    <3>1. a \in Way(n, r)
      BY <1>1, <1>6, <2>5 DEF Way
    <3>2. a.lc \in Nat /\ \A e \in Queued(n) : e.lc > a.lc
      <4>1. PICK B : Good(n, r, a, B) /\ a \in Message
        BY <1>6, <3>1, WayGood
      <4> QED
        BY <2>5, <4>1, CoreType DEF Good, GoodRelease
    <3>3. Ent(h) \in Queued(n) /\ Ent(h).lc = h.lc
      BY <2>1 DEF GoodRelease, Old, Ent
    <3> QED
      BY <2>1, <3>2, <3>3
  <2> QED
    BY <1>1, <1>2, <1>6, <2>1, <2>3, <2>4, <2>5 DEF GoodRelease
<1> QED
  BY <1>4, <1>5, <1>6

\* The edges.
LEMMA HandlingTrails ==
  ASSUME Orderly, Inv', NEW n \in Node, NEW q \in Node, NEW wanted \in BOOLEAN, NEW ack, NEW passed \in BOOLEAN,
         Handling(n, q, wanted, ack, passed)
  PROVE  Trails'
<1> DEFINE h == First(n, q)
<1>1. /\ n \in Links(q) /\ h \in Message
      /\ Passing(n, q, wanted, ack, passed)
      /\ \A w \in Node : w # n => Queued(w)' = Queued(w)
      /\ \A e \in Queued(n)' : e \in Queued(n) \/ (h.type = "lockRequest" /\ e = Ent(h))
      /\ \A e \in Queued(n) : e \in Queued(n)' \/ (h.type = "lockRelease" /\ e = Ent(h))
      /\ h.type = "lockRelease" => passed /\ Ent(h) \notin Queued(n)'
  BY DEF Handling
<1>2. /\ \A e : Current(e)' = Current(e) /\ Ent(e)' = Ent(e)
      /\ \A w \in Node : \A e \in Queued(w) : Current(e) => e \in Queued(w)'
      /\ \A w \in Node : Old(w)' \subseteq Old(w)
      /\ Good(q, n, h, {}) /\ q \in Links(n) /\ q # n
  BY HandlingEntries
<1>3. /\ h.type = "lockRequest" => GoodRequest(q, n, h, {})
      /\ h.type = "lockRelease" => GoodRelease(q, n, h, {})
      /\ Ent(h).uid = h.uid /\ h.uid \in Node
  BY <1>1, <1>2, CoreType DEF Good, Ent
<1> HIDE DEF h
<1> SUFFICES ASSUME NEW p \in Node, NEW r \in Links(p)
             PROVE  /\ \A e \in Old(r)' : e.uid \in Side(p, r) => e \in Queued(p)'
                    /\ \A e \in Old(r)' : e.uid \notin Side(p, r) /\ e \notin Queued(p)' => ReleaseOf(e, Way(p, r))'
                    /\ \A e \in Queued(r)' : Current(e)' /\ e.uid \notin Side(p, r) => e \in Queued(p)'
  BY DEF Trails, Links, Side, Closed
<1>4. r \in Node /\ p \in Links(r) /\ p # r
  BY LinksType
<1>5. ASSUME NEW e \in Old(r)', e.uid \in Side(p, r) PROVE e \in Queued(p)'
  <2>1. e \in Old(r) /\ e \in Queued(p)
    BY <1>2, <1>4, <1>5 DEF Orderly, Trails
  <2>2. CASE p # n
    BY <1>1, <2>1, <2>2
  <2>3. CASE p = n
    <3> SUFFICES ASSUME h.type = "lockRelease", e = Ent(h) PROVE FALSE
      BY <1>1, <2>1, <2>3
    <3>1. e \notin Queued(q) /\ h.uid \notin Side(q, n) /\ e.uid = h.uid
      BY <1>3 DEF GoodRelease
    <3>2. CASE r = q
      BY <2>1, <3>1, <3>2 DEF Old
    <3>3. CASE r # q
      <4>1. Side(n, r) \subseteq Side(q, n)
        BY <1>1, <2>3, <3>3, SideOn
      <4> QED
        BY <1>5, <2>3, <3>1, <4>1
    <3> QED
      BY <3>2, <3>3
  <2> QED
    BY <2>2, <2>3
<1>6. ASSUME NEW e \in Old(r)', e.uid \notin Side(p, r), e \notin Queued(p)' PROVE ReleaseOf(e, Way(p, r))'
  <2>0. \A a \in Way(p, r)' : a.type = "lockRelease" /\ Ent(a) = e => ReleaseOf(e, Way(p, r))'
    BY <1>2 DEF ReleaseOf
  <2>1. e \in Old(r) /\ e \in Queued(r)' /\ e \in Queued(r) /\ ~Current(e)
    BY <1>2, <1>4 DEF Old
  <2>2. CASE e \notin Queued(p)
    <3>1. ReleaseOf(e, Way(p, r))
      BY <1>6, <2>1, <2>2 DEF Orderly, Trails
    <3>2. PICK a \in Way(p, r) : a.type = "lockRelease" /\ Ent(a) = e
      BY <3>1 DEF ReleaseOf
    <3>3. a \in Way(p, r)' \/ (p = q /\ r = n /\ a = h)
      BY <1>1, <1>4 DEF Passing, h
    <3>4. ~ (p = q /\ r = n /\ a = h)
      BY <1>1, <2>1, <3>2
    <3> QED
      BY <2>0, <3>2, <3>3, <3>4
  <2>3. CASE e \in Queued(p)
    <3>1. p = n /\ h.type = "lockRelease" /\ e = Ent(h)
      BY <1>1, <1>6, <2>3
    <3>2. r # q
      <4>1. e \notin Queued(q)
        BY <1>3, <3>1 DEF GoodRelease
      <4> QED
        BY <2>1, <4>1
    <3>3. h \in Way(p, r)'
      BY <1>1, <1>4, <3>1, <3>2 DEF Passing, h
    <3> QED
      BY <2>0, <3>1, <3>3
  <2> QED
    BY <2>2, <2>3
<1>7. ASSUME NEW e \in Queued(r)', Current(e)', e.uid \notin Side(p, r) PROVE e \in Queued(p)'
  <2>1. Current(e)
    BY <1>2, <1>7
  <2>2. CASE e \in Queued(r)
    <3>1. e \in Queued(p)
      BY <1>7, <2>1, <2>2 DEF Orderly, Trails
    <3> QED
      BY <1>2, <2>1, <3>1
  <2>3. CASE r = n /\ h.type = "lockRequest" /\ e = Ent(h)
    <3>1. Ent(h) \in Queued(q) /\ h.uid \notin Side(q, n) /\ h.uid \notin Side(p, n)
      BY <1>3, <1>7, <2>3 DEF GoodRequest
    <3>2. p = q
      BY <1>1, <1>3, <2>3, <3>1, OneWay
    <3> QED
      BY <1>1, <1>2, <2>3, <3>1, <3>2
  <2> QED
    BY <1>1, <1>4, <1>7, <2>2, <2>3
<1> QED
  BY <1>5, <1>6, <1>7

\* The entries.
LEMMA HandlingOlds ==
  ASSUME Orderly, Inv', NEW n \in Node, NEW q \in Node, NEW wanted \in BOOLEAN, NEW ack, NEW passed \in BOOLEAN,
         Handling(n, q, wanted, ack, passed)
  PROVE  Olds'
<1>1. loop' = loop /\ reqLC' = reqLC /\ \A k \in Node : LC'[k] >= LC[k]
  BY DEF Handling
<1>2. /\ \A u : Active(u)' = Active(u)
      /\ \A w \in Node : Old(w)' \subseteq Old(w)
  BY HandlingEntries
<1> SUFFICES ASSUME NEW v \in Node, NEW e \in Old(v)'
             PROVE  /\ e.uid # v /\ e.lc <= reqLC'[e.uid]
                    /\ \A u \in Node : LC'[u] >= e.lc /\ (Active(u)' => reqLC'[u] > e.lc)
  BY DEF Olds
<1>3. e \in Old(v) /\ e.lc \in Nat
  BY <1>2, OrderlyTypes DEF Old, Orderly
<1>4. /\ e.uid # v /\ e.lc <= reqLC[e.uid]
      /\ \A u \in Node : LC[u] >= e.lc /\ (Active(u) => reqLC[u] > e.lc)
  BY <1>3 DEF Orderly, Olds
<1>5. ASSUME NEW u \in Node PROVE LC'[u] >= e.lc
  <2>1. LC[u] \in Nat /\ LC'[u] \in Nat
    BY DEF Orderly, Inv, InvChan
  <2> QED
    BY <1>1, <1>3, <1>4, <2>1
<1> QED
  BY <1>1, <1>2, <1>4, <1>5

\* The requester's own view.
LEMMA HandlingOwn ==
  ASSUME Orderly, Inv', NEW n \in Node, NEW q \in Node, NEW wanted \in BOOLEAN, NEW ack, NEW passed \in BOOLEAN,
         Handling(n, q, wanted, ack, passed)
  PROVE  Own'
<1> DEFINE h == First(n, q)
<1>1. /\ loop' = loop /\ reqLC' = reqLC /\ h \in Message
      /\ \A w \in Node : w # n => Queued(w)' = Queued(w) /\ ackedBy'[w] = ackedBy[w]
      /\ \A w \in ackedBy'[n] : \/ w \in ackedBy[n]
                                \/ w = h.by /\ h.type = "lockAck" /\ h.uid = n /\ h.lc = reqLC[n]
  BY DEF Handling
<1>2. /\ \A u : Placed(u)' = Placed(u) /\ Mine(u)' = Mine(u)
      /\ \A w \in Node : \A e \in Queued(w) : Current(e) => e \in Queued(w)'
      /\ \A w \in Node : Old(w)' \subseteq Old(w)
      /\ \A w, u \in Node : Grants(w, u) /\ Placed(u) => Grants(w, u)'
      /\ Good(q, n, h, {})
  BY HandlingEntries
<1> HIDE DEF h
<1> SUFFICES ASSUME NEW u \in Node
             PROVE  /\ Placed(u)' => Mine(u)' \in Queued(u)'
                    /\ loop'[u] = "ticked" => ackedBy'[u] = {}
                    /\ Placed(u)' => \A w \in ackedBy'[u] :
                         w = u \/ (w \in Node /\ Grants(w, u)' /\ \A e \in Old(u)' : e.uid # w)
  BY DEF Own
<1>3. Placed(u)' => Mine(u)' \in Queued(u)'
  BY <1>2, EntryIs DEF Orderly, Own
<1>4. ASSUME loop'[u] = "ticked", NEW w \in ackedBy'[u] PROVE FALSE
  <2>1. loop[u] = "ticked" /\ ackedBy[u] = {}
    BY <1>1, <1>4 DEF Orderly, Own
  <2>2. u = n /\ h.type = "lockAck" /\ h.uid = n /\ h.lc = reqLC[n]
    BY <1>1, <1>4, <2>1
  <2>3. h.lc < reqLC[n] /\ reqLC[n] \in Nat
    BY <1>2, <2>1, <2>2, OrderlyTypes DEF Good, GoodAck, Orderly
  <2> QED
    BY <2>2, <2>3
<1>5. ASSUME Placed(u)', NEW w \in ackedBy'[u]
      PROVE  w = u \/ (w \in Node /\ Grants(w, u)' /\ \A e \in Old(u)' : e.uid # w)
  <2>1. CASE w \in ackedBy[u]
    <3>1. w = u \/ (w \in Node /\ Grants(w, u) /\ \A e \in Old(u) : e.uid # w)
      BY <1>2, <1>5, <2>1 DEF Orderly, Own
    <3> QED
      BY <1>2, <1>5, <3>1
  <2>2. CASE u = n /\ w = h.by /\ h.type = "lockAck" /\ h.uid = n /\ h.lc = reqLC[n]
    <3>1. GoodAck(q, n, h, {}) /\ h.by \in Node
      BY <1>1, <1>2, <2>2, CoreType DEF Good
    <3>2. Current(Ent(h)) /\ Placed(n)
      BY <1>2, <1>5, <2>2 DEF Current, Ent
    <3>3. h.by # n => Grants(h.by, n) /\ \A e \in Old(n) : e.uid # h.by
      BY <2>2, <3>1, <3>2 DEF GoodAck, ReleaseOf
    <3> QED
      BY <1>2, <2>2, <3>1, <3>2, <3>3
  <2> QED
    BY <1>1, <1>5, <2>1, <2>2
<1> QED
  BY <1>3, <1>4, <1>5

\* A node that sends its releases is not asked to wait, and says nothing that could let
\* another in.
LEMMA HandlingReleasing ==
  ASSUME Orderly, Inv', NEW n \in Node, NEW q \in Node, NEW wanted \in BOOLEAN, NEW ack, NEW passed \in BOOLEAN,
         Handling(n, q, wanted, ack, passed)
  PROVE  Releasing'
<1> DEFINE h == First(n, q)
<1>1. /\ loop' = loop /\ reqLC' = reqLC /\ outbox' = outbox /\ h \in Message /\ Carried(q, n, h, {})
      /\ Passing(n, q, wanted, ack, passed)
      /\ wanted => ack \in Message /\ ack.by = n /\ (Sending(n) => ack.lc <= reqLC[n])
      /\ \A w \in Node : w # n => ackedBy'[w] = ackedBy[w]
      /\ \A w \in ackedBy'[n] : \/ w \in ackedBy[n]
                                \/ w = h.by /\ h.type = "lockAck" /\ h.uid = n /\ h.lc = reqLC[n]
  BY DEF Handling, Acknowledging
<1>2. /\ \A e : Current(e)' = Current(e) /\ Ent(e)' = Ent(e)
      /\ \A u : Placed(u)' = Placed(u)
      /\ \A w \in Node : Old(w)' \subseteq Old(w)
  BY HandlingEntries
<1>3. h \in Way(q, n)
  BY <1>1, CarriedType DEF Orderly
<1> SUFFICES ASSUME NEW w \in Node, Sending(w) PROVE Withholds(w)'
  BY <1>1 DEF Releasing, Sending
<1>4. Withholds(w)
  BY DEF Orderly, Releasing
<1>5. \A i \in DOMAIN outbox'[w] : outbox'[w][i][2].uid = w /\ outbox'[w][i][2].lc = reqLC'[w]
  BY <1>1, <1>4 DEF Withholds
<1>6. Old(w)' = {}
  BY <1>2, <1>4 DEF Withholds
<1>7. ASSUME NEW u \in Node, u # w, Placed(u)', w \in ackedBy'[u] PROVE FALSE
  <2>1. Placed(u) /\ w \notin ackedBy[u]
    BY <1>2, <1>4, <1>7 DEF Withholds
  <2>2. u = n /\ w = h.by /\ h.type = "lockAck" /\ h.uid = n /\ h.lc = reqLC[n]
    BY <1>1, <1>7, <2>1
  <2>3. Current(Ent(h))
    BY <2>1, <2>2 DEF Current, Ent
  <2> QED
    BY <1>3, <1>4, <1>7, <2>2, <2>3 DEF Withholds
<1>8. ASSUME NEW p \in Node, NEW r \in Node, NEW m \in Way(p, r)', m.type = "lockAck", m.by = w, m.uid # w
      PROVE  ~Current(Ent(m))
  <2>1. PICK A : Carried(p, r, m, A)'
    BY DEF Way, Carried, Cores
  <2>2. (\E S : Stays(n, q, S, p, r, m, A)) \/ (wanted /\ m = ack) \/ m = h
    <3>1. \/ Stays(n, q, Added(n, q, wanted, ack, passed, r), p, r, m, A)
          \/ Stays(n, q, {}, p, r, m, A)
          \/ (wanted /\ m = ack) \/ m = h
      BY <1>1, <2>1 DEF Passing
    <3> QED
      BY <3>1
  <2>3. CASE \E S : Stays(n, q, S, p, r, m, A)
    <3>1. m \in Way(p, r)
      BY <2>3, CarriedType DEF Stays, Orderly
    <3> QED
      BY <1>4, <1>8, <3>1 DEF Withholds
  <2>4. CASE wanted /\ m = ack
    <3>1. w = n /\ ack \in Message /\ ack.lc <= reqLC[n]
      BY <1>1, <1>8, <2>4
    <3> QED
      BY <1>8, <2>4, <3>1, SendingFirst
  <2>5. CASE m = h
    BY <1>3, <1>4, <1>8, <2>5 DEF Withholds
  <2> QED
    BY <2>2, <2>3, <2>4, <2>5
<1>9. \A p, r \in Node : \A m \in Way(p, r)' :
        m.type = "lockAck" /\ m.by = w /\ m.uid # w => ~Current(Ent(m))'
  BY <1>2, <1>8
<1> QED
  BY <1>5, <1>6, <1>7, <1>9 DEF Withholds

\* Together: a handler of this kind keeps the order.
LEMMA HandlingStep ==
  ASSUME Orderly, Inv', NEW n \in Node, NEW q \in Node, NEW wanted \in BOOLEAN, NEW ack, NEW passed \in BOOLEAN,
         Handling(n, q, wanted, ack, passed)
  PROVE  Orderly'
<1>1. loop' = loop /\ outbox' = outbox /\ n \in Links(q) /\ Passing(n, q, wanted, ack, passed)
  BY DEF Handling
<1>2. Outboxes'
  BY <1>1 DEF Orderly, Outboxes
<1>3. Fine'
  <2> SUFFICES ASSUME NEW p \in Node, NEW r \in Node, NEW m, NEW A, Carried(p, r, m, A)' PROVE Good(p, r, m, A)'
    BY DEF Fine
  <2>1. r \in Links(p)
    <3>1. (\E S : Stays(n, q, S, p, r, m, A)) \/ (p = n /\ r \in Links(n))
      <4>1. \/ Stays(n, q, Added(n, q, wanted, ack, passed, r), p, r, m, A)
            \/ Stays(n, q, {}, p, r, m, A)
            \/ p = n /\ r \in Links(n)
        BY <1>1 DEF Passing
      <4> QED
        BY <4>1
    <3>2. ASSUME NEW S, Stays(n, q, S, p, r, m, A) PROVE r \in Links(p)
      <4>1. PICK B : Carried(p, r, m, B)
        BY <3>2 DEF Stays
      <4> QED
        BY <4>1 DEF Orderly, Fine, Good
    <3> QED
      BY <3>1, <3>2
  <2>2. m.type = "lockRequest" => GoodRequest(p, r, m, A)'
    BY HandlingRequests
  <2>3. m.type = "lockRelease" => GoodRelease(p, r, m, A)'
    BY HandlingReleases
  <2>4. m.type = "lockAck" => GoodAck(p, r, m, A)'
    BY HandlingAcks
  <2>5. Links(p)' = Links(p)
    BY DEF Links
  <2> QED
    BY <2>1, <2>2, <2>3, <2>4, <2>5 DEF Good
<1> QED
  BY <1>2, <1>3, HandlingTrails, HandlingOlds, HandlingOwn, HandlingReleasing DEF Orderly

\* What a handler that may run finds.
LEMMA Received ==
  ASSUME Orderly, NEW n \in Node, NEW q \in Node, NEW kind, Takes(n, q, kind)
  PROVE  /\ chan[q][n] # <<>> /\ Head(chan[q][n]) \in Message /\ Clock(n, q) \in Nat /\ n # q
         /\ First(n, q) \in Message /\ First(n, q).type = kind /\ First(n, q).by = Head(chan[q][n]).by
         /\ First(n, q).uid = Head(chan[q][n]).uid /\ First(n, q).lc = Head(chan[q][n]).lc
         /\ Carried(q, n, First(n, q), {}) /\ Good(q, n, First(n, q), {})
         /\ n \in Links(q)
         /\ loop' = loop /\ reqLC' = reqLC /\ outbox' = outbox
<1> DEFINE m == Head(chan[q][n])
<1>1. /\ chan[q][n] # <<>> /\ m \in Message /\ m.type = kind /\ Clock(n, q) \in Nat
      /\ loop' = loop /\ reqLC' = reqLC /\ outbox' = outbox
  BY TakesType DEF Orderly, Takes, loopVars
<1> HIDE DEF m
<1>2. /\ Core(m) \in Message /\ Core(m).type = kind /\ Core(m).by = m.by
      /\ Core(m).uid = m.uid /\ Core(m).lc = m.lc
  BY <1>1, CoreType
<1>3. Carried(q, n, Core(m), {})
  BY <1>1, CarriedType DEF Orderly, m
<1>4. Good(q, n, Core(m), {})
  BY <1>3 DEF Orderly, Fine
<1>5. n \in Links(q) /\ n # q
  BY <1>4, LinksType DEF Good
<1> QED
  BY <1>1, <1>2, <1>3, <1>4, <1>5 DEF First, m

\* In the middle of its request or of its release a node acknowledges no later request.
LEMMA Waits ==
  ASSUME Inv', Patient', reqLC' = reqLC, NEW n \in Node, NEW q \in Node,
         NEW ack \in Message, ack.type = "lockAck", ack.by = n, ack \in Cores(chan[n][q])', Between(n)'
  PROVE  /\ ack.lc <= reqLC[n]
         /\ loop'[n] = "ticked" /\ (\E e \in Queued(n)' : e.lc = ack.lc) => ack.lc < reqLC[n]
<1>1. PICK i \in DOMAIN chan'[n][q] : ack = Core(chan'[n][q][i])
  BY DEF Cores
<1>2. chan'[n][q][i] \in Message
  <2>1. chan'[n][q] \in Seq(Stamped)
    BY DEF Inv, InvChan, Channels, Outgoing
  <2> QED
    BY <2>1, Elements DEF Stamped
<1>3. chan'[n][q][i].type = "lockAck" /\ chan'[n][q][i].by = n /\ chan'[n][q][i].lc = ack.lc
  BY <1>1, <1>2, CoreType
<1>4. ~ (ack.lc > reqLC[n])
  BY <1>3 DEF Patient, AcksLaterOne
<1>5. ack.lc \in Nat /\ reqLC[n] \in Nat
  BY CoreType DEF Inv, InvLoop
<1>6. ASSUME loop'[n] = "ticked", NEW e \in Queued(n)', e.lc = ack.lc PROVE ack.lc # reqLC[n]
  <2>1. ~ Known(queue'[n], reqLC[n])
    BY <1>6 DEF Patient
  <2> QED
    BY <1>6, <2>1, KnownEntries DEF Queued
<1> QED
  BY <1>4, <1>5, <1>6

\* The acknowledgement of the first request of a queue.
LEMMA AckForType ==
  ASSUME NEW n \in Node, NEW new \in Queues, new # <<>>
  PROVE  /\ AckFor(n, new) \in Message /\ AckFor(n, new).ts = 0
         /\ AckFor(n, new).type = "lockAck" /\ AckFor(n, new).by = n
         /\ AckFor(n, new).lc = Head(new).lc /\ Head(new) \in Entries(new)
<1>1. Head(new) \in Entries(new) /\ Head(new) \in Entry
  BY EntriesType
<1>2. Head(new).lc \in Nat /\ Head(new).uid \in Node
  BY <1>1 DEF Entry
<1> QED
  BY <1>1, <1>2, MsgType DEF AckFor, Msg

\* Who acknowledges the first request in its queue is behind it.
LEMMA AcknowledgesFirst ==
  ASSUME Orderly, Inv', NEW n \in Node, reqLC' = reqLC,
         NEW new \in Queues, new # <<>>, queue'[n] = new,
         Active(n)' => Placed(n) \/ Head(new).lc < reqLC[n],
         \A e \in Entries(new) : e \in Queued(n) \/ Current(e),
         \A e \in Queued(n) : Current(e) => e \in Entries(new)
  PROVE  AckFor(n, new) \in Message /\ AckFor(n, new).ts = 0 /\ Acknowledging(n, AckFor(n, new))
<1> DEFINE f == Head(new)
           ack == AckFor(n, new)
<1>1. f \in Entries(new) /\ (\A e \in Entries(new) : e = f \/ e.lc > f.lc) /\ f \in Entry
  BY EntriesType
<1>2. f.lc \in Nat /\ f.uid \in Node
  BY <1>1 DEF Entry
<1>3. ack \in Message /\ ack.ts = 0 /\ ack.type = "lockAck" /\ ack.by = n /\ ack.uid = f.uid /\ ack.lc = f.lc
  BY <1>2, MsgType DEF AckFor, Msg
<1> HIDE DEF f, ack
<1>4. Ent(ack) = f
  BY <1>1, <1>3, EntryIs DEF Ent
<1>5. CASE Current(f)
  <2>1. Placed(f.uid) /\ f.lc = reqLC[f.uid] /\ f = Mine(f.uid)
    BY <1>1, <1>5, EntryIs DEF Current
  <2>2. ASSUME f.uid # n PROVE Grants(n, f.uid)'
    <3>1. Mine(f.uid)' \in Queued(n)'
      BY <1>1, <2>1 DEF Mine, Queued
    <3>2. f.lc <= LC'[n] /\ LC'[n] \in Nat
      BY <1>1 DEF Inv, InvQueue, InvChan, Entries
    <3>3. ASSUME Active(n)' PROVE reqLC[n] > f.lc
      <4>0. f.lc < reqLC[n] /\ reqLC[n] \in Nat => reqLC[n] > f.lc
        BY <1>2
      <4> SUFFICES ASSUME Placed(n) PROVE reqLC[n] > f.lc
        BY <3>3, <4>0, OrderlyTypes DEF Orderly, f
      <4>1. Placed(n)
        OBVIOUS
      <4>2. Mine(n) \in Queued(n) /\ Current(Mine(n)) /\ Mine(n).uid = n /\ Mine(n).lc = reqLC[n]
        BY <4>1, EntryIs DEF Orderly, Own
      <4>3. Mine(n) \in Entries(new) /\ Mine(n) # f
        BY <2>2, <4>2
      <4> QED
        BY <1>1, <4>2, <4>3
    <3>4. LC'[n] >= f.lc
      BY <1>2, <3>2
    <3> QED
      BY <2>1, <3>1, <3>3, <3>4 DEF Grants
  <2>3. loop[f.uid] # "ticked" /\ f.lc <= reqLC[f.uid]
    BY <1>2, <2>1 DEF Placed
  <2> QED
    BY <1>3, <1>4, <2>2, <2>3 DEF Acknowledging, ack
<1>6. CASE ~Current(f)
  <2>1. f \in Old(n)
    BY <1>1, <1>6 DEF Old
  <2>2. /\ f.lc <= reqLC[f.uid] /\ (Active(f.uid) => reqLC[f.uid] > f.lc)
    BY <1>2, <2>1 DEF Orderly, Olds
  <2>3. reqLC[f.uid] \in Nat
    BY <1>2, OrderlyTypes DEF Orderly
  <2>4. loop[f.uid] = "ticked" => f.lc < reqLC[f.uid]
    BY <1>2, <2>2, <2>3 DEF Active
  <2> QED
    BY <1>3, <1>4, <1>6, <2>2, <2>4 DEF Acknowledging, ack
<1> QED
  BY <1>5, <1>6

\* A handler that acknowledges the first request in the queue.
LEMMA AcknowledgesInTime ==
  ASSUME Orderly, Inv', Patient', NEW n \in Node, NEW q \in Node, q \in Links(n),
         loop' = loop, reqLC' = reqLC, outbox' = outbox, NEW wanted, wanted, NEW passed,
         NEW new \in Queues, new # <<>>, queue'[n] = new, Passing(n, q, wanted, AckFor(n, new), passed),
         \A e \in Entries(new) : e \in Queued(n) \/ Current(e),
         \A e \in Queued(n) : Current(e) => e \in Entries(new)
  PROVE  /\ AckFor(n, new) \in Message /\ Acknowledging(n, AckFor(n, new))
         /\ Sending(n) => AckFor(n, new).lc <= reqLC[n]
<1> DEFINE ack == AckFor(n, new)
<1>1. ack \in Message /\ ack.type = "lockAck" /\ ack.by = n /\ ack.lc = Head(new).lc /\ Head(new) \in Queued(n)'
  BY AckForType DEF Queued
<1>2. ack \in Cores(chan[n][q])'
  BY DEF Passing
<1> HIDE DEF ack
<1>3. ASSUME Between(n)'
      PROVE  ack.lc <= reqLC[n] /\ (loop'[n] = "ticked" => ack.lc < reqLC[n])
  <2>1. /\ ack.lc <= reqLC[n]
        /\ loop'[n] = "ticked" /\ (\E e \in Queued(n)' : e.lc = ack.lc) => ack.lc < reqLC[n]
    BY <1>1, <1>2, <1>3, Waits
  <2> QED
    BY <1>1, <2>1
<1>4. Sending(n) => ack.lc <= reqLC[n]
  BY <1>3 DEF Sending, Between
<1>5. Active(n)' => Placed(n) \/ Head(new).lc < reqLC[n]
  BY <1>1, <1>3 DEF Active, Placed, Between
<1> QED
  BY <1>4, <1>5, AcknowledgesFirst DEF ack

\* The handler of a request.
LEMMA RequestOrderly ==
  ASSUME Orderly, NEW n \in Node, NEW q \in Node, handle_lockRequest(n, q), Patient'
  PROVE  Orderly'
<1> DEFINE m == Head(chan[q][n])
           h == First(n, q)
           new == Add(queue[n], m.lc, m.uid)
<1>1. Takes(n, q, "lockRequest") /\ ackedBy' = ackedBy /\ Inv' /\ \A k \in Node : LC'[k] >= LC[k]
  BY RequestStep DEF handle_lockRequest, Orderly
<1>2. /\ chan[q][n] # <<>> /\ m \in Message /\ Clock(n, q) \in Nat /\ n # q
      /\ h \in Message /\ h.type = "lockRequest" /\ h.uid = m.uid /\ h.lc = m.lc
      /\ Carried(q, n, h, {}) /\ Good(q, n, h, {})
      /\ n \in Links(q)
      /\ loop' = loop /\ reqLC' = reqLC /\ outbox' = outbox
  BY <1>1, Received
<1>3. m.lc \in Nat /\ m.uid \in Node /\ Ent(h) = [lc |-> m.lc, uid |-> m.uid] /\ Ent(h).lc = m.lc
  BY <1>2, CoreType DEF Ent
<1>4. queue[n] \in Queues /\ queue \in [Node -> Queues]
  BY DEF Orderly, Inv, InvQueue
<1>5. CASE ~Known(queue[n], m.lc)
  <2> DEFINE wanted == IsFirst(new, m.lc)
             ack == Msg("lockAck", m.uid, m.lc, n)
             lc2 == IF wanted THEN Clock(n, q) + Ticks(n, n) ELSE Clock(n, q)
  <2>1. queue' = [queue EXCEPT ![n] = new] /\ AckAndForward(n, q, wanted, ack)
    BY <1>5 DEF handle_lockRequest
  <2>2. Entries(new) = Entries(queue[n]) \cup {Ent(h)} /\ new \in Queues
    BY <1>3, <1>4, <1>5, AddEntries, AddType
  <2>3. wanted \in BOOLEAN /\ (wanted <=> Head(new).lc = m.lc)
    BY DEF IsFirst
  <2>4. lc2 \in Nat
    BY <1>2, TicksType
  <2>5. chan' = Exchanged(chan, q, n, Then(IF wanted THEN Distribute(n, n, Clock(n, q), ack) ELSE Nothing,
                                           Distribute(n, q, lc2, Head(chan[q][n]))))
    BY <2>1 DEF AckAndForward
  <2> HIDE DEF m, h, new, wanted, ack, lc2
  <2>6. queue'[n] = new /\ Queued(n)' = Queued(n) \cup {Ent(h)} /\ \A w \in Node : w # n => Queued(w)' = Queued(w)
    BY <1>4, <2>1, <2>2 DEF Queued
  <2>7. Current(Ent(h))
    BY <1>2 DEF Good, GoodRequest
  <2>8. wanted => new # <<>> /\ ack = AckFor(n, new)
    <3> SUFFICES ASSUME wanted PROVE new # <<>> /\ ack = AckFor(n, new)
      OBVIOUS
    <3>1. new # <<>> /\ Head(new) \in Entries(new) /\ \A e, f \in Entries(new) : e.lc = f.lc => e = f
      BY <2>2, EntriesType
    <3>2. Head(new) = Ent(h)
      BY <1>3, <2>2, <2>3, <3>1
    <3> QED
      BY <1>3, <3>1, <3>2 DEF AckFor, ack
  <2>9. wanted => ack \in Message /\ ack.ts = 0
    BY <2>2, <2>8, AckForType
  <2>10. Passing(n, q, wanted, ack, TRUE)
    BY <1>2, <2>3, <2>4, <2>5, <2>9, ExchangePassing DEF Orderly
  <2>11. wanted => ack \in Message /\ Acknowledging(n, ack) /\ (Sending(n) => ack.lc <= reqLC[n])
    <3>1. /\ \A e \in Entries(new) : e \in Queued(n) \/ Current(e)
          /\ \A e \in Queued(n) : Current(e) => e \in Entries(new)
      BY <2>2, <2>7 DEF Queued
    <3>2. q \in Links(n)
      BY <1>2, LinksType
    <3> SUFFICES ASSUME wanted
                 PROVE  ack \in Message /\ Acknowledging(n, ack) /\ (Sending(n) => ack.lc <= reqLC[n])
      OBVIOUS
    <3>3. new # <<>> /\ ack = AckFor(n, new) /\ Passing(n, q, wanted, AckFor(n, new), TRUE)
      BY <2>8, <2>10
    <3>4. /\ AckFor(n, new) \in Message /\ Acknowledging(n, AckFor(n, new))
          /\ Sending(n) => AckFor(n, new).lc <= reqLC[n]
      BY <1>1, <1>2, <2>2, <2>6, <3>1, <3>2, <3>3, AcknowledgesInTime
    <3> QED
      BY <3>3, <3>4
  <2>12. Handling(n, q, wanted, ack, TRUE)
    BY <1>1, <1>2, <2>6, <2>10, <2>11 DEF Handling, h
  <2> QED
    BY <1>1, <2>3, <2>12, HandlingStep
<1>6. CASE Known(queue[n], m.lc)
  <2>1. queue' = queue /\ chan' = Taken(chan, q, n)
    BY <1>6 DEF handle_lockRequest
  <2>2. Passing(n, q, FALSE, 0, FALSE)
    BY <1>2, <2>1, TakenPassing DEF Orderly
  <2>3. \A w \in Node : Queued(w)' = Queued(w)
    BY <2>1 DEF Queued
  <2> HIDE DEF m, h
  <2>4. Handling(n, q, FALSE, 0, FALSE)
    BY <1>1, <1>2, <2>2, <2>3 DEF Handling, h
  <2> QED
    BY <1>1, <2>4, HandlingStep
<1> QED
  BY <1>5, <1>6

\* The handler of an acknowledgement.
LEMMA AckOrderly ==
  ASSUME Orderly, NEW n \in Node, NEW q \in Node, handle_lockAck(n, q), ackedBy \in [Node -> SUBSET Node]
  PROVE  Orderly'
<1> DEFINE m == Head(chan[q][n])
           h == First(n, q)
<1>1. Takes(n, q, "lockAck") /\ queue' = queue /\ Inv' /\ \A k \in Node : LC'[k] >= LC[k]
  BY AckStep DEF handle_lockAck, Orderly
<1>2. /\ chan[q][n] # <<>> /\ m \in Message /\ Clock(n, q) \in Nat /\ n # q
      /\ h \in Message /\ h.type = "lockAck" /\ h.uid = m.uid /\ h.lc = m.lc /\ h.by = m.by
      /\ Carried(q, n, h, {}) /\ Good(q, n, h, {})
      /\ n \in Links(q)
      /\ loop' = loop /\ reqLC' = reqLC /\ outbox' = outbox
  BY <1>1, Received
<1>3. \A w \in Node : Queued(w)' = Queued(w)
  BY <1>1 DEF Queued
<1>4. CASE m.uid = n
  <2>1. /\ chan' = Taken(chan, q, n)
        /\ ackedBy' = IF m.lc = reqLC[n] THEN [ackedBy EXCEPT ![n] = @ \cup {m.by}] ELSE ackedBy
    BY <1>4 DEF handle_lockAck
  <2>2. Passing(n, q, FALSE, 0, FALSE)
    BY <1>2, <2>1, TakenPassing DEF Orderly
  <2> HIDE DEF m, h
  <2>3. /\ \A w \in Node : w # n => ackedBy'[w] = ackedBy[w]
        /\ \A w \in ackedBy'[n] : w \in ackedBy[n] \/ (w = h.by /\ h.uid = n /\ h.lc = reqLC[n])
    BY <1>2, <1>4, <2>1
  <2>4. Handling(n, q, FALSE, 0, FALSE)
    BY <1>1, <1>2, <1>3, <2>2, <2>3 DEF Handling, h
  <2> QED
    BY <1>1, <2>4, HandlingStep
<1>5. CASE m.uid # n
  <2>1. chan' = Exchanged(chan, q, n, Distribute(n, q, Clock(n, q), m)) /\ ackedBy' = ackedBy
    BY <1>5 DEF handle_lockAck
  <2> DEFINE out == Distribute(n, q, Clock(n, q), m)
  <2>2. Then(Nothing, out) = out
    <3>1. out \in Outgoing(Message)
      BY <1>2, DistributeCopies
    <3> HIDE DEF out
    <3>2. out = [r \in Node |-> out[r]] /\ \A r \in Node : out[r] \in Seq(Message)
      BY <3>1 DEF Outgoing
    <3>3. \A r \in Node : <<>> \o out[r] = out[r]
      BY <3>2
    <3>4. Then(Nothing, out) = [r \in Node |-> out[r]]
      BY <3>3 DEF Then, Nothing
    <3> QED
      BY <3>2, <3>4
  <2> DEFINE wanted == FALSE
  <2>3. chan' = Exchanged(chan, q, n, Then(IF wanted THEN Distribute(n, n, Clock(n, q), 0) ELSE Nothing,
                                           Distribute(n, q, Clock(n, q), Head(chan[q][n]))))
    BY <2>1, <2>2
  <2> HIDE DEF out
  <2>4. wanted \in BOOLEAN /\ ~wanted
    OBVIOUS
  <2> HIDE DEF wanted, m, h
  <2>5. Passing(n, q, wanted, 0, TRUE)
    BY <1>2, <2>3, <2>4, ExchangePassing DEF Orderly
  <2>6. Handling(n, q, wanted, 0, TRUE)
    BY <1>1, <1>2, <1>3, <2>1, <2>4, <2>5 DEF Handling, h
  <2> QED
    BY <1>1, <2>4, <2>6, HandlingStep
<1> QED
  BY <1>4, <1>5

\* A release that arrives is the release of the first entry of the queue.
LEMMA ReleasesFirst ==
  ASSUME Orderly, NEW n \in Node, NEW q \in Node, Takes(n, q, "lockRelease")
  PROVE  queue[n] # <<>> /\ Head(queue[n]) = Ent(First(n, q))
<1> DEFINE h == First(n, q)
           e == Head(queue[n])
<1>1. /\ chan[q][n] # <<>> /\ h \in Message /\ h.type = "lockRelease" /\ n \in Links(q) /\ Good(q, n, h, {})
      /\ h = Core(Head(chan[q][n]))
  BY Received DEF First
<1> HIDE DEF h
<1>2. GoodRelease(q, n, h, {}) /\ h.lc \in Nat /\ Ent(h).lc = h.lc
  BY <1>1, CoreType DEF Good, Ent
<1>3. Ent(h) \in Old(n) /\ Ent(h) \in Queued(n)
  BY <1>2 DEF GoodRelease, Old
<1>4. queue[n] \in Queues /\ queue[n] # <<>>
  BY <1>3, EntriesType, OrderlyTypes DEF Queued, Orderly
<1>5. e \in Queued(n) /\ (Ent(h) = e \/ Ent(h).lc > e.lc)
  BY <1>3, <1>4, EntriesType DEF Queued
<1> HIDE DEF e
<1> SUFFICES ASSUME Ent(h).lc > e.lc PROVE FALSE
  BY <1>4, <1>5 DEF h, e
<1>6. e \in Entry /\ e.lc \in Nat /\ e.uid \in Node
  BY <1>5, OrderlyTypes DEF Orderly
<1>7. CASE Current(e)
  <2>1. reqLC[e.uid] > Ent(h).lc /\ e.lc = reqLC[e.uid]
    BY <1>3, <1>6, <1>7 DEF Orderly, Olds, Current, Active
  <2> QED
    BY <1>2, <1>6, <2>1
<1>8. CASE ~Current(e)
  <2>1. e \in Old(n)
    BY <1>5, <1>8 DEF Old
  <2>2. e \notin Queued(q)
    <3> SUFFICES ASSUME e \in Queued(q) PROVE FALSE
      OBVIOUS
    <3>1. e.lc > h.lc
      BY <1>2 DEF GoodRelease
    <3> QED
      BY <1>2, <1>6, <3>1
  <2>3. e.uid \notin Side(q, n)
    BY <1>1, <2>1, <2>2 DEF Orderly, Trails
  <2>4. ReleaseOf(e, Way(q, n))
    BY <1>1, <2>1, <2>2, <2>3 DEF Orderly, Trails
  <2>5. PICK a \in Way(q, n) : a.type = "lockRelease" /\ Ent(a) = e
    BY <2>4 DEF ReleaseOf
  <2>6. PICK A : Carried(q, n, a, A) /\ Good(q, n, a, A)
    BY WayGood
  <2>7. a.lc = e.lc /\ a # h
    BY <1>2, <1>6, <2>5 DEF Ent
  <2>8. h \in A
    <3>1. chan[q][n] \in Seq(Message)
      BY CarriedType DEF Orderly
    <3>2. 1 \in DOMAIN chan[q][n] /\ h = Core(chan[q][n][1]) /\ \A i \in DOMAIN chan[q][n] : i = 1 \/ 1 < i
      BY <1>1, <3>1
    <3>3. CASE a \in Pending(q, n) /\ A = Cores(chan[q][n])
      BY <3>2, <3>3 DEF Cores
    <3>4. CASE \E i \in DOMAIN chan[q][n] : a = Core(chan[q][n][i]) /\ A = Ahead(chan[q][n], i)
      BY <2>7, <3>2, <3>4 DEF Ahead
    <3> QED
      BY <2>6, <3>3, <3>4 DEF Carried
  <2>9. h.lc < a.lc
    BY <1>1, <2>5, <2>6, <2>8 DEF Good, GoodRelease
  <2> QED
    BY <1>2, <1>6, <2>7, <2>9
<1> QED
  BY <1>7, <1>8

\* The handler of a release.
LEMMA ReleaseOrderly ==
  ASSUME Orderly, NEW n \in Node, NEW q \in Node, handle_lockRelease(n, q), Patient'
  PROVE  Orderly'
<1> DEFINE m == Head(chan[q][n])
           h == First(n, q)
           new == Pop(queue[n])
           wanted == new # <<>>
           ack == AckFor(n, new)
           lc2 == IF wanted THEN Clock(n, q) + Ticks(n, n) ELSE Clock(n, q)
<1>1. /\ Takes(n, q, "lockRelease") /\ ackedBy' = ackedBy /\ Inv' /\ (\A k \in Node : LC'[k] >= LC[k])
      /\ queue' = [queue EXCEPT ![n] = new]
  BY ReleaseStep DEF handle_lockRelease, Orderly
<1>2. /\ chan[q][n] # <<>> /\ m \in Message /\ Clock(n, q) \in Nat /\ n # q
      /\ h \in Message /\ h.type = "lockRelease" /\ h.uid = m.uid /\ h.lc = m.lc
      /\ Carried(q, n, h, {}) /\ Good(q, n, h, {})
      /\ n \in Links(q)
      /\ loop' = loop /\ reqLC' = reqLC /\ outbox' = outbox
  BY <1>1, Received
<1>3. queue[n] # <<>> /\ Head(queue[n]) = Ent(h) /\ Ent(h).lc = m.lc
  BY <1>1, <1>2, ReleasesFirst DEF Ent
<1>4. queue[n] \in Queues /\ queue \in [Node -> Queues]
  BY DEF Orderly, Inv, InvQueue
<1>5. new \in Queues /\ Entries(new) = Queued(n) \ {Ent(h)} /\ \A e \in Queued(n) : e = Ent(h) \/ e.lc > h.lc
  BY <1>2, <1>3, <1>4, PopType, PopEntries, EntriesType DEF Queued
<1>6. AckAndForward(n, q, wanted, ack)
  BY <1>3 DEF handle_lockRelease, Accepts
<1>7. lc2 \in Nat /\ wanted \in BOOLEAN
  BY <1>2, TicksType
<1>8. chan' = Exchanged(chan, q, n, Then(IF wanted THEN Distribute(n, n, Clock(n, q), ack) ELSE Nothing,
                                         Distribute(n, q, lc2, Head(chan[q][n]))))
  BY <1>6 DEF AckAndForward
<1>9. ~Current(Ent(h))
  BY <1>2 DEF Good, GoodRelease, Old
<1> HIDE DEF m, h, new, ack, lc2
<1>10. queue'[n] = new /\ Queued(n)' = Queued(n) \ {Ent(h)} /\ \A w \in Node : w # n => Queued(w)' = Queued(w)
  BY <1>1, <1>4, <1>5 DEF Queued
<1>11. Passing(n, q, wanted, ack, TRUE)
  <2>1. wanted => ack \in Message /\ ack.ts = 0
    BY <1>5, AckForType DEF ack
  <2> HIDE DEF wanted
  <2> QED
    BY <1>2, <1>7, <1>8, <2>1, ExchangePassing DEF Orderly
<1>12. wanted => ack \in Message /\ Acknowledging(n, ack) /\ (Sending(n) => ack.lc <= reqLC[n])
  <2> SUFFICES ASSUME wanted PROVE ack \in Message /\ Acknowledging(n, ack) /\ (Sending(n) => ack.lc <= reqLC[n])
    OBVIOUS
  <2>1. /\ \A e \in Entries(new) : e \in Queued(n) \/ Current(e)
        /\ \A e \in Queued(n) : Current(e) => e \in Entries(new)
    BY <1>5, <1>9
  <2>2. q \in Links(n) /\ new # <<>>
    BY <1>2, LinksType
  <2> HIDE DEF wanted
  <2> QED
    BY <1>1, <1>2, <1>5, <1>10, <1>11, <2>1, <2>2, AcknowledgesInTime DEF ack
<1> HIDE DEF wanted
<1>13. \A e \in Queued(n)' : e.lc > h.lc
  BY <1>5, <1>10
<1>14. Handling(n, q, wanted, ack, TRUE)
  BY <1>1, <1>2, <1>10, <1>11, <1>12, <1>13 DEF Handling, h
<1> QED
  BY <1>1, <1>7, <1>14, HandlingStep

-----------------------------------------------------------------------------
(***************************************************************************)
(* The steps of the loop keep the order.                                   *)
(***************************************************************************)
\* A step that changes neither the queues nor who waits for the lock, and sends only
\* what is good.
LEMMA QuietStep ==
  ASSUME Orderly, Inv', Outboxes', queue' = queue, reqLC' = reqLC, ackedBy' = ackedBy,
         \A k \in Node : LC'[k] >= LC[k],
         \A u \in Node : /\ Placed(u)' <=> Placed(u)
                         /\ loop'[u] = "ticked" <=> loop[u] = "ticked",
         \A p, r \in Node : /\ \A m, A : Carried(p, r, m, A)' =>
                                 Carried(p, r, m, A) \/ (Good(p, r, m, A)' /\ ~ Sending(m.by)')
                            /\ Way(p, r) \subseteq Way(p, r)',
         \A u \in Node : Sending(u)' => /\ Sending(u)
                                        /\ \A i \in DOMAIN outbox'[u] : \E j \in DOMAIN outbox[u] :
                                             outbox'[u][i] = outbox[u][j]
  PROVE  Orderly'
<1>1. /\ \A u \in Node : (Active(u)' <=> Active(u)) /\ Mine(u)' = Mine(u)
      /\ \A w \in Node : Queued(w)' = Queued(w)
      /\ \A e : Ent(e)' = Ent(e)
      /\ \A e \in Entry : Current(e)' <=> Current(e)
  BY DEF Active, Mine, Queued, Ent, Current, Entry
<1>2. \A w \in Node : Old(w)' = Old(w)
  BY <1>1, OrderlyTypes DEF Old, Orderly
<1>3. \A u \in Node : LC[u] \in Nat /\ LC'[u] \in Nat /\ reqLC[u] \in Nat
  BY DEF Orderly, Inv, InvChan, InvLoop
<1>4. ASSUME NEW w \in Node, NEW u \in Node, Grants(w, u) PROVE Grants(w, u)'
  <2>1. LC'[w] >= reqLC[u]
    BY <1>3, <1>4 DEF Grants
  <2> QED
    BY <1>1, <1>4, <2>1 DEF Grants
<1>5. ASSUME NEW p \in Node, NEW r \in Node, NEW m, NEW A, Carried(p, r, m, A) PROVE Good(p, r, m, A)'
  <2>1. Good(p, r, m, A) /\ m \in Message
    BY <1>5, CarriedType DEF Orderly, Fine
  <2>2. /\ m.uid \in Node /\ m.by \in Node /\ r \in Links(p)
        /\ Ent(m) \in Entry /\ (Current(Ent(m))' <=> Current(Ent(m)))
    BY <1>1, <2>1, CoreType, EntryIs DEF Good
  <2>3. ASSUME m.type = "lockRequest" PROVE GoodRequest(p, r, m, A)'
    <3>1. GoodRequest(p, r, m, A)
      BY <2>1, <2>3 DEF Good
    <3> QED
      BY <1>1, <2>2, <3>1 DEF GoodRequest
  <2>4. ASSUME m.type = "lockRelease" PROVE GoodRelease(p, r, m, A)'
    <3>1. GoodRelease(p, r, m, A)
      BY <2>1, <2>4 DEF Good
    <3> QED
      BY <1>1, <1>2, <2>2, <3>1 DEF GoodRelease
  <2>5. ASSUME m.type = "lockAck" PROVE GoodAck(p, r, m, A)'
    <3>1. GoodAck(p, r, m, A)
      BY <2>1, <2>5 DEF Good
    <3>2. Current(Ent(m)) /\ m.by # m.uid => Grants(m.by, m.uid)'
      BY <1>4, <2>2, <3>1 DEF GoodAck
    <3>3. \A e : ReleaseOf(e, A)' = ReleaseOf(e, A)
      BY DEF ReleaseOf, Ent
    <3> QED
      BY <1>1, <1>2, <2>2, <3>1, <3>2, <3>3 DEF GoodAck
  <2> QED
    BY <2>2, <2>3, <2>4, <2>5 DEF Good, Links
<1>6. Fine'
  BY <1>5 DEF Fine
<1>7. Olds'
  <2> SUFFICES ASSUME NEW v \in Node, NEW e \in Old(v)'
               PROVE  /\ e.uid # v /\ e.lc <= reqLC'[e.uid]
                      /\ \A u \in Node : LC'[u] >= e.lc /\ (Active(u)' => reqLC'[u] > e.lc)
    BY DEF Olds
  <2>1. e \in Old(v) /\ e.lc \in Nat
    BY <1>2, OrderlyTypes DEF Old, Orderly
  <2>2. /\ e.uid # v /\ e.lc <= reqLC[e.uid]
        /\ \A u \in Node : LC[u] >= e.lc /\ (Active(u) => reqLC[u] > e.lc)
    BY <2>1 DEF Orderly, Olds
  <2>3. \A u \in Node : LC'[u] >= e.lc
    BY <1>3, <2>1, <2>2
  <2> QED
    BY <1>1, <2>2, <2>3
<1>8. Trails'
  <2> SUFFICES ASSUME NEW p \in Node, NEW r \in Links(p)
               PROVE  /\ \A e \in Old(r)' : e.uid \in Side(p, r) => e \in Queued(p)'
                      /\ \A e \in Old(r)' : e.uid \notin Side(p, r) /\ e \notin Queued(p)' => ReleaseOf(e, Way(p, r))'
                      /\ \A e \in Queued(r)' : Current(e)' /\ e.uid \notin Side(p, r) => e \in Queued(p)'
    BY DEF Trails, Links, Side, Closed
  <2>1. r \in Node
    BY LinksType
  <2>2. \A e : ReleaseOf(e, Way(p, r)) => ReleaseOf(e, Way(p, r))'
    BY <1>1, <2>1 DEF ReleaseOf
  <2>3. \A e \in Queued(r) : e \in Entry
    BY <2>1, OrderlyTypes DEF Orderly
  <2> QED
    BY <1>1, <1>2, <2>1, <2>2, <2>3 DEF Orderly, Trails
<1>9. Own'
  <2> SUFFICES ASSUME NEW u \in Node
               PROVE  /\ Placed(u)' => Mine(u)' \in Queued(u)'
                      /\ loop'[u] = "ticked" => ackedBy'[u] = {}
                      /\ Placed(u)' => \A w \in ackedBy'[u] :
                           w = u \/ (w \in Node /\ Grants(w, u)' /\ \A e \in Old(u)' : e.uid # w)
    BY DEF Own
  <2> QED
    BY <1>1, <1>2, <1>4 DEF Orderly, Own
<1>10. Releasing'
  <2> SUFFICES ASSUME NEW n \in Node, Sending(n)' PROVE Withholds(n)'
    BY DEF Releasing
  <2>1. Withholds(n)
    BY DEF Orderly, Releasing
  <2>2. \A i \in DOMAIN outbox'[n] : outbox'[n][i][2].uid = n /\ outbox'[n][i][2].lc = reqLC'[n]
    BY <2>1 DEF Withholds
  <2>3. Old(n)' = {} /\ \A u \in Node : u # n /\ Placed(u)' => n \notin ackedBy'[u]
    BY <1>2, <2>1 DEF Withholds
  <2>4. ASSUME NEW p \in Node, NEW r \in Node, NEW m \in Way(p, r)', m.type = "lockAck", m.by = n, m.uid # n
        PROVE  ~Current(Ent(m))'
    <3>1. PICK A : Carried(p, r, m, A)'
      BY DEF Way, Carried, Cores
    <3>2. Carried(p, r, m, A)
      BY <2>4, <3>1
    <3>3. m \in Way(p, r) /\ m \in Message
      BY <3>2, CarriedType DEF Orderly
    <3>4. ~Current(Ent(m)) /\ Ent(m) \in Entry
      BY <2>1, <2>4, <3>3, EntryIs DEF Withholds
    <3> QED
      BY <1>1, <3>4
  <2> QED
    BY <2>2, <2>3, <2>4 DEF Withholds
<1> QED
  BY <1>6, <1>7, <1>8, <1>9, <1>10 DEF Orderly

\* A message sent from the outbox was under way before.
LEMMA SendOrderly ==
  ASSUME Orderly, NEW n \in Node, LoopSend(n)
  PROVE  Orderly'
<1>1. /\ Inv' /\ \A k \in Node : LC'[k] >= LC[k]
      /\ queue' = queue /\ reqLC' = reqLC /\ ackedBy' = ackedBy /\ loop' = loop
  BY LoopStep DEF Orderly, Advance, LoopSend
<1>2. /\ Outboxes'
      /\ \A p, r \in Node : (\A m, A : Carried(p, r, m, A)' => Carried(p, r, m, A)) /\ Way(p, r) \subseteq Way(p, r)'
  BY SendCarried DEF Orderly
<1>3. \A u \in Node : /\ Placed(u)' <=> Placed(u)
                      /\ loop'[u] = "ticked" <=> loop[u] = "ticked"
  BY <1>1 DEF Placed
<1>4. ASSUME NEW u \in Node, Sending(u)'
      PROVE  Sending(u) /\ \A i \in DOMAIN outbox'[u] : \E j \in DOMAIN outbox[u] : outbox'[u][i] = outbox[u][j]
  <2>1. /\ outbox \in [Node -> Outbox] /\ outbox[n] # <<>>
        /\ outbox' = [outbox EXCEPT ![n] = Tail(outbox[n])]
    BY DEF Orderly, Inv, InvLoop, LoopSend
  <2>2. CASE u = n
    <3>1. \A i \in DOMAIN Tail(outbox[n]) : i + 1 \in DOMAIN outbox[n] /\ Tail(outbox[n])[i] = outbox[n][i + 1]
      BY <2>1, Uncons DEF Outbox
    <3> QED
      BY <1>1, <1>4, <2>1, <2>2, <3>1 DEF Sending
  <2>3. CASE u # n
    BY <1>1, <1>4, <2>1, <2>3 DEF Sending
  <2> QED
    BY <2>2, <2>3
<1> QED
  BY <1>1, <1>2, <1>3, <1>4, QuietStep

\* A step of the loop that sends nothing.
LEMMA StillOutboxes ==
  ASSUME Outboxes, NEW n \in Node, outbox[n] = <<>>, outbox' = outbox, NEW l, loop \in [Node -> Loops],
         loop' = [loop EXCEPT ![n] = l]
  PROVE  Outboxes'
<1> SUFFICES ASSUME NEW p \in Node, NEW i \in DOMAIN outbox'[p]
             PROVE  /\ \A j \in DOMAIN outbox'[p] : i # j => outbox'[p][i][1] # outbox'[p][j][1]
                    /\ outbox'[p][i][2].ts = 0
                    /\ <<loop'[p], outbox'[p][i][2].type>> \in LoopKinds
  BY DEF Outboxes
<1>1. p # n
  OBVIOUS
<1> QED
  BY <1>1 DEF Outboxes

\* Entering the critical section changes nothing that is said of a request.
LEMMA EnterOrderly ==
  ASSUME Orderly, NEW n \in Node, Enter(n)
  PROVE  Orderly'
<1>1. /\ Inv' /\ \A k \in Node : LC'[k] >= LC[k]
      /\ queue' = queue /\ reqLC' = reqLC /\ ackedBy' = ackedBy /\ chan' = chan /\ outbox' = outbox
      /\ loop[n] = "wait" /\ outbox[n] = <<>> /\ loop' = [loop EXCEPT ![n] = "critical"]
  BY LoopStep DEF Orderly, Advance, Enter, clockVars
<1>2. loop \in [Node -> Loops]
  BY DEF Orderly, Inv, InvLoop
<1>3. Outboxes'
  BY <1>1, <1>2, StillOutboxes DEF Orderly
<1>4. \A p, r \in Node : (\A m, A : Carried(p, r, m, A)' => Carried(p, r, m, A)) /\ Way(p, r) \subseteq Way(p, r)'
  BY <1>1 DEF Carried, Way, Pending
<1>5. \A u \in Node : /\ Placed(u)' <=> Placed(u)
                      /\ loop'[u] = "ticked" <=> loop[u] = "ticked"
  BY <1>1, <1>2 DEF Placed
<1>6. \A u \in Node : Sending(u)' => Sending(u)
  BY <1>1, <1>2 DEF Sending
<1> QED
  BY <1>1, <1>3, <1>4, <1>5, <1>6, QuietStep

\* After its releases a node acknowledges the request that is now the first.
LEMMA AckNextOrderly ==
  ASSUME Orderly, NEW n \in Node, AckNext(n)
  PROVE  Orderly'
<1> DEFINE box == IF queue[n] = <<>> THEN <<>> ELSE ToSend(n, AckFor(n, queue[n]))
<1>1. /\ Inv' /\ \A k \in Node : LC'[k] >= LC[k]
      /\ queue' = queue /\ reqLC' = reqLC /\ ackedBy' = ackedBy /\ chan' = chan
      /\ loop[n] = "release" /\ outbox[n] = <<>> /\ loop' = [loop EXCEPT ![n] = "sleep"]
      /\ outbox' = [outbox EXCEPT ![n] = box]
  BY LoopStep DEF Orderly, Advance, AckNext, clockVars
<1>2. loop \in [Node -> Loops] /\ outbox \in [Node -> Outbox] /\ queue[n] \in Queues
  BY DEF Orderly, Inv, InvLoop, InvQueue
<1>3. \A u \in Node : /\ Placed(u)' <=> Placed(u)
                      /\ loop'[u] = "ticked" <=> loop[u] = "ticked"
  BY <1>1, <1>2 DEF Placed
<1>6. ~ Sending(n)' /\ \A u \in Node : Sending(u)' => Sending(u) /\ outbox'[u] = outbox[u]
  BY <1>1, <1>2 DEF Sending
<1>4. CASE queue[n] = <<>>
  <2>1. outbox' = outbox
    BY <1>1, <1>2, <1>4
  <2>2. Outboxes'
    BY <1>1, <1>2, <2>1, StillOutboxes DEF Orderly
  <2>3. \A p, r \in Node : (\A m, A : Carried(p, r, m, A)' => Carried(p, r, m, A)) /\ Way(p, r) \subseteq Way(p, r)'
    BY <1>1, <2>1 DEF Carried, Way, Pending
  <2> QED
    BY <1>1, <1>3, <1>6, <2>2, <2>3, QuietStep
<1>5. CASE queue[n] # <<>>
  <2>1. PICK ack : ack = AckFor(n, queue[n])
    OBVIOUS
  <2>2. ack \in Message /\ ack.ts = 0 /\ Acknowledging(n, ack)
    <3>1. \A e \in Entries(queue[n]) : e \in Queued(n)
      BY DEF Queued
    <3>2. \A e \in Queued(n) : e \in Entries(queue[n])
      BY DEF Queued
    <3>3. ~ Active(n)'
      BY <1>1, <1>2 DEF Active, Placed
    <3> QED
      BY <1>1, <1>2, <1>5, <2>1, <3>1, <3>2, <3>3, AckForType, AcknowledgesFirst
  <2>3. <<"sleep", ack.type>> \in LoopKinds /\ ack.type = "lockAck" /\ ack.by = n /\ ack.uid \in Node
    BY <2>2, CoreType DEF Acknowledging, LoopKinds
  <2>4. /\ Outboxes'
        /\ \A p, r \in Node :
             /\ \A x, A : Carried(p, r, x, A)' =>
                  Carried(p, r, x, A) \/ (p = n /\ r \in Links(n) /\ x = ack /\ A = Cores(chan[n][r]))
             /\ Way(p, r) \subseteq Way(p, r)'
    <3>1. outbox' = [outbox EXCEPT ![n] = ToSend(n, ack)]
      BY <1>1, <1>5, <2>1
    <3>2. PICK l : l = "sleep"
      OBVIOUS
    <3>3. /\ Inv /\ Outboxes /\ outbox[n] = <<>> /\ chan' = chan /\ ack \in Message /\ ack.ts = 0
          /\ <<l, ack.type>> \in LoopKinds /\ loop' = [loop EXCEPT ![n] = l]
      BY <1>1, <2>2, <2>3, <3>2 DEF Orderly
    <3> QED
      BY <3>1, <3>3, FillCarried
  <2>5. ASSUME NEW r \in Node, r \in Links(n), NEW A, A = Cores(chan[n][r]) PROVE Good(n, r, ack, A)'
    <3>1. n \notin Side(n, r) /\ r # n
      BY <2>5, SideEdge
    <3>2. \A e \in Entry : Current(e)' <=> Current(e)
      BY <1>1, <1>3 DEF Current, Entry
    <3>3. Queued(r)' = Queued(r)
      BY <1>1 DEF Queued
    <3>4. Old(r)' = Old(r)
      BY <3>2, <3>3, OrderlyTypes DEF Old, Orderly
    <3>5. ASSUME NEW e \in Old(r), e.uid = n PROVE ReleaseOf(e, A)
      <4>1. e \notin Queued(n)
        <5>1. ~Current(e) /\ \A f \in Old(n) : f.uid # n
          BY <3>5 DEF Old, Orderly, Olds
        <5> QED
          BY <3>5, <5>1 DEF Old
      <4>2. ReleaseOf(e, Way(n, r))
        BY <2>5, <3>1, <3>5, <4>1 DEF Orderly, Trails
      <4>3. Pending(n, r) = {}
        BY <1>1 DEF Pending
      <4> QED
        BY <2>5, <4>2, <4>3 DEF Way
    <3>6. \A e : ReleaseOf(e, A)' = ReleaseOf(e, A)
      BY DEF ReleaseOf, Ent
    <3>7. Ent(ack)' = Ent(ack) /\ Ent(ack) \in Entry
      BY <2>2, EntryIs DEF Ent
    <3>8. Current(Ent(ack))' <=> Current(Ent(ack))
      BY <3>2, <3>7
    <3>9. GoodAck(n, r, ack, A)'
      BY <1>1, <1>3, <2>2, <2>3, <3>1, <3>4, <3>5, <3>6, <3>8 DEF Acknowledging, GoodAck
    <3> QED
      BY <2>3, <2>5, <3>9 DEF Good, Links
  <2>6. \A p, r \in Node : /\ \A m, A : Carried(p, r, m, A)' =>
                                Carried(p, r, m, A) \/ (Good(p, r, m, A)' /\ ~ Sending(m.by)')
                           /\ Way(p, r) \subseteq Way(p, r)'
    BY <1>6, <2>3, <2>4, <2>5
  <2> QED
    BY <1>1, <1>3, <1>6, <2>4, <2>6, QuietStep
<1> QED
  BY <1>4, <1>5

\* A node that starts to ask is behind all it has granted.
LEMMA TickOrderly ==
  ASSUME Orderly, NEW n \in Node, RequestTick(n), ackedBy \in [Node -> SUBSET Node]
  PROVE  Orderly'
<1>1. /\ Inv' /\ loop[n] = "sleep" /\ outbox[n] = <<>>
      /\ LC' = [LC EXCEPT ![n] = @ + 1] /\ reqLC' = [reqLC EXCEPT ![n] = LC[n] + 1]
      /\ loop' = [loop EXCEPT ![n] = "ticked"] /\ ackedBy' = [ackedBy EXCEPT ![n] = {}]
      /\ chan' = chan /\ queue' = queue /\ outbox' = outbox
  BY LoopStep DEF Orderly, RequestTick
<1>2. LC \in [Node -> Nat] /\ reqLC \in [Node -> Nat] /\ loop \in [Node -> Loops]
  BY DEF Orderly, Inv, InvChan, InvLoop
<1>3. /\ LC'[n] = LC[n] + 1 /\ reqLC'[n] = LC[n] + 1 /\ loop'[n] = "ticked" /\ ackedBy'[n] = {}
      /\ \A u \in Node : u # n => /\ LC'[u] = LC[u] /\ reqLC'[u] = reqLC[u] /\ loop'[u] = loop[u]
                                  /\ ackedBy'[u] = ackedBy[u]
      /\ \A u \in Node : LC[u] \in Nat /\ reqLC[u] \in Nat /\ reqLC[u] <= LC[u]
  BY <1>1, <1>2 DEF Orderly, Inv, InvLoop
<1>4. /\ \A u \in Node : LC'[u] >= LC[u] /\ reqLC'[u] >= reqLC[u]
      /\ \A u \in Node : Placed(u)' <=> Placed(u)
      /\ \A u \in Node : u # n => (Active(u)' <=> Active(u)) /\ Mine(u)' = Mine(u)
      /\ \A w \in Node : Queued(w)' = Queued(w)
      /\ \A e : Ent(e)' = Ent(e)
      /\ ~ Placed(n)
  BY <1>1, <1>3 DEF Active, Placed, Mine, Queued, Ent
<1>5. \A e \in Entry : Current(e)' <=> Current(e)
  BY <1>1, <1>3, <1>4 DEF Current, Entry, Placed
<1>6. \A w \in Node : Old(w)' = Old(w)
  BY <1>4, <1>5, OrderlyTypes DEF Old, Orderly
<1>7. Outboxes'
  BY <1>1, <1>2, StillOutboxes DEF Orderly
<1>8. ASSUME NEW w \in Node, NEW u \in Node, Grants(w, u), Placed(u) PROVE Grants(w, u)'
  <2>1. u # n /\ Mine(u) \in Queued(w) /\ LC[w] >= reqLC[u] /\ (Active(w) => reqLC[w] > reqLC[u])
    BY <1>4, <1>8 DEF Grants
  <2>2. LC'[w] >= reqLC'[u]
    BY <1>3, <2>1
  <2>3. Active(w)' => reqLC'[w] > reqLC'[u]
    <3>1. CASE w = n
      BY <1>3, <2>1, <3>1
    <3>2. CASE w # n
      BY <1>3, <1>4, <2>1, <3>2
    <3> QED
      BY <3>1, <3>2
  <2> QED
    BY <1>4, <2>1, <2>2, <2>3 DEF Grants
<1>9. \A p, r \in Node : (\A m, A : Carried(p, r, m, A)' => Carried(p, r, m, A)) /\ Way(p, r)' = Way(p, r)
  BY <1>1 DEF Carried, Way, Pending
<1>10. ASSUME NEW p \in Node, NEW r \in Node, NEW m, NEW A, Carried(p, r, m, A) PROVE Good(p, r, m, A)'
  <2>1. Good(p, r, m, A) /\ m \in Message
    BY <1>10, CarriedType DEF Orderly, Fine
  <2>2. /\ m.uid \in Node /\ m.by \in Node /\ m.lc \in Nat /\ r \in Links(p)
        /\ Ent(m) \in Entry /\ Ent(m).uid = m.uid /\ (Current(Ent(m))' <=> Current(Ent(m)))
    BY <1>5, <2>1, CoreType, EntryIs DEF Good
  <2>3. ASSUME m.type = "lockRequest" PROVE GoodRequest(p, r, m, A)'
    <3>1. GoodRequest(p, r, m, A)
      BY <2>1, <2>3 DEF Good
    <3> QED
      BY <1>4, <2>2, <3>1 DEF GoodRequest
  <2>4. ASSUME m.type = "lockRelease" PROVE GoodRelease(p, r, m, A)'
    <3>1. GoodRelease(p, r, m, A)
      BY <2>1, <2>4 DEF Good
    <3> QED
      BY <1>4, <1>6, <2>2, <3>1 DEF GoodRelease
  <2>5. ASSUME m.type = "lockAck" PROVE GoodAck(p, r, m, A)'
    <3>1. GoodAck(p, r, m, A)
      BY <2>1, <2>5 DEF Good
    <3>2. Current(Ent(m)) => Placed(m.uid)
      BY <2>2 DEF Current
    <3>3. Current(Ent(m)) /\ m.by # m.uid => Grants(m.by, m.uid)'
      BY <1>8, <2>2, <3>1, <3>2 DEF GoodAck
    <3>4. \A e : ReleaseOf(e, A)' = ReleaseOf(e, A)
      BY DEF ReleaseOf, Ent
    <3>5. m.lc <= reqLC'[m.uid] /\ (loop'[m.uid] = "ticked" => m.lc < reqLC'[m.uid])
      <4>1. m.lc <= reqLC[m.uid] /\ (loop[m.uid] = "ticked" => m.lc < reqLC[m.uid])
        BY <3>1 DEF GoodAck
      <4>2. CASE m.uid = n
        BY <1>3, <2>2, <4>1, <4>2
      <4>3. CASE m.uid # n
        BY <1>3, <2>2, <4>1, <4>3
      <4> QED
        BY <4>2, <4>3
    <3> QED
      BY <1>6, <2>2, <3>1, <3>3, <3>4, <3>5 DEF GoodAck
  <2> QED
    BY <2>2, <2>3, <2>4, <2>5 DEF Good, Links
<1>11. Fine'
  BY <1>9, <1>10 DEF Fine
<1>12. Olds'
  <2> SUFFICES ASSUME NEW v \in Node, NEW e \in Old(v)'
               PROVE  /\ e.uid # v /\ e.lc <= reqLC'[e.uid]
                      /\ \A u \in Node : LC'[u] >= e.lc /\ (Active(u)' => reqLC'[u] > e.lc)
    BY DEF Olds
  <2>1. e \in Old(v) /\ e.lc \in Nat /\ e.uid \in Node
    BY <1>6, OrderlyTypes DEF Old, Orderly
  <2>2. /\ e.uid # v /\ e.lc <= reqLC[e.uid]
        /\ \A u \in Node : LC[u] >= e.lc /\ (Active(u) => reqLC[u] > e.lc)
    BY <2>1 DEF Orderly, Olds
  <2>3. e.lc <= reqLC'[e.uid]
    <3>1. reqLC[e.uid] \in Nat /\ reqLC'[e.uid] \in Nat /\ reqLC'[e.uid] >= reqLC[e.uid]
      BY <1>3, <1>4, <2>1
    <3> QED
      BY <2>1, <2>2, <3>1
  <2>4. ASSUME NEW u \in Node PROVE LC'[u] >= e.lc /\ (Active(u)' => reqLC'[u] > e.lc)
    <3>1. LC[u] \in Nat /\ LC[u] >= e.lc
      BY <1>3, <2>2
    <3>2. CASE u = n
      BY <1>3, <2>1, <3>1, <3>2
    <3>3. CASE u # n
      BY <1>3, <1>4, <2>2, <3>3
    <3> QED
      BY <3>2, <3>3
  <2> QED
    BY <2>2, <2>3, <2>4
<1>13. Trails'
  <2> SUFFICES ASSUME NEW p \in Node, NEW r \in Links(p)
               PROVE  /\ \A e \in Old(r)' : e.uid \in Side(p, r) => e \in Queued(p)'
                      /\ \A e \in Old(r)' : e.uid \notin Side(p, r) /\ e \notin Queued(p)' => ReleaseOf(e, Way(p, r))'
                      /\ \A e \in Queued(r)' : Current(e)' /\ e.uid \notin Side(p, r) => e \in Queued(p)'
    BY DEF Trails, Links, Side, Closed
  <2>1. r \in Node
    BY LinksType
  <2>2. \A e : ReleaseOf(e, Way(p, r)) => ReleaseOf(e, Way(p, r))'
    BY <1>4, <1>9, <2>1 DEF ReleaseOf
  <2>3. \A e \in Queued(r) : e \in Entry
    BY <2>1, OrderlyTypes DEF Orderly
  <2> QED
    BY <1>4, <1>5, <1>6, <2>1, <2>2, <2>3 DEF Orderly, Trails
<1>14. Own'
  <2> SUFFICES ASSUME NEW u \in Node
               PROVE  /\ Placed(u)' => Mine(u)' \in Queued(u)'
                      /\ loop'[u] = "ticked" => ackedBy'[u] = {}
                      /\ Placed(u)' => \A w \in ackedBy'[u] :
                           w = u \/ (w \in Node /\ Grants(w, u)' /\ \A e \in Old(u)' : e.uid # w)
    BY DEF Own
  <2>1. CASE u = n
    BY <1>3, <1>4, <2>1
  <2>2. CASE u # n
    BY <1>3, <1>4, <1>6, <1>8, <2>2 DEF Orderly, Own
  <2> QED
    BY <2>1, <2>2
<1>15. Releasing'
  <2> SUFFICES ASSUME NEW w \in Node, Sending(w)' PROVE Withholds(w)'
    BY DEF Releasing
  <2>1. w # n /\ Sending(w)
    BY <1>1, <1>3 DEF Sending
  <2>2. Withholds(w)
    BY <2>1 DEF Orderly, Releasing
  <2>3. \A i \in DOMAIN outbox'[w] : outbox'[w][i][2].uid = w /\ outbox'[w][i][2].lc = reqLC'[w]
    BY <1>1, <1>3, <2>1, <2>2 DEF Withholds
  <2>4. Old(w)' = {} /\ \A u \in Node : u # w /\ Placed(u)' => w \notin ackedBy'[u]
    BY <1>3, <1>4, <1>6, <2>2 DEF Withholds
  <2>5. ASSUME NEW p \in Node, NEW r \in Node, NEW m \in Way(p, r)', m.type = "lockAck", m.by = w, m.uid # w
        PROVE  ~Current(Ent(m))'
    <3>1. m \in Way(p, r) /\ m \in Message
      BY <1>9, CarriedType DEF Orderly
    <3>2. ~Current(Ent(m)) /\ Ent(m) \in Entry
      BY <2>2, <2>5, <3>1, EntryIs DEF Withholds
    <3> QED
      BY <1>4, <1>5, <3>2
  <2> QED
    BY <2>3, <2>4, <2>5 DEF Withholds
<1> QED
  BY <1>1, <1>7, <1>11, <1>12, <1>13, <1>14, <1>15 DEF Orderly

\* The outbox of a node that has nothing to send.
LEMMA NothingToSend ==
  ASSUME Orderly, NEW n \in Node, loop[n] \in {"ticked", "critical"}
  PROVE  outbox[n] = <<>>
<1>1. outbox[n] \in Seq(Node \X Message)
  BY DEF Orderly, Inv, InvLoop, Outbox
<1>2. \A i \in DOMAIN outbox[n] : FALSE
  BY DEF Orderly, Outboxes, LoopKinds
<1> QED
  BY <1>1, <1>2, Uncons

\* A request comes into the node's own queue, and on its way to all others.
LEMMA AddOrderly ==
  ASSUME Orderly, NEW n \in Node, RequestAdd(n), Patient
  PROVE  Orderly'
<1>1. /\ Inv' /\ loop[n] = "ticked" /\ outbox[n] = <<>>
      /\ LC' = LC /\ reqLC' = reqLC /\ ackedBy' = ackedBy /\ chan' = chan
      /\ loop' = [loop EXCEPT ![n] = "wait"]
      /\ queue' = IF Known(queue[n], reqLC[n]) THEN queue ELSE [queue EXCEPT ![n] = Add(queue[n], reqLC[n], n)]
      /\ outbox' = [outbox EXCEPT ![n] = ToSend(n, Msg("lockRequest", n, reqLC[n], n))]
  BY LoopStep, NothingToSend DEF Orderly, RequestAdd, Advance
<1>2. LC \in [Node -> Nat] /\ reqLC \in [Node -> Nat] /\ loop \in [Node -> Loops] /\ queue \in [Node -> Queues]
  BY DEF Orderly, Inv, InvChan, InvLoop, InvQueue
<1>3. Active(n) /\ ~ Placed(n) /\ ackedBy[n] = {}
  BY <1>1 DEF Orderly, Own, Active, Placed
<1>4. PICK mine, m : mine = Mine(n) /\ m = Msg("lockRequest", n, reqLC[n], n)
  OBVIOUS
<1>5. /\ mine \in Entry /\ mine.lc = reqLC[n] /\ mine.uid = n /\ mine = [lc |-> reqLC[n], uid |-> n] /\ reqLC[n] \in Nat
      /\ m \in Message /\ m.ts = 0 /\ m.type = "lockRequest" /\ m.uid = n /\ m.lc = reqLC[n] /\ Ent(m) = mine
  BY <1>2, <1>4, MsgType DEF Mine, Entry, Msg, Ent
<1>6. ASSUME NEW v \in Node, mine \in Queued(v) PROVE FALSE
  <2>1. mine \in Old(v)
    BY <1>3, <1>5, <1>6 DEF Old, Current
  <2>2. reqLC[n] > mine.lc
    BY <1>3, <2>1 DEF Orderly, Olds
  <2> QED
    BY <1>5, <2>2
<1>7. Queued(n)' = Queued(n) \cup {mine} /\ \A w \in Node : w # n => Queued(w)' = Queued(w)
  <2>1. ~ Known(queue[n], reqLC[n])
    BY <1>1 DEF Patient
  <2>2. Entries(Add(queue[n], reqLC[n], n)) = Queued(n) \cup {mine}
    BY <1>2, <1>5, <2>1, AddEntries DEF Queued
  <2>3. queue'[n] = Add(queue[n], reqLC[n], n) /\ \A w \in Node : w # n => queue'[w] = queue[w]
    BY <1>1, <1>2, <2>1
  <2> QED
    BY <2>2, <2>3 DEF Queued
<1>8. /\ Outboxes'
      /\ \A p, r \in Node :
           /\ \A x, A : Carried(p, r, x, A)' =>
                Carried(p, r, x, A) \/ (p = n /\ r \in Links(n) /\ x = m /\ A = Cores(chan[n][r]))
           /\ Way(p, r) \subseteq Way(p, r)'
  <2>1. PICK l : l = "wait"
    OBVIOUS
  <2>2. /\ Inv /\ Outboxes /\ outbox[n] = <<>> /\ chan' = chan /\ m \in Message /\ m.ts = 0
        /\ <<l, m.type>> \in LoopKinds /\ loop' = [loop EXCEPT ![n] = l]
        /\ outbox' = [outbox EXCEPT ![n] = ToSend(n, m)]
    BY <1>1, <1>4, <1>5, <2>1 DEF Orderly, LoopKinds
  <2> QED
    BY <2>2, FillCarried
<1>9. /\ loop'[n] = "wait" /\ \A u \in Node : u # n => loop'[u] = loop[u]
      /\ \A u \in Node : (Active(u)' <=> Active(u)) /\ Mine(u)' = Mine(u)
      /\ Placed(n)' /\ \A u \in Node : u # n => (Placed(u)' <=> Placed(u))
      /\ \A e : Ent(e)' = Ent(e)
  BY <1>1, <1>2 DEF Active, Placed, Mine, Ent
<1>10. /\ \A e \in Entry : e # mine => (Current(e)' <=> Current(e))
       /\ Current(mine)' /\ ~ Current(mine)
  <2>1. Current(mine)' /\ ~ Current(mine)
    BY <1>1, <1>3, <1>5, <1>9 DEF Current
  <2>2. ASSUME NEW e \in Entry, e # mine PROVE Current(e)' <=> Current(e)
    <3>1. CASE e.uid = n
      <4>1. e.lc # reqLC[n]
        BY <1>5, <2>2, <3>1, EntryIs
      <4> QED
        BY <1>1, <3>1, <4>1 DEF Current
    <3>2. CASE e.uid # n
      <4>1. e.uid \in Node
        BY DEF Entry
      <4> QED
        BY <1>1, <1>9, <3>2, <4>1 DEF Current
    <3> QED
      BY <3>1, <3>2
  <2> QED
    BY <2>1, <2>2
<1>11. \A w \in Node : Old(w)' = Old(w)
  <2> SUFFICES ASSUME NEW w \in Node PROVE Old(w)' = Old(w)
    OBVIOUS
  <2>1. \A e \in Queued(w) : e \in Entry /\ e # mine
    BY <1>6, OrderlyTypes DEF Orderly
  <2>2. Queued(w)' = Queued(w) \/ Queued(w)' = Queued(w) \cup {mine}
    BY <1>7
  <2> QED
    BY <1>10, <2>1, <2>2 DEF Old
<1>12. \A w \in Node : \A e \in Queued(w) : e \in Queued(w)'
  BY <1>7
<1>13. \A w \in Node : \A e \in Queued(w)' : e \in Queued(w) \/ (w = n /\ e = mine)
  BY <1>7
<1>14. ASSUME NEW w \in Node, NEW u \in Node, Grants(w, u) PROVE Grants(w, u)'
  BY <1>1, <1>9, <1>12, <1>14 DEF Grants
<1>15. ASSUME NEW p \in Node, NEW r \in Node, NEW x, NEW A, Carried(p, r, x, A) PROVE Good(p, r, x, A)'
  <2>1. Good(p, r, x, A) /\ x \in Message
    BY <1>15, CarriedType DEF Orderly, Fine
  <2>2. x.uid \in Node /\ x.by \in Node /\ x.lc \in Nat /\ r \in Links(p)
        /\ Ent(x) \in Entry /\ Ent(x).uid = x.uid /\ Ent(x).lc = x.lc
    BY <2>1, CoreType, EntryIs DEF Good
  <2>3. ASSUME x.type = "lockRequest" PROVE GoodRequest(p, r, x, A)'
    <3>1. GoodRequest(p, r, x, A)
      BY <2>1, <2>3 DEF Good
    <3>2. Ent(x) # mine
      BY <1>10, <3>1 DEF GoodRequest
    <3> QED
      BY <1>9, <1>10, <1>12, <1>13, <2>2, <3>1, <3>2 DEF GoodRequest
  <2>4. ASSUME x.type = "lockRelease" PROVE GoodRelease(p, r, x, A)'
    <3>1. GoodRelease(p, r, x, A)
      BY <2>1, <2>4 DEF Good
    <3>2. Ent(x) \in Old(r) /\ Ent(x) \in Queued(r) /\ Ent(x) # mine
      BY <1>6, <3>1 DEF GoodRelease, Old
    <3>3. mine.lc > x.lc
      BY <1>3, <1>5, <2>2, <3>2 DEF Orderly, Olds
    <3> QED
      BY <1>9, <1>11, <1>13, <2>2, <3>1, <3>2, <3>3 DEF GoodRelease
  <2>5. ASSUME x.type = "lockAck" PROVE GoodAck(p, r, x, A)'
    <3>1. GoodAck(p, r, x, A)
      BY <2>1, <2>5 DEF Good
    <3>2. Ent(x) # mine
      BY <1>1, <1>5, <2>2, <3>1 DEF GoodAck
    <3>3. Current(Ent(x))' <=> Current(Ent(x))
      BY <1>10, <2>2, <3>2
    <3>4. Current(Ent(x)) /\ x.by # x.uid => Grants(x.by, x.uid)'
      BY <1>14, <2>2, <3>1 DEF GoodAck
    <3>5. \A e : ReleaseOf(e, A)' = ReleaseOf(e, A)
      BY DEF ReleaseOf, Ent
    <3>6. x.lc <= reqLC'[x.uid] /\ (loop'[x.uid] = "ticked" => x.lc < reqLC'[x.uid])
      BY <1>1, <1>9, <2>2, <3>1 DEF GoodAck
    <3> QED
      BY <1>9, <1>11, <2>2, <3>1, <3>3, <3>4, <3>5, <3>6 DEF GoodAck
  <2> QED
    BY <2>2, <2>3, <2>4, <2>5 DEF Good, Links
<1>16. ASSUME NEW r \in Links(n), NEW A, A = Cores(chan[n][r]) PROVE Good(n, r, m, A)'
  <2>1. r \in Node /\ n \notin Side(n, r) /\ r # n
    BY SideEdge
  <2>2. ASSUME NEW a \in A, a.type = "lockRequest" PROVE Ent(a) # mine
    <3>1. a \in Way(n, r)
      BY <1>16, <2>2 DEF Way
    <3>2. PICK B : Good(n, r, a, B)
      BY <2>1, <3>1, WayGood
    <3>3. Ent(a) \in Queued(n)
      BY <2>2, <3>2 DEF Good, GoodRequest
    <3> QED
      BY <1>6, <3>3
  <2>3. GoodRequest(n, r, m, A)'
    BY <1>5, <1>6, <1>7, <1>9, <1>10, <2>1, <2>2 DEF GoodRequest
  <2> QED
    BY <1>5, <2>3 DEF Good, Links
<1>17. Fine'
  BY <1>8, <1>15, <1>16 DEF Fine
<1>18. Olds'
  <2> SUFFICES ASSUME NEW v \in Node, NEW e \in Old(v)'
               PROVE  /\ e.uid # v /\ e.lc <= reqLC'[e.uid]
                      /\ \A u \in Node : LC'[u] >= e.lc /\ (Active(u)' => reqLC'[u] > e.lc)
    BY DEF Olds
  <2> QED
    BY <1>1, <1>9, <1>11 DEF Orderly, Olds
<1>19. Trails'
  <2> SUFFICES ASSUME NEW p \in Node, NEW r \in Links(p)
               PROVE  /\ \A e \in Old(r)' : e.uid \in Side(p, r) => e \in Queued(p)'
                      /\ \A e \in Old(r)' : e.uid \notin Side(p, r) /\ e \notin Queued(p)' => ReleaseOf(e, Way(p, r))'
                      /\ \A e \in Queued(r)' : Current(e)' /\ e.uid \notin Side(p, r) => e \in Queued(p)'
    BY DEF Trails, Links, Side, Closed
  <2>1. r \in Node /\ r \in Side(p, r)
    BY SideEdge
  <2>2. \A e : ReleaseOf(e, Way(p, r)) => ReleaseOf(e, Way(p, r))'
    BY <1>8, <1>9, <2>1 DEF ReleaseOf
  <2>3. ASSUME NEW e \in Queued(r)', Current(e)', e.uid \notin Side(p, r) PROVE e \in Queued(p)'
    <3>1. e \in Queued(r) /\ e # mine /\ e \in Entry
      BY <1>5, <1>6, <1>13, <2>1, <2>3, OrderlyTypes DEF Orderly
    <3>2. Current(e)
      BY <1>10, <2>3, <3>1
    <3>3. e \in Queued(p)
      BY <2>3, <3>1, <3>2 DEF Orderly, Trails
    <3> QED
      BY <1>12, <3>3
  <2> QED
    BY <1>11, <1>12, <2>1, <2>2, <2>3 DEF Orderly, Trails
<1>20. Own'
  <2> SUFFICES ASSUME NEW u \in Node
               PROVE  /\ Placed(u)' => Mine(u)' \in Queued(u)'
                      /\ loop'[u] = "ticked" => ackedBy'[u] = {}
                      /\ Placed(u)' => \A w \in ackedBy'[u] :
                           w = u \/ (w \in Node /\ Grants(w, u)' /\ \A e \in Old(u)' : e.uid # w)
    BY DEF Own
  <2>1. CASE u = n
    BY <1>1, <1>3, <1>4, <1>7, <1>9, <2>1
  <2>2. CASE u # n
    BY <1>1, <1>7, <1>9, <1>11, <1>14, <2>2 DEF Orderly, Own
  <2> QED
    BY <2>1, <2>2
<1>21. Releasing'
  <2> SUFFICES ASSUME NEW w \in Node, Sending(w)' PROVE Withholds(w)'
    BY DEF Releasing
  <2>1. w # n /\ Sending(w) /\ outbox'[w] = outbox[w]
    <3>1. outbox \in [Node -> Outbox]
      BY DEF Orderly, Inv, InvLoop
    <3> QED
      BY <1>1, <1>9, <3>1 DEF Sending
  <2>2. Withholds(w)
    BY <2>1 DEF Orderly, Releasing
  <2>3. \A i \in DOMAIN outbox'[w] : outbox'[w][i][2].uid = w /\ outbox'[w][i][2].lc = reqLC'[w]
    BY <1>1, <2>1, <2>2 DEF Withholds
  <2>4. Old(w)' = {} /\ \A u \in Node : u # w /\ Placed(u)' => w \notin ackedBy'[u]
    BY <1>1, <1>3, <1>9, <1>11, <2>2 DEF Withholds
  <2>5. ASSUME NEW p \in Node, NEW r \in Node, NEW x \in Way(p, r)', x.type = "lockAck", x.by = w, x.uid # w
        PROVE  ~Current(Ent(x))'
    <3>1. PICK A : Carried(p, r, x, A)'
      BY DEF Way, Carried, Cores
    <3>2. Carried(p, r, x, A)
      BY <1>5, <1>8, <2>5, <3>1
    <3>3. x \in Way(p, r) /\ x \in Message /\ GoodAck(p, r, x, A)
      BY <2>5, <3>2, CarriedType DEF Orderly, Fine, Good
    <3>4. ~Current(Ent(x)) /\ Ent(x) \in Entry /\ x.lc \in Nat /\ Ent(x).uid = x.uid /\ Ent(x).lc = x.lc
      BY <2>2, <2>5, <3>3, EntryIs, CoreType DEF Withholds
    <3>5. Ent(x) # mine
      BY <1>1, <1>5, <3>3, <3>4 DEF GoodAck
    <3> QED
      BY <1>9, <1>10, <3>4, <3>5
  <2> QED
    BY <2>3, <2>4, <2>5 DEF Withholds
<1> QED
  BY <1>1, <1>8, <1>17, <1>18, <1>19, <1>20, <1>21 DEF Orderly

\* Who has been acknowledged by all and leaves takes its own entry from its queue, which
\* from then on is old everywhere else.
LEMMA LeaveOrderly ==
  ASSUME Orderly, NEW n \in Node, Release(n), Acknowledged(n)
  PROVE  Orderly'
<1>1. /\ Inv' /\ loop[n] = "critical" /\ outbox[n] = <<>> /\ ackedBy[n] = Node \ {n}
      /\ LC' = LC /\ reqLC' = reqLC /\ ackedBy' = ackedBy /\ chan' = chan
      /\ loop' = [loop EXCEPT ![n] = "release"]
      /\ queue' = [queue EXCEPT ![n] = Pop(queue[n])]
      /\ outbox' = [outbox EXCEPT ![n] = ToSend(n, Msg("lockRelease", n, reqLC[n], n))]
  BY LoopStep, NothingToSend DEF Orderly, Release, Advance, Acknowledged
<1>2. LC \in [Node -> Nat] /\ reqLC \in [Node -> Nat] /\ loop \in [Node -> Loops] /\ queue \in [Node -> Queues]
  BY DEF Orderly, Inv, InvChan, InvLoop, InvQueue
<1>3. Active(n) /\ Placed(n)
  BY <1>1 DEF Active, Placed
<1>4. PICK mine, m : mine = Mine(n) /\ m = Msg("lockRelease", n, reqLC[n], n)
  OBVIOUS
<1>5. /\ mine \in Entry /\ mine.lc = reqLC[n] /\ mine.uid = n /\ mine = [lc |-> reqLC[n], uid |-> n] /\ reqLC[n] \in Nat
      /\ m \in Message /\ m.ts = 0 /\ m.type = "lockRelease" /\ m.uid = n /\ m.lc = reqLC[n] /\ Ent(m) = mine
  BY <1>2, <1>4, MsgType DEF Mine, Entry, Msg, Ent
\* All others have granted the request, and have nothing old in n's queue.
<1>6. /\ \A w \in Node : w # n => Grants(w, n) /\ \A e \in Old(n) : e.uid # w
      /\ \A w \in Node : mine \in Queued(w)
      /\ \A w \in Node : w # n /\ Active(w) => reqLC[w] > reqLC[n]
      /\ \A w \in Node : LC[w] >= reqLC[n]
  <2>1. \A w \in Node : w # n => Grants(w, n) /\ \A e \in Old(n) : e.uid # w
    BY <1>1, <1>3 DEF Orderly, Own
  <2>2. mine \in Queued(n) /\ LC[n] >= reqLC[n]
    <3>1. reqLC[n] <= LC[n] /\ LC[n] \in Nat /\ reqLC[n] \in Nat
      BY OrderlyTypes DEF Orderly
    <3> QED
      BY <1>3, <1>4, <3>1 DEF Orderly, Own
  <2> QED
    BY <1>4, <2>1, <2>2 DEF Grants
<1>7. Current(mine) /\ Old(n) = {}
  <2>1. Current(mine)
    BY <1>3, <1>5 DEF Current
  <2>2. ASSUME NEW e \in Old(n) PROVE FALSE
    <3>1. e.uid # n /\ e.uid \in Node
      BY OrderlyTypes DEF Orderly, Olds, Old
    <3> QED
      BY <1>6, <3>1
  <2> QED
    BY <2>1, <2>2
<1>8. ASSUME NEW e \in Queued(n), e # mine PROVE e.lc > reqLC[n]
  <2>1. e \in Entry /\ e.uid \in Node /\ Current(e)
    BY <1>7, OrderlyTypes DEF Orderly, Old
  <2>2. e = Mine(e.uid) /\ Placed(e.uid) /\ e.lc = reqLC[e.uid]
    BY <2>1, EntryIs DEF Current
  <2>3. e.uid # n
    BY <1>4, <1>8, <2>2
  <2> QED
    BY <1>6, <2>1, <2>2, <2>3 DEF Active
<1>9. /\ Queued(n)' = Queued(n) \ {mine} /\ \A w \in Node : w # n => Queued(w)' = Queued(w)
  <2>1. queue[n] \in Queues /\ queue[n] # <<>>
    BY <1>2, <1>6, EntriesType DEF Queued
  <2>2. Head(queue[n]) \in Queued(n) /\ \A e \in Queued(n) : e = Head(queue[n]) \/ e.lc > Head(queue[n]).lc
    BY <2>1, EntriesType DEF Queued
  <2>3. Head(queue[n]) = mine
    <3> SUFFICES ASSUME Head(queue[n]) # mine PROVE FALSE
      OBVIOUS
    <3>1. Head(queue[n]).lc > reqLC[n] /\ reqLC[n] > Head(queue[n]).lc
      BY <1>5, <1>6, <1>8, <2>2
    <3>2. Head(queue[n]).lc \in Nat
      BY <2>2, OrderlyTypes DEF Orderly
    <3> QED
      BY <1>5, <3>1, <3>2
  <2>4. Entries(Pop(queue[n])) = Queued(n) \ {mine}
    BY <2>1, <2>3, PopEntries DEF Queued
  <2>5. queue'[n] = Pop(queue[n]) /\ \A w \in Node : w # n => queue'[w] = queue[w]
    BY <1>1, <1>2
  <2> QED
    BY <2>4, <2>5 DEF Queued
<1>10. /\ Outboxes'
       /\ \A p, r \in Node :
            /\ \A x, A : Carried(p, r, x, A)' =>
                 Carried(p, r, x, A) \/ (p = n /\ r \in Links(n) /\ x = m /\ A = Cores(chan[n][r]))
            /\ Way(p, r) \subseteq Way(p, r)'
            /\ p = n /\ r \in Links(n) => m \in Way(p, r)'
  <2>1. PICK l : l = "release"
    OBVIOUS
  <2>2. /\ Inv /\ Outboxes /\ outbox[n] = <<>> /\ chan' = chan /\ m \in Message /\ m.ts = 0
        /\ <<l, m.type>> \in LoopKinds /\ loop' = [loop EXCEPT ![n] = l]
        /\ outbox' = [outbox EXCEPT ![n] = ToSend(n, m)]
    BY <1>1, <1>4, <1>5, <2>1 DEF Orderly, LoopKinds
  <2> QED
    BY <2>2, FillCarried
<1>11. /\ loop'[n] = "release" /\ \A u \in Node : u # n => loop'[u] = loop[u]
       /\ ~ Active(n)' /\ ~ Placed(n)'
       /\ \A u \in Node : u # n => (Active(u)' <=> Active(u)) /\ (Placed(u)' <=> Placed(u))
       /\ \A u \in Node : Mine(u)' = Mine(u)
       /\ \A e : Ent(e)' = Ent(e)
  BY <1>1, <1>2 DEF Active, Placed, Mine, Ent
<1>12. \A e \in Entry : Current(e)' <=> Current(e) /\ e # mine
  <2> SUFFICES ASSUME NEW e \in Entry PROVE Current(e)' <=> Current(e) /\ e # mine
    OBVIOUS
  <2>1. CASE e.uid = n
    <3>1. ~ Current(e)'
      BY <1>11, <2>1 DEF Current
    <3>2. Current(e) => e = mine
      BY <1>4, <2>1, EntryIs
    <3> QED
      BY <3>1, <3>2
  <2>2. CASE e.uid # n
    <3>1. e.uid \in Node
      BY DEF Entry
    <3> QED
      BY <1>1, <1>5, <1>11, <2>2, <3>1 DEF Current
  <2> QED
    BY <2>1, <2>2
<1>13. Old(n)' = {} /\ \A w \in Node : w # n => Old(w)' = Old(w) \cup {mine}
  <2>1. \A w \in Node : Queued(w) \subseteq Entry
    BY OrderlyTypes DEF Orderly
  <2>2. Old(n)' = {}
    <3>1. \A e \in Queued(n)' : e \in Queued(n) /\ e # mine /\ e \in Entry
      BY <1>9, <2>1
    <3>2. \A e \in Queued(n)' : Current(e)'
      BY <1>7, <1>12, <3>1 DEF Old
    <3> QED
      BY <3>2 DEF Old
  <2>3. ASSUME NEW w \in Node, w # n PROVE Old(w)' = Old(w) \cup {mine}
    <3>1. Queued(w)' = Queued(w) /\ mine \in Queued(w) /\ Queued(w) \subseteq Entry
      BY <1>6, <1>9, <2>1, <2>3
    <3>2. ~ Current(mine)'
      BY <1>5, <1>12
    <3> QED
      BY <1>12, <3>1, <3>2 DEF Old
  <2> QED
    BY <2>2, <2>3
<1>14. \A w \in Node : \A e \in Queued(w) : e # mine => e \in Queued(w)'
  BY <1>9
<1>15. \A w \in Node : Queued(w)' \subseteq Queued(w)
  BY <1>9
<1>16. \A w \in Node : mine \notin Old(w)
  BY <1>7 DEF Old
<1>17. ASSUME NEW w \in Node, NEW u \in Node, u # n, Grants(w, u) PROVE Grants(w, u)'
  <2>1. Mine(u) # mine /\ Mine(u) \in Queued(w)
    BY <1>5, <1>17, EntryIs DEF Grants
  <2>2. Active(w)' => Active(w)
    BY <1>11
  <2> QED
    BY <1>1, <1>11, <1>14, <1>17, <2>1, <2>2 DEF Grants
\* Nobody who waits has been granted its request by n.
<1>18. ASSUME NEW u \in Node, u # n, Placed(u), Grants(n, u) PROVE FALSE
  <2>1. reqLC[n] > reqLC[u] /\ reqLC[u] > reqLC[n]
    BY <1>3, <1>6, <1>18 DEF Grants, Active
  <2> QED
    BY <1>2, <2>1
<1>19. ASSUME NEW p \in Node, NEW r \in Node, NEW x, NEW A, Carried(p, r, x, A) PROVE Good(p, r, x, A)'
  <2>1. Good(p, r, x, A) /\ x \in Message
    BY <1>19, CarriedType DEF Orderly, Fine
  <2>2. x.uid \in Node /\ x.by \in Node /\ x.lc \in Nat /\ r \in Links(p)
        /\ Ent(x) \in Entry /\ Ent(x).uid = x.uid /\ Ent(x).lc = x.lc
    BY <2>1, CoreType, EntryIs DEF Good
  <2>3. ASSUME x.type = "lockRequest" PROVE GoodRequest(p, r, x, A)'
    <3>1. GoodRequest(p, r, x, A)
      BY <2>1, <2>3 DEF Good
    <3>2. Ent(x) # mine
      BY <1>6, <3>1 DEF GoodRequest
    <3> QED
      BY <1>11, <1>12, <1>14, <1>15, <2>2, <3>1, <3>2 DEF GoodRequest
  <2>4. ASSUME x.type = "lockRelease" PROVE GoodRelease(p, r, x, A)'
    <3>1. GoodRelease(p, r, x, A)
      BY <2>1, <2>4 DEF Good
    <3>2. r # n
      BY <1>7, <3>1 DEF GoodRelease
    <3>3. Ent(x) \in Old(r)'
      BY <1>13, <3>1, <3>2 DEF GoodRelease
    <3> QED
      BY <1>11, <1>15, <2>2, <3>1, <3>3 DEF GoodRelease
  <2>5. ASSUME x.type = "lockAck" PROVE GoodAck(p, r, x, A)'
    <3>1. GoodAck(p, r, x, A)
      BY <2>1, <2>5 DEF Good
    <3>2. x.lc <= reqLC'[x.uid] /\ (loop'[x.uid] = "ticked" => x.lc < reqLC'[x.uid])
      BY <1>1, <1>11, <2>2, <3>1 DEF GoodAck
    <3>3. ASSUME Current(Ent(x))', x.by # x.uid
          PROVE  /\ Grants(x.by, x.uid)' /\ x.by \notin Side(p, r)
                 /\ \A e \in Old(r)' : e.uid = x.by => ReleaseOf(e, A)'
      <4>1. Current(Ent(x)) /\ Ent(x) # mine
        BY <1>12, <2>2, <3>3
      <4>2. Placed(x.uid) /\ x.uid # n
        BY <1>11, <2>2, <3>3, <4>1 DEF Current
      <4>3. /\ Grants(x.by, x.uid) /\ x.by \notin Side(p, r)
            /\ \A e \in Old(r) : e.uid = x.by => ReleaseOf(e, A)
        BY <3>1, <3>3, <4>1 DEF GoodAck
      <4>4. x.by # n
        BY <1>18, <2>2, <4>2, <4>3
      <4>5. \A e \in Old(r)' : e \in Old(r) \/ e = mine
        BY <1>13
      <4>6. \A e : ReleaseOf(e, A)' = ReleaseOf(e, A)
        BY DEF ReleaseOf, Ent
      <4> QED
        BY <1>5, <1>17, <2>2, <4>2, <4>3, <4>4, <4>5, <4>6
    <3> QED
      BY <1>11, <3>2, <3>3 DEF GoodAck
  <2> QED
    BY <2>2, <2>3, <2>4, <2>5 DEF Good, Links
<1>20. ASSUME NEW r \in Links(n), NEW A, A = Cores(chan[n][r]) PROVE Good(n, r, m, A)'
  <2>1. r \in Node /\ n \notin Side(n, r) /\ r # n
    BY SideEdge
  <2>2. ASSUME NEW a \in A, a.type = "lockRelease" PROVE a.lc < reqLC[n]
    <3>1. a \in Way(n, r)
      BY <1>20, <2>2 DEF Way
    <3>2. PICK B : Good(n, r, a, B) /\ a \in Message
      BY <2>1, <3>1, WayGood
    <3>3. mine.lc > a.lc /\ a.lc \in Nat
      BY <1>6, <2>2, <3>2, CoreType DEF Good, GoodRelease
    <3> QED
      BY <1>5, <3>3
  <2>3. \A e \in Queued(n)' : e.lc > reqLC[n]
    BY <1>8, <1>9
  <2>4. GoodRelease(n, r, m, A)'
    BY <1>5, <1>9, <1>11, <1>13, <2>1, <2>2, <2>3 DEF GoodRelease
  <2> QED
    BY <1>5, <2>4 DEF Good, Links
<1>21. Fine'
  BY <1>10, <1>19, <1>20 DEF Fine
<1>22. Olds'
  <2> SUFFICES ASSUME NEW v \in Node, NEW e \in Old(v)'
               PROVE  /\ e.uid # v /\ e.lc <= reqLC'[e.uid]
                      /\ \A u \in Node : LC'[u] >= e.lc /\ (Active(u)' => reqLC'[u] > e.lc)
    BY DEF Olds
  <2>1. v # n /\ (e \in Old(v) \/ e = mine)
    BY <1>13
  <2>2. CASE e \in Old(v)
    <3>1. /\ e.uid # v /\ e.lc <= reqLC[e.uid]
          /\ \A u \in Node : LC[u] >= e.lc /\ (Active(u) => reqLC[u] > e.lc)
      BY <2>2 DEF Orderly, Olds
    <3> QED
      BY <1>1, <1>11, <3>1
  <2>3. CASE e = mine
    BY <1>1, <1>5, <1>6, <1>11, <2>1, <2>3
  <2> QED
    BY <2>1, <2>2, <2>3
<1>23. Trails'
  <2> SUFFICES ASSUME NEW p \in Node, NEW r \in Links(p)
               PROVE  /\ \A e \in Old(r)' : e.uid \in Side(p, r) => e \in Queued(p)'
                      /\ \A e \in Old(r)' : e.uid \notin Side(p, r) /\ e \notin Queued(p)' => ReleaseOf(e, Way(p, r))'
                      /\ \A e \in Queued(r)' : Current(e)' /\ e.uid \notin Side(p, r) => e \in Queued(p)'
    BY DEF Trails, Links, Side, Closed
  <2>1. r \in Node /\ p \notin Side(p, r)
    BY SideEdge
  <2>2. \A e \in Old(r)' : e \in Old(r) \/ e = mine
    BY <1>13, <2>1
  <2>3. ASSUME NEW e \in Old(r)', e.uid \in Side(p, r) PROVE e \in Queued(p)'
    <3>1. CASE e \in Old(r)
      <4>1. e \in Queued(p) /\ e # mine
        BY <1>16, <2>1, <2>3, <3>1 DEF Orderly, Trails
      <4> QED
        BY <1>14, <4>1
    <3>2. CASE e = mine
      <4>1. p # n
        BY <1>5, <2>1, <2>3, <3>2
      <4> QED
        BY <1>6, <1>9, <3>2, <4>1
    <3> QED
      BY <2>2, <3>1, <3>2
  <2>4. ASSUME NEW e \in Old(r)', e.uid \notin Side(p, r), e \notin Queued(p)' PROVE ReleaseOf(e, Way(p, r))'
    <3>1. CASE e \in Old(r)
      <4>1. e \notin Queued(p)
        BY <1>14, <1>16, <2>1, <2>4, <3>1
      <4>2. ReleaseOf(e, Way(p, r))
        BY <2>4, <3>1, <4>1 DEF Orderly, Trails
      <4> QED
        BY <1>10, <1>11, <2>1, <4>2 DEF ReleaseOf
    <3>2. CASE e = mine
      <4>1. p = n
        BY <1>6, <1>9, <2>4, <3>2
      <4>2. m \in Way(p, r)' /\ m.type = "lockRelease" /\ Ent(m)' = e
        BY <1>5, <1>10, <1>11, <2>1, <3>2, <4>1
      <4> QED
        BY <4>2 DEF ReleaseOf
    <3> QED
      BY <2>2, <3>1, <3>2
  <2>5. ASSUME NEW e \in Queued(r)', Current(e)', e.uid \notin Side(p, r) PROVE e \in Queued(p)'
    <3>1. e \in Queued(r) /\ e \in Entry
      BY <1>15, <2>1, OrderlyTypes DEF Orderly
    <3>2. Current(e) /\ e # mine
      BY <1>12, <2>5, <3>1
    <3>3. e \in Queued(p)
      BY <2>5, <3>1, <3>2 DEF Orderly, Trails
    <3> QED
      BY <1>14, <3>2, <3>3
  <2> QED
    BY <2>3, <2>4, <2>5
<1>24. Own'
  <2> SUFFICES ASSUME NEW u \in Node
               PROVE  /\ Placed(u)' => Mine(u)' \in Queued(u)'
                      /\ loop'[u] = "ticked" => ackedBy'[u] = {}
                      /\ Placed(u)' => \A w \in ackedBy'[u] :
                           w = u \/ (w \in Node /\ Grants(w, u)' /\ \A e \in Old(u)' : e.uid # w)
    BY DEF Own
  <2>1. CASE u = n
    BY <1>11, <2>1
  <2>2. CASE u # n
    <3>1. /\ Placed(u) => Mine(u) \in Queued(u)
          /\ loop[u] = "ticked" => ackedBy[u] = {}
      BY DEF Orderly, Own
    <3>2. ASSUME Placed(u), NEW w \in ackedBy[u], w # u
          PROVE  w \in Node /\ Grants(w, u)' /\ \A e \in Old(u)' : e.uid # w
      <4>1. w \in Node /\ Grants(w, u) /\ \A e \in Old(u) : e.uid # w
        BY <3>2 DEF Orderly, Own
      <4>2. w # n
        BY <1>18, <2>2, <3>2, <4>1
      <4> QED
        BY <1>5, <1>13, <1>17, <2>2, <4>1, <4>2
    <3> QED
      BY <1>1, <1>9, <1>11, <2>2, <3>1, <3>2
  <2> QED
    BY <2>1, <2>2
\* No other node is sending its releases: n has its acknowledgement.
<1>25. Releasing'
  <2> SUFFICES ASSUME NEW w \in Node, Sending(w)' PROVE Withholds(w)'
    BY DEF Releasing
  <2>1. w = n
    <3> SUFFICES ASSUME w # n PROVE FALSE
      OBVIOUS
    <3>1. outbox \in [Node -> Outbox]
      BY DEF Orderly, Inv, InvLoop
    <3>2. Sending(w)
      BY <1>1, <1>11, <3>1 DEF Sending
    <3>3. w \notin ackedBy[n]
      BY <1>3, <3>2 DEF Orderly, Releasing, Withholds
    <3> QED
      BY <1>1, <3>3
  <2>2. \A i \in DOMAIN outbox'[n] : outbox'[n][i][2].uid = n /\ outbox'[n][i][2].lc = reqLC'[n]
    <3>1. outbox \in [Node -> Outbox]
      BY DEF Orderly, Inv, InvLoop
    <3>2. outbox'[n] = ToSend(n, m)
      BY <1>1, <1>4, <3>1
    <3> QED
      BY <1>1, <1>5, <3>2, ToSendType
  <2>3. ASSUME NEW u \in Node, u # n, Placed(u)', n \in ackedBy'[u] PROVE FALSE
    <3>1. Placed(u) /\ n \in ackedBy[u]
      BY <1>1, <1>11, <2>3
    <3>2. Grants(n, u)
      BY <2>3, <3>1 DEF Orderly, Own
    <3> QED
      BY <1>18, <2>3, <3>1, <3>2
  <2>4. ASSUME NEW p \in Node, NEW r \in Node, NEW x \in Way(p, r)', x.type = "lockAck", x.by = n, x.uid # n,
               Current(Ent(x))'
        PROVE  FALSE
    <3>1. PICK A : Carried(p, r, x, A)'
      BY DEF Way, Carried, Cores
    <3>2. Carried(p, r, x, A)
      BY <1>5, <1>10, <2>4, <3>1
    <3>3. x \in Message /\ GoodAck(p, r, x, A)
      BY <2>4, <3>2, CarriedType DEF Orderly, Fine, Good
    <3>4. Ent(x) \in Entry /\ Ent(x).uid = x.uid /\ x.uid \in Node
      BY <3>3, EntryIs, CoreType
    <3>5. Current(Ent(x)) /\ Placed(x.uid)
      BY <1>11, <1>12, <2>4, <3>4 DEF Current
    <3>6. Grants(n, x.uid)
      BY <2>4, <3>3, <3>5 DEF GoodAck
    <3> QED
      BY <1>18, <2>4, <3>4, <3>5, <3>6
  <2>5. \A p, r \in Node : \A x \in Way(p, r)' :
          x.type = "lockAck" /\ x.by = n /\ x.uid # n => ~Current(Ent(x))'
    BY <2>4
  <2> QED
    BY <1>13, <2>1, <2>2, <2>3, <2>5 DEF Withholds
<1> QED
  BY <1>1, <1>10, <1>21, <1>22, <1>23, <1>24, <1>25 DEF Orderly

-----------------------------------------------------------------------------
\* Only nodes acknowledge.
Answers == ackedBy \in [Node -> SUBSET Node]

\* Whoever is noted as having acknowledged is a node.
LEMMA AnswersNext ==
  ASSUME Inv, Answers, [Next]_vars
  PROVE  Answers'
<1>1. ASSUME NEW n \in Node, NEW q \in Node, Handle(n, q) PROVE Answers'
  <2>1. CASE handle_lockRequest(n, q)
    BY <2>1 DEF handle_lockRequest, Answers
  <2>2. CASE handle_lockRelease(n, q)
    BY <2>2 DEF handle_lockRelease, Answers
  <2>3. CASE handle_lockAck(n, q)
    <3>1. Head(chan[q][n]).by \in Node
      BY <2>3, TakesType, CoreType DEF handle_lockAck
    <3> QED
      BY <2>3, <3>1 DEF handle_lockAck, Answers
  <2> QED
    BY <1>1, <2>1, <2>2, <2>3 DEF Handle
<1>2. ASSUME NEW n \in Node, RequestTick(n) \/ Advance(n) PROVE Answers'
  <2>1. CASE RequestTick(n)
    BY <2>1 DEF RequestTick, Answers
  <2>2. CASE Advance(n)
    <3>1. ackedBy' = ackedBy
      BY <2>2 DEF Advance, RequestAdd, LoopSend, Enter, Release, AckNext
    <3> QED
      BY <3>1 DEF Answers
  <2> QED
    BY <1>2, <2>1, <2>2
<1>3. CASE UNCHANGED vars
  BY <1>3 DEF vars, Answers
<1> QED
  BY <1>1, <1>2, <1>3 DEF Next

\* Nothing is queued or under way at first.
LEMMA OrderlyInit ==
  ASSUME Init
  PROVE  Orderly /\ Answers
<1>1. Inv /\ Answers
  BY InvInit DEF Init, Answers
<1>2. /\ \A p, r \in Node : chan[p][r] = <<>> /\ outbox[p] = <<>>
      /\ \A v \in Node : queue[v] = <<>> /\ loop[v] = "sleep"
  BY DEF Init, EmptyNet
<1>3. Outboxes
  BY <1>2 DEF Outboxes
<1>4. ASSUME NEW p \in Node, NEW r \in Node, NEW m, NEW A, Carried(p, r, m, A) PROVE FALSE
  BY <1>2, <1>4 DEF Carried, Pending
<1>5. Fine
  BY <1>4 DEF Fine
<1>6. \A v \in Node : Queued(v) = {} /\ Old(v) = {}
  BY <1>2 DEF Queued, Entries, Old
<1>7. Olds /\ Own
  BY <1>2, <1>6 DEF Olds, Own, Placed
<1>8. Trails
  BY <1>6, LinksType DEF Trails
<1>9. Releasing
  BY <1>2 DEF Releasing, Sending
<1> QED
  BY <1>1, <1>3, <1>5, <1>7, <1>8, <1>9 DEF Orderly

\* Every step keeps the order, as long as whoever is let in has been acknowledged by all,
\* and nobody acknowledges too early.
LEMMA OrderlyNext ==
  ASSUME Orderly, Answers, Counted, Patient, Patient', [Next]_vars
  PROVE  Orderly' /\ Answers'
<1>1. Answers'
  BY AnswersNext DEF Orderly
<1>2. ASSUME NEW n \in Node, NEW q \in Node, Handle(n, q) PROVE Orderly'
  BY <1>2, RequestOrderly, ReleaseOrderly, AckOrderly DEF Handle, Answers
<1>3. ASSUME NEW n \in Node, RequestTick(n) \/ Advance(n) PROVE Orderly'
  <2>1. CASE RequestTick(n)
    BY <2>1, TickOrderly DEF Answers
  <2>2. CASE RequestAdd(n)
    BY <2>2, AddOrderly
  <2>3. CASE LoopSend(n)
    BY <2>3, SendOrderly
  <2>4. CASE Enter(n)
    BY <2>4, EnterOrderly
  <2>5. CASE Release(n)
    <3>1. Acknowledged(n)
      BY <2>5 DEF Release, Counted
    <3> QED
      BY <2>5, <3>1, LeaveOrderly
  <2>6. CASE AckNext(n)
    BY <2>6, AckNextOrderly
  <2> QED
    BY <1>3, <2>1, <2>2, <2>3, <2>4, <2>5, <2>6 DEF Advance
<1>4. CASE UNCHANGED vars
  <2>1. /\ chan' = chan /\ LC' = LC /\ queue' = queue /\ loop' = loop /\ reqLC' = reqLC /\ outbox' = outbox
        /\ ackedBy' = ackedBy
    BY <1>4 DEF vars, clockVars, loopVars
  <2>2. Inv' /\ \A k \in Node : LC'[k] >= LC[k]
    BY InvNext DEF Orderly
  <2>3. Outboxes'
    BY <2>1 DEF Orderly, Outboxes
  <2>4. \A p, r \in Node : (\A m, A : Carried(p, r, m, A)' => Carried(p, r, m, A)) /\ Way(p, r) \subseteq Way(p, r)'
    BY <2>1 DEF Carried, Way, Pending
  <2>5. \A u \in Node : /\ Placed(u)' <=> Placed(u)
                        /\ loop'[u] = "ticked" <=> loop[u] = "ticked"
                        /\ Sending(u)' <=> Sending(u)
    BY <2>1 DEF Placed, Sending
  <2> QED
    BY <1>1, <2>1, <2>2, <2>3, <2>4, <2>5, QuietStep
<1> QED
  BY <1>1, <1>2, <1>3, <1>4 DEF Next

\* Of two nodes that have been acknowledged by all, each would have asked before the other.
LEMMA OneInside ==
  ASSUME Orderly, Counted
  PROVE  Alone
<1> SUFFICES ASSUME NEW p \in Node, NEW q \in Node, loop[p] = "critical", loop[q] = "critical", p # q
             PROVE  FALSE
  BY DEF Alone
<1>1. Placed(p) /\ Placed(q) /\ Active(p) /\ Active(q)
  BY DEF Placed, Active
<1>2. q \in ackedBy[p] /\ p \in ackedBy[q]
  BY DEF Counted, Acknowledged
<1>3. Grants(q, p) /\ Grants(p, q)
  BY <1>1, <1>2 DEF Orderly, Own
<1>4. reqLC[q] > reqLC[p] /\ reqLC[p] > reqLC[q] /\ reqLC[p] \in Nat /\ reqLC[q] \in Nat
  BY <1>1, <1>3, OrderlyTypes DEF Grants, Orderly
<1> QED
  BY <1>4

\* As long as nobody is let in who has not been acknowledged by all others, and no node
\* acknowledges a later request, or takes one with its own timestamp, between the Tick and
\* the Add of its request or before its releases are sent, no two nodes are in the critical
\* section at once (AcknowledgedAlone): on every tree, with any number of nodes and of
\* requests, whatever handlers come between the steps of the loops.
THEOREM AloneIfCounted == Spec => AcknowledgedAlone
<1>1. Init => Orderly /\ Answers
  BY OrderlyInit
<1>2. Orderly /\ Answers /\ Counted /\ Patient /\ Patient' /\ [Next]_vars => (Orderly /\ Answers)'
  BY OrderlyNext
<1>3. Orderly /\ Counted => Alone
  BY OneInside
<1> QED
  BY <1>1, <1>2, <1>3, PTL DEF Spec, AcknowledgedAlone
=============================================================================
