--------------------------- MODULE BankingProofs ---------------------------
(***************************************************************************)
(* Transactions and snapshots on every graph, tree, script and number of   *)
(* snapshots.                                                              *)
(***************************************************************************)
EXTENDS Banking, NetworkProofs, FiniteSetTheorems, WellFoundedInduction, TLAPS

\* A node in its critical section has the lock, and its transaction has begun.
Holding ==
  \A n \in Node : loop[n] \in {"asked", "started"} => begun >= 1 /\ lockRequestActive[n]

-----------------------------------------------------------------------------
(***************************************************************************)
(* TypeOK.                                                                  *)
(***************************************************************************)
\* The largest of some naturals up to a bound, randP.
LEMMA MaxType ==
  ASSUME NEW b \in Nat, NEW S, S \subseteq 0 .. b, S # {}
  PROVE  Max(S) \in S
<1> DEFINE T == {b - x : x \in S}
<1>1. \A x \in S : x \in Nat /\ x <= b /\ b - x \in Nat /\ b - x \in T
  OBVIOUS
<1>2. T \subseteq Nat /\ T # {}
  <2>1. \A y \in T : y \in Nat
    BY <1>1
  <2> QED
    BY <1>1, <2>1
<1> HIDE DEF T
<1>3. PICK y \in T : \A z \in T : ~ (<<z, y>> \in OpToRel(<, Nat))
  BY <1>2, WFMin, NatLessThanWellFounded
<1>4. ASSUME NEW z \in T PROVE z >= y
  <2>1. z \in Nat /\ y \in Nat /\ ~ (z < y)
    BY <1>2, <1>3 DEF OpToRel
  <2> QED
    BY <2>1
<1>5. PICK x \in S : y = b - x
  BY DEF T
<1>6. ASSUME NEW w \in S PROVE x >= w
  <2>1. b - w >= b - x
    BY <1>1, <1>4, <1>5
  <2> QED
    BY <1>1, <2>1
<1> QED
  BY <1>6 DEF Max

\* There are at least two nodes, or there would be no script.
LEMMA Scripted ==
  ASSUME TypeOK
  PROVE  /\ Cardinality(Node) \in Nat /\ Cardinality(Node) >= 2
         /\ Len(trans) \in Nat /\ begun \in Nat
         /\ \A t \in 1 .. Len(trans) : trans[t].by \in Node /\ trans[t].with \in Node
<1>1. trans \in Seq([by : Node, with : Node]) /\ trans # <<>>
  BY BoundAssumption DEF TypeOK
<1>2. /\ Len(trans) \in Nat /\ DOMAIN trans = 1 .. Len(trans)
      /\ \A t \in 1 .. Len(trans) : trans[t] \in [by : Node, with : Node]
  BY <1>1, Elements
<1>3. 1 \in DOMAIN trans
  BY <1>1
<1>4. ASSUME NEW t \in 1 .. Len(trans) PROVE trans[t].by \in Node /\ trans[t].with \in Node
  <2>1. trans[t] \in [by : Node, with : Node]
    BY <1>2
  <2> QED
    BY <2>1
<1>5. PICK a \in Node, b \in Node : a # b
  <2>1. trans[1].by # trans[1].with
    BY <1>3, BoundAssumption DEF TypeOK
  <2> QED
    BY <1>2, <1>3, <1>4, <2>1
<1>6. IsFiniteSet({a, b}) /\ Cardinality({a, b}) = 2
  <2>1. IsFiniteSet({a}) /\ Cardinality({a}) = 1 /\ b \notin {a} /\ {a} \cup {b} = {a, b}
    BY <1>5, FS_Singleton
  <2> QED
    BY <2>1, FS_AddElement
<1>7. Cardinality(Node) \in Nat /\ Cardinality({a, b}) <= Cardinality(Node)
  BY NodeAssumption, FS_Subset, FS_CardinalityType
<1> QED
  <2>1. begun \in 0 .. Len(trans)
    BY DEF TypeOK
  <2>2. Cardinality(Node) \in Nat /\ Cardinality(Node) >= 2
    BY <1>6, <1>7
  <2> HIDE DEF TypeOK
  <2> QED
    BY <1>2, <1>4, <2>1, <2>2

\* What the fields of a message are.
LEMMA MessageFields ==
  ASSUME NEW m \in Message
  PROVE  /\ m.type \in Requests \cup Answers =>
              m.t \in Nat /\ Id(m) \in (Requests \cup Answers) \X Nat
         /\ m.type \in Requests => m.target \in Node
         /\ m.type \in Answers => [m EXCEPT !.tree = FALSE] \in Message
         /\ m.type = "marker" => m.id \in Nat
         /\ m.type \in {"lockAck", "state"} => m.uid \in Node
<1>1. \/ m \in [type : Requests, t : Nat, target : Node]
      \/ m \in [type : Answers, t : Nat, tree : BOOLEAN]
      \/ m = Release
      \/ m \in [type : {"marker"}, id : Nat]
      \/ m \in [type : {"lockAck", "state"}, uid : Node]
  BY DEF Message
<1>2. CASE m \in [type : Requests, t : Nat, target : Node]
  BY <1>2 DEF Requests, Answers, Id
<1>3. CASE m \in [type : Answers, t : Nat, tree : BOOLEAN]
  BY <1>3 DEF Message, Requests, Answers, Id
<1>4. CASE m = Release
  BY <1>4 DEF Requests, Answers, Release
<1>5. CASE m \in [type : {"marker"}, id : Nat]
  BY <1>5 DEF Requests, Answers
<1>6. CASE m \in [type : {"lockAck", "state"}, uid : Node]
  BY <1>6 DEF Requests, Answers
<1> QED
  BY <1>1, <1>2, <1>3, <1>4, <1>5, <1>6

\* The neighbours in the tree.
LEMMA TreeNodes == ASSUME NEW n \in Node PROVE Tree(n) \subseteq Node
BY NodeAssumption, ParentAssumption DEF Tree, Childs

\* What is flooded.
LEMMA FloodType ==
  ASSUME NEW n \in Node, NEW q \in Node, NEW m \in Message, m.type \in Requests \cup Answers
  PROVE  Flood(n, q, m) \in Outgoing(Message)
<1>1. CASE m.type \in Requests
  BY <1>1, ToType DEF Flood
<1>2. CASE m.type \in Answers /\ m.type \notin Requests
  BY <1>2, ToType, ThenType, MessageFields DEF Flood
<1> QED
  BY <1>1, <1>2

\* The messages a node makes.
LEMMA Makes ==
  /\ \A t \in Nat, r \in Node : GetBalance(t, r) \in Message /\ Start(t, r) \in Message
  /\ \A t \in Nat, type \in Answers : Answer(type, t) \in Message /\ Answer(type, t).type = type
  /\ Release \in Message
  /\ \A r \in Node : Ack(r) \in Message /\ State(r) \in Message
  /\ \A id \in Nat : Marker(id) \in Message
BY DEF Message, GetBalance, Start, Answer, Release, Ack, State, Marker, Requests, Answers

\* The next holder is acknowledged, if there is one.
LEMMA AckType ==
  ASSUME TypeOK, NEW n \in Node
  PROVE  /\ AckTo(n) \subseteq Node
         /\ AckTo(n) = {} \/ Ack(turn) \in Message
<1>1. turn = Nobody \/ turn \in Node
  BY Scripted DEF turn
<1> QED
  BY <1>1, TreeNodes, Makes DEF AckTo

\* A message is stored in a snapshot.
LEMMA StoreType ==
  ASSUME TypeOK, NEW n \in Node, NEW q \in Node, Store(n, q)
  PROVE  /\ snapshots' \in [Node -> Snapshot]
         /\ UNCHANGED <<marking, receivedSnapshots>>
         /\ \A p \in Node : /\ snapshots'[p].id = snapshots[p].id
                            /\ snapshots'[p].msgInActive = snapshots[p].msgInActive
<1>1. snapshots \in [Node -> Snapshot] /\ snapshots[n] \in Snapshot
  BY DEF TypeOK
<1>2. [snapshots[n] EXCEPT !.affected = TRUE] \in Snapshot
      /\ [snapshots[n] EXCEPT !.affected = TRUE].id = snapshots[n].id
      /\ [snapshots[n] EXCEPT !.affected = TRUE].msgInActive = snapshots[n].msgInActive
  BY <1>1 DEF Snapshot
<1> HIDE DEF Snapshot
<1>3. \/ snapshots' = [snapshots EXCEPT ![n] = [snapshots[n] EXCEPT !.affected = TRUE]]
      \/ snapshots' = snapshots
  BY DEF Store
<1> QED
  BY <1>1, <1>2, <1>3 DEF Store

\* What a handler finds.
LEMMA TakesType ==
  ASSUME TypeOK, NEW n \in Node, NEW q \in Node, NEW kinds, Takes(n, q, kinds)
  PROVE  /\ chan \in Channels(Message) /\ chan[q][n] # <<>>
         /\ Head(chan[q][n]) \in Message /\ Head(chan[q][n]).type \in kinds
         /\ UNCHANGED <<loop, outbox, trans, begun>>
<1>1. chan \in Channels(Message)
  BY DEF TypeOK, Channels, Outgoing
<1> QED
  BY <1>1, HeadType DEF Takes, loopVars

\* The start.
LEMMA TypesInit == Init => TypeOK
<1> SUFFICES ASSUME Init PROVE TypeOK
  OBVIOUS
<1>1. /\ <<>> \in Seq(Message) /\ <<>> \in Seq(BalanceUpdate) /\ <<>> \in Seq(Node)
      /\ {} \in SUBSET Node
  BY EmptySeq
<1>2. NoSnapshot \in Snapshot
  BY <1>1 DEF NoSnapshot, Snapshot
<1>3. Len(trans) \in Nat /\ trans \in Scripts
  BY BoundAssumption DEF Init
<1>4. Cardinality(Node) \in Nat /\ Cardinality(Node) >= 2
  <2>1. trans \in Seq([by : Node, with : Node]) /\ trans # <<>>
    BY <1>3, BoundAssumption
  <2>2. 1 \in 1 .. Len(trans) /\ DOMAIN trans = 1 .. Len(trans)
    BY <2>1
  <2>3. PICK a \in Node, b \in Node : a # b
    <3>1. trans[1] \in [by : Node, with : Node]
      BY <2>1, <2>2, Elements
    <3>2. trans[1].by # trans[1].with
      BY <1>3, <2>2, BoundAssumption
    <3> QED
      BY <3>1, <3>2
  <2>4. IsFiniteSet({a}) /\ Cardinality({a}) = 1 /\ b \notin {a}
    BY <2>3, FS_Singleton
  <2>5. Cardinality({a} \cup {b}) = 2
    BY <2>4, FS_AddElement
  <2>6. {a} \cup {b} \subseteq Node
    OBVIOUS
  <2> QED
    BY <2>5, <2>6, NodeAssumption, FS_Subset, FS_CardinalityType
<1> HIDE DEF Snapshot, BalanceUpdate, Message
<1>5. /\ chan \in [Node -> [Node -> Seq(Message)]]
      /\ known \in [Node -> SUBSET ((Requests \cup Answers) \X Nat)]
      /\ balance \in [Node -> Seq(BalanceUpdate)]
  BY <1>1 DEF Init, EmptyNet
<1>6. /\ lockRequestActive \in [Node -> BOOLEAN]
      /\ lockAckCounter \in [Node -> 0 .. Cardinality(Node) - 2]
      /\ transactAckReceived \in [Node -> BOOLEAN]
      /\ transactBalanceReceived \in [Node -> BOOLEAN]
  BY <1>4 DEF Init
<1>7. /\ loop \in [Node -> {"wait", "asked", "started", "released"}]
      /\ outbox \in [Node -> SUBSET (Node \X Message)]
      /\ trans \in Scripts /\ begun \in 0 .. Len(trans)
      /\ strayed \in {"no", "tree", "shortcut"}
  BY <1>3 DEF Init
<1>8. /\ snapshots \in [Node -> Snapshot]
      /\ marking \in [Node -> SUBSET Node]
      /\ receivedSnapshots \in Seq(Node)
  BY <1>1, <1>2 DEF Init
<1> QED
  BY <1>5, <1>6, <1>7, <1>8 DEF TypeOK

\* A message of a transaction.
LEMMA TypesTransaction ==
  ASSUME TypeOK, NEW n \in Node, NEW q \in Node,
         \/ Deduplicate(n, q) \/ PassOn(n, q)
         \/ handle_transactGetBalance(n, q) \/ handle_transactStart(n, q)
         \/ handle_transactAck(n, q) \/ handle_transactBalance(n, q)
  PROVE  TypeOK'
<1> DEFINE m == Head(chan[q][n])
<1>1. /\ Takes(n, q, Requests \cup Answers)
      /\ Store(n, q)
  BY DEF Deduplicate, PassOn, handle_transactGetBalance, handle_transactStart,
         handle_transactAck, handle_transactBalance, Answering, Accepting, Takes, Requests, Answers
<1>2. /\ chan \in Channels(Message) /\ chan[q][n] # <<>> /\ m \in Message /\ m.type \in Requests \cup Answers
      /\ UNCHANGED <<loop, outbox, trans, begun>>
  BY <1>1, TakesType
<1>3. /\ snapshots' \in [Node -> Snapshot]
      /\ UNCHANGED <<marking, receivedSnapshots>>
  BY <1>1, StoreType
<1>4. m.t \in Nat /\ Id(m) \in (Requests \cup Answers) \X Nat
  BY <1>2, MessageFields
<1>5. \A type \in Answers : <<type, m.t>> \in (Requests \cup Answers) \X Nat
                           /\ Answer(type, m.t) \in Message /\ Answer(type, m.t).type \in Requests \cup Answers
  BY <1>4, Makes
<1>6. chan' \in Channels(Message)
  <2>1. PICK out \in Outgoing(Message) : chan' = Taken(chan, q, n) \/ chan' = Exchanged(chan, q, n, out)
    <3>1. CASE Deduplicate(n, q) \/ handle_transactAck(n, q) \/ handle_transactBalance(n, q)
      BY <3>1, NothingType DEF Deduplicate, handle_transactAck, handle_transactBalance, Accepting
    <3>2. CASE PassOn(n, q)
      BY <1>2, <3>2, FloodType DEF PassOn
    <3>3. CASE handle_transactGetBalance(n, q)
      <4>1. chan' = Exchanged(chan, q, n, Flood(n, n, Answer("transactBalance", m.t)))
        BY <3>3 DEF handle_transactGetBalance, Answering
      <4> QED
        BY <1>5, <4>1, FloodType DEF Answers
    <3>4. CASE handle_transactStart(n, q)
      <4>1. chan' = Exchanged(chan, q, n, Flood(n, n, Answer("transactAck", m.t)))
        BY <3>4 DEF handle_transactStart, Answering
      <4> QED
        BY <1>5, <4>1, FloodType DEF Answers
    <3> QED
      BY <3>1, <3>2, <3>3, <3>4
  <2> QED
    BY <1>2, <2>1, TakenAt, ExchangedType
<1>7. known' \in [Node -> SUBSET ((Requests \cup Answers) \X Nat)]
  <2>1. CASE UNCHANGED known
    BY <2>1 DEF TypeOK
  <2>2. ASSUME NEW S, S \subseteq (Requests \cup Answers) \X Nat,
               known' = [known EXCEPT ![n] = @ \cup S]
        PROVE  known' \in [Node -> SUBSET ((Requests \cup Answers) \X Nat)]
    <3>1. known[n] \cup S \in SUBSET ((Requests \cup Answers) \X Nat)
      BY <2>2 DEF TypeOK
    <3> QED
      BY <2>2, <3>1 DEF TypeOK
  <2>3. \/ UNCHANGED known
        \/ \E S \in SUBSET ((Requests \cup Answers) \X Nat) : known' = [known EXCEPT ![n] = @ \cup S]
    BY <1>4, <1>5 DEF Deduplicate, PassOn, handle_transactGetBalance, handle_transactStart,
                      handle_transactAck, handle_transactBalance, Answering, Accepting, Answers
  <2> QED
    BY <2>1, <2>2, <2>3
<1>8. balance' \in [Node -> Seq(BalanceUpdate)]
  <2>1. CASE handle_transactStart(n, q) \/ handle_transactBalance(n, q)
    <3>1. balance' = [balance EXCEPT ![n] = Append(balance[n], Id(m))]
      BY <2>1 DEF handle_transactStart, handle_transactBalance, Update
    <3>2. m.type \in {"transactStart", "transactBalance"}
      BY <2>1 DEF handle_transactStart, handle_transactBalance, Answering, Accepting, Takes
    <3>3. Id(m) \in BalanceUpdate
      BY <1>4, <3>2 DEF Id, BalanceUpdate
    <3>4. Append(balance[n], Id(m)) \in Seq(BalanceUpdate)
      BY <3>3 DEF TypeOK
    <3> QED
      BY <3>1, <3>4 DEF TypeOK
  <2>2. CASE UNCHANGED balance
    BY <2>2 DEF TypeOK
  <2> QED
    BY <2>1, <2>2 DEF Deduplicate, PassOn, handle_transactGetBalance, handle_transactAck, money
<1>9. transactAckReceived' \in [Node -> BOOLEAN] /\ transactBalanceReceived' \in [Node -> BOOLEAN]
  <2>1. CASE handle_transactAck(n, q)
    BY <2>1 DEF handle_transactAck, TypeOK
  <2>2. CASE handle_transactBalance(n, q)
    BY <2>2 DEF handle_transactBalance, TypeOK
  <2>3. CASE UNCHANGED <<transactAckReceived, transactBalanceReceived>>
    BY <2>3 DEF TypeOK
  <2> QED
    BY <2>1, <2>2, <2>3 DEF Deduplicate, PassOn, handle_transactGetBalance, handle_transactStart, Answering, money
<1>10. UNCHANGED lock
  BY DEF Deduplicate, PassOn, handle_transactGetBalance, handle_transactStart,
         handle_transactAck, handle_transactBalance, Answering, Accepting
<1>11. strayed' \in {"no", "tree", "shortcut"}
  BY DEF Deduplicate, PassOn, handle_transactGetBalance, handle_transactStart,
         handle_transactAck, handle_transactBalance, Answering, Accepting, TypeOK
<1> HIDE DEF m
<1> QED
  BY <1>2, <1>3, <1>6, <1>7, <1>8, <1>9, <1>10, <1>11 DEF TypeOK, lock, Channels, Outgoing

\* A message of the lock.
LEMMA TypesLock ==
  ASSUME TypeOK, NEW n \in Node, NEW q \in Node,
         handle_lockRelease(n, q) \/ handle_lockAck(n, q)
  PROVE  TypeOK'
<1> DEFINE m == Head(chan[q][n])
<1>1. /\ Takes(n, q, {"lockRelease"}) \/ Takes(n, q, {"lockAck"})
      /\ Store(n, q)
      /\ UNCHANGED <<known, money, strayed>>
  BY DEF handle_lockRelease, handle_lockAck
<1>2. /\ chan \in Channels(Message) /\ chan[q][n] # <<>> /\ m \in Message
      /\ UNCHANGED <<loop, outbox, trans, begun>>
  BY <1>1, TakesType
<1>3. /\ snapshots' \in [Node -> Snapshot]
      /\ UNCHANGED <<marking, receivedSnapshots>>
  BY <1>1, StoreType
<1>4. chan' \in Channels(Message)
  <2>1. PICK out \in Outgoing(Message) : chan' = Taken(chan, q, n) \/ chan' = Exchanged(chan, q, n, out)
    <3>1. CASE handle_lockRelease(n, q)
      <4>1. /\ To(AckTo(n), Ack(turn)) \in Outgoing(Message)
            /\ To(Tree(n) \ {q}, Release) \in Outgoing(Message)
        BY AckType, ToType, Makes
      <4> QED
        BY <3>1, <4>1, ThenType DEF handle_lockRelease
    <3>2. CASE handle_lockAck(n, q)
      BY <1>2, <3>2, ToType DEF handle_lockAck
    <3> QED
      BY <1>1, <3>1, <3>2
  <2> QED
    BY <1>2, <2>1, TakenAt, ExchangedType
<1>5. lockRequestActive' \in [Node -> BOOLEAN] /\ lockAckCounter' \in [Node -> 0 .. Cardinality(Node) - 2]
  <2>1. CASE UNCHANGED lock
    BY <2>1 DEF lock, TypeOK
  <2>2. CASE /\ lockAckCounter' = [lockAckCounter EXCEPT ![n] = Counted(n)]
             /\ lockRequestActive' = [lockRequestActive EXCEPT ![n] = @ \/ Counted(n) = 0]
    <3>1. lockAckCounter[n] \in Nat /\ Cardinality(Node) \in Nat /\ Cardinality(Node) >= 2
      <4>1. Cardinality(Node) \in Nat /\ Cardinality(Node) >= 2
        BY Scripted
      <4>2. lockAckCounter[n] \in 0 .. Cardinality(Node) - 2
        BY DEF TypeOK
      <4> QED
        BY <4>1, <4>2
    <3>2. Counted(n) \in 0 .. Cardinality(Node) - 2
      BY <3>1 DEF Counted
    <3>3. lockAckCounter' \in [Node -> 0 .. Cardinality(Node) - 2]
      BY <2>2, <3>2 DEF TypeOK
    <3>4. (lockRequestActive[n] \/ Counted(n) = 0) \in BOOLEAN
      OBVIOUS
    <3>5. lockRequestActive' \in [Node -> BOOLEAN]
      BY <2>2, <3>4 DEF TypeOK
    <3> QED
      BY <3>3, <3>5
  <2> QED
    BY <2>1, <2>2 DEF handle_lockRelease, handle_lockAck
<1> HIDE DEF m
<1> QED
  BY <1>1, <1>2, <1>3, <1>4, <1>5 DEF TypeOK, money, Channels, Outgoing

\* What a node records.
LEMMA RecordType ==
  ASSUME TypeOK, NEW n \in Node, NEW id \in Nat, NEW R, Record(n, id, R)
  PROVE  snapshots' \in [Node -> Snapshot]
<1>1. randP(n) \in Nat
  <2> DEFINE S == {0} \cup {t \in 1 .. begun : trans[t].by = n}
  <2>1. begun \in Nat /\ S \subseteq 0 .. begun /\ S # {}
    BY Scripted
  <2>2. Max(S) \in S
    BY <2>1, MaxType
  <2> QED
    BY <2>1, <2>2 DEF randP
<1>2. Neigh[n] \ R \in SUBSET Node
  BY NeighAssumption
<1>3. balance[n] \in Seq(BalanceUpdate)
  BY DEF TypeOK
<1>4. [id |-> id, balance |-> balance[n], randP |-> randP(n),
       msgInActive |-> Neigh[n] \ R, affected |-> FALSE] \in Snapshot
  BY <1>1, <1>2, <1>3 DEF Snapshot
<1> QED
  BY <1>4 DEF Record, TypeOK

\* The report of a node whose channels are closed.
LEMMA ReportType ==
  ASSUME NEW n \in Node, NEW active
  PROVE  Report(n, active) \in Outgoing(Message)
BY ToType, NothingType, Makes DEF Report

\* A marker or a report.
LEMMA TypesMarker ==
  ASSUME TypeOK, NEW n \in Node, NEW q \in Node, handle_marker(n, q) \/ handle_state(n, q)
  PROVE  TypeOK'
<1> DEFINE m == Head(chan[q][n])
<1>1. /\ Takes(n, q, {"marker"}) \/ Takes(n, q, {"state"})
      /\ UNCHANGED <<known, money, lock, strayed>>
  BY DEF handle_marker, FirstMarker, LaterMarker, handle_state
<1>2. /\ chan \in Channels(Message) /\ chan[q][n] # <<>> /\ m \in Message
      /\ UNCHANGED <<loop, outbox, trans, begun>>
  BY <1>1, TakesType
<1>3. CASE FirstMarker(n, q)
  <2>1. m.type = "marker"
    BY <1>3 DEF FirstMarker, Takes
  <2>2. m.id \in Nat
    BY <1>2, <2>1, MessageFields
  <2>3. snapshots' \in [Node -> Snapshot]
    BY <1>3, <2>2, RecordType DEF FirstMarker
  <2>4. marking' \in [Node -> SUBSET Node]
    BY <1>3, NeighAssumption DEF FirstMarker, TypeOK
  <2>5. chan' \in Channels(Message) /\ receivedSnapshots' \in Seq(Node)
    BY <1>2, <1>3, TakenAt DEF FirstMarker, TypeOK
  <2> HIDE DEF m
  <2> QED
    BY <1>1, <1>2, <2>3, <2>4, <2>5 DEF TypeOK, money, lock, Channels, Outgoing
<1>4. CASE LaterMarker(n, q)
  <2> DEFINE active == snapshots[n].msgInActive \ {q}
  <2>1. snapshots[n] \in Snapshot
    BY DEF TypeOK
  <2>2. [snapshots[n] EXCEPT !.msgInActive = active] \in Snapshot
    BY <2>1 DEF Snapshot
  <2>3. snapshots' \in [Node -> Snapshot]
    BY <1>4, <2>2 DEF LaterMarker, TypeOK
  <2>4. chan' \in Channels(Message)
    BY <1>2, <1>4, ReportType, ExchangedType DEF LaterMarker
  <2>5. receivedSnapshots' \in Seq(Node)
    <3>1. Append(receivedSnapshots, n) \in Seq(Node)
      BY AppendType DEF TypeOK
    <3> QED
      BY <1>4, <3>1 DEF LaterMarker, addCompleteSnapshot, TypeOK
  <2>6. UNCHANGED marking
    BY <1>4 DEF LaterMarker
  <2> HIDE DEF m
  <2> QED
    BY <1>1, <1>2, <2>3, <2>4, <2>5, <2>6 DEF TypeOK, money, lock, Channels, Outgoing
<1>5. CASE handle_state(n, q)
  <2>1. m.type = "state"
    BY <1>5 DEF handle_state, Takes
  <2>2. m.uid \in Node
    BY <1>2, <2>1, MessageFields
  <2>3. receivedSnapshots' \in Seq(Node)
    <3>1. Append(receivedSnapshots, m.uid) \in Seq(Node)
      BY <2>2, AppendType DEF TypeOK
    <3> QED
      BY <1>5, <3>1 DEF handle_state, addCompleteSnapshot, TypeOK
  <2>4. chan' \in Channels(Message)
    BY <1>2, <1>5, ToType, TakenAt, ExchangedType DEF handle_state
  <2>5. UNCHANGED <<snapshots, marking>>
    BY <1>5 DEF handle_state
  <2> HIDE DEF m
  <2> QED
    BY <1>1, <1>2, <2>3, <2>4, <2>5 DEF TypeOK, money, lock, Channels, Outgoing
<1> QED
  BY <1>3, <1>4, <1>5 DEF handle_marker

\* A snapshot begins, a marker is sent.
LEMMA TypesSnapshot ==
  ASSUME TypeOK, NewSnapshot \/ \E n, r \in Node : SendMarker(n, r)
  PROVE  TypeOK'
<1>1. CASE NewSnapshot
  <2>1. snapshots[Leader].id \in Nat /\ Leader \in Node
    BY NodeAssumption DEF TypeOK, Snapshot
  <2>2. snapshots' \in [Node -> Snapshot]
    <3> DEFINE id == snapshots[Leader].id + 1
    <3>1. id \in Nat /\ Record(Leader, id, {})
      BY <1>1, <2>1 DEF NewSnapshot
    <3> HIDE DEF id
    <3> QED
      BY <2>1, <3>1, RecordType
  <2>3. marking' \in [Node -> SUBSET Node]
    BY <1>1, NeighAssumption DEF NewSnapshot, TypeOK
  <2>4. receivedSnapshots' \in Seq(Node)
    BY <1>1, EmptySeq DEF NewSnapshot
  <2> QED
    BY <1>1, <2>2, <2>3, <2>4 DEF NewSnapshot, TypeOK, money, lock, loopVars
<1>2. ASSUME NEW n \in Node, NEW r \in Node, SendMarker(n, r)
      PROVE  TypeOK'
  <2>1. Marker(snapshots[n].id) \in Message
    BY Makes DEF TypeOK, Snapshot
  <2>2. chan \in Channels(Message)
    BY DEF TypeOK, Channels, Outgoing
  <2>3. To({r}, Marker(snapshots[n].id)) \in Outgoing(Message)
    BY <2>1, ToType
  <2>4. chan' \in Channels(Message)
    BY <1>2, <2>2, <2>3, ReportType, NothingType, ThenType, SentAt DEF SendMarker
  <2>5. marking' \in [Node -> SUBSET Node]
    BY <1>2 DEF SendMarker, TypeOK
  <2> QED
    BY <1>2, <2>4, <2>5 DEF SendMarker, TypeOK, money, lock, loopVars, Channels, Outgoing
<1> QED
  BY <1>1, <1>2

\* A step of the transaction loop.
LEMMA TypesLoop ==
  ASSUME TypeOK, Holding, NEW n \in Node, transactionLoop(n)
  PROVE  TypeOK'
<1>1. ASSUME NEW R, NEW msg, R = {} \/ msg \in Message, R \subseteq Node, SendAll(n, R, msg)
      PROVE  outbox' \in [Node -> SUBSET (Node \X Message)]
  <2>1. {<<r, msg>> : r \in R} \in SUBSET (Node \X Message)
    BY <1>1
  <2> QED
    BY <1>1, <2>1 DEF SendAll, TypeOK
<1>2. ASSUME NEW l \in {"wait", "asked", "started", "released"}, Goes(n, l)
      PROVE  loop' \in [Node -> {"wait", "asked", "started", "released"}]
  BY <1>2 DEF Goes, TypeOK
<1>3. ASSUME NEW id \in (Requests \cup Answers) \X Nat, known' = [known EXCEPT ![n] = @ \cup {id}]
      PROVE  known' \in [Node -> SUBSET ((Requests \cup Answers) \X Nat)]
  <2>1. known[n] \cup {id} \in SUBSET ((Requests \cup Answers) \X Nat)
    BY DEF TypeOK
  <2> QED
    BY <1>3, <2>1 DEF TypeOK
<1>4. Neigh[n] \subseteq Node /\ Tree(n) \subseteq Node
  BY NeighAssumption, TreeNodes
<1>5. CASE Enter(n)
  <2> DEFINE m == GetBalance(begun + 1, trans[begun + 1].with)
  <2>1. begun + 1 \in 1 .. Len(trans) /\ begun + 1 \in Nat
    BY <1>5, Scripted DEF Enter
  <2>2. m \in Message /\ Id(m) \in (Requests \cup Answers) \X Nat
    BY <2>1, Scripted, Makes DEF GetBalance, Id, Requests, Answers
  <2>3. outbox' \in [Node -> SUBSET (Node \X Message)] /\ known' \in [Node -> SUBSET ((Requests \cup Answers) \X Nat)]
    BY <1>1, <1>3, <1>4, <1>5, <2>2 DEF Enter
  <2>4. loop' \in [Node -> {"wait", "asked", "started", "released"}]
    BY <1>2, <1>5 DEF Enter
  <2>5. transactAckReceived' \in [Node -> BOOLEAN] /\ transactBalanceReceived' \in [Node -> BOOLEAN]
    BY <1>5 DEF Enter, TypeOK
  <2>6. begun' \in 0 .. Len(trans)
    BY <1>5, <2>1 DEF Enter
  <2> HIDE DEF m
  <2> QED
    BY <1>5, <2>3, <2>4, <2>5, <2>6 DEF Enter, TypeOK, lock, cut
<1>6. CASE FloodStart(n)
  <2> DEFINE m == Start(begun, trans[begun].with)
  <2>2. begun \in 1 .. Len(trans) /\ begun \in Nat
    BY <1>6, Scripted DEF FloodStart, At, Holding, TypeOK
  <2>1. m \in Message /\ Id(m) \in (Requests \cup Answers) \X Nat
    BY <2>2, Scripted, Makes DEF Start, Id, Requests, Answers
  <2>3. outbox' \in [Node -> SUBSET (Node \X Message)] /\ known' \in [Node -> SUBSET ((Requests \cup Answers) \X Nat)]
    BY <1>1, <1>3, <1>4, <1>6, <2>1 DEF FloodStart
  <2>4. loop' \in [Node -> {"wait", "asked", "started", "released"}]
    BY <1>2, <1>6 DEF FloodStart
  <2> HIDE DEF m
  <2> QED
    BY <1>6, <2>3, <2>4 DEF FloodStart, TypeOK, lock, money, cut
<1>7. CASE Exit(n)
  <2>1. outbox' \in [Node -> SUBSET (Node \X Message)]
    BY <1>1, <1>4, <1>7, Makes DEF Exit
  <2>2. loop' \in [Node -> {"wait", "asked", "started", "released"}]
    BY <1>2, <1>7 DEF Exit
  <2>3. lockRequestActive' \in [Node -> BOOLEAN]
    BY <1>7 DEF Exit, TypeOK
  <2> QED
    BY <1>7, <2>1, <2>2, <2>3 DEF Exit, TypeOK, money, cut
<1>8. CASE AckNext(n)
  <2>1. outbox' \in [Node -> SUBSET (Node \X Message)]
    BY <1>1, <1>8, AckType DEF AckNext
  <2>2. loop' \in [Node -> {"wait", "asked", "started", "released"}]
    BY <1>2, <1>8 DEF AckNext
  <2> QED
    BY <1>8, <2>1, <2>2 DEF AckNext, TypeOK, lock, money, cut
<1>9. CASE LoopSend(n)
  <2>1. PICK s \in outbox[n] : /\ chan' = Sent(chan, n, To({s[1]}, s[2]))
                              /\ outbox' = [outbox EXCEPT ![n] = @ \ {s}]
    BY <1>9 DEF LoopSend
  <2>2. s[2] \in Message /\ outbox[n] \ {s} \in SUBSET (Node \X Message)
    BY DEF TypeOK
  <2>3. outbox' \in [Node -> SUBSET (Node \X Message)]
    BY <2>1, <2>2 DEF TypeOK
  <2>4. chan \in Channels(Message)
    BY DEF TypeOK, Channels, Outgoing
  <2>5. chan' \in Channels(Message)
    BY <2>1, <2>2, <2>4, ToType, SentAt
  <2> QED
    BY <1>9, <2>3, <2>5 DEF LoopSend, TypeOK, lock, money, cut, Channels, Outgoing
<1> QED
  BY <1>5, <1>6, <1>7, <1>8, <1>9 DEF transactionLoop

\* Handlers leave the loop alone and take nobody's lock away.
LEMMA HandlerLeaves ==
  ASSUME TypeOK, NEW n \in Node, Handler(n) \/ leaderLoop
  PROVE  /\ UNCHANGED <<loop, outbox, trans, begun>>
         /\ \A p \in Node : lockRequestActive[p] => lockRequestActive'[p]
<1>1. CASE \E q \in Neigh[n] : Handle(n, q)
  <2>1. PICK q \in Neigh[n] : Handle(n, q)
    BY <1>1
  <2>2. UNCHANGED loopVars
    BY <2>1 DEF Handle, Deduplicate, PassOn, handle_transactGetBalance, handle_transactStart,
                handle_transactAck, handle_transactBalance, Answering, Accepting,
                handle_lockRelease, handle_lockAck, handle_marker, FirstMarker, LaterMarker,
                handle_state, Takes
  <2>3. CASE handle_lockAck(n, q)
    BY <2>2, <2>3 DEF handle_lockAck, TypeOK, lock, loopVars
  <2>4. CASE ~ handle_lockAck(n, q)
    <3>1. UNCHANGED lock
      BY <2>1, <2>4 DEF Handle, Deduplicate, PassOn, handle_transactGetBalance, handle_transactStart,
                  handle_transactAck, handle_transactBalance, Answering, Accepting,
                  handle_lockRelease, handle_marker, FirstMarker, LaterMarker, handle_state
    <3> QED
      BY <2>2, <3>1 DEF lock, loopVars
  <2> QED
    BY <2>3, <2>4
<1>2. CASE leaderLoop \/ \E q \in Neigh[n] : SendMarker(n, q)
  BY <1>2 DEF leaderLoop, NewSnapshot, SendMarker, lock, loopVars
<1> QED
  BY <1>1, <1>2 DEF Handler

\* The types and the holder, step by step.
LEMMA TypesNext == TypeOK /\ Holding /\ [Next]_vars => TypeOK' /\ Holding'
<1> SUFFICES ASSUME TypeOK, Holding, [Next]_vars PROVE TypeOK' /\ Holding'
  OBVIOUS
<1>1. ASSUME NEW n \in Node, Handler(n) PROVE TypeOK' /\ Holding'
  <2>1. Neigh[n] \subseteq Node
    BY NeighAssumption
  <2>2. TypeOK'
    BY <1>1, <2>1, TypesTransaction, TypesLock, TypesMarker, TypesSnapshot DEF Handler, Handle
  <2>3. /\ UNCHANGED <<loop, outbox, trans, begun>>
        /\ \A p \in Node : lockRequestActive[p] => lockRequestActive'[p]
    BY <1>1, HandlerLeaves
  <2> HIDE DEF TypeOK
  <2> QED
    BY <2>2, <2>3 DEF Holding
<1>2. CASE leaderLoop
  <2>1. TypeOK'
    BY <1>2, TypesSnapshot, NodeAssumption DEF leaderLoop
  <2>2. /\ UNCHANGED <<loop, outbox, trans, begun>>
        /\ \A p \in Node : lockRequestActive[p] => lockRequestActive'[p]
    BY <1>2, HandlerLeaves, NodeAssumption
  <2> HIDE DEF TypeOK
  <2> QED
    BY <2>1, <2>2 DEF Holding
<1>3. ASSUME NEW n \in Node, transactionLoop(n) PROVE TypeOK' /\ Holding'
  <2>1. TypeOK'
    BY <1>3, TypesLoop
  <2>2. CASE Enter(n)
    <3>1. begun' >= 1 /\ UNCHANGED lockRequestActive /\ lockRequestActive[n]
      BY <2>2, Scripted DEF Enter, lock
    <3>2. \A p \in Node : p # n => loop'[p] = loop[p]
      BY <2>2 DEF Enter, Goes, TypeOK
    <3> QED
      BY <2>1, <3>1, <3>2 DEF Holding
  <2>3. CASE FloodStart(n)
    <3>1. begun' = begun /\ UNCHANGED lockRequestActive /\ loop[n] = "asked"
      BY <2>3 DEF FloodStart, lock, At
    <3>2. \A p \in Node : p # n => loop'[p] = loop[p]
      BY <2>3 DEF FloodStart, Goes, TypeOK
    <3> QED
      BY <2>1, <3>1, <3>2 DEF Holding
  <2>4. CASE Exit(n)
    <3>1. begun' = begun /\ loop'[n] = "released"
      BY <2>4 DEF Exit, Goes, TypeOK
    <3>2. \A p \in Node : p # n => loop'[p] = loop[p] /\ lockRequestActive'[p] = lockRequestActive[p]
      BY <2>4 DEF Exit, Goes, TypeOK
    <3> QED
      BY <2>1, <3>1, <3>2 DEF Holding
  <2>5. CASE AckNext(n)
    <3>1. begun' = begun /\ UNCHANGED lockRequestActive /\ loop'[n] = "wait"
      BY <2>5 DEF AckNext, lock, Goes, TypeOK
    <3>2. \A p \in Node : p # n => loop'[p] = loop[p]
      BY <2>5 DEF AckNext, Goes, TypeOK
    <3> QED
      BY <2>1, <3>1, <3>2 DEF Holding
  <2>6. CASE LoopSend(n)
    BY <2>1, <2>6 DEF LoopSend, Holding, lock
  <2> QED
    BY <1>3, <2>2, <2>3, <2>4, <2>5, <2>6 DEF transactionLoop
<1>4. CASE UNCHANGED vars
  BY <1>4 DEF vars, TypeOK, Holding, money, lock, loopVars, cut
<1> QED
  BY <1>1, <1>2, <1>3, <1>4 DEF Next

\* Nobody is in the critical section yet.
LEMMA HoldingInit == Init => Holding
BY DEF Init, Holding

\* Every variable keeps its Go type, and no acknowledgement is left over (TypeOK), on
\* every graph and whatever is on its way.
THEOREM TypeCorrect == Spec => []TypeOK
BY TypesInit, HoldingInit, TypesNext, PTL DEF Spec

-----------------------------------------------------------------------------
(***************************************************************************)
(* The order of the two floods.  A node passes a request for the balance   *)
(* on to whom it will pass the start on (Passed), so that in every channel *)
(* a start is behind its request for the balance, or its receiver has that *)
(* already (Flow).                                                         *)
(***************************************************************************)
BalanceId(t) == <<"transactGetBalance", t>>
StartId(t) == <<"transactStart", t>>

Carries(s, id) == \E i \in DOMAIN s : Id(s[i]) = id
\* r has heard from p of the request for the balance of transaction t, or will.
Offered(net, kn, p, r, t) == BalanceId(t) \in kn[r] \/ Carries(net[p][r], BalanceId(t))

InOrder(s, K) ==
  \A i \in DOMAIN s : s[i].type = "transactStart" =>
    \/ BalanceId(s[i].t) \in K
    \/ \E j \in DOMAIN s : j < i /\ Id(s[j]) = BalanceId(s[i].t)
Flow(net, kn) == \A p, r \in Node : InOrder(net[p][r], kn[r])

KnownInOrder == \A n \in Node : \A t \in Nat : StartId(t) \in known[n] => BalanceId(t) \in known[n]

ToSend(n, r, t) == \E x \in outbox[n] : x[1] = r /\ Id(x[2]) = BalanceId(t)
Target(n, t) == trans[t].with = n
Passed ==
  \A n \in Node : \A r \in Neigh[n] : \A t \in Nat :
    BalanceId(t) \in known[n] /\ ~ Target(n, t) => Offered(chan, known, n, r, t) \/ ToSend(n, r, t)

SenderKnows ==
  \A p, q \in Node : \A i \in DOMAIN chan[p][q] :
    chan[p][q][i].type = "transactGetBalance" => Id(chan[p][q][i]) \in known[p]

\* A request is of a transaction that has begun, to its target.
Named(m) == m.type \in Requests => m.t \in 1 .. begun /\ m.target = trans[m.t].with
AllNamed ==
  /\ \A p, q \in Node : \A i \in DOMAIN chan[p][q] : Named(chan[p][q][i])
  /\ \A n \in Node : \A x \in outbox[n] : Named(x[2])

Boxes ==
  \A n \in Node : \A x \in outbox[n] :
    /\ x[2].type = "transactGetBalance" =>
         loop[n] = "asked" /\ x[2].t = begun /\ BalanceId(begun) \in known[n]
    /\ x[2].type = "transactStart" =>
         loop[n] = "started" /\ x[2].t = begun /\ Offered(chan, known, n, x[1], begun)

Asking ==
  \A n \in Node : loop[n] = "asked" =>
    /\ BalanceId(begun) \in known[n]
    /\ \A r \in Neigh[n] : Offered(chan, known, n, r, begun) \/ ToSend(n, r, begun)

\* While a node is asking, nobody has been told to start its transaction.
NotYet ==
  \A n \in Node : loop[n] = "asked" =>
    \A p, q \in Node : \A i \in DOMAIN chan[p][q] :
      chan[p][q][i].type = "transactStart" => chan[p][q][i].t # begun

Order ==
  /\ KnownInOrder /\ Flow(chan, known) /\ Passed /\ SenderKnows
  /\ AllNamed /\ Boxes /\ Asking /\ NotYet

\* What a sequence carries after the first message is taken, or others are sent.
LEMMA CarriesTail ==
  ASSUME NEW s \in Seq(Message), s # <<>>, NEW id, Carries(s, id)
  PROVE  Id(Head(s)) = id \/ Carries(Tail(s), id)
<1>1. PICK i \in DOMAIN s : Id(s[i]) = id
  BY DEF Carries
<1>2. CASE i = 1
  BY <1>1, <1>2, Uncons
<1>3. CASE i - 1 \in DOMAIN Tail(s) /\ Tail(s)[i - 1] = s[i]
  BY <1>1, <1>3 DEF Carries
<1> QED
  BY <1>2, <1>3, Uncons

\* The same when others are sent.
LEMMA CarriesConcat ==
  ASSUME NEW s \in Seq(Message), NEW t \in Seq(Message), NEW id, Carries(s, id)
  PROVE  Carries(s \o t, id)
BY Concat DEF Carries

\* And what is sent is carried.
LEMMA CarriesLast ==
  ASSUME NEW s \in Seq(Message), NEW m \in Message
  PROVE  Carries(s \o <<m>>, Id(m))
<1>1. Len(s) + 1 \in DOMAIN (s \o <<m>>) /\ (s \o <<m>>)[Len(s) + 1] = m
  OBVIOUS
<1> QED
  BY <1>1 DEF Carries

\* Order within one channel, when its first message is taken.
LEMMA InOrderTail ==
  ASSUME NEW s \in Seq(Message), s # <<>>, NEW K, NEW L, K \subseteq L, InOrder(s, K),
         Head(s).type = "transactGetBalance" => Id(Head(s)) \in L
  PROVE  InOrder(Tail(s), L)
<1> SUFFICES ASSUME NEW i \in DOMAIN Tail(s), Tail(s)[i].type = "transactStart",
                    BalanceId(Tail(s)[i].t) \notin L
             PROVE  \E j \in DOMAIN Tail(s) : j < i /\ Id(Tail(s)[j]) = BalanceId(Tail(s)[i].t)
  BY DEF InOrder
<1>1. i \in Nat /\ i + 1 \in DOMAIN s /\ Tail(s)[i] = s[i + 1]
  BY Uncons
<1>2. PICK j \in DOMAIN s : j < i + 1 /\ Id(s[j]) = BalanceId(s[i + 1].t)
  BY <1>1 DEF InOrder
<1>3. j # 1
  <2>1. SUFFICES ASSUME j = 1 PROVE FALSE
    OBVIOUS
  <2>2. Id(Head(s)) = BalanceId(Tail(s)[i].t)
    BY <1>1, <1>2, <2>1, Uncons
  <2>3. Head(s).type = "transactGetBalance"
    BY <2>2 DEF Id, BalanceId
  <2> QED
    BY <2>2, <2>3
<1>4. j \in Nat /\ j - 1 \in DOMAIN Tail(s) /\ Tail(s)[j - 1] = s[j]
  BY <1>3, Uncons
<1> QED
  BY <1>1, <1>2, <1>4

\* And when messages are sent over it.
LEMMA InOrderConcat ==
  ASSUME NEW s \in Seq(Message), NEW t \in Seq(Message), NEW K, InOrder(s, K),
         \A i \in DOMAIN t : t[i].type = "transactStart" =>
           BalanceId(t[i].t) \in K \/ Carries(s, BalanceId(t[i].t))
  PROVE  InOrder(s \o t, K)
<1> DEFINE u == s \o t
<1> SUFFICES ASSUME NEW i \in DOMAIN u, u[i].type = "transactStart", BalanceId(u[i].t) \notin K
             PROVE  \E j \in DOMAIN u : j < i /\ Id(u[j]) = BalanceId(u[i].t)
  BY DEF InOrder
<1>1. \A j \in DOMAIN s : j \in Nat /\ j <= Len(s) /\ j \in DOMAIN u /\ u[j] = s[j]
  BY Concat
<1>2. CASE i \in DOMAIN s /\ u[i] = s[i]
  BY <1>1, <1>2 DEF InOrder
<1>3. CASE i - Len(s) \in DOMAIN t /\ u[i] = t[i - Len(s)] /\ i > Len(s)
  <2>1. Carries(s, BalanceId(u[i].t))
    BY <1>3
  <2>2. PICK j \in DOMAIN s : Id(s[j]) = BalanceId(u[i].t)
    BY <2>1 DEF Carries
  <2> HIDE DEF u
  <2>3. j < i
    <3>1. Len(s) \in Nat /\ i \in Int
      <4>1. DOMAIN u = 1 .. Len(u) /\ Len(u) \in Nat
        BY Concat, Elements DEF u
      <4> QED
        BY <4>1, Elements
    <3> QED
      BY <1>1, <1>3, <3>1
  <2> QED
    BY <1>1, <2>2, <2>3
<1> QED
  BY <1>2, <1>3, Concat

\* All channels, when n takes a message of q and comes to know more.
LEMMA TakenFlow ==
  ASSUME NEW net \in Channels(Message), NEW q \in Node, NEW n \in Node, net[q][n] # <<>>,
         NEW kn, NEW kn2, \A p \in Node : kn[p] \subseteq kn2[p],
         Head(net[q][n]).type = "transactGetBalance" => Id(Head(net[q][n])) \in kn2[n],
         Flow(net, kn)
  PROVE  /\ Flow(Taken(net, q, n), kn2)
         /\ \A p, r \in Node, t \in Nat :
              Offered(net, kn, p, r, t) => Offered(Taken(net, q, n), kn2, p, r, t)
<1> DEFINE after == Taken(net, q, n)
<1>1. \A p, r \in Node : after[p][r] = IF p = q /\ r = n THEN Tail(net[q][n]) ELSE net[p][r]
  BY TakenAt
<1>2. \A p, r \in Node : net[p][r] \in Seq(Message)
  BY DEF Channels, Outgoing
<1> HIDE DEF after
<1>3. ASSUME NEW p \in Node, NEW r \in Node
      PROVE  InOrder(after[p][r], kn2[r])
  <2>1. InOrder(net[p][r], kn[r])
    BY DEF Flow
  <2>2. CASE p = q /\ r = n
    BY <1>1, <1>2, <2>1, <2>2, InOrderTail
  <2>3. CASE ~ (p = q /\ r = n)
    BY <1>1, <2>1, <2>3 DEF InOrder
  <2> QED
    BY <2>2, <2>3
<1>4. ASSUME NEW p \in Node, NEW r \in Node, NEW t \in Nat, Offered(net, kn, p, r, t)
      PROVE  Offered(after, kn2, p, r, t)
  <2>1. CASE BalanceId(t) \in kn[r]
    BY <2>1 DEF Offered
  <2>2. CASE Carries(net[p][r], BalanceId(t)) /\ p = q /\ r = n
    <3>1. Id(Head(net[q][n])) = BalanceId(t) \/ Carries(Tail(net[q][n]), BalanceId(t))
      BY <1>2, <2>2, CarriesTail
    <3>2. Id(Head(net[q][n])) = BalanceId(t) => Head(net[q][n]).type = "transactGetBalance"
      BY DEF Id, BalanceId
    <3> QED
      BY <1>1, <2>2, <3>1, <3>2 DEF Offered
  <2>3. CASE Carries(net[p][r], BalanceId(t)) /\ ~ (p = q /\ r = n)
    BY <1>1, <2>3 DEF Offered
  <2> QED
    BY <1>4, <2>1, <2>2, <2>3 DEF Offered
<1> QED
  BY <1>3, <1>4 DEF Flow, after

\* All channels, when n sends; a start only to whom it has offered the request before.
LEMMA SentFlow ==
  ASSUME NEW net \in Channels(Message), NEW n \in Node, NEW out \in Outgoing(Message), NEW kn, Flow(net, kn),
         \A r \in Node : \A i \in DOMAIN out[r] :
           out[r][i].type = "transactStart" => Offered(net, kn, n, r, out[r][i].t)
  PROVE  /\ Flow(Sent(net, n, out), kn)
         /\ \A p, r \in Node, t \in Nat :
              Offered(net, kn, p, r, t) => Offered(Sent(net, n, out), kn, p, r, t)
<1> DEFINE after == Sent(net, n, out)
<1>1. \A p, r \in Node : after[p][r] = IF p = n THEN net[n][r] \o out[r] ELSE net[p][r]
  <2> SUFFICES ASSUME NEW p \in Node, NEW r \in Node
               PROVE  Sent(net, n, out)[p][r] = IF p = n THEN net[n][r] \o out[r] ELSE net[p][r]
    OBVIOUS
  <2> QED
    BY SentAt
<1>2. \A p, r \in Node : net[p][r] \in Seq(Message) /\ out[r] \in Seq(Message)
  BY DEF Channels, Outgoing
<1> HIDE DEF after
<1>3. ASSUME NEW p \in Node, NEW r \in Node
      PROVE  InOrder(after[p][r], kn[r])
  <2>1. InOrder(net[p][r], kn[r])
    BY DEF Flow
  <2>2. CASE p = n
    <3>1. \A i \in DOMAIN out[r] : out[r][i].type = "transactStart" =>
            BalanceId(out[r][i].t) \in kn[r] \/ Carries(net[n][r], BalanceId(out[r][i].t))
      BY DEF Offered
    <3>2. net[n][r] \in Seq(Message) /\ out[r] \in Seq(Message) /\ InOrder(net[n][r], kn[r])
      BY <1>2, <2>1, <2>2
    <3>3. InOrder(net[n][r] \o out[r], kn[r])
      BY <3>1, <3>2, InOrderConcat
    <3> QED
      BY <1>1, <2>2, <3>3
  <2>3. CASE p # n
    BY <1>1, <2>1, <2>3 DEF InOrder
  <2> QED
    BY <2>2, <2>3
<1>4. ASSUME NEW p \in Node, NEW r \in Node, NEW t \in Nat, Offered(net, kn, p, r, t)
      PROVE  Offered(after, kn, p, r, t)
  <2>1. Carries(net[p][r], BalanceId(t)) => Carries(after[p][r], BalanceId(t))
    BY <1>1, <1>2, CarriesConcat
  <2> QED
    BY <1>4, <2>1 DEF Offered
<1> QED
  BY <1>3, <1>4 DEF Flow, after

\* No message is under way that was not, but what n sends.
LEMMA WhatIsUnderWay ==
  ASSUME NEW net \in Channels(Message), NEW q \in Node, NEW n \in Node, NEW out \in Outgoing(Message),
         NEW p \in Node, NEW r \in Node
  PROVE  /\ net[q][n] # <<>> => \A i \in DOMAIN Taken(net, q, n)[p][r] :
              \E j \in DOMAIN net[p][r] : Taken(net, q, n)[p][r][i] = net[p][r][j]
         /\ \A i \in DOMAIN Sent(net, n, out)[p][r] :
              \/ \E j \in DOMAIN net[p][r] : Sent(net, n, out)[p][r][i] = net[p][r][j]
              \/ p = n /\ \E j \in DOMAIN out[r] : Sent(net, n, out)[p][r][i] = out[r][j]
<1>1. net[q][n] \in Seq(Message) /\ net[p][r] \in Seq(Message) /\ out[r] \in Seq(Message)
  BY DEF Channels, Outgoing
<1>2. ASSUME net[q][n] # <<>>, NEW i \in DOMAIN Taken(net, q, n)[p][r]
      PROVE  \E j \in DOMAIN net[p][r] : Taken(net, q, n)[p][r][i] = net[p][r][j]
  <2>1. Taken(net, q, n)[p][r] = IF p = q /\ r = n THEN Tail(net[q][n]) ELSE net[p][r]
    BY <1>2, TakenAt
  <2> QED
    BY <1>1, <1>2, <2>1, Uncons
<1>3. ASSUME NEW i \in DOMAIN Sent(net, n, out)[p][r]
      PROVE  \/ \E j \in DOMAIN net[p][r] : Sent(net, n, out)[p][r][i] = net[p][r][j]
             \/ p = n /\ \E j \in DOMAIN out[r] : Sent(net, n, out)[p][r][i] = out[r][j]
  <2>1. Sent(net, n, out)[p][r] = IF p = n THEN net[n][r] \o out[r] ELSE net[p][r]
    BY SentAt
  <2>2. CASE p # n
    BY <1>3, <2>1, <2>2
  <2>3. CASE p = n
    <3>1. i \in DOMAIN (net[p][r] \o out[r]) /\ Sent(net, n, out)[p][r] = net[p][r] \o out[r]
      BY <1>3, <2>1, <2>3
    <3>2. \/ i \in DOMAIN net[p][r] /\ (net[p][r] \o out[r])[i] = net[p][r][i]
          \/ i - Len(net[p][r]) \in DOMAIN out[r]
             /\ (net[p][r] \o out[r])[i] = out[r][i - Len(net[p][r])]
      <4>1. \A k \in DOMAIN (net[p][r] \o out[r]) :
              \/ k \in DOMAIN net[p][r] /\ (net[p][r] \o out[r])[k] = net[p][r][k]
              \/ k - Len(net[p][r]) \in DOMAIN out[r]
                 /\ (net[p][r] \o out[r])[k] = out[r][k - Len(net[p][r])]
        BY <1>1, Concat
      <4> QED
        BY <3>1, <4>1
    <3>3. CASE i \in DOMAIN net[p][r] /\ (net[p][r] \o out[r])[i] = net[p][r][i]
      <4>1. Sent(net, n, out)[p][r][i] = net[p][r][i]
        BY <3>1, <3>3
      <4> QED
        BY <3>3, <4>1
    <3>4. CASE i - Len(net[p][r]) \in DOMAIN out[r]
               /\ (net[p][r] \o out[r])[i] = out[r][i - Len(net[p][r])]
      <4>1. PICK j : j = i - Len(net[p][r])
        OBVIOUS
      <4> QED
        BY <2>3, <3>1, <3>4, <4>1
    <3> QED
      BY <3>2, <3>3, <3>4
  <2> QED
    BY <2>2, <2>3
<1> QED
  BY <1>2, <1>3

\* The head of a channel is in order: a start finds its request known.
LEMMA HeadInOrder ==
  ASSUME TypeOK, Order, NEW n \in Node, NEW q \in Node, chan[q][n] # <<>>
  PROVE  LET m == Head(chan[q][n])
         IN /\ Named(m)
            /\ m.type = "transactStart" => BalanceId(m.t) \in known[n]
            /\ m.type = "transactGetBalance" => Id(m) \in known[q]
            /\ m.type = "transactStart" => \A p \in Node : loop[p] = "asked" => m.t # begun
<1>1. chan[q][n] \in Seq(Message)
  BY DEF TypeOK
<1>2. 1 \in DOMAIN chan[q][n] /\ Head(chan[q][n]) = chan[q][n][1]
  BY <1>1, Uncons
<1>3. \A j \in DOMAIN chan[q][n] : ~ (j < 1)
  BY <1>1, Uncons
<1> QED
  BY <1>2, <1>3 DEF Order, AllNamed, Flow, InOrder, SenderKnows, NotYet

\* A handler that takes a message of q and sends out keeps the order, if it answers for
\* what it comes to know and for what it sends.
LEMMA HandlerKeeps ==
  ASSUME TypeOK, Order, NEW n \in Node, NEW q \in Node, chan[q][n] # <<>>, NEW out \in Outgoing(Message),
         chan' = Taken(chan, q, n) \/ chan' = Exchanged(chan, q, n, out),
         UNCHANGED <<loop, outbox, trans, begun>>,
         \A p \in Node : known[p] \subseteq known'[p],
         \A p \in Node : p # n => known'[p] = known[p],
         Head(chan[q][n]).type = "transactGetBalance" => Id(Head(chan[q][n])) \in known'[n],
         \A t \in Nat : StartId(t) \in known'[n] => BalanceId(t) \in known'[n],
         \A r \in Neigh[n], t \in Nat :
           BalanceId(t) \in known'[n] \ known[n] /\ ~ Target(n, t) => Offered(chan', known', n, r, t),
         \A r \in Node : \A i \in DOMAIN out[r] :
           /\ Named(out[r][i])
           /\ out[r][i].type = "transactGetBalance" => Id(out[r][i]) \in known'[n]
           /\ out[r][i].type = "transactStart" =>
                /\ out[r][i].t \in Nat /\ Offered(chan, known, n, r, out[r][i].t)
                /\ \A p \in Node : loop[p] = "asked" => out[r][i].t # begun
  PROVE  Order'
<1> DEFINE net == Taken(chan, q, n)
<1>1. chan \in Channels(Message) /\ net \in Channels(Message)
  BY TakenAt DEF TypeOK, Channels, Outgoing
<1>2. /\ Flow(net, known')
      /\ \A p, r \in Node, t \in Nat : Offered(chan, known, p, r, t) => Offered(net, known', p, r, t)
  BY <1>1, TakenFlow DEF Order
<1>3. /\ Flow(Sent(net, n, out), known')
      /\ \A p, r \in Node, t \in Nat :
           Offered(net, known', p, r, t) => Offered(Sent(net, n, out), known', p, r, t)
  <2>1. \A r \in Node : \A i \in DOMAIN out[r] :
          out[r][i].type = "transactStart" => Offered(net, known', n, r, out[r][i].t)
    BY <1>2
  <2> HIDE DEF net
  <2> QED
    BY <1>1, <1>2, <2>1, SentFlow
<1>4. chan' = net \/ chan' = Sent(net, n, out)
  BY DEF Exchanged
<1>5. \A p, r \in Node : \A i \in DOMAIN chan'[p][r] :
        \/ \E j \in DOMAIN chan[p][r] : chan'[p][r][i] = chan[p][r][j]
        \/ p = n /\ \E j \in DOMAIN out[r] : chan'[p][r][i] = out[r][j]
  <2> SUFFICES ASSUME NEW p \in Node, NEW r \in Node, NEW i \in DOMAIN chan'[p][r]
               PROVE  \/ \E j \in DOMAIN chan[p][r] : chan'[p][r][i] = chan[p][r][j]
                      \/ p = n /\ \E j \in DOMAIN out[r] : chan'[p][r][i] = out[r][j]
    OBVIOUS
  <2>1. \A k \in DOMAIN net[p][r] : \E j \in DOMAIN chan[p][r] : net[p][r][k] = chan[p][r][j]
    BY <1>1, WhatIsUnderWay
  <2>2. \A k \in DOMAIN Sent(net, n, out)[p][r] :
          \/ \E j \in DOMAIN net[p][r] : Sent(net, n, out)[p][r][k] = net[p][r][j]
          \/ p = n /\ \E j \in DOMAIN out[r] : Sent(net, n, out)[p][r][k] = out[r][j]
    <3> HIDE DEF net
    <3> QED
      BY <1>1, WhatIsUnderWay
  <2> HIDE DEF net
  <2>3. CASE chan' = net
    BY <2>1, <2>3
  <2>4. CASE chan' = Sent(net, n, out)
    BY <2>1, <2>2, <2>4
  <2> QED
    BY <1>4, <2>3, <2>4
<1> HIDE DEF net
<1>6. Flow(chan', known') /\ \A p, r \in Node, t \in Nat :
        Offered(chan, known, p, r, t) => Offered(chan', known', p, r, t)
  BY <1>2, <1>3, <1>4
<1>7. KnownInOrder'
  BY DEF KnownInOrder, Order
<1>8. Passed'
  <2> SUFFICES ASSUME NEW p \in Node, NEW r \in Neigh[p], NEW t \in Nat,
                      BalanceId(t) \in known'[p], ~ Target(p, t)
               PROVE  Offered(chan', known', p, r, t) \/ ToSend(p, r, t)
    BY DEF Passed, ToSend, Target
  <2>1. CASE BalanceId(t) \in known[p]
    BY <1>6, <2>1, NeighAssumption DEF Order, Passed
  <2>2. CASE BalanceId(t) \notin known[p]
    BY <2>2
  <2> QED
    BY <2>1, <2>2
<1>9. SenderKnows'
  BY <1>5 DEF SenderKnows, Order
<1>10. AllNamed'
  BY <1>5 DEF AllNamed, Named, Order
<1>11. Boxes'
  <2> SUFFICES ASSUME NEW p \in Node, NEW x \in outbox[p]
               PROVE  /\ x[2].type = "transactGetBalance" =>
                           loop[p] = "asked" /\ x[2].t = begun /\ BalanceId(begun) \in known'[p]
                      /\ x[2].type = "transactStart" =>
                           loop[p] = "started" /\ x[2].t = begun /\ Offered(chan', known', p, x[1], begun)
    BY DEF Boxes
  <2>1. x[1] \in Node /\ begun \in Nat
    BY Scripted DEF TypeOK
  <2> QED
    BY <1>6, <2>1 DEF Order, Boxes
<1>12. Asking'
  <2> SUFFICES ASSUME NEW p \in Node, loop[p] = "asked"
               PROVE  /\ BalanceId(begun) \in known'[p]
                      /\ \A r \in Neigh[p] : Offered(chan', known', p, r, begun) \/ ToSend(p, r, begun)
    BY DEF Asking, ToSend
  <2>1. begun \in Nat /\ Neigh[p] \subseteq Node
    BY Scripted, NeighAssumption
  <2> QED
    BY <1>6, <2>1 DEF Order, Asking
<1>13. NotYet'
  BY <1>5 DEF NotYet, Order
<1> QED
  BY <1>6, <1>7, <1>8, <1>9, <1>10, <1>11, <1>12, <1>13 DEF Order

\* Nothing of a transaction's two floods is sent.
Quiet(out) == \A r \in Node : \A i \in DOMAIN out[r] : out[r][i].type \notin Requests

\* Sends that are quiet.
LEMMA QuietTo ==
  /\ Quiet(Nothing)
  /\ \A R, msg : R = {} \/ msg.type \notin Requests => Quiet(To(R, msg))
BY EmptySeq DEF Quiet, Nothing, To

\* One after the other.
LEMMA QuietThen ==
  ASSUME NEW out1 \in Outgoing(Message), NEW out2 \in Outgoing(Message), Quiet(out1), Quiet(out2)
  PROVE  Quiet(Then(out1, out2))
<1> SUFFICES ASSUME NEW r \in Node, NEW i \in DOMAIN (out1[r] \o out2[r])
             PROVE  (out1[r] \o out2[r])[i].type \notin Requests
  BY DEF Quiet, Then
<1>1. out1[r] \in Seq(Message) /\ out2[r] \in Seq(Message)
  BY DEF Outgoing
<1>2. \/ i \in DOMAIN out1[r] /\ (out1[r] \o out2[r])[i] = out1[r][i]
      \/ i - Len(out1[r]) \in DOMAIN out2[r] /\ (out1[r] \o out2[r])[i] = out2[r][i - Len(out1[r])]
  BY <1>1, Concat
<1> QED
  BY <1>2 DEF Quiet

\* An answer that is flooded.
LEMMA QuietFlood ==
  ASSUME NEW n \in Node, NEW q \in Node, NEW m \in Message, m.type \in Answers
  PROVE  Quiet(Flood(n, q, m))
<1>1. m.type \notin Requests /\ [m EXCEPT !.tree = FALSE] \in Message
  BY MessageFields DEF Requests, Answers
<1>2. [m EXCEPT !.tree = FALSE].type \notin Requests
  <2>1. m \in [type : Answers, t : Nat, tree : BOOLEAN]
    BY DEF Message, Requests, Answers, Release
  <2> QED
    BY <1>1, <2>1
<1> QED
  BY <1>1, <1>2, QuietTo, QuietThen, ToType DEF Flood

\* A handler that sends nothing of a flood.
LEMMA QuietKeeps ==
  ASSUME TypeOK, Order, NEW n \in Node, NEW q \in Node, chan[q][n] # <<>>, NEW out \in Outgoing(Message),
         chan' = Taken(chan, q, n) \/ chan' = Exchanged(chan, q, n, out), Quiet(out),
         UNCHANGED <<loop, outbox, trans, begun>>,
         NEW ids, known' = [known EXCEPT ![n] = @ \cup ids],
         Head(chan[q][n]).type = "transactGetBalance" => Id(Head(chan[q][n])) \in known[n] \cup ids,
         \A t \in Nat : StartId(t) \in ids => BalanceId(t) \in known[n],
         \A t \in Nat : BalanceId(t) \in ids => Target(n, t)
  PROVE  Order'
<1>1. known \in [Node -> SUBSET ((Requests \cup Answers) \X Nat)]
  BY DEF TypeOK
<1>2. known'[n] = known[n] \cup ids /\ \A p \in Node : p # n => known'[p] = known[p]
  BY <1>1
<1>3. \A t \in Nat : StartId(t) \in known'[n] => BalanceId(t) \in known'[n]
  BY <1>2 DEF Order, KnownInOrder
<1>4. \A r \in Neigh[n], t \in Nat :
        BalanceId(t) \in known'[n] \ known[n] /\ ~ Target(n, t) => Offered(chan', known', n, r, t)
  BY <1>2
<1>5. \A r \in Node : \A i \in DOMAIN out[r] :
        /\ Named(out[r][i])
        /\ out[r][i].type = "transactGetBalance" => Id(out[r][i]) \in known'[n]
        /\ out[r][i].type = "transactStart" =>
             /\ out[r][i].t \in Nat /\ Offered(chan, known, n, r, out[r][i].t)
             /\ \A p \in Node : loop[p] = "asked" => out[r][i].t # begun
  BY DEF Quiet, Named, Requests
<1>6. \A p \in Node : known[p] \subseteq known'[p]
  BY <1>2
<1> QED
  BY <1>2, <1>3, <1>4, <1>5, <1>6, HandlerKeeps

\* A message of a transaction.
LEMMA OrderTransaction ==
  ASSUME TypeOK, Order, NEW n \in Node, NEW q \in Neigh[n],
         \/ Deduplicate(n, q) \/ PassOn(n, q)
         \/ handle_transactGetBalance(n, q) \/ handle_transactStart(n, q)
         \/ handle_transactAck(n, q) \/ handle_transactBalance(n, q)
  PROVE  Order'
<1> DEFINE m == Head(chan[q][n])
<1>1. /\ q \in Node /\ n \in Neigh[q] /\ Neigh[n] \subseteq Node
  BY NeighAssumption
<1>2. Takes(n, q, Requests \cup Answers)
  BY DEF Deduplicate, PassOn, handle_transactGetBalance, handle_transactStart,
         handle_transactAck, handle_transactBalance, Answering, Accepting, Takes, Requests, Answers
<1>3. /\ chan \in Channels(Message) /\ chan[q][n] # <<>> /\ m \in Message /\ m.type \in Requests \cup Answers
      /\ UNCHANGED <<loop, outbox, trans, begun>>
  BY <1>1, <1>2, TakesType
<1>4. m.t \in Nat /\ Id(m) = <<m.type, m.t>>
  BY <1>3, MessageFields DEF Id
<1>5. /\ Named(m)
      /\ m.type = "transactStart" => BalanceId(m.t) \in known[n]
      /\ m.type = "transactGetBalance" => Id(m) \in known[q]
      /\ m.type = "transactStart" => \A p \in Node : loop[p] = "asked" => m.t # begun
  BY <1>1, <1>3, HeadInOrder
<1>6. known \in [Node -> SUBSET ((Requests \cup Answers) \X Nat)]
  BY DEF TypeOK
<1>7. \A type \in Answers : Answer(type, m.t) \in Message /\ Answer(type, m.t).type \in Answers
  BY <1>4, Makes
<1>8. CASE Deduplicate(n, q)
  <2> DEFINE ids == {}
  <2>1. Id(m) \in known[n] \cup ids /\ known' = [known EXCEPT ![n] = @ \cup ids]
    BY <1>6, <1>8 DEF Deduplicate
  <2>2. chan' = Taken(chan, q, n) /\ Nothing \in Outgoing(Message) /\ Quiet(Nothing)
    BY <1>8, NothingType, QuietTo DEF Deduplicate
  <2>3. \A t \in Nat : StartId(t) \notin ids /\ BalanceId(t) \notin ids
    OBVIOUS
  <2> HIDE DEF ids
  <2> QED
    BY <1>1, <1>3, <2>1, <2>2, <2>3, QuietKeeps
<1>9. CASE PassOn(n, q) /\ m.type \in Answers
  <2> DEFINE ids == {Id(m)}
             out == Flood(n, q, m)
  <2>1. known' = [known EXCEPT ![n] = @ \cup ids] /\ chan' = Exchanged(chan, q, n, out)
    BY <1>9 DEF PassOn
  <2>2. out \in Outgoing(Message) /\ Quiet(out)
    BY <1>1, <1>3, <1>9, FloodType, QuietFlood
  <2>3. \A t \in Nat : StartId(t) \notin ids /\ BalanceId(t) \notin ids
    BY <1>4, <1>9 DEF StartId, BalanceId, Answers
  <2>4. Id(m) \in known[n] \cup ids
    OBVIOUS
  <2> HIDE DEF ids, out
  <2> QED
    BY <1>1, <1>3, <2>1, <2>2, <2>3, <2>4, QuietKeeps
<1>10. CASE PassOn(n, q) /\ m.type \in Requests
  <2> DEFINE out == To((Neigh[n] \ {q}) \cap Node, m)
  <2>1. known' = [known EXCEPT ![n] = @ \cup {Id(m)}] /\ chan' = Exchanged(chan, q, n, out)
    BY <1>10 DEF PassOn, Flood
  <2>2. out \in Outgoing(Message)
    BY <1>3, ToType
  <2>3. ~ Target(n, m.t)
    BY <1>5, <1>10 DEF PassOn, Concerned, Target, Named
  <2>4. known'[n] = known[n] \cup {Id(m)} /\ \A p \in Node : p # n => known'[p] = known[p]
    BY <1>6, <2>1
  <2>5. \A t \in Nat : StartId(t) \in known'[n] => BalanceId(t) \in known'[n]
    <3> SUFFICES ASSUME NEW t \in Nat, StartId(t) \in known'[n]
                 PROVE  BalanceId(t) \in known'[n]
      OBVIOUS
    <3>1. CASE StartId(t) = Id(m)
      BY <1>4, <1>5, <2>4, <3>1 DEF StartId
    <3>2. CASE StartId(t) \in known[n]
      BY <2>4, <3>2 DEF Order, KnownInOrder
    <3> QED
      BY <2>4, <3>1, <3>2
  <2>6. ASSUME NEW r \in Neigh[n], NEW t \in Nat, BalanceId(t) \in known'[n] \ known[n]
        PROVE  Offered(chan', known', n, r, t)
    <3>1. Id(m) = BalanceId(t) /\ m.type = "transactGetBalance"
      BY <1>4, <2>4, <2>6 DEF BalanceId
    <3>2. CASE r = q
      BY <1>1, <1>5, <2>4, <2>6, <3>1, <3>2, NeighAssumption DEF Offered
    <3>3. CASE r # q
      <4>1. Taken(chan, q, n) \in Channels(Message)
        BY <1>1, <1>3, TakenAt
      <4>2. Taken(chan, q, n)[n][r] \in Seq(Message)
        BY <1>1, <4>1 DEF Channels, Outgoing
      <4>3. out[r] = <<m>>
        BY <1>1, <3>3 DEF To
      <4>4. chan'[n][r] = Taken(chan, q, n)[n][r] \o out[r]
        <5> DEFINE net == Taken(chan, q, n)
        <5>1. chan' = Sent(net, n, out) /\ net \in Channels(Message) /\ r \in Node
          BY <1>1, <2>1, <4>1 DEF Exchanged
        <5> HIDE DEF net, out
        <5>2. Sent(net, n, out)[n][r] = net[n][r] \o out[r]
          <6>1. \A p, s \in Node :
                  Sent(net, n, out)[p][s] = IF p = n THEN net[n][s] \o out[s] ELSE net[p][s]
            BY <2>2, <5>1, SentAt
          <6> QED
            BY <5>1, <6>1
        <5> QED
          BY <5>1, <5>2 DEF net
      <4>5. Carries(chan'[n][r], Id(m))
        BY <1>3, <4>2, <4>3, <4>4, CarriesLast
      <4> QED
        BY <3>1, <4>5 DEF Offered
    <3> QED
      BY <3>2, <3>3
  <2>7. ASSUME NEW r \in Node, NEW i \in DOMAIN out[r]
        PROVE  /\ Named(out[r][i])
               /\ out[r][i].type = "transactGetBalance" => Id(out[r][i]) \in known'[n]
               /\ out[r][i].type = "transactStart" =>
                    /\ out[r][i].t \in Nat /\ Offered(chan, known, n, r, out[r][i].t)
                    /\ \A p \in Node : loop[p] = "asked" => out[r][i].t # begun
    <3>1. r \in Neigh[n] /\ out[r][i] = m
      BY EmptySeq DEF To
    <3>2. ASSUME m.type = "transactStart"
          PROVE  Offered(chan, known, n, r, m.t)
      <4>1. Offered(chan, known, n, r, m.t) \/ ToSend(n, r, m.t)
        BY <1>4, <1>5, <2>3, <3>1, <3>2 DEF Order, Passed
      <4>2. ASSUME ToSend(n, r, m.t) PROVE FALSE
        <5>1. PICK x \in outbox[n] : Id(x[2]) = BalanceId(m.t)
          BY <4>2 DEF ToSend
        <5>2. x[2].type = "transactGetBalance" /\ x[2].t = m.t
          BY <5>1 DEF Id, BalanceId
        <5> QED
          BY <1>5, <3>2, <5>2 DEF Order, Boxes
      <4> QED
        BY <4>1, <4>2
    <3> QED
      BY <1>4, <1>5, <2>4, <3>1, <3>2
  <2>8. \A p \in Node : known[p] \subseteq known'[p]
    BY <2>4
  <2>9. Head(chan[q][n]).type = "transactGetBalance" => Id(Head(chan[q][n])) \in known'[n]
    BY <2>4
  <2>10. \A r \in Neigh[n], t \in Nat :
           BalanceId(t) \in known'[n] \ known[n] /\ ~ Target(n, t) => Offered(chan', known', n, r, t)
    BY <2>6
  <2>11. /\ chan[q][n] # <<>> /\ UNCHANGED <<loop, outbox, trans, begun>>
         /\ \A p \in Node : p # n => known'[p] = known[p]
         /\ chan' = Taken(chan, q, n) \/ chan' = Exchanged(chan, q, n, out)
    BY <1>3, <2>1, <2>4
  <2> HIDE DEF out, m
  <2> QED
    BY <1>1, <2>2, <2>5, <2>7, <2>8, <2>9, <2>10, <2>11, HandlerKeeps
<1>11. CASE handle_transactGetBalance(n, q) \/ handle_transactStart(n, q)
  <2>1. PICK answer \in Answers :
          /\ known' = [known EXCEPT ![n] = @ \cup {Id(m), <<answer, m.t>>}]
          /\ chan' = Exchanged(chan, q, n, Flood(n, n, Answer(answer, m.t)))
    BY <1>11 DEF handle_transactGetBalance, handle_transactStart, Answering, Answers
  <2>2. Concerned(n, m) /\ m.type \in Requests
    BY <1>11 DEF handle_transactGetBalance, handle_transactStart, Answering, Takes, Requests
  <2>3. Target(n, m.t)
    BY <1>5, <2>2 DEF Concerned, Target, Named
  <2>4. Flood(n, n, Answer(answer, m.t)) \in Outgoing(Message) /\ Quiet(Flood(n, n, Answer(answer, m.t)))
    BY <1>7, FloodType, QuietFlood
  <2> DEFINE ids == {Id(m), <<answer, m.t>>}
  <2>5. \A t \in Nat : StartId(t) \in ids => BalanceId(t) \in known[n]
    BY <1>4, <1>5 DEF StartId, Answers
  <2>6. \A t \in Nat : BalanceId(t) \in ids => Target(n, t)
    BY <1>4, <2>3 DEF BalanceId, Answers
  <2>7. Id(m) \in known[n] \cup ids
    OBVIOUS
  <2> HIDE DEF ids
  <2> QED
    BY <1>1, <1>3, <2>1, <2>4, <2>5, <2>6, <2>7, QuietKeeps DEF ids
<1>12. CASE handle_transactAck(n, q) \/ handle_transactBalance(n, q)
  <2> DEFINE ids == {Id(m)}
  <2>1. known' = [known EXCEPT ![n] = @ \cup ids] /\ chan' = Taken(chan, q, n) /\ m.type \in Answers
    BY <1>12 DEF handle_transactAck, handle_transactBalance, Accepting, Takes, Answers
  <2>2. \A t \in Nat : StartId(t) \notin ids /\ BalanceId(t) \notin ids
    BY <1>4, <2>1 DEF StartId, BalanceId, Answers
  <2>3. Id(m) \in known[n] \cup ids /\ Nothing \in Outgoing(Message) /\ Quiet(Nothing)
    BY NothingType, QuietTo
  <2> HIDE DEF ids
  <2> QED
    BY <1>1, <1>3, <2>1, <2>2, <2>3, QuietKeeps
<1> QED
  BY <1>3, <1>8, <1>9, <1>10, <1>11, <1>12

\* A message of the lock or of a snapshot.
LEMMA OrderOthers ==
  ASSUME TypeOK, Order, NEW n \in Node, NEW q \in Neigh[n],
         \/ handle_lockRelease(n, q) \/ handle_lockAck(n, q)
         \/ handle_marker(n, q) \/ handle_state(n, q)
  PROVE  Order'
<1> DEFINE m == Head(chan[q][n])
           ids == {}
<1>1. q \in Node
  BY NeighAssumption
<1>2. Takes(n, q, {"lockRelease", "lockAck", "marker", "state"}) /\ UNCHANGED known
  BY DEF handle_lockRelease, handle_lockAck, handle_marker, FirstMarker, LaterMarker,
         handle_state, Takes
<1>3. /\ chan \in Channels(Message) /\ chan[q][n] # <<>> /\ m \in Message
      /\ m.type \in {"lockRelease", "lockAck", "marker", "state"}
      /\ UNCHANGED <<loop, outbox, trans, begun>>
  BY <1>1, <1>2, TakesType
<1>4. known' = [known EXCEPT ![n] = @ \cup ids]
  BY <1>2 DEF TypeOK
<1>5. Nothing \in Outgoing(Message) /\ Quiet(Nothing)
  BY NothingType, QuietTo
<1>6. ASSUME NEW R, NEW msg, R = {} \/ (msg \in Message /\ msg.type \notin Requests)
      PROVE  To(R, msg) \in Outgoing(Message) /\ Quiet(To(R, msg))
  BY <1>6, ToType, QuietTo
<1>7. PICK out \in Outgoing(Message) :
        Quiet(out) /\ (chan' = Taken(chan, q, n) \/ chan' = Exchanged(chan, q, n, out))
  <2>1. CASE handle_lockRelease(n, q)
    <3>1. Release.type \notin Requests /\ \A r : Ack(r).type \notin Requests
      BY DEF Release, Ack, Requests
    <3>2. /\ To(AckTo(n), Ack(turn)) \in Outgoing(Message) /\ Quiet(To(AckTo(n), Ack(turn)))
          /\ To(Tree(n) \ {q}, Release) \in Outgoing(Message) /\ Quiet(To(Tree(n) \ {q}, Release))
      BY <1>6, <3>1, AckType, Makes
    <3> QED
      BY <2>1, <3>2, ThenType, QuietThen DEF handle_lockRelease
  <2>2. CASE handle_lockAck(n, q)
    <3>1. m.type \notin Requests
      BY <2>2 DEF handle_lockAck, Takes, Requests
    <3>2. To(Tree(n) \ {q}, m) \in Outgoing(Message) /\ Quiet(To(Tree(n) \ {q}, m))
      BY <1>3, <1>6, <3>1
    <3> QED
      BY <2>2, <3>2 DEF handle_lockAck
  <2>3. CASE handle_marker(n, q)
    <3>1. ASSUME NEW active PROVE Report(n, active) \in Outgoing(Message) /\ Quiet(Report(n, active))
      <4>1. State(n).type \notin Requests /\ State(n) \in Message
        BY Makes DEF State, Requests
      <4> QED
        BY <1>5, <1>6, <4>1 DEF Report
    <3> QED
      BY <1>5, <2>3, <3>1 DEF handle_marker, FirstMarker, LaterMarker
  <2>4. CASE handle_state(n, q)
    <3>1. m.type \notin Requests
      BY <2>4 DEF handle_state, Takes, Requests
    <3>2. To({Parent[n]}, m) \in Outgoing(Message) /\ Quiet(To({Parent[n]}, m))
      BY <1>3, <1>6, <3>1
    <3> QED
      BY <1>5, <2>4, <3>2 DEF handle_state
  <2> QED
    BY <2>1, <2>2, <2>3, <2>4
<1>8. m.type # "transactGetBalance"
  BY <1>3
<1>9. \A t \in Nat : StartId(t) \notin ids /\ BalanceId(t) \notin ids
  OBVIOUS
<1> HIDE DEF ids
<1> QED
  BY <1>1, <1>3, <1>4, <1>7, <1>8, <1>9, QuietKeeps

\* A goroutine that sends out, what has become of its outbox being under way.
LEMMA SenderKeeps ==
  ASSUME TypeOK, Order, NEW n \in Node, NEW out \in Outgoing(Message), chan' = Sent(chan, n, out),
         UNCHANGED <<known, loop, trans, begun>>,
         \A p \in Node : outbox'[p] \subseteq outbox[p],
         \A p \in Node : \A r \in Neigh[p], t \in Nat :
           ToSend(p, r, t) => ToSend(p, r, t)' \/ Offered(chan', known, p, r, t),
         \A r \in Node : \A i \in DOMAIN out[r] :
           /\ Named(out[r][i])
           /\ out[r][i].type = "transactGetBalance" => Id(out[r][i]) \in known[n]
           /\ out[r][i].type = "transactStart" =>
                /\ Offered(chan, known, n, r, out[r][i].t)
                /\ \A p \in Node : loop[p] = "asked" => out[r][i].t # begun
  PROVE  Order'
<1>1. chan \in Channels(Message)
  BY DEF TypeOK, Channels, Outgoing
<1>2. Flow(chan', known') /\ \A p, r \in Node, t \in Nat :
        Offered(chan, known, p, r, t) => Offered(chan', known', p, r, t)
  BY <1>1, SentFlow DEF Order
<1>3. \A p, r \in Node : \A i \in DOMAIN chan'[p][r] :
        \/ \E j \in DOMAIN chan[p][r] : chan'[p][r][i] = chan[p][r][j]
        \/ p = n /\ \E j \in DOMAIN out[r] : chan'[p][r][i] = out[r][j]
  <2> SUFFICES ASSUME NEW p \in Node, NEW r \in Node, NEW i \in DOMAIN chan'[p][r]
               PROVE  \/ \E j \in DOMAIN chan[p][r] : chan'[p][r][i] = chan[p][r][j]
                      \/ p = n /\ \E j \in DOMAIN out[r] : chan'[p][r][i] = out[r][j]
    OBVIOUS
  <2>1. \A k \in DOMAIN Sent(chan, n, out)[p][r] :
          \/ \E j \in DOMAIN chan[p][r] : Sent(chan, n, out)[p][r][k] = chan[p][r][j]
          \/ p = n /\ \E j \in DOMAIN out[r] : Sent(chan, n, out)[p][r][k] = out[r][j]
    BY <1>1, WhatIsUnderWay
  <2> QED
    BY <2>1
<1>4. KnownInOrder'
  BY DEF KnownInOrder, Order
<1>5. Passed'
  <2> SUFFICES ASSUME NEW p \in Node, NEW r \in Neigh[p], NEW t \in Nat,
                      BalanceId(t) \in known[p], ~ Target(p, t)
               PROVE  Offered(chan', known', p, r, t) \/ ToSend(p, r, t)'
    BY DEF Passed, Target
  <2>1. r \in Node
    BY NeighAssumption
  <2> QED
    BY <1>2, <2>1 DEF Order, Passed
<1>6. SenderKnows'
  BY <1>3 DEF SenderKnows, Order
<1>7. AllNamed'
  BY <1>3 DEF AllNamed, Named, Order
<1>8. Boxes'
  <2> SUFFICES ASSUME NEW p \in Node, NEW x \in outbox'[p]
               PROVE  /\ x[2].type = "transactGetBalance" =>
                           loop[p] = "asked" /\ x[2].t = begun /\ BalanceId(begun) \in known[p]
                      /\ x[2].type = "transactStart" =>
                           loop[p] = "started" /\ x[2].t = begun /\ Offered(chan', known', p, x[1], begun)
    BY DEF Boxes
  <2>1. x \in outbox[p] /\ begun \in Nat
    BY Scripted
  <2>2. x[1] \in Node
    BY <2>1 DEF TypeOK
  <2> QED
    BY <1>2, <2>1, <2>2 DEF Order, Boxes
<1>9. Asking'
  <2> SUFFICES ASSUME NEW p \in Node, loop[p] = "asked"
               PROVE  /\ BalanceId(begun) \in known[p]
                      /\ \A r \in Neigh[p] : Offered(chan', known', p, r, begun) \/ ToSend(p, r, begun)'
    BY DEF Asking, ToSend
  <2>1. begun \in Nat /\ Neigh[p] \subseteq Node
    BY Scripted, NeighAssumption
  <2> QED
    BY <1>2, <2>1 DEF Order, Asking
<1>10. NotYet'
  BY <1>3 DEF NotYet, Order
<1> QED
  BY <1>2, <1>4, <1>5, <1>6, <1>7, <1>8, <1>9, <1>10 DEF Order

\* A snapshot begins, a marker is sent.
LEMMA OrderSnapshot ==
  ASSUME TypeOK, Order, NewSnapshot \/ \E n, r \in Node : SendMarker(n, r)
  PROVE  Order'
<1>1. CASE NewSnapshot
  <2>1. UNCHANGED <<chan, known, loop, outbox, trans, begun>>
    BY <1>1 DEF NewSnapshot, loopVars
  <2> QED
    BY <2>1 DEF Order, KnownInOrder, Flow, Passed, SenderKnows, AllNamed, Boxes, Asking, NotYet,
                Named, ToSend, Target
<1>2. ASSUME NEW n \in Node, NEW r \in Node, SendMarker(n, r) PROVE Order'
  <2> DEFINE marker == To({r}, Marker(snapshots[n].id))
             rest == IF marking[n] = {r} THEN Report(n, snapshots[n].msgInActive) ELSE Nothing
             out == Then(marker, rest)
  <2>1. marker \in Outgoing(Message) /\ Quiet(marker)
    <3>1. Marker(snapshots[n].id) \in Message /\ Marker(snapshots[n].id).type \notin Requests
      BY Makes DEF TypeOK, Snapshot, Marker, Requests
    <3> QED
      BY <3>1, ToType, QuietTo
  <2>2. rest \in Outgoing(Message) /\ Quiet(rest)
    <3>1. State(n).type \notin Requests
      BY DEF State, Requests
    <3> QED
      BY <3>1, NothingType, ReportType, QuietTo DEF Report
  <2>3. chan' = Sent(chan, n, out) /\ UNCHANGED <<known, loop, outbox, trans, begun>>
    BY <1>2 DEF SendMarker, loopVars
  <2> HIDE DEF marker, rest
  <2>4. out \in Outgoing(Message) /\ Quiet(out)
    BY <2>1, <2>2, ThenType, QuietThen
  <2> HIDE DEF out
  <2>5. \A s \in Node : \A i \in DOMAIN out[s] :
          /\ Named(out[s][i])
          /\ out[s][i].type = "transactGetBalance" => Id(out[s][i]) \in known[n]
          /\ out[s][i].type = "transactStart" =>
               /\ Offered(chan, known, n, s, out[s][i].t)
               /\ \A p \in Node : loop[p] = "asked" => out[s][i].t # begun
    BY <2>4 DEF Quiet, Named, Requests
  <2>6. \A p \in Node : \A s \in Neigh[p], t \in Nat :
          ToSend(p, s, t) => ToSend(p, s, t)' \/ Offered(chan', known, p, s, t)
    BY <2>3 DEF ToSend
  <2> QED
    BY <2>3, <2>4, <2>5, <2>6, SenderKeeps
<1> QED
  BY <1>1, <1>2

\* Whoever is in the critical section is alone there.
LEMMA Alone ==
  ASSUME Holding, Exclusive, NEW n \in Node, lockRequestActive[n],
         NEW p \in Node, loop[p] \in {"asked", "started"}
  PROVE  p = n
BY DEF Holding, Exclusive

\* What n has to send when it has sent everything else, and is told to send msg to R.
LEMMA SendAllAt ==
  ASSUME TypeOK, NEW n \in Node, NEW R, NEW msg, SendAll(n, R, msg)
  PROVE  /\ \A p \in Node : p # n => outbox'[p] = outbox[p]
         /\ outbox'[n] = {<<r, msg>> : r \in R}
         /\ \A x \in outbox'[n] : x[1] \in R /\ x[2] = msg
BY DEF SendAll, TypeOK

\* The transaction loop goes on.
LEMMA GoesAt ==
  ASSUME TypeOK, NEW n \in Node, NEW l, Goes(n, l)
  PROVE  loop'[n] = l /\ \A p \in Node : p # n => loop'[p] = loop[p]
BY DEF Goes, TypeOK

\* A node comes to know of a message.
LEMMA KnownAt ==
  ASSUME TypeOK, NEW n \in Node, NEW id, known' = [known EXCEPT ![n] = @ \cup {id}]
  PROVE  known'[n] = known[n] \cup {id} /\ \A p \in Node : p # n => known'[p] = known[p]
BY DEF TypeOK

\* The first flood begins.
LEMMA OrderEnter ==
  ASSUME TypeOK, Holding, Exclusive, Order, NEW n \in Node, Enter(n)
  PROVE  Order'
<1>0. PICK b, m : b = begun + 1 /\ m = GetBalance(b, trans[b].with)
  OBVIOUS
<1>1. b \in Nat /\ begun \in Nat /\ b \in 1 .. Len(trans) /\ begun' = b
      /\ UNCHANGED <<chan, trans>> /\ outbox[n] = {} /\ lockRequestActive[n] /\ loop[n] = "wait"
  BY <1>0, Scripted DEF Enter, At
<1>2. Id(m) = BalanceId(b) /\ m.type = "transactGetBalance" /\ m.t = b /\ m.target = trans[b].with
  BY <1>0 DEF GetBalance, Id, BalanceId
<1>3. known' = [known EXCEPT ![n] = @ \cup {Id(m)}] /\ SendAll(n, Neigh[n], m) /\ Goes(n, "asked")
  BY <1>0 DEF Enter
<1>4. known'[n] = known[n] \cup {BalanceId(b)} /\ \A p \in Node : p # n => known'[p] = known[p]
  BY <1>2, <1>3, KnownAt
<1>5. /\ \A p \in Node : p # n => outbox'[p] = outbox[p]
      /\ outbox'[n] = {<<r, m>> : r \in Neigh[n]}
      /\ \A x \in outbox'[n] : x[2] = m
  BY <1>3, SendAllAt
<1>6. loop'[n] = "asked" /\ \A p \in Node : p # n => loop'[p] = loop[p] /\ loop[p] \notin {"asked", "started"}
  BY <1>1, <1>3, GoesAt, Alone
<1>7. \A r \in Neigh[n] : ToSend(n, r, b)'
  <2> SUFFICES ASSUME NEW r \in Neigh[n] PROVE \E x \in outbox'[n] : x[1] = r /\ Id(x[2]) = BalanceId(b)
    BY DEF ToSend
  <2>1. <<r, m>> \in outbox'[n]
    BY <1>5
  <2> QED
    BY <1>2, <2>1
<1>8. \A p \in Node, r \in Node, t \in Nat :
        Offered(chan, known, p, r, t) => Offered(chan', known', p, r, t)
  BY <1>1, <1>4 DEF Offered
<1>9. KnownInOrder'
  BY <1>4 DEF KnownInOrder, Order, StartId, BalanceId
<1>10. Flow(chan', known')
  <2> SUFFICES ASSUME NEW p \in Node, NEW r \in Node PROVE InOrder(chan[p][r], known'[r])
    BY <1>1 DEF Flow
  <2>1. known[r] \subseteq known'[r] /\ InOrder(chan[p][r], known[r])
    BY <1>4 DEF Order, Flow
  <2> QED
    BY <2>1 DEF InOrder
<1>11. Passed'
  <2> SUFFICES ASSUME NEW p \in Node, NEW r \in Neigh[p], NEW t \in Nat,
                      BalanceId(t) \in known'[p], ~ Target(p, t)
               PROVE  Offered(chan', known', p, r, t) \/ ToSend(p, r, t)'
    BY <1>1 DEF Passed, Target
  <2>1. CASE BalanceId(t) \in known[p]
    <3>1. Offered(chan, known, p, r, t) \/ ToSend(p, r, t)
      BY <2>1 DEF Order, Passed
    <3>2. r \in Node
      BY NeighAssumption
    <3> QED
      BY <1>1, <1>5, <1>8, <3>1, <3>2 DEF ToSend
  <2>2. CASE BalanceId(t) \notin known[p]
    BY <1>4, <1>7, <2>2 DEF BalanceId
  <2> QED
    BY <2>1, <2>2
<1>12. SenderKnows'
  BY <1>1, <1>4 DEF SenderKnows, Order
<1>13. AllNamed'
  <2>1. \A x : Named(x) => Named(x)'
    <3>1. begun' = begun + 1 /\ begun \in Nat /\ trans' = trans
      BY <1>0, <1>1
    <3> QED
      BY <3>1 DEF Named
  <2>2. Named(m)'
    <3>1. m.t \in 1 .. begun' /\ m.target = trans'[m.t].with
      BY <1>0, <1>1, <1>2
    <3> QED
      BY <3>1 DEF Named
  <2> QED
    BY <1>1, <1>5, <2>1, <2>2 DEF AllNamed, Order
<1>14. Boxes'
  <2> SUFFICES ASSUME NEW p \in Node, NEW x \in outbox'[p]
               PROVE  /\ x[2].type = "transactGetBalance" =>
                           loop'[p] = "asked" /\ x[2].t = begun' /\ BalanceId(begun') \in known'[p]
                      /\ x[2].type = "transactStart" =>
                           loop'[p] = "started" /\ x[2].t = begun' /\ Offered(chan', known', p, x[1], begun')
    BY DEF Boxes
  <2>1. CASE p = n
    BY <1>1, <1>2, <1>4, <1>5, <1>6, <2>1
  <2>2. CASE p # n
    BY <1>5, <1>6, <2>2 DEF Order, Boxes
  <2> QED
    BY <2>1, <2>2
<1>15. Asking'
  <2> SUFFICES ASSUME NEW p \in Node, loop'[p] = "asked"
               PROVE  /\ BalanceId(begun') \in known'[p]
                      /\ \A r \in Neigh[p] : Offered(chan', known', p, r, begun') \/ ToSend(p, r, begun)'
    BY DEF Asking, ToSend
  <2>1. p = n
    BY <1>6
  <2> QED
    BY <1>1, <1>4, <1>7, <2>1 DEF ToSend
<1>16. NotYet'
  <2>1. \A p, q \in Node : \A i \in DOMAIN chan[p][q] :
          chan[p][q][i].type = "transactStart" => chan[p][q][i].t # b
    BY <1>0, <1>1 DEF Order, AllNamed, Named, Requests
  <2> QED
    BY <1>1, <2>1 DEF NotYet
<1> QED
  BY <1>9, <1>10, <1>11, <1>12, <1>13, <1>14, <1>15, <1>16 DEF Order

\* The second flood begins; the request for the balance has been offered everywhere.
LEMMA OrderFloodStart ==
  ASSUME TypeOK, Holding, Exclusive, Order, NEW n \in Node, FloodStart(n)
  PROVE  Order'
<1> DEFINE m == Start(begun, trans[begun].with)
<1>1. begun \in Nat /\ begun >= 1 /\ begun \in 1 .. begun /\ UNCHANGED <<chan, trans, begun>>
      /\ outbox[n] = {} /\ lockRequestActive[n] /\ loop[n] = "asked"
  BY Scripted DEF FloodStart, At, Holding
<1>2. Id(m) = StartId(begun) /\ m.type = "transactStart" /\ m.t = begun /\ m.target = trans[begun].with
  BY DEF Start, Id, StartId
<1>3. known' = [known EXCEPT ![n] = @ \cup {Id(m)}] /\ SendAll(n, Neigh[n], m) /\ Goes(n, "started")
  BY DEF FloodStart
<1>4. known'[n] = known[n] \cup {StartId(begun)} /\ \A p \in Node : p # n => known'[p] = known[p]
  BY <1>2, <1>3, KnownAt
<1>5. /\ \A p \in Node : p # n => outbox'[p] = outbox[p]
      /\ \A x \in outbox'[n] : x[1] \in Neigh[n] /\ x[2] = m
  BY <1>3, SendAllAt
<1>6. loop'[n] = "started" /\ \A p \in Node : p # n => loop'[p] = loop[p] /\ loop[p] \notin {"asked", "started"}
  BY <1>1, <1>3, GoesAt, Alone
<1>7. /\ BalanceId(begun) \in known[n]
      /\ \A r \in Neigh[n] : Offered(chan, known, n, r, begun)
  BY <1>1 DEF Order, Asking, ToSend
<1> HIDE DEF m
<1>8. \A p \in Node, r \in Node, t \in Nat :
        Offered(chan, known, p, r, t) => Offered(chan', known', p, r, t)
  BY <1>1, <1>4 DEF Offered
<1>9. KnownInOrder'
  BY <1>4, <1>7 DEF KnownInOrder, Order, StartId, BalanceId
<1>10. Flow(chan', known')
  <2> SUFFICES ASSUME NEW p \in Node, NEW r \in Node PROVE InOrder(chan[p][r], known'[r])
    BY <1>1 DEF Flow
  <2>1. known[r] \subseteq known'[r] /\ InOrder(chan[p][r], known[r])
    BY <1>4 DEF Order, Flow
  <2> QED
    BY <2>1 DEF InOrder
<1>11. Passed'
  <2> SUFFICES ASSUME NEW p \in Node, NEW r \in Neigh[p], NEW t \in Nat,
                      BalanceId(t) \in known'[p], ~ Target(p, t)
               PROVE  Offered(chan', known', p, r, t) \/ ToSend(p, r, t)'
    BY <1>1 DEF Passed, Target
  <2>1. BalanceId(t) \in known[p] /\ r \in Node
    BY <1>4, NeighAssumption DEF StartId, BalanceId
  <2>2. Offered(chan, known, p, r, t) \/ ToSend(p, r, t)
    BY <2>1 DEF Order, Passed
  <2> QED
    BY <1>1, <1>5, <1>8, <2>1, <2>2 DEF ToSend
<1>12. SenderKnows'
  BY <1>1, <1>4 DEF SenderKnows, Order
<1>13. AllNamed'
  <2>1. \A x : Named(x)' <=> Named(x)
    BY <1>1 DEF Named
  <2>2. Named(m)
    BY <1>1, <1>2 DEF Named
  <2> QED
    BY <1>1, <1>5, <2>1, <2>2 DEF AllNamed, Order
<1>14. Boxes'
  <2> SUFFICES ASSUME NEW p \in Node, NEW x \in outbox'[p]
               PROVE  /\ x[2].type = "transactGetBalance" =>
                           loop'[p] = "asked" /\ x[2].t = begun /\ BalanceId(begun) \in known'[p]
                      /\ x[2].type = "transactStart" =>
                           loop'[p] = "started" /\ x[2].t = begun /\ Offered(chan', known', p, x[1], begun)
    BY <1>1 DEF Boxes
  <2>1. CASE p = n
    BY <1>1, <1>2, <1>5, <1>6, <1>7, <1>8, <2>1, NeighAssumption
  <2>2. CASE p # n
    BY <1>5, <1>6, <2>2 DEF Order, Boxes
  <2> QED
    BY <2>1, <2>2
<1>15. Asking' /\ NotYet'
  BY <1>6 DEF Asking, NotYet
<1> QED
  BY <1>9, <1>10, <1>11, <1>12, <1>13, <1>14, <1>15 DEF Order

\* The lock is given back.
LEMMA OrderRelease ==
  ASSUME TypeOK, Order, NEW n \in Node, Exit(n) \/ AckNext(n)
  PROVE  Order'
<1>1. UNCHANGED <<chan, known, trans, begun>> /\ outbox[n] = {}
  BY DEF Exit, AckNext, At
<1>2. PICK R, msg : SendAll(n, R, msg) /\ msg.type \notin Requests
  BY DEF Exit, AckNext, Release, Ack, Requests
<1>3. /\ \A p \in Node : p # n => outbox'[p] = outbox[p]
      /\ \A x \in outbox'[n] : x[2].type \notin Requests
  BY <1>2, SendAllAt
<1>4. /\ loop'[n] \in {"released", "wait"}
      /\ \A p \in Node : p # n => loop'[p] = loop[p]
  BY GoesAt DEF Exit, AckNext
<1>5. KnownInOrder' /\ Flow(chan', known') /\ SenderKnows'
  BY <1>1 DEF Order, KnownInOrder, SenderKnows
<1>6. Passed'
  <2> SUFFICES ASSUME NEW p \in Node, NEW r \in Neigh[p], NEW t \in Nat,
                      BalanceId(t) \in known[p], ~ Target(p, t)
               PROVE  Offered(chan, known, p, r, t) \/ ToSend(p, r, t)'
    BY <1>1 DEF Passed, Target
  <2>1. Offered(chan, known, p, r, t) \/ ToSend(p, r, t)
    BY DEF Order, Passed
  <2> QED
    BY <1>1, <1>3, <2>1 DEF ToSend
<1>7. AllNamed'
  <2>1. \A x : Named(x)' <=> Named(x)
    BY <1>1 DEF Named
  <2>2. \A x \in outbox'[n] : Named(x[2])
    BY <1>3 DEF Named
  <2> QED
    BY <1>1, <1>3, <2>1, <2>2 DEF AllNamed, Order
<1>8. Boxes'
  <2> SUFFICES ASSUME NEW p \in Node, NEW x \in outbox'[p]
               PROVE  /\ x[2].type = "transactGetBalance" =>
                           loop'[p] = "asked" /\ x[2].t = begun /\ BalanceId(begun) \in known[p]
                      /\ x[2].type = "transactStart" =>
                           loop'[p] = "started" /\ x[2].t = begun /\ Offered(chan, known, p, x[1], begun)
    BY <1>1 DEF Boxes
  <2>1. CASE p = n
    BY <1>3, <2>1 DEF Requests
  <2>2. CASE p # n
    BY <1>3, <1>4, <2>2 DEF Order, Boxes
  <2> QED
    BY <2>1, <2>2
<1>9. Asking'
  <2> SUFFICES ASSUME NEW p \in Node, loop'[p] = "asked"
               PROVE  /\ BalanceId(begun) \in known[p]
                      /\ \A r \in Neigh[p] : Offered(chan, known, p, r, begun) \/ ToSend(p, r, begun)'
    BY <1>1 DEF Asking, ToSend
  <2>1. p # n /\ loop[p] = "asked"
    BY <1>4
  <2> QED
    BY <1>1, <1>3, <2>1 DEF Order, Asking, ToSend
<1>10. NotYet'
  BY <1>1, <1>4 DEF Order, NotYet
<1> QED
  BY <1>5, <1>6, <1>7, <1>8, <1>9, <1>10 DEF Order

\* The loop sends what it has to.
LEMMA OrderSend ==
  ASSUME TypeOK, Holding, Exclusive, Order, NEW n \in Node, LoopSend(n)
  PROVE  Order'
<1>1. PICK s \in outbox[n] : chan' = Sent(chan, n, To({s[1]}, s[2])) /\ outbox' = [outbox EXCEPT ![n] = @ \ {s}]
  BY DEF LoopSend
<1> DEFINE out == To({s[1]}, s[2])
<1>2. s[1] \in Node /\ s[2] \in Message /\ chan \in Channels(Message)
  BY DEF TypeOK, Channels, Outgoing
<1>3. out \in Outgoing(Message)
  BY <1>2, ToType
<1>4. out[s[1]] = <<s[2]>> /\ \A r \in Node : \A i \in DOMAIN out[r] : r = s[1] /\ out[r][i] = s[2]
  <2>1. \A r \in Node : out[r] = IF r = s[1] THEN <<s[2]>> ELSE <<>>
    BY DEF To
  <2>2. DOMAIN <<s[2]>> = {1} /\ <<s[2]>>[1] = s[2]
    OBVIOUS
  <2> HIDE DEF out
  <2> QED
    BY <1>2, <2>1, <2>2, EmptySeq
<1>5. outbox'[n] = outbox[n] \ {s} /\ \A p \in Node : p # n => outbox'[p] = outbox[p]
  BY <1>1 DEF TypeOK
<1>6. UNCHANGED <<known, loop, trans, begun>> /\ chan' = Sent(chan, n, out)
  BY <1>1 DEF LoopSend
<1>7. \A p, r \in Node : Sent(chan, n, out)[p][r] = IF p = n THEN chan[n][r] \o out[r] ELSE chan[p][r]
  <2> HIDE DEF out
  <2> QED
    BY <1>2, <1>3, SentAt
<1> HIDE DEF out
<1>8. \A p \in Node : \A r \in Neigh[p], t \in Nat :
        ToSend(p, r, t) => ToSend(p, r, t)' \/ Offered(chan', known, p, r, t)
  <2> SUFFICES ASSUME NEW p \in Node, NEW r \in Neigh[p], NEW t \in Nat, ToSend(p, r, t)
               PROVE  ToSend(p, r, t)' \/ Offered(chan', known, p, r, t)
    OBVIOUS
  <2>1. PICK x \in outbox[p] : x[1] = r /\ Id(x[2]) = BalanceId(t)
    BY DEF ToSend
  <2>2. CASE x \in outbox'[p]
    BY <2>1, <2>2 DEF ToSend
  <2>3. CASE x \notin outbox'[p]
    <3>1. p = n /\ x = s
      BY <1>5, <2>3
    <3>2. chan'[n][r] = chan[n][r] \o <<s[2]>>
      <4>1. Sent(chan, n, out)[n][r] = chan[n][r] \o out[r]
        <5>1. r \in Node
          BY <1>2, <2>1, <3>1
        <5> QED
          BY <1>7, <5>1
      <4> QED
        BY <1>4, <1>6, <2>1, <3>1, <4>1
    <3>3. chan[n][r] \in Seq(Message)
      BY <1>2, <2>1, <3>1 DEF TypeOK
    <3>4. Carries(chan'[n][r], Id(s[2]))
      BY <1>2, <3>2, <3>3, CarriesLast
    <3> QED
      BY <2>1, <3>1, <3>4 DEF Offered
  <2> QED
    BY <2>2, <2>3
<1>9. \A r \in Node : \A i \in DOMAIN out[r] :
        /\ Named(out[r][i])
        /\ out[r][i].type = "transactGetBalance" => Id(out[r][i]) \in known[n]
        /\ out[r][i].type = "transactStart" =>
             /\ Offered(chan, known, n, r, out[r][i].t)
             /\ \A p \in Node : loop[p] = "asked" => out[r][i].t # begun
  <2>1. Named(s[2])
    BY DEF Order, AllNamed
  <2>2. s[2].type = "transactGetBalance" => Id(s[2]) \in known[n]
    BY DEF Order, Boxes, Id, BalanceId
  <2>3. s[2].type = "transactStart" =>
          /\ Offered(chan, known, n, s[1], s[2].t)
          /\ \A p \in Node : loop[p] = "asked" => s[2].t # begun
    <3> SUFFICES ASSUME s[2].type = "transactStart"
                 PROVE  /\ Offered(chan, known, n, s[1], s[2].t)
                        /\ \A p \in Node : loop[p] # "asked"
      OBVIOUS
    <3>1. loop[n] = "started" /\ Offered(chan, known, n, s[1], s[2].t)
      BY DEF Order, Boxes
    <3>2. lockRequestActive[n]
      BY <3>1 DEF Holding
    <3> QED
      BY <3>1, <3>2, Alone
  <2> QED
    BY <1>4, <2>1, <2>2, <2>3
<1>10. \A p \in Node : outbox'[p] \subseteq outbox[p]
  BY <1>5
<1> QED
  BY <1>3, <1>6, <1>8, <1>9, <1>10, SenderKeeps

\* The order at the start: nothing is known and nothing is under way.
LEMMA OrderInit == Init => Order
<1> SUFFICES ASSUME Init PROVE Order
  OBVIOUS
<1>1. \A p, r \in Node : DOMAIN chan[p][r] = {} /\ known[p] = {} /\ outbox[p] = {} /\ loop[p] = "wait"
  BY EmptySeq DEF Init, EmptyNet
<1> QED
  BY <1>1 DEF Order, KnownInOrder, Flow, InOrder, Passed, SenderKnows, AllNamed, Boxes, Asking, NotYet

\* The order, step by step.
LEMMA OrderNext == TypeOK /\ Holding /\ Exclusive /\ Order /\ [Next]_vars => Order'
<1> SUFFICES ASSUME TypeOK, Holding, Exclusive, Order, [Next]_vars PROVE Order'
  OBVIOUS
<1>1. ASSUME NEW n \in Node, Handler(n) PROVE Order'
  <2>1. PICK q \in Neigh[n] : Handle(n, q) \/ SendMarker(n, q)
    BY <1>1 DEF Handler
  <2>2. q \in Node
    BY NeighAssumption
  <2> QED
    BY <2>1, <2>2, OrderTransaction, OrderOthers, OrderSnapshot DEF Handle
<1>2. CASE leaderLoop
  BY <1>2, OrderSnapshot, NodeAssumption DEF leaderLoop
<1>3. ASSUME NEW n \in Node, transactionLoop(n) PROVE Order'
  BY <1>3, OrderEnter, OrderFloodStart, OrderRelease, OrderSend DEF transactionLoop
<1>4. CASE UNCHANGED vars
  BY <1>4 DEF vars, loopVars, Order, KnownInOrder, Flow, Passed, SenderKnows, AllNamed, Boxes,
              Asking, NotYet, Named, ToSend, Target
<1> QED
  BY <1>1, <1>2, <1>3, <1>4 DEF Next

-----------------------------------------------------------------------------
(***************************************************************************)
(* The snapshots.  A round is that of the coordinator.  On every edge the  *)
(* marker has been sent and not got, or is under way, or neither; and the  *)
(* reports of a node are counted over the whole network and the            *)
(* coordinator's list, so that it does not matter which way they take.     *)
(***************************************************************************)
Round == snapshots[Leader].id
Markers == [type : {"marker"}, id : Nat]
OfCut == {"marker", "state"}

\* p has sent r the marker of this round; r has had it.
Marked(p, r) == snapshots[p].id = Round /\ r \notin marking[p]
Got(p, r) == snapshots[r].id = Round /\ p \notin snapshots[r].msgInActive

\* u has closed its channels and has sent its markers, or is the coordinator, which adds its
\* own snapshot before that.
Done(u) ==
  /\ Round > 0 /\ snapshots[u].id = Round /\ Neigh[u] # {}
  /\ Closed(snapshots[u].msgInActive) /\ (u = Leader \/ marking[u] = {})

Recording ==
  \A n \in Node :
    /\ snapshots[n].msgInActive \subseteq Neigh[n] /\ marking[n] \subseteq Neigh[n]
    /\ marking[n] # {} => snapshots[n].id = Round
    /\ Round = 0 => snapshots[n].id = 0 /\ snapshots[n].msgInActive = {}
    /\ \A x \in outbox[n] : x[2].type \notin OfCut
Placing ==
  \A p, r \in Node : \A i \in DOMAIN chan[p][r] :
    chan[p][r][i].type = "marker" => chan[p][r][i].id = Round /\ r \in Neigh[p]
Marking ==
  \A p \in Node : \A r \in Neigh[p] :
    InFlight(chan, p, r, Markers) + (IF Got(p, r) THEN 1 ELSE 0) = IF Marked(p, r) THEN 1 ELSE 0
Reporting ==
  \A u \in Node :
    Traffic(chan, {State(u)}) + Copies(receivedSnapshots, {u}) = IF Done(u) THEN 1 ELSE 0

Cut == Recording /\ Placing /\ Marking /\ Reporting

\* What a marker and a report are.
LEMMA MessageKinds ==
  ASSUME NEW m \in Message
  PROVE  /\ m.type = "marker" <=> m \in Markers
         /\ m.type = "state" => m.uid \in Node /\ m = State(m.uid)
         /\ \A u \in Node : m = State(u) => m.type = "state" /\ m.uid = u
<1>1. \/ m \in [type : Requests, t : Nat, target : Node]
      \/ m \in [type : Answers, t : Nat, tree : BOOLEAN]
      \/ m = Release
      \/ m \in [type : {"marker"}, id : Nat]
      \/ m \in [type : {"lockAck", "state"}, uid : Node]
  BY DEF Message
<1>2. CASE m \in [type : Requests, t : Nat, target : Node]
  BY <1>2 DEF Requests, Markers, State
<1>3. CASE m \in [type : Answers, t : Nat, tree : BOOLEAN]
  BY <1>3 DEF Answers, Markers, State
<1>4. CASE m = Release
  BY <1>4 DEF Release, Markers, State
<1>5. CASE m \in [type : {"marker"}, id : Nat]
  BY <1>5 DEF Markers, State
<1>6. CASE m \in [type : {"lockAck", "state"}, uid : Node]
  BY <1>6 DEF Markers, State
<1> QED
  BY <1>1, <1>2, <1>3, <1>4, <1>5, <1>6

\* The coordinator has each node's report once.
LEMMA ListOnce ==
  ASSUME TypeOK, Cut
  PROVE  /\ IsInjective(receivedSnapshots)
         /\ \A u \in Node : /\ Copies(receivedSnapshots, {u}) \in 0 .. 1
                            /\ Traffic(chan, {State(u)}) \in 0 .. 1
<1>1. chan \in Channels(Message) /\ receivedSnapshots \in Seq(Node)
  BY DEF TypeOK, Channels, Outgoing
<1>2. ASSUME NEW u \in Node
      PROVE  Copies(receivedSnapshots, {u}) \in 0 .. 1 /\ Traffic(chan, {State(u)}) \in 0 .. 1
  <2>1. Copies(receivedSnapshots, {u}) \in Nat /\ Traffic(chan, {State(u)}) \in Nat
    BY <1>1, CopiesType, TrafficType, NodeAssumption
  <2>2. Traffic(chan, {State(u)}) + Copies(receivedSnapshots, {u}) <= 1
    BY DEF Cut, Reporting
  <2> QED
    BY <2>1, <2>2
<1>3. ASSUME NEW a \in DOMAIN receivedSnapshots, NEW b \in DOMAIN receivedSnapshots,
             receivedSnapshots[a] = receivedSnapshots[b]
      PROVE  a = b
  <2>1. receivedSnapshots[a] \in Node
    BY <1>1, Elements
  <2>2. PICK u \in Node : u = receivedSnapshots[a]
    BY <2>1
  <2>3. PICK P : P = Places(receivedSnapshots, {u})
    OBVIOUS
  <2>4. IsFiniteSet(P) /\ Cardinality(P) <= 1
    <3>1. IsFiniteSet(P) /\ Copies(receivedSnapshots, {u}) = Cardinality(P)
      BY <1>1, <2>3, CopiesType
    <3>2. Copies(receivedSnapshots, {u}) \in 0 .. 1
      BY <1>2
    <3> QED
      BY <3>1, <3>2
  <2>5. a \in P /\ b \in P
    BY <1>3, <2>2, <2>3 DEF Places
  <2> QED
    BY <2>4, <2>5, AtMostOne
<1> QED
  BY <1>2, <1>3 DEF IsInjective

\* Once it has as many reports as there are nodes, it has one of each.
LEMMA AllDone ==
  ASSUME TypeOK, Cut, AllReceived
  PROVE  \A u \in Node : Done(u) /\ Traffic(chan, {State(u)}) = 0
<1> DEFINE s == receivedSnapshots
           D == 1 .. Len(s)
<1>1. s \in Seq(Node) /\ Len(s) \in Nat /\ DOMAIN s = D /\ s \in [D -> Node]
  <2>1. s \in Seq(Node)
    BY DEF TypeOK
  <2> QED
    BY <2>1, Elements
<1>2. IsFiniteSet(Node) /\ IsFiniteSet(D) /\ Cardinality(D) = Cardinality(Node)
  BY <1>1, NodeAssumption, FS_Interval DEF AllReceived
<1>3. s \in Injection(D, Node)
  BY <1>1, ListOnce DEF Injection, IsInjective
<1> HIDE DEF D, s
<1>4. s \in Surjection(D, Node)
  BY <1>2, <1>3, FS_Injection
<1> SUFFICES ASSUME NEW u \in Node PROVE Done(u) /\ Traffic(chan, {State(u)}) = 0
  OBVIOUS
<1>5. Copies(s, {u}) # 0
  <2>1. PICK i \in D : s[i] = u
    BY <1>4 DEF Surjection
  <2> QED
    BY <1>1, <2>1, CopiesType
<1>6. Copies(s, {u}) \in 0 .. 1 /\ Traffic(chan, {State(u)}) \in 0 .. 1
  BY ListOnce DEF s
<1>7. Traffic(chan, {State(u)}) + Copies(s, {u}) = IF Done(u) THEN 1 ELSE 0
  BY DEF Cut, Reporting, s
<1> QED
  BY <1>5, <1>6, <1>7

\* No report of u is under way.
LEMMA NoTraffic ==
  ASSUME TypeOK, NEW u \in Node, Traffic(chan, {State(u)}) = 0, NEW p \in Node, NEW r \in Node
  PROVE  \A i \in DOMAIN chan[p][r] : chan[p][r][i] # State(u)
<1> DEFINE f == [e \in Node \X Node |-> InFlight(chan, e[1], e[2], {State(u)})]
<1>1. chan \in Channels(Message) /\ chan[p][r] \in Seq(Message) /\ IsFiniteSet(Node)
  <2>1. chan \in [Node -> [Node -> Seq(Message)]]
    BY DEF TypeOK
  <2>2. chan \in Channels(Message)
    BY <2>1 DEF Channels, Outgoing
  <2> QED
    BY <2>1, <2>2, NodeAssumption
<1>2. f \in [Node \X Node -> Nat] /\ IsFiniteSet(Node \X Node)
  BY <1>1, TrafficType
<1>3. Total(f) = 0
  BY DEF Traffic
<1>4. InFlight(chan, p, r, {State(u)}) = f[<<p, r>>]
  OBVIOUS
<1> HIDE DEF f
<1>5. InFlight(chan, p, r, {State(u)}) = 0
  BY <1>2, <1>3, <1>4, TotalZero
<1> QED
  BY <1>1, <1>5, CopiesType DEF InFlight

\* Before the first snapshot and after every complete one, all channels are closed and no
\* marker or report is under way.
LEMMA Settled ==
  ASSUME TypeOK, Cut, Round = 0 \/ AllReceived
  PROVE  /\ \A u \in Node : /\ snapshots[u].id = Round /\ snapshots[u].msgInActive = {} /\ marking[u] = {}
                            /\ Traffic(chan, {State(u)}) = 0
         /\ \A p, r \in Node : \A i \in DOMAIN chan[p][r] : chan[p][r][i].type \notin OfCut
<1>1. ASSUME NEW u \in Node
      PROVE  /\ snapshots[u].id = Round /\ snapshots[u].msgInActive = {}
             /\ Traffic(chan, {State(u)}) = 0
  <2>1. CASE AllReceived
    BY <2>1, AllDone DEF Done, Closed
  <2>2. CASE Round = 0
    <3>1. ~Done(u)
      BY <2>2 DEF Done
    <3>2. Traffic(chan, {State(u)}) + Copies(receivedSnapshots, {u}) = 0
      BY <3>1 DEF Cut, Reporting
    <3>3. Traffic(chan, {State(u)}) = 0
      BY <3>2, ListOnce
    <3> QED
      BY <2>2, <3>3 DEF Cut, Recording
  <2> QED
    BY <2>1, <2>2
<1>2. ASSUME NEW p \in Node, NEW r \in Neigh[p]
      PROVE  InFlight(chan, p, r, Markers) = 0 /\ r \notin marking[p]
  <2>1. r \in Node
    BY NeighAssumption
  <2>2. InFlight(chan, p, r, Markers) \in Nat
    <3>1. chan[p][r] \in Seq(Message)
      BY <2>1 DEF TypeOK
    <3> QED
      BY <3>1, CopiesType DEF InFlight
  <2>3. Got(p, r)
    BY <1>1, <2>1 DEF Got
  <2>4. InFlight(chan, p, r, Markers) + 1 = IF Marked(p, r) THEN 1 ELSE 0
    BY <2>3 DEF Cut, Marking
  <2> QED
    BY <2>2, <2>4 DEF Marked
<1>3. \A u \in Node : marking[u] = {}
  BY <1>2 DEF Cut, Recording
<1>4. ASSUME NEW p \in Node, NEW r \in Node, NEW i \in DOMAIN chan[p][r]
      PROVE  chan[p][r][i].type \notin OfCut
  <2>1. chan[p][r] \in Seq(Message) /\ chan[p][r][i] \in Message
    <3>1. chan[p][r] \in Seq(Message)
      BY DEF TypeOK
    <3> QED
      BY <3>1, Elements
  <2>2. chan[p][r][i].type # "marker"
    <3>1. SUFFICES ASSUME chan[p][r][i].type = "marker" PROVE FALSE
      OBVIOUS
    <3>2. r \in Neigh[p]
      BY <3>1 DEF Cut, Placing
    <3>3. chan[p][r][i] \in Markers
      BY <2>1, <3>1, MessageKinds DEF Markers
    <3> QED
      BY <1>2, <2>1, <3>2, <3>3, CopiesType DEF InFlight
  <2>3. chan[p][r][i].type # "state"
    <3>1. SUFFICES ASSUME chan[p][r][i].type = "state" PROVE FALSE
      OBVIOUS
    <3>2. PICK u \in Node : chan[p][r][i] = State(u)
      BY <2>1, <3>1, MessageKinds
    <3> QED
      BY <1>1, <3>2, NoTraffic
  <2> QED
    BY <2>2, <2>3 DEF OfCut
<1> QED
  BY <1>1, <1>3, <1>4

\* n has a message of q to take.
Pending(q, n) == chan[q][n] # <<>>

\* What is under way after a handler of n has taken m from q and sent out.
TakenCounts(n, q, m, out) ==
  /\ \A p, r \in Node :
       /\ InFlight(chan', p, r, Markers)
            + (IF p = q /\ r = n /\ m.type = "marker" THEN 1 ELSE 0)
            = InFlight(chan, p, r, Markers) + (IF p = n THEN Copies(out[r], Markers) ELSE 0)
       /\ InFlight(chan', p, r, Markers) \in Nat /\ InFlight(chan, p, r, Markers) \in Nat
  /\ \A u \in Node :
       /\ Traffic(chan', {State(u)}) + (IF m = State(u) THEN 1 ELSE 0)
            = Traffic(chan, {State(u)}) + Load(out, {State(u)})
       /\ Traffic(chan', {State(u)}) \in Nat /\ Traffic(chan, {State(u)}) \in Nat
  /\ \A p, r \in Node : \A i \in DOMAIN chan'[p][r] :
       \/ \E j \in DOMAIN chan[p][r] : chan'[p][r][i] = chan[p][r][j]
       \/ p = n /\ \E j \in DOMAIN out[r] : chan'[p][r][i] = out[r][j]

\* After n has sent out, without taking anything.
SentCounts(n, out) ==
  /\ \A p, r \in Node :
       /\ InFlight(chan', p, r, Markers)
            = InFlight(chan, p, r, Markers) + (IF p = n THEN Copies(out[r], Markers) ELSE 0)
       /\ InFlight(chan, p, r, Markers) \in Nat
  /\ \A u \in Node :
       /\ Traffic(chan', {State(u)}) = Traffic(chan, {State(u)}) + Load(out, {State(u)})
       /\ Traffic(chan, {State(u)}) \in Nat
  /\ \A p, r \in Node : \A i \in DOMAIN chan'[p][r] :
       \/ \E j \in DOMAIN chan[p][r] : chan'[p][r][i] = chan[p][r][j]
       \/ p = n /\ \E j \in DOMAIN out[r] : chan'[p][r][i] = out[r][j]

\* A handler that takes a message of q and sends out, or a goroutine that sends out: what is
\* under way then.
LEMMA CutTaken ==
  ASSUME TypeOK, NEW n \in Node, NEW q \in Node, Pending(q, n), NEW out \in Outgoing(Message),
         chan' = Exchanged(chan, q, n, out)
  PROVE  TakenCounts(n, q, Head(chan[q][n]), out)
<1>1. chan \in Channels(Message) /\ IsFiniteSet(Node) /\ chan[q][n] # <<>>
  <2>1. chan \in Channels(Message)
    BY DEF TypeOK, Channels, Outgoing
  <2> QED
    BY <2>1, NodeAssumption DEF Pending
<1>2. Head(chan[q][n]) \in Message /\ Exchanged(chan, q, n, out) \in Channels(Message)
  BY <1>1, HeadType, ExchangedType
<1>3. Head(chan[q][n]).type = "marker" <=> Head(chan[q][n]) \in Markers
  BY <1>2, MessageKinds
<1>4. ASSUME NEW p \in Node, NEW r \in Node
      PROVE  /\ InFlight(Exchanged(chan, q, n, out), p, r, Markers)
                  + (IF p = q /\ r = n /\ Head(chan[q][n]) \in Markers THEN 1 ELSE 0)
                  = InFlight(chan, p, r, Markers) + (IF p = n THEN Copies(out[r], Markers) ELSE 0)
             /\ InFlight(Exchanged(chan, q, n, out), p, r, Markers) \in Nat /\ InFlight(chan, p, r, Markers) \in Nat
  BY <1>1, FlightExchanged
<1>5. ASSUME NEW u \in Node
      PROVE  /\ Traffic(Exchanged(chan, q, n, out), {State(u)}) + (IF Head(chan[q][n]) = State(u) THEN 1 ELSE 0)
                  = Traffic(chan, {State(u)}) + Load(out, {State(u)})
             /\ Traffic(Exchanged(chan, q, n, out), {State(u)}) \in Nat /\ Traffic(chan, {State(u)}) \in Nat
  <2>1. Traffic(Exchanged(chan, q, n, out), {State(u)}) + (IF Head(chan[q][n]) \in {State(u)} THEN 1 ELSE 0)
          = Traffic(chan, {State(u)}) + Load(out, {State(u)})
    BY <1>1, TrafficExchanged
  <2>2. Traffic(Exchanged(chan, q, n, out), {State(u)}) \in Nat /\ Traffic(chan, {State(u)}) \in Nat
    BY <1>1, <1>2, TrafficType
  <2> QED
    BY <2>1, <2>2
<1>6. ASSUME NEW p \in Node, NEW r \in Node, NEW i \in DOMAIN Exchanged(chan, q, n, out)[p][r]
      PROVE  \/ \E j \in DOMAIN chan[p][r] : Exchanged(chan, q, n, out)[p][r][i] = chan[p][r][j]
             \/ p = n /\ \E j \in DOMAIN out[r] : Exchanged(chan, q, n, out)[p][r][i] = out[r][j]
  BY <1>1, ExchangedElements
<1>7. PICK m, net : m = Head(chan[q][n]) /\ net = Exchanged(chan, q, n, out)
  OBVIOUS
<1>8. chan' = net /\ (m.type = "marker" <=> m \in Markers)
  BY <1>3, <1>7
<1>9. \A p, r \in Node :
        /\ InFlight(net, p, r, Markers) + (IF p = q /\ r = n /\ m \in Markers THEN 1 ELSE 0)
             = InFlight(chan, p, r, Markers) + (IF p = n THEN Copies(out[r], Markers) ELSE 0)
        /\ InFlight(net, p, r, Markers) \in Nat /\ InFlight(chan, p, r, Markers) \in Nat
  BY <1>4, <1>7
<1>10. \A u \in Node :
         /\ Traffic(net, {State(u)}) + (IF m = State(u) THEN 1 ELSE 0)
              = Traffic(chan, {State(u)}) + Load(out, {State(u)})
         /\ Traffic(net, {State(u)}) \in Nat /\ Traffic(chan, {State(u)}) \in Nat
  BY <1>5, <1>7
<1>11. \A p, r \in Node : \A i \in DOMAIN net[p][r] :
         \/ \E j \in DOMAIN chan[p][r] : net[p][r][i] = chan[p][r][j]
         \/ p = n /\ \E j \in DOMAIN out[r] : net[p][r][i] = out[r][j]
  BY <1>6, <1>7
<1>12. TakenCounts(n, q, m, out)
  BY <1>8, <1>9, <1>10, <1>11 DEF TakenCounts
<1> QED
  BY <1>7, <1>12

LEMMA CutSent ==
  ASSUME TypeOK, NEW n \in Node, NEW out \in Outgoing(Message), chan' = Sent(chan, n, out)
  PROVE  SentCounts(n, out)
<1>1. chan \in Channels(Message) /\ IsFiniteSet(Node)
  <2>1. chan \in Channels(Message)
    BY DEF TypeOK, Channels, Outgoing
  <2> QED
    BY <2>1, NodeAssumption
<1>2. ASSUME NEW p \in Node, NEW r \in Node
      PROVE  /\ InFlight(Sent(chan, n, out), p, r, Markers)
                  = InFlight(chan, p, r, Markers) + IF p = n THEN Copies(out[r], Markers) ELSE 0
             /\ InFlight(chan, p, r, Markers) \in Nat
  BY <1>1, FlightSent
<1>3. ASSUME NEW u \in Node
      PROVE  /\ Traffic(Sent(chan, n, out), {State(u)}) = Traffic(chan, {State(u)}) + Load(out, {State(u)})
             /\ Traffic(chan, {State(u)}) \in Nat
  BY <1>1, TrafficSent, TrafficType
<1>4. ASSUME NEW p \in Node, NEW r \in Node, NEW i \in DOMAIN Sent(chan, n, out)[p][r]
      PROVE  \/ \E j \in DOMAIN chan[p][r] : Sent(chan, n, out)[p][r][i] = chan[p][r][j]
             \/ p = n /\ \E j \in DOMAIN out[r] : Sent(chan, n, out)[p][r][i] = out[r][j]
  BY <1>1, <1>4, WhatIsUnderWay
<1> QED
  BY <1>2, <1>3, <1>4 DEF SentCounts

\* The invariant is about markers, reports and what is recorded of them.
LEMMA CutKept ==
  ASSUME TypeOK, Cut,
         \A p \in Node : snapshots'[p].id = snapshots[p].id /\ snapshots'[p].msgInActive = snapshots[p].msgInActive,
         UNCHANGED <<marking, receivedSnapshots>>,
         \A p, r \in Node : InFlight(chan', p, r, Markers) = InFlight(chan, p, r, Markers),
         \A u \in Node : Traffic(chan', {State(u)}) = Traffic(chan, {State(u)}),
         \A p, r \in Node : \A i \in DOMAIN chan'[p][r] : chan'[p][r][i].type = "marker" =>
           \E j \in DOMAIN chan[p][r] : chan'[p][r][i] = chan[p][r][j],
         \A p \in Node : \A x \in outbox'[p] : x[2].type \notin OfCut
  PROVE  Cut'
<1>1. Round' = Round
  BY NodeAssumption DEF Round
<1>2. Recording'
  BY <1>1 DEF Cut, Recording
<1>3. Placing'
  BY <1>1 DEF Cut, Placing
<1>4. Marking'
  <2> SUFFICES ASSUME NEW p \in Node, NEW r \in Neigh[p]
               PROVE  InFlight(chan', p, r, Markers) + (IF Got(p, r)' THEN 1 ELSE 0) = IF Marked(p, r)' THEN 1 ELSE 0
    BY DEF Marking
  <2>1. r \in Node
    BY NeighAssumption
  <2>2. (Got(p, r)' <=> Got(p, r)) /\ (Marked(p, r)' <=> Marked(p, r))
    BY <1>1, <2>1 DEF Got, Marked
  <2> QED
    BY <2>1, <2>2 DEF Cut, Marking
<1>5. Reporting'
  <2> SUFFICES ASSUME NEW u \in Node
               PROVE  Traffic(chan', {State(u)}) + Copies(receivedSnapshots', {u}) = IF Done(u)' THEN 1 ELSE 0
    BY DEF Reporting
  <2>1. Done(u)' <=> Done(u)
    BY <1>1 DEF Done, Closed
  <2> QED
    BY <2>1 DEF Cut, Reporting
<1> QED
  BY <1>2, <1>3, <1>4, <1>5 DEF Cut

\* Sends that are not of a snapshot.
Plain(out) == \A r \in Node : \A i \in DOMAIN out[r] : out[r][i].type \notin OfCut

LEMMA PlainTo ==
  /\ Plain(Nothing)
  /\ \A R, msg : R = {} \/ msg.type \notin OfCut => Plain(To(R, msg))
BY EmptySeq DEF Plain, Nothing, To

LEMMA PlainThen ==
  ASSUME NEW out1 \in Outgoing(Message), NEW out2 \in Outgoing(Message), Plain(out1), Plain(out2)
  PROVE  Plain(Then(out1, out2))
<1> SUFFICES ASSUME NEW r \in Node, NEW i \in DOMAIN (out1[r] \o out2[r])
             PROVE  (out1[r] \o out2[r])[i].type \notin OfCut
  BY DEF Plain, Then
<1>1. out1[r] \in Seq(Message) /\ out2[r] \in Seq(Message)
  BY DEF Outgoing
<1>2. \/ i \in DOMAIN out1[r] /\ (out1[r] \o out2[r])[i] = out1[r][i]
      \/ i - Len(out1[r]) \in DOMAIN out2[r] /\ (out1[r] \o out2[r])[i] = out2[r][i - Len(out1[r])]
  BY <1>1, Concat
<1> QED
  BY <1>2 DEF Plain

LEMMA PlainFlood ==
  ASSUME NEW n \in Node, NEW q \in Node, NEW m \in Message, m.type \in Requests \cup Answers
  PROVE  Plain(Flood(n, q, m)) /\ Flood(n, q, m) \in Outgoing(Message)
<1>1. m.type \notin OfCut
  BY DEF Requests, Answers, OfCut
<1>2. CASE m.type \in Requests
  BY <1>1, <1>2, PlainTo, FloodType DEF Flood
<1>3. CASE m.type \in Answers /\ m.type \notin Requests
  <2>1. [m EXCEPT !.tree = FALSE] \in Message
    BY <1>3, MessageFields
  <2>2. [m EXCEPT !.tree = FALSE].type \notin OfCut
    <3>1. m \in [type : Answers, t : Nat, tree : BOOLEAN]
      BY <1>3 DEF Message, Requests, Answers, Release
    <3> QED
      BY <1>1, <3>1
  <2> QED
    BY <1>1, <1>3, <2>1, <2>2, PlainTo, PlainThen, ToType, FloodType DEF Flood
<1> QED
  BY <1>2, <1>3

LEMMA PlainCounts ==
  ASSUME NEW out \in Outgoing(Message), Plain(out)
  PROVE  /\ \A r \in Node : Copies(out[r], Markers) = 0
         /\ \A u \in Node : Load(out, {State(u)}) = 0
<1>1. ASSUME NEW r \in Node PROVE Copies(out[r], Markers) = 0
  <2>1. out[r] \in Seq(Message)
    BY DEF Outgoing
  <2>2. \A i \in DOMAIN out[r] : out[r][i] \notin Markers
    BY DEF Plain, Markers, OfCut
  <2> QED
    BY <2>1, <2>2, CopiesType
<1>2. ASSUME NEW u \in Node PROVE Load(out, {State(u)}) = 0
  <2>1. \A r \in Node : \A i \in DOMAIN out[r] : out[r][i] \notin {State(u)}
    BY DEF Plain, State, OfCut
  <2> QED
    BY <2>1, LoadNone, NodeAssumption
<1> QED
  BY <1>1, <1>2

\* A handler that has nothing to do with snapshots.
LEMMA CutPlain ==
  ASSUME TypeOK, Cut, NEW n \in Node, NEW q \in Node, Pending(q, n), Head(chan[q][n]).type \notin OfCut,
         NEW out \in Outgoing(Message), Plain(out), chan' = Exchanged(chan, q, n, out),
         \A p \in Node : snapshots'[p].id = snapshots[p].id /\ snapshots'[p].msgInActive = snapshots[p].msgInActive,
         UNCHANGED <<marking, receivedSnapshots, outbox>>
  PROVE  Cut'
<1>m. PICK m : m = Head(chan[q][n])
  OBVIOUS
<1>t. TakenCounts(n, q, m, out) /\ m.type \notin OfCut
  BY <1>m, CutTaken
<1>1. \A p, r \in Node : InFlight(chan', p, r, Markers) = InFlight(chan, p, r, Markers)
  BY <1>t, PlainCounts DEF TakenCounts, OfCut
<1>2. \A u \in Node : Traffic(chan', {State(u)}) = Traffic(chan, {State(u)})
  <2>1. \A u \in Node : m # State(u)
    BY <1>m, <1>t DEF State, OfCut
  <2> QED
    BY <1>t, <2>1, PlainCounts DEF TakenCounts
<1>3. \A p, r \in Node : \A i \in DOMAIN chan'[p][r] : chan'[p][r][i].type = "marker" =>
        \E j \in DOMAIN chan[p][r] : chan'[p][r][i] = chan[p][r][j]
  BY <1>t DEF TakenCounts, Plain, OfCut
<1>4. \A p \in Node : \A x \in outbox'[p] : x[2].type \notin OfCut
  BY DEF Cut, Recording
<1> QED
  BY <1>1, <1>2, <1>3, <1>4, CutKept

\* Taking a message is taking it and sending nothing.
LEMMA TakenOnly ==
  ASSUME TypeOK, NEW n \in Node, NEW q \in Node, chan[q][n] # <<>>, chan' = Taken(chan, q, n)
  PROVE  chan' = Exchanged(chan, q, n, Nothing)
<1>1. Taken(chan, q, n) \in Channels(Message)
  BY TakenAt DEF TypeOK, Channels, Outgoing
<1> QED
  BY <1>1, SentNothing DEF Exchanged

\* A message of a transaction.
LEMMA CutTransaction ==
  ASSUME TypeOK, Cut, NEW n \in Node, NEW q \in Node,
         \/ Deduplicate(n, q) \/ PassOn(n, q)
         \/ handle_transactGetBalance(n, q) \/ handle_transactStart(n, q)
         \/ handle_transactAck(n, q) \/ handle_transactBalance(n, q)
  PROVE  Cut'
<1> DEFINE m == Head(chan[q][n])
<1>1. Takes(n, q, Requests \cup Answers) /\ Store(n, q)
  BY DEF Deduplicate, PassOn, handle_transactGetBalance, handle_transactStart,
         handle_transactAck, handle_transactBalance, Answering, Accepting, Takes, Requests, Answers
<1>2. /\ chan[q][n] # <<>> /\ m \in Message /\ m.type \in Requests \cup Answers
      /\ UNCHANGED outbox
  BY <1>1, TakesType
<1>3. m.type \notin OfCut
  BY <1>2 DEF Requests, Answers, OfCut
<1>4. /\ \A p \in Node : snapshots'[p].id = snapshots[p].id /\ snapshots'[p].msgInActive = snapshots[p].msgInActive
      /\ UNCHANGED <<marking, receivedSnapshots>>
  BY <1>1, StoreType
<1>5. \A type \in Answers : Answer(type, m.t) \in Message /\ Answer(type, m.t).type \in Requests \cup Answers
  BY <1>2, MessageFields, Makes
<1>6. PICK out \in Outgoing(Message) : Plain(out) /\ chan' = Exchanged(chan, q, n, out)
  <2>1. CASE Deduplicate(n, q) \/ handle_transactAck(n, q) \/ handle_transactBalance(n, q)
    <3>1. chan' = Taken(chan, q, n)
      BY <2>1 DEF Deduplicate, handle_transactAck, handle_transactBalance, Accepting
    <3> QED
      BY <1>2, <3>1, TakenOnly, NothingType, PlainTo
  <2>2. CASE PassOn(n, q)
    BY <1>2, <2>2, PlainFlood DEF PassOn
  <2>3. CASE handle_transactGetBalance(n, q)
    <3>1. chan' = Exchanged(chan, q, n, Flood(n, n, Answer("transactBalance", m.t)))
      BY <2>3 DEF handle_transactGetBalance, Answering
    <3>2. "transactBalance" \in Answers
      BY DEF Answers
    <3> QED
      BY <1>5, <3>1, <3>2, PlainFlood
  <2>4. CASE handle_transactStart(n, q)
    <3>1. chan' = Exchanged(chan, q, n, Flood(n, n, Answer("transactAck", m.t)))
      BY <2>4 DEF handle_transactStart, Answering
    <3>2. "transactAck" \in Answers
      BY DEF Answers
    <3> QED
      BY <1>5, <3>1, <3>2, PlainFlood
  <2> QED
    BY <2>1, <2>2, <2>3, <2>4
<1> HIDE DEF m
<1> QED
  BY <1>2, <1>3, <1>4, <1>6, CutPlain DEF m, Pending

\* A message of the lock.
LEMMA CutLock ==
  ASSUME TypeOK, Cut, NEW n \in Node, NEW q \in Node,
         handle_lockRelease(n, q) \/ handle_lockAck(n, q)
  PROVE  Cut'
<1> DEFINE m == Head(chan[q][n])
<1>1. Takes(n, q, {"lockRelease", "lockAck"}) /\ Store(n, q)
  BY DEF handle_lockRelease, handle_lockAck, Takes
<1>2. /\ chan[q][n] # <<>> /\ m \in Message /\ m.type \in {"lockRelease", "lockAck"}
      /\ UNCHANGED outbox
  BY <1>1, TakesType
<1>3. m.type \notin OfCut
  BY <1>2 DEF OfCut
<1>4. /\ \A p \in Node : snapshots'[p].id = snapshots[p].id /\ snapshots'[p].msgInActive = snapshots[p].msgInActive
      /\ UNCHANGED <<marking, receivedSnapshots>>
  BY <1>1, StoreType
<1>5. ASSUME NEW R, NEW msg, R = {} \/ (msg \in Message /\ msg.type \notin OfCut)
      PROVE  To(R, msg) \in Outgoing(Message) /\ Plain(To(R, msg))
  BY <1>5, ToType, PlainTo
<1>6. PICK out \in Outgoing(Message) : Plain(out) /\ chan' = Exchanged(chan, q, n, out)
  <2>1. CASE handle_lockRelease(n, q)
    <3>1. Release.type \notin OfCut /\ \A r : Ack(r).type \notin OfCut
      BY DEF Release, Ack, OfCut
    <3>2. /\ To(AckTo(n), Ack(turn)) \in Outgoing(Message) /\ Plain(To(AckTo(n), Ack(turn)))
          /\ To(Tree(n) \ {q}, Release) \in Outgoing(Message) /\ Plain(To(Tree(n) \ {q}, Release))
      BY <1>5, <3>1, AckType, Makes
    <3> QED
      BY <2>1, <3>2, ThenType, PlainThen DEF handle_lockRelease
  <2>2. CASE chan' = Taken(chan, q, n)
    BY <1>2, <2>2, TakenOnly, NothingType, PlainTo
  <2>3. CASE chan' = Exchanged(chan, q, n, To(Tree(n) \ {q}, m))
    BY <1>2, <1>3, <1>5, <2>3
  <2> QED
    BY <2>1, <2>2, <2>3 DEF handle_lockAck
<1> HIDE DEF m
<1> QED
  BY <1>2, <1>3, <1>4, <1>6, CutPlain DEF m, Pending

\* The transaction loop.
LEMMA CutLoop ==
  ASSUME TypeOK, Cut, NEW n \in Node, transactionLoop(n)
  PROVE  Cut'
<1>1. UNCHANGED cut
  BY DEF transactionLoop, Enter, FloodStart, Exit, AckNext, LoopSend
<1>2. /\ \A p \in Node : snapshots'[p].id = snapshots[p].id /\ snapshots'[p].msgInActive = snapshots[p].msgInActive
      /\ UNCHANGED <<marking, receivedSnapshots>>
  BY <1>1 DEF cut
<1>3. \A p \in Node : \A x \in outbox[p] : x[2].type \notin OfCut
  BY DEF Cut, Recording
<1>4. CASE Enter(n) \/ FloodStart(n) \/ Exit(n) \/ AckNext(n)
  <2>1. PICK R, msg : SendAll(n, R, msg) /\ msg.type \notin OfCut
    <3>1. CASE Enter(n)
      BY <3>1 DEF Enter, GetBalance, OfCut
    <3>2. CASE FloodStart(n)
      BY <3>2 DEF FloodStart, Start, OfCut
    <3>3. CASE Exit(n) \/ AckNext(n)
      BY <3>3 DEF Exit, AckNext, Release, Ack, OfCut
    <3> QED
      BY <1>4, <3>1, <3>2, <3>3
  <2>2. \A p \in Node : \A x \in outbox'[p] : x[2].type \notin OfCut
    BY <1>3, <2>1, SendAllAt
  <2>3. UNCHANGED chan
    BY <1>4 DEF Enter, FloodStart, Exit, AckNext
  <2> QED
    BY <1>2, <2>2, <2>3, CutKept
<1>5. CASE LoopSend(n)
  <2>1. PICK s \in outbox[n] : chan' = Sent(chan, n, To({s[1]}, s[2])) /\ outbox' = [outbox EXCEPT ![n] = @ \ {s}]
    BY <1>5 DEF LoopSend
  <2>2. PICK out : out = To({s[1]}, s[2])
    OBVIOUS
  <2>3. s[2] \in Message /\ s[2].type \notin OfCut
    BY <1>3 DEF TypeOK
  <2>4. out \in Outgoing(Message) /\ Plain(out) /\ chan' = Sent(chan, n, out)
    BY <2>1, <2>2, <2>3, ToType, PlainTo
  <2>s. SentCounts(n, out)
    BY <2>4, CutSent
  <2>5. \A p \in Node : outbox'[p] \subseteq outbox[p]
    BY <2>1 DEF TypeOK
  <2>6. \A p, r \in Node : InFlight(chan', p, r, Markers) = InFlight(chan, p, r, Markers)
    BY <2>4, <2>s, PlainCounts DEF SentCounts
  <2>7. \A u \in Node : Traffic(chan', {State(u)}) = Traffic(chan, {State(u)})
    BY <2>4, <2>s, PlainCounts DEF SentCounts
  <2>8. \A p, r \in Node : \A i \in DOMAIN chan'[p][r] : chan'[p][r][i].type = "marker" =>
          \E j \in DOMAIN chan[p][r] : chan'[p][r][i] = chan[p][r][j]
    BY <2>4, <2>s DEF SentCounts, Plain, OfCut
  <2> QED
    BY <1>2, <1>3, <2>5, <2>6, <2>7, <2>8, CutKept
<1> QED
  BY <1>4, <1>5 DEF transactionLoop

\* A node whose channels are closed sends one report of its own, and no marker.
LEMMA ReportCounts ==
  ASSUME NEW n \in Node, NEW active
  PROVE  /\ Report(n, active) \in Outgoing(Message)
         /\ \A r \in Node : /\ Copies(Report(n, active)[r], Markers) = 0
                            /\ \A i \in DOMAIN Report(n, active)[r] : Report(n, active)[r][i].type = "state"
         /\ \A u \in Node : Load(Report(n, active), {State(u)}) =
              IF n # Leader /\ Closed(active) /\ u = n THEN 1 ELSE 0
<1>1. Report(n, active) \in Outgoing(Message)
  BY ReportType
<1>2. IsFiniteSet(Node) /\ \A u \in Node : State(n) = State(u) <=> u = n
  BY NodeAssumption DEF State
<1>3. State(n) \notin Markers /\ State(n).type = "state"
  BY DEF State, Markers
<1>4. CASE n # Leader /\ Closed(active)
  <2>1. PICK R : R = {Parent[n]}
    OBVIOUS
  <2>2. Report(n, active) = To(R, State(n)) /\ R \in SUBSET Node /\ Cardinality(R) = 1
    BY <1>4, <2>1, ParentAssumption, FS_Singleton DEF Report
  <2>3. ASSUME NEW u \in Node PROVE Load(To(R, State(n)), {State(u)}) = IF u = n THEN 1 ELSE 0
    <3>1. Load(To(R, State(n)), {State(u)}) = IF State(n) \in {State(u)} THEN Cardinality(R) ELSE 0
      BY <1>2, <2>2, LoadTo
    <3> QED
      BY <1>2, <2>2, <3>1
  <2>4. ASSUME NEW r \in Node
        PROVE  /\ Copies(To(R, State(n))[r], Markers) = 0
               /\ \A i \in DOMAIN To(R, State(n))[r] : To(R, State(n))[r][i].type = "state"
    <3>1. Copies(To(R, State(n))[r], Markers) = 0
      BY <1>3, CopiesOut
    <3>2. To(R, State(n))[r] = IF r \in R THEN <<State(n)>> ELSE <<>>
      BY DEF To
    <3> QED
      BY <1>3, <3>1, <3>2, EmptySeq
  <2> QED
    BY <1>1, <1>4, <2>2, <2>3, <2>4
<1>5. CASE ~ (n # Leader /\ Closed(active))
  <2>1. Report(n, active) = Nothing
    BY <1>5 DEF Report
  <2>2. \A u \in Node : Load(Nothing, {State(u)}) = 0
    BY <1>2, LoadTo
  <2>3. \A r \in Node : Copies(Nothing[r], Markers) = 0 /\ DOMAIN Nothing[r] = {}
    BY CopiesOut, EmptySeq DEF Nothing
  <2> QED
    BY <1>1, <1>5, <2>1, <2>2, <2>3
<1> QED
  BY <1>4, <1>5

\* What a node has in progress after it has recorded its state.
LEMMA RecordAt ==
  ASSUME TypeOK, NEW n \in Node, NEW id, NEW R, Record(n, id, R)
  PROVE  /\ snapshots'[n].id = id /\ snapshots'[n].msgInActive = Neigh[n] \ R
         /\ \A p \in Node : p # n => snapshots'[p] = snapshots[p]
BY DEF Record, TypeOK

\* A new round: the last one is over.
LEMMA CutNew ==
  ASSUME TypeOK, Cut, NewSnapshot
  PROVE  Cut'
<1>1. /\ Leader \in Node /\ Record(Leader, Round + 1, {}) /\ marking' = [marking EXCEPT ![Leader] = Neigh[Leader]]
      /\ receivedSnapshots' = <<>> /\ UNCHANGED <<chan, outbox>>
      /\ Round = 0 \/ AllReceived
  BY NodeAssumption DEF NewSnapshot, loopVars, Round
<1>2. /\ \A u \in Node : /\ snapshots[u].id = Round /\ snapshots[u].msgInActive = {} /\ marking[u] = {}
                         /\ Traffic(chan, {State(u)}) = 0
      /\ \A p, r \in Node : \A i \in DOMAIN chan[p][r] : chan[p][r][i].type \notin OfCut
  BY <1>1, Settled
<1>3. Round \in Nat
  BY <1>1 DEF Round, TypeOK, Snapshot
<1>4. /\ snapshots'[Leader].id = Round + 1 /\ snapshots'[Leader].msgInActive = Neigh[Leader]
      /\ \A p \in Node : p # Leader => snapshots'[p] = snapshots[p]
  <2>1. PICK id, R : id = Round + 1 /\ R = {}
    OBVIOUS
  <2>2. Record(Leader, id, R)
    BY <1>1, <2>1
  <2>3. /\ snapshots'[Leader].id = id /\ snapshots'[Leader].msgInActive = Neigh[Leader] \ R
        /\ \A p \in Node : p # Leader => snapshots'[p] = snapshots[p]
    BY <1>1, <2>2, RecordAt
  <2>4. Neigh[Leader] \ R = Neigh[Leader]
    BY <2>1
  <2> QED
    BY <2>1, <2>3, <2>4
<1>5. marking'[Leader] = Neigh[Leader] /\ \A p \in Node : p # Leader => marking'[p] = {}
  BY <1>1, <1>2 DEF TypeOK
<1>6. Round' = Round + 1
  BY <1>4 DEF Round
<1>0. ASSUME NEW u \in Node, u # Leader PROVE snapshots'[u].id # Round'
  <2>1. snapshots'[u].id = Round
    BY <1>0, <1>2, <1>4
  <2>2. Round # Round + 1
    BY <1>3
  <2> QED
    BY <1>6, <2>1, <2>2
<1>7. Recording'
  BY <1>1, <1>2, <1>3, <1>4, <1>5, <1>6 DEF Cut, Recording
<1>8. Placing'
  BY <1>1, <1>2 DEF Placing, OfCut
<1>9. Marking'
  <2> SUFFICES ASSUME NEW p \in Node, NEW r \in Neigh[p]
               PROVE  InFlight(chan', p, r, Markers) + (IF Got(p, r)' THEN 1 ELSE 0) = IF Marked(p, r)' THEN 1 ELSE 0
    BY DEF Marking
  <2>1. r \in Node /\ p \in Neigh[r]
    BY NeighAssumption
  <2>2. InFlight(chan, p, r, Markers) = 0
    <3>1. chan[p][r] \in Seq(Message)
      BY <2>1 DEF TypeOK
    <3>2. \A i \in DOMAIN chan[p][r] : chan[p][r][i] \notin Markers
      BY <1>2, <2>1 DEF Markers, OfCut
    <3> QED
      BY <3>1, <3>2, CopiesType DEF InFlight
  <2>3. ~ Got(p, r)'
    <3>1. CASE r = Leader
      BY <1>4, <2>1, <3>1 DEF Got
    <3>2. CASE r # Leader
      <4>1. snapshots'[r].id # Round'
        BY <1>0, <2>1, <3>2
      <4> QED
        BY <4>1 DEF Got
    <3> QED
      BY <3>1, <3>2
  <2>4. ~ Marked(p, r)'
    <3>1. CASE p = Leader
      BY <1>5, <3>1 DEF Marked
    <3>2. CASE p # Leader
      <4>1. snapshots'[p].id # Round'
        BY <1>0, <3>2
      <4> QED
        BY <4>1 DEF Marked
    <3> QED
      BY <3>1, <3>2
  <2> QED
    BY <1>1, <2>2, <2>3, <2>4
<1>10. Reporting'
  <2> SUFFICES ASSUME NEW u \in Node
               PROVE  Traffic(chan', {State(u)}) + Copies(receivedSnapshots', {u}) = IF Done(u)' THEN 1 ELSE 0
    BY DEF Reporting
  <2>1. Copies(receivedSnapshots', {u}) = 0
    BY <1>1, CopiesFew
  <2>2. ~ Done(u)'
    <3>1. CASE u = Leader
      BY <1>4, <3>1 DEF Done, Closed
    <3>2. CASE u # Leader
      <4>1. snapshots'[u].id # Round'
        BY <1>0, <3>2
      <4> QED
        BY <4>1 DEF Done
    <3> QED
      BY <3>1, <3>2
  <2> QED
    BY <1>1, <1>2, <2>1, <2>2
<1> QED
  BY <1>7, <1>8, <1>9, <1>10 DEF Cut

\* One more report in the coordinator's list.
LEMMA AppendCounts ==
  ASSUME TypeOK, NEW v \in Node, NEW u \in Node
  PROVE  /\ Copies(Append(receivedSnapshots, v), {u}) = Copies(receivedSnapshots, {u}) + IF u = v THEN 1 ELSE 0
         /\ Copies(receivedSnapshots, {u}) \in Nat
<1>1. PICK s, t : s = receivedSnapshots /\ t = <<v>>
  OBVIOUS
<1>2. s \in Seq(Node) /\ t \in Seq(Node) /\ Append(s, v) = s \o t
  BY <1>1 DEF TypeOK
<1>3. Copies(s \o t, {u}) = Copies(s, {u}) + Copies(t, {u}) /\ Copies(s, {u}) \in Nat
  BY <1>2, CopiesConcat, CopiesType
<1>4. Copies(t, {u}) = IF u = v THEN 1 ELSE 0
  BY <1>1, CopiesFew
<1> QED
  BY <1>1, <1>2, <1>3, <1>4

\* One more marker is sent, and the node's report after the last if its channels are closed.
LEMMA CutSendMarker ==
  ASSUME TypeOK, Cut, NEW n \in Node, NEW r \in Node, SendMarker(n, r)
  PROVE  Cut'
<1> DEFINE reports == marking[n] = {r} /\ n # Leader /\ Closed(snapshots[n].msgInActive)
           marker == To({r}, Marker(Round))
           rest == IF marking[n] = {r} THEN Report(n, snapshots[n].msgInActive) ELSE Nothing
<1>1. r \in marking[n] /\ r \in Neigh[n] /\ n \in Neigh[r] /\ snapshots[n].id = Round /\ Round \in Nat
  <2>1. r \in marking[n]
    BY DEF SendMarker
  <2>2. r \in Neigh[n] /\ snapshots[n].id = Round
    BY <2>1 DEF Cut, Recording
  <2> QED
    BY <2>1, <2>2, NeighAssumption DEF TypeOK, Snapshot
<1>2. marking'[n] = marking[n] \ {r} /\ \A p \in Node : p # n => marking'[p] = marking[p]
  BY DEF SendMarker, TypeOK
<1>3. UNCHANGED <<outbox, snapshots, receivedSnapshots>> /\ Round' = Round
  BY DEF SendMarker, loopVars, Round
<1>4. PICK out : out = Then(marker, rest)
  OBVIOUS
<1>5. chan' = Sent(chan, n, out)
  BY <1>1, <1>4 DEF SendMarker
<1>6. Marker(Round) \in Markers /\ Marker(Round) \in Message /\ Marker(Round).type = "marker" /\ Marker(Round).id = Round
  BY <1>1 DEF Marker, Markers, Message
<1>7. marker \in Outgoing(Message)
  BY <1>6, ToType
<1>8. ASSUME NEW s \in Node
      PROVE  /\ Copies(marker[s], Markers) = IF s = r THEN 1 ELSE 0
             /\ \A i \in DOMAIN marker[s] : s = r /\ marker[s][i] = Marker(Round)
  <2>1. Copies(marker[s], Markers) = IF s = r THEN 1 ELSE 0
    BY <1>6, CopiesOut
  <2>2. marker[s] = IF s = r THEN <<Marker(Round)>> ELSE <<>>
    BY DEF To
  <2> HIDE DEF marker
  <2> QED
    BY <2>1, <2>2, EmptySeq
<1>9. \A u \in Node : Load(marker, {State(u)}) = 0
  <2>1. \A u \in Node : Marker(Round) \notin {State(u)}
    BY DEF Marker, State
  <2>2. PICK R : R = {r}
    OBVIOUS
  <2> QED
    BY <2>1, <2>2, LoadTo, NodeAssumption
<1>10. /\ rest \in Outgoing(Message)
       /\ \A s \in Node : Copies(rest[s], Markers) = 0
       /\ \A s \in Node : \A i \in DOMAIN rest[s] : rest[s][i].type = "state"
       /\ \A u \in Node : Load(rest, {State(u)}) = IF reports /\ u = n THEN 1 ELSE 0
  <2>1. CASE marking[n] = {r}
    <3>1. PICK active : active = snapshots[n].msgInActive
      OBVIOUS
    <3> QED
      BY <2>1, <3>1, ReportCounts
  <2>2. CASE marking[n] # {r}
    <3>1. rest = Nothing /\ ~ reports
      BY <2>2
    <3>2. \A s \in Node : Nothing[s] = <<>>
      BY DEF Nothing
    <3>3. Nothing \in Outgoing(Message)
      BY NothingType
    <3>4. \A u \in Node : Load(Nothing, {State(u)}) = 0
      BY NodeAssumption, LoadTo
    <3>5. \A s \in Node : Copies(Nothing[s], Markers) = 0 /\ DOMAIN Nothing[s] = {}
      BY <3>2, CopiesOut, EmptySeq
    <3> HIDE DEF rest, reports
    <3> QED
      BY <3>1, <3>3, <3>4, <3>5
  <2> QED
    BY <2>1, <2>2
<1> HIDE DEF marker, rest, reports
<1>11. out \in Outgoing(Message)
  BY <1>4, <1>7, <1>10, ThenType
<1>s. SentCounts(n, out)
  BY <1>5, <1>11, CutSent
<1>12. ASSUME NEW s \in Node PROVE Copies(out[s], Markers) = IF s = r THEN 1 ELSE 0
  BY <1>4, <1>7, <1>8, <1>10, CopiesThen
<1>13. ASSUME NEW u \in Node PROVE Load(out, {State(u)}) = IF reports /\ u = n THEN 1 ELSE 0
  BY <1>4, <1>7, <1>9, <1>10, LoadThen, NodeAssumption
<1>14. ASSUME NEW s \in Node, NEW i \in DOMAIN out[s], out[s][i].type = "marker"
       PROVE  s = r /\ out[s][i] = Marker(Round)
  <2>1. out[s] = marker[s] \o rest[s] /\ marker[s] \in Seq(Message) /\ rest[s] \in Seq(Message)
    BY <1>4, <1>7, <1>10 DEF Then, Outgoing
  <2>2. PICK s1, s2 : s1 = marker[s] /\ s2 = rest[s]
    OBVIOUS
  <2>3. s1 \in Seq(Message) /\ s2 \in Seq(Message) /\ out[s] = s1 \o s2 /\ i \in DOMAIN (s1 \o s2)
    BY <1>14, <2>1, <2>2
  <2>4. \/ i \in DOMAIN s1 /\ (s1 \o s2)[i] = s1[i]
        \/ i - Len(s1) \in DOMAIN s2 /\ (s1 \o s2)[i] = s2[i - Len(s1)]
    BY <2>3, Concat
  <2>5. CASE i \in DOMAIN s1 /\ out[s][i] = s1[i]
    BY <1>8, <2>2, <2>5
  <2>6. CASE i - Len(s1) \in DOMAIN s2 /\ out[s][i] = s2[i - Len(s1)]
    <3>1. out[s][i].type = "state"
      BY <1>10, <2>2, <2>6
    <3> QED
      BY <1>14, <3>1
  <2> QED
    BY <2>3, <2>4, <2>5, <2>6
<1>15. ~ Marked(n, r) /\ ~ Got(n, r) /\ InFlight(chan, n, r, Markers) = 0
  <2>1. ~ Marked(n, r)
    BY <1>1 DEF Marked
  <2>2. InFlight(chan, n, r, Markers) + (IF Got(n, r) THEN 1 ELSE 0) = 0
    BY <1>1, <2>1 DEF Cut, Marking
  <2>3. InFlight(chan, n, r, Markers) \in Nat
    BY <1>s DEF SentCounts
  <2> QED
    BY <2>1, <2>2, <2>3
<1>16. Round > 0
  <2>1. Round = 0 => Got(n, r)
    BY DEF Cut, Recording, Got
  <2> QED
    BY <1>1, <1>15, <2>1
<1>17. Recording'
  BY <1>2, <1>3 DEF Cut, Recording
<1>18. Placing'
  <2> SUFFICES ASSUME NEW p \in Node, NEW s \in Node, NEW i \in DOMAIN chan'[p][s],
                      chan'[p][s][i].type = "marker"
               PROVE  chan'[p][s][i].id = Round /\ s \in Neigh[p]
    BY <1>3 DEF Placing
  <2>1. \/ \E j \in DOMAIN chan[p][s] : chan'[p][s][i] = chan[p][s][j]
        \/ p = n /\ \E j \in DOMAIN out[s] : chan'[p][s][i] = out[s][j]
    BY <1>s DEF SentCounts
  <2> QED
    BY <1>1, <1>6, <1>14, <2>1 DEF Cut, Placing
<1>19. Marking'
  <2> SUFFICES ASSUME NEW p \in Node, NEW s \in Neigh[p]
               PROVE  InFlight(chan', p, s, Markers) + (IF Got(p, s)' THEN 1 ELSE 0) = IF Marked(p, s)' THEN 1 ELSE 0
    BY DEF Marking
  <2>1. s \in Node
    BY NeighAssumption
  <2>2. InFlight(chan', p, s, Markers) = InFlight(chan, p, s, Markers) + (IF p = n /\ s = r THEN 1 ELSE 0)
    BY <1>s, <1>12, <2>1 DEF SentCounts
  <2>3. Got(p, s)' <=> Got(p, s)
    BY <1>3 DEF Got
  <2>4. Marked(p, s)' <=> Marked(p, s) \/ (p = n /\ s = r)
    BY <1>1, <1>2, <1>3 DEF Marked
  <2>5. InFlight(chan, p, s, Markers) + (IF Got(p, s) THEN 1 ELSE 0) = IF Marked(p, s) THEN 1 ELSE 0
    BY DEF Cut, Marking
  <2>6. CASE p = n /\ s = r
    <3>1. Marked(p, s)' /\ ~ Got(p, s)' /\ InFlight(chan', p, s, Markers) = 1
      BY <1>15, <2>2, <2>3, <2>4, <2>6
    <3> QED
      BY <3>1
  <2>7. CASE ~ (p = n /\ s = r)
    <3>1. InFlight(chan', p, s, Markers) = InFlight(chan, p, s, Markers)
      BY <1>s, <2>1, <2>2, <2>7 DEF SentCounts
    <3> QED
      BY <2>3, <2>4, <2>5, <2>7, <3>1
  <2> QED
    BY <2>6, <2>7
<1>20. Reporting'
  <2> SUFFICES ASSUME NEW u \in Node
               PROVE  Traffic(chan', {State(u)}) + Copies(receivedSnapshots', {u}) = IF Done(u)' THEN 1 ELSE 0
    BY DEF Reporting
  <2>1. Traffic(chan', {State(u)}) = Traffic(chan, {State(u)}) + (IF reports /\ u = n THEN 1 ELSE 0)
        /\ Traffic(chan, {State(u)}) \in Nat
    BY <1>s, <1>13 DEF SentCounts
  <2>2. Traffic(chan, {State(u)}) + Copies(receivedSnapshots, {u}) = IF Done(u) THEN 1 ELSE 0
    BY DEF Cut, Reporting
  <2>3. CASE u # n \/ u = Leader
    <3>1. Done(u)' <=> Done(u)
      BY <1>2, <1>3, <2>3 DEF Done
    <3>2. ~ (reports /\ u = n)
      BY <2>3 DEF reports
    <3> QED
      BY <1>3, <2>1, <2>2, <3>1, <3>2
  <2>4. CASE u = n /\ n # Leader
    <3>1. ~ Done(u)
      BY <1>1, <2>4 DEF Done
    <3>2. Done(u)' <=> reports
      <4>1. marking'[n] = {} <=> marking[n] = {r}
        BY <1>1, <1>2
      <4> QED
        BY <1>1, <1>3, <1>16, <2>4, <4>1 DEF Done, reports
    <3>3. Copies(receivedSnapshots, {u}) \in Nat
      BY CopiesType DEF TypeOK
    <3> QED
      BY <1>3, <2>1, <2>2, <2>4, <3>1, <3>2, <3>3
  <2> QED
    BY <2>3, <2>4
<1> QED
  BY <1>17, <1>18, <1>19, <1>20 DEF Cut

\* A marker that is taken is of this round, and the first on its edge.
LEMMA MarkerTaken ==
  ASSUME TypeOK, Cut, NEW n \in Node, NEW q \in Neigh[n], Takes(n, q, {"marker"})
  PROVE  /\ q \in Node /\ n \in Neigh[q] /\ n # q /\ Pending(q, n)
         /\ Head(chan[q][n]) \in Message /\ Head(chan[q][n]).type = "marker"
         /\ Head(chan[q][n]).id = Round /\ Round \in Nat /\ UNCHANGED outbox
         /\ Marked(q, n) /\ ~ Got(q, n) /\ Round > 0
<1>1. q \in Node /\ n \in Neigh[q] /\ n # q
  BY NeighAssumption
<1>2. /\ chan \in Channels(Message) /\ chan[q][n] # <<>> /\ Head(chan[q][n]) \in Message
      /\ Head(chan[q][n]).type = "marker" /\ UNCHANGED outbox
  BY <1>1, TakesType
<1>3. chan[q][n] \in Seq(Message)
  BY <1>1 DEF TypeOK
<1>4. 1 \in DOMAIN chan[q][n] /\ Head(chan[q][n]) = chan[q][n][1]
  BY <1>2, <1>3, Uncons
<1>5. Head(chan[q][n]).id = Round
  BY <1>1, <1>2, <1>4 DEF Cut, Placing
<1>6. Round \in Nat
  BY NodeAssumption DEF Round, TypeOK, Snapshot
<1>7. InFlight(chan, q, n, Markers) \in Nat /\ InFlight(chan, q, n, Markers) # 0
  <2>1. chan[q][n][1] \in Markers
    BY <1>2, <1>4, MessageKinds
  <2> QED
    BY <1>3, <1>4, <2>1, CopiesType DEF InFlight
<1>8. Marked(q, n) /\ ~ Got(q, n)
  <2>1. InFlight(chan, q, n, Markers) + (IF Got(q, n) THEN 1 ELSE 0) = IF Marked(q, n) THEN 1 ELSE 0
    BY <1>1 DEF Cut, Marking
  <2> QED
    BY <1>7, <2>1
<1>9. Round > 0
  <2>1. Round = 0 => Got(q, n)
    BY DEF Cut, Recording, Got
  <2> QED
    BY <1>6, <1>8, <2>1
<1> QED
  BY <1>1, <1>2, <1>5, <1>6, <1>8, <1>9 DEF Pending

\* A node records its state: no other channel has had its marker, and it has sent none itself.
LEMMA CutFirstMarker ==
  ASSUME TypeOK, Cut, NEW n \in Node, NEW q \in Neigh[n], FirstMarker(n, q)
  PROVE  Cut'
<1>1. Takes(n, q, {"marker"})
  BY DEF FirstMarker
<1>2. /\ q \in Node /\ n \in Neigh[q] /\ n # q /\ Pending(q, n)
      /\ Head(chan[q][n]).type = "marker"
      /\ Head(chan[q][n]).id = Round /\ Round \in Nat /\ UNCHANGED outbox
      /\ Round > 0
  BY <1>1, MarkerTaken
<1>3. snapshots[n].id # Round /\ n # Leader /\ UNCHANGED receivedSnapshots
  BY <1>2 DEF FirstMarker, Round
<1>4. /\ snapshots'[n].id = Round /\ snapshots'[n].msgInActive = Neigh[n] \ {q}
      /\ \A p \in Node : p # n => snapshots'[p] = snapshots[p]
  <2>1. Record(n, Round, {q})
    BY <1>2 DEF FirstMarker
  <2> QED
    BY <2>1, RecordAt
<1>5. marking'[n] = Neigh[n] /\ \A p \in Node : p # n => marking'[p] = marking[p]
  BY DEF FirstMarker, TypeOK
<1>6. Round' = Round
  BY <1>3, <1>4, NodeAssumption DEF Round
<1>7. PICK out \in Outgoing(Message) :
        /\ chan' = Exchanged(chan, q, n, out)
        /\ \A r \in Node : Copies(out[r], Markers) = 0 /\ DOMAIN out[r] = {}
        /\ \A u \in Node : Load(out, {State(u)}) = 0
  <2>1. chan' = Taken(chan, q, n)
    BY DEF FirstMarker
  <2>2. chan' = Exchanged(chan, q, n, Nothing)
    BY <1>2, <2>1, TakenOnly DEF Pending
  <2>3. \A r \in Node : Copies(Nothing[r], Markers) = 0 /\ DOMAIN Nothing[r] = {}
    BY CopiesOut, EmptySeq DEF Nothing
  <2>4. \A u \in Node : Load(Nothing, {State(u)}) = 0
    BY NodeAssumption, LoadTo
  <2> QED
    BY <2>2, <2>3, <2>4, NothingType
<1>t. TakenCounts(n, q, Head(chan[q][n]), out)
  BY <1>2, <1>7, CutTaken
<1>8. Recording'
  BY <1>2, <1>4, <1>5, <1>6 DEF Cut, Recording
<1>9. Placing'
  <2>1. \A p, r \in Node : \A i \in DOMAIN chan'[p][r] :
          \E j \in DOMAIN chan[p][r] : chan'[p][r][i] = chan[p][r][j]
    BY <1>t, <1>2, <1>7 DEF TakenCounts
  <2> QED
    BY <1>6, <2>1 DEF Cut, Placing
<1>10. Marking'
  <2> SUFFICES ASSUME NEW p \in Node, NEW r \in Neigh[p]
               PROVE  InFlight(chan', p, r, Markers) + (IF Got(p, r)' THEN 1 ELSE 0) = IF Marked(p, r)' THEN 1 ELSE 0
    BY DEF Marking
  <2>1. r \in Node /\ p \in Neigh[r] /\ p # r
    BY NeighAssumption
  <2>2. /\ InFlight(chan', p, r, Markers) + (IF p = q /\ r = n THEN 1 ELSE 0) = InFlight(chan, p, r, Markers)
        /\ InFlight(chan', p, r, Markers) \in Nat /\ InFlight(chan, p, r, Markers) \in Nat
    BY <1>t, <1>2, <1>7, <2>1 DEF TakenCounts
  <2>3. Marked(p, r)' <=> Marked(p, r)
    BY <1>3, <1>4, <1>5, <1>6 DEF Marked
  <2>4. Got(p, r)' <=> Got(p, r) \/ (p = q /\ r = n)
    BY <1>3, <1>4, <1>6, <2>1 DEF Got
  <2>5. ~ Got(p, r) \/ r # n
    BY <1>3 DEF Got
  <2>6. InFlight(chan, p, r, Markers) + (IF Got(p, r) THEN 1 ELSE 0) = IF Marked(p, r) THEN 1 ELSE 0
    BY DEF Cut, Marking
  <2> QED
    BY <2>2, <2>3, <2>4, <2>5, <2>6
<1>11. Reporting'
  <2> SUFFICES ASSUME NEW u \in Node
               PROVE  Traffic(chan', {State(u)}) + Copies(receivedSnapshots', {u}) = IF Done(u)' THEN 1 ELSE 0
    BY DEF Reporting
  <2>1. Traffic(chan', {State(u)}) = Traffic(chan, {State(u)})
    <3>1. Head(chan[q][n]) # State(u)
      BY <1>2 DEF State
    <3> QED
      BY <1>t, <1>7, <3>1 DEF TakenCounts
  <2>2. Done(u)' <=> Done(u)
    <3>1. CASE u = n
      BY <1>3, <1>4, <1>5, <1>6, <3>1 DEF Done
    <3>2. CASE u # n
      BY <1>4, <1>5, <1>6, <3>2 DEF Done
    <3> QED
      BY <3>1, <3>2
  <2> QED
    BY <1>3, <2>1, <2>2 DEF Cut, Reporting
<1> QED
  BY <1>8, <1>9, <1>10, <1>11 DEF Cut

\* A channel is closed; when it is the last the node reports, or the coordinator is done.
LEMMA CutLaterMarker ==
  ASSUME TypeOK, Cut, NEW n \in Node, NEW q \in Neigh[n], LaterMarker(n, q)
  PROVE  Cut'
<1>1. Takes(n, q, {"marker"})
  BY DEF LaterMarker
<1>2. /\ q \in Node /\ n \in Neigh[q] /\ n # q /\ Pending(q, n)
      /\ Head(chan[q][n]).type = "marker"
      /\ Head(chan[q][n]).id = Round /\ Round \in Nat /\ UNCHANGED outbox
      /\ ~ Got(q, n) /\ Round > 0
  BY <1>1, MarkerTaken
<1>3. PICK active : active = snapshots[n].msgInActive \ {q}
  OBVIOUS
<1>4. snapshots[n].id = Round /\ q \in snapshots[n].msgInActive
  BY <1>2 DEF LaterMarker, Got
<1>5. /\ snapshots' = [snapshots EXCEPT ![n].msgInActive = active]
      /\ chan' = Exchanged(chan, q, n, Report(n, active))
      /\ receivedSnapshots' = IF n = Leader /\ Closed(active) THEN Append(receivedSnapshots, n) ELSE receivedSnapshots
      /\ UNCHANGED marking
  BY <1>3 DEF LaterMarker, addCompleteSnapshot
<1>6. /\ snapshots'[n].id = Round /\ snapshots'[n].msgInActive = active
      /\ \A p \in Node : p # n => snapshots'[p] = snapshots[p]
  <2>1. snapshots \in [Node -> Snapshot] /\ snapshots[n] \in Snapshot
    BY DEF TypeOK
  <2>2. /\ [snapshots[n] EXCEPT !.msgInActive = active].id = snapshots[n].id
        /\ [snapshots[n] EXCEPT !.msgInActive = active].msgInActive = active
    BY <2>1 DEF Snapshot
  <2>3. snapshots' = [snapshots EXCEPT ![n] = [snapshots[n] EXCEPT !.msgInActive = active]]
    BY <1>5
  <2> HIDE DEF Snapshot
  <2> QED
    BY <1>4, <2>1, <2>2, <2>3
<1>7. n = Leader \/ marking[n] = {}
  BY <1>1 DEF Takes
<1>8. Round' = Round
  BY <1>4, <1>6, NodeAssumption DEF Round
<1>9. PICK out : out = Report(n, active)
  OBVIOUS
<1>10. /\ out \in Outgoing(Message) /\ chan' = Exchanged(chan, q, n, out)
       /\ \A r \in Node : Copies(out[r], Markers) = 0 /\ \A i \in DOMAIN out[r] : out[r][i].type = "state"
       /\ \A u \in Node : Load(out, {State(u)}) = IF n # Leader /\ Closed(active) /\ u = n THEN 1 ELSE 0
  BY <1>5, <1>9, ReportCounts
<1>t. TakenCounts(n, q, Head(chan[q][n]), out)
  BY <1>2, <1>10, CutTaken
<1>11. Recording'
  BY <1>2, <1>3, <1>4, <1>5, <1>6, <1>8 DEF Cut, Recording
<1>12. Placing'
  <2>1. \A p, r \in Node : \A i \in DOMAIN chan'[p][r] : chan'[p][r][i].type = "marker" =>
          \E j \in DOMAIN chan[p][r] : chan'[p][r][i] = chan[p][r][j]
    BY <1>t, <1>2, <1>10 DEF TakenCounts
  <2> QED
    BY <1>8, <2>1 DEF Cut, Placing
<1>13. Marking'
  <2> SUFFICES ASSUME NEW p \in Node, NEW r \in Neigh[p]
               PROVE  InFlight(chan', p, r, Markers) + (IF Got(p, r)' THEN 1 ELSE 0) = IF Marked(p, r)' THEN 1 ELSE 0
    BY DEF Marking
  <2>1. r \in Node
    BY NeighAssumption
  <2>2. /\ InFlight(chan', p, r, Markers) + (IF p = q /\ r = n THEN 1 ELSE 0) = InFlight(chan, p, r, Markers)
        /\ InFlight(chan', p, r, Markers) \in Nat /\ InFlight(chan, p, r, Markers) \in Nat
    BY <1>t, <1>2, <1>10, <2>1 DEF TakenCounts
  <2>3. Marked(p, r)' <=> Marked(p, r)
    BY <1>4, <1>5, <1>6, <1>8 DEF Marked
  <2>4. Got(p, r)' <=> Got(p, r) \/ (p = q /\ r = n)
    BY <1>3, <1>4, <1>6, <1>8, <2>1 DEF Got
  <2>5. InFlight(chan, p, r, Markers) + (IF Got(p, r) THEN 1 ELSE 0) = IF Marked(p, r) THEN 1 ELSE 0
    BY DEF Cut, Marking
  <2> QED
    BY <1>2, <2>2, <2>3, <2>4, <2>5
<1>14. Reporting'
  <2> SUFFICES ASSUME NEW u \in Node
               PROVE  Traffic(chan', {State(u)}) + Copies(receivedSnapshots', {u}) = IF Done(u)' THEN 1 ELSE 0
    BY DEF Reporting
  <2>1. /\ Traffic(chan', {State(u)})
             = Traffic(chan, {State(u)}) + (IF n # Leader /\ Closed(active) /\ u = n THEN 1 ELSE 0)
        /\ Traffic(chan, {State(u)}) \in Nat
    <3>1. Head(chan[q][n]) # State(u)
      BY <1>2 DEF State
    <3>2. /\ Traffic(chan', {State(u)}) = Traffic(chan, {State(u)}) + Load(out, {State(u)})
          /\ Traffic(chan, {State(u)}) \in Nat
      BY <1>t, <3>1 DEF TakenCounts
    <3> QED
      BY <1>10, <3>2
  <2>2. /\ Copies(receivedSnapshots', {u})
             = Copies(receivedSnapshots, {u}) + (IF n = Leader /\ Closed(active) /\ u = n THEN 1 ELSE 0)
        /\ Copies(receivedSnapshots, {u}) \in Nat
    BY <1>5, AppendCounts
  <2>3. Traffic(chan, {State(u)}) + Copies(receivedSnapshots, {u}) = IF Done(u) THEN 1 ELSE 0
    BY DEF Cut, Reporting
  <2>4. Done(u)' <=> Done(u) \/ (u = n /\ Closed(active))
    <3>1. CASE u = n
      BY <1>2, <1>4, <1>5, <1>6, <1>7, <1>8, <3>1 DEF Done, Closed
    <3>2. CASE u # n
      BY <1>5, <1>6, <1>8, <3>2 DEF Done
    <3> QED
      BY <3>1, <3>2
  <2>5. ~ Done(n)
    BY <1>4 DEF Done, Closed
  <2> QED
    BY <2>1, <2>2, <2>3, <2>4, <2>5
<1> QED
  BY <1>11, <1>12, <1>13, <1>14 DEF Cut

\* A report goes one step further, or is added to the coordinator's list.
LEMMA CutState ==
  ASSUME TypeOK, Cut, NEW n \in Node, NEW q \in Neigh[n], handle_state(n, q)
  PROVE  Cut'
<1>1. Takes(n, q, {"state"}) /\ UNCHANGED <<snapshots, marking>>
  BY DEF handle_state
<1>2. /\ q \in Node /\ Pending(q, n) /\ Head(chan[q][n]) \in Message
      /\ Head(chan[q][n]).type = "state" /\ UNCHANGED outbox
  BY <1>1, TakesType, NeighAssumption DEF Pending
<1>3. PICK v \in Node : Head(chan[q][n]) = State(v) /\ Head(chan[q][n]).uid = v
  BY <1>2, MessageKinds
<1>4. State(v) \in Message /\ State(v) \notin Markers /\ State(v).type = "state"
      /\ \A u \in Node : State(v) = State(u) <=> u = v
  BY <1>2, <1>3 DEF State, Markers
<1>5. PICK out \in Outgoing(Message) :
        /\ chan' = Exchanged(chan, q, n, out)
        /\ receivedSnapshots' = IF n = Leader THEN Append(receivedSnapshots, v) ELSE receivedSnapshots
        /\ \A r \in Node : Copies(out[r], Markers) = 0 /\ \A i \in DOMAIN out[r] : out[r][i].type = "state"
        /\ \A u \in Node : Load(out, {State(u)}) = IF n # Leader /\ u = v THEN 1 ELSE 0
  <2>1. CASE n = Leader
    <3>1. chan' = Taken(chan, q, n) /\ receivedSnapshots' = Append(receivedSnapshots, v)
      BY <1>3, <2>1 DEF handle_state, addCompleteSnapshot
    <3>2. chan' = Exchanged(chan, q, n, Nothing)
      BY <1>2, <3>1, TakenOnly DEF Pending
    <3>3. \A r \in Node : Copies(Nothing[r], Markers) = 0 /\ DOMAIN Nothing[r] = {}
      BY CopiesOut, EmptySeq DEF Nothing
    <3>4. \A u \in Node : Load(Nothing, {State(u)}) = 0
      BY NodeAssumption, LoadTo
    <3> QED
      BY <2>1, <3>1, <3>2, <3>3, <3>4, NothingType
  <2>2. CASE n # Leader
    <3>1. PICK R : R = {Parent[n]}
      OBVIOUS
    <3>2. /\ chan' = Exchanged(chan, q, n, To(R, State(v))) /\ UNCHANGED receivedSnapshots
          /\ R \in SUBSET Node /\ Cardinality(R) = 1
      <4>1. chan' = Exchanged(chan, q, n, To({Parent[n]}, Head(chan[q][n]))) /\ UNCHANGED receivedSnapshots
        BY <2>2 DEF handle_state
      <4>2. Parent[n] \in Node
        BY <2>2, ParentAssumption
      <4>3. Cardinality({Parent[n]}) = 1
        BY FS_Singleton
      <4> QED
        BY <1>3, <3>1, <4>1, <4>2, <4>3
    <3>3. ASSUME NEW u \in Node PROVE Load(To(R, State(v)), {State(u)}) = IF u = v THEN 1 ELSE 0
      <4>1. Load(To(R, State(v)), {State(u)}) = IF State(v) \in {State(u)} THEN Cardinality(R) ELSE 0
        BY <3>2, LoadTo, NodeAssumption
      <4> QED
        BY <1>4, <3>2, <4>1
    <3>4. ASSUME NEW r \in Node
          PROVE  /\ Copies(To(R, State(v))[r], Markers) = 0
                 /\ \A i \in DOMAIN To(R, State(v))[r] : To(R, State(v))[r][i].type = "state"
      <4>1. Copies(To(R, State(v))[r], Markers) = 0
        BY <1>4, CopiesOut
      <4>2. To(R, State(v))[r] = IF r \in R THEN <<State(v)>> ELSE <<>>
        BY DEF To
      <4> QED
        BY <1>4, <4>1, <4>2, EmptySeq
    <3>5. To(R, State(v)) \in Outgoing(Message)
      BY <1>4, ToType
    <3> QED
      BY <2>2, <3>2, <3>3, <3>4, <3>5
  <2> QED
    BY <2>1, <2>2
<1>t. TakenCounts(n, q, Head(chan[q][n]), out)
  BY <1>2, <1>5, CutTaken
<1>6. Round' = Round
  BY <1>1 DEF Round
<1>7. Recording'
  BY <1>1, <1>2, <1>6 DEF Cut, Recording
<1>8. Placing'
  <2>1. \A p, r \in Node : \A i \in DOMAIN chan'[p][r] : chan'[p][r][i].type = "marker" =>
          \E j \in DOMAIN chan[p][r] : chan'[p][r][i] = chan[p][r][j]
    BY <1>t, <1>2, <1>5 DEF TakenCounts
  <2> QED
    BY <1>6, <2>1 DEF Cut, Placing
<1>9. Marking'
  <2> SUFFICES ASSUME NEW p \in Node, NEW r \in Neigh[p]
               PROVE  InFlight(chan', p, r, Markers) + (IF Got(p, r)' THEN 1 ELSE 0) = IF Marked(p, r)' THEN 1 ELSE 0
    BY DEF Marking
  <2>1. r \in Node
    BY NeighAssumption
  <2>2. InFlight(chan', p, r, Markers) = InFlight(chan, p, r, Markers)
    <3>1. Head(chan[q][n]).type # "marker" /\ Copies(out[r], Markers) = 0
      BY <1>2, <1>5, <2>1
    <3>2. /\ InFlight(chan', p, r, Markers) + 0 = InFlight(chan, p, r, Markers) + 0
          /\ InFlight(chan', p, r, Markers) \in Nat /\ InFlight(chan, p, r, Markers) \in Nat
      BY <1>t, <2>1, <3>1 DEF TakenCounts
    <3> QED
      BY <3>2
  <2>3. (Got(p, r)' <=> Got(p, r)) /\ (Marked(p, r)' <=> Marked(p, r))
    BY <1>1, <1>6 DEF Got, Marked
  <2> QED
    BY <2>2, <2>3 DEF Cut, Marking
<1>10. Reporting'
  <2> SUFFICES ASSUME NEW u \in Node
               PROVE  Traffic(chan', {State(u)}) + Copies(receivedSnapshots', {u}) = IF Done(u)' THEN 1 ELSE 0
    BY DEF Reporting
  <2>1. /\ Traffic(chan', {State(u)}) + (IF u = v THEN 1 ELSE 0)
             = Traffic(chan, {State(u)}) + (IF n # Leader /\ u = v THEN 1 ELSE 0)
        /\ Traffic(chan', {State(u)}) \in Nat /\ Traffic(chan, {State(u)}) \in Nat
    BY <1>t, <1>2, <1>3, <1>4, <1>5 DEF TakenCounts
  <2>2. /\ Copies(receivedSnapshots', {u})
             = Copies(receivedSnapshots, {u}) + (IF n = Leader /\ u = v THEN 1 ELSE 0)
        /\ Copies(receivedSnapshots, {u}) \in Nat
    BY <1>5, AppendCounts
  <2>3. Done(u)' <=> Done(u)
    BY <1>1, <1>6 DEF Done
  <2>4. Traffic(chan, {State(u)}) + Copies(receivedSnapshots, {u}) = IF Done(u) THEN 1 ELSE 0
    BY DEF Cut, Reporting
  <2> QED
    BY <2>1, <2>2, <2>3, <2>4
<1> QED
  BY <1>7, <1>8, <1>9, <1>10 DEF Cut

\* At the start there is no round, and nothing is under way.
LEMMA CutInit == Init => Cut
<1> SUFFICES ASSUME Init PROVE Cut
  OBVIOUS
<1>1. TypeOK
  BY TypesInit
<1>2. /\ chan \in Channels(Message)
      /\ \A p, r \in Node : chan[p][r] = <<>> /\ chan[p][r] \in Seq(Message) /\ DOMAIN chan[p][r] = {}
  BY <1>1, EmptySeq DEF Init, EmptyNet, TypeOK, Channels, Outgoing
<1>3. /\ \A n \in Node : snapshots[n].id = 0 /\ snapshots[n].msgInActive = {} /\ marking[n] = {} /\ outbox[n] = {}
      /\ receivedSnapshots = <<>> /\ Round = 0
  BY NodeAssumption DEF Init, NoSnapshot, Round
<1>4. Recording /\ Placing
  BY <1>2, <1>3 DEF Recording, Placing
<1>5. Marking
  <2> SUFFICES ASSUME NEW p \in Node, NEW r \in Neigh[p]
               PROVE  InFlight(chan, p, r, Markers) + (IF Got(p, r) THEN 1 ELSE 0) = IF Marked(p, r) THEN 1 ELSE 0
    BY DEF Marking
  <2>1. r \in Node
    BY NeighAssumption
  <2>2. InFlight(chan, p, r, Markers) = 0
    BY <1>2, <2>1, CopiesFew DEF InFlight
  <2>3. Got(p, r) /\ Marked(p, r)
    BY <1>3, <2>1 DEF Got, Marked
  <2> QED
    BY <2>2, <2>3
<1>6. Reporting
  <2> SUFFICES ASSUME NEW u \in Node
               PROVE  Traffic(chan, {State(u)}) + Copies(receivedSnapshots, {u}) = IF Done(u) THEN 1 ELSE 0
    BY DEF Reporting
  <2>1. Copies(receivedSnapshots, {u}) = 0
    BY <1>3, CopiesFew
  <2>2. ~ Done(u)
    BY <1>3 DEF Done
  <2>3. Traffic(chan, {State(u)}) = 0
    <3> DEFINE f == [e \in Node \X Node |-> InFlight(chan, e[1], e[2], {State(u)})]
    <3>1. f \in [Node \X Node -> Nat] /\ IsFiniteSet(Node \X Node)
      BY <1>2, NodeAssumption, TrafficType
    <3>2. \A e \in Node \X Node : f[e] = 0
      BY <1>2, CopiesFew DEF InFlight
    <3>3. Total(f) = Traffic(chan, {State(u)})
      BY DEF Traffic
    <3> HIDE DEF f
    <3> QED
      BY <3>1, <3>2, <3>3, TotalZero
  <2> QED
    BY <2>1, <2>2, <2>3
<1> QED
  BY <1>4, <1>5, <1>6 DEF Cut

\* The rounds, step by step.
LEMMA CutNext == TypeOK /\ Cut /\ [Next]_vars => Cut'
<1> SUFFICES ASSUME TypeOK, Cut, [Next]_vars PROVE Cut'
  OBVIOUS
<1>1. ASSUME NEW n \in Node, Handler(n) PROVE Cut'
  <2>1. PICK q \in Neigh[n] : Handle(n, q) \/ SendMarker(n, q)
    BY <1>1 DEF Handler
  <2>2. q \in Node
    BY NeighAssumption
  <2> QED
    BY <2>1, <2>2, CutTransaction, CutLock, CutFirstMarker, CutLaterMarker, CutState, CutSendMarker
    DEF Handle, handle_marker
<1>2. CASE leaderLoop
  BY <1>2, CutNew, CutSendMarker, NodeAssumption DEF leaderLoop
<1>3. ASSUME NEW n \in Node, transactionLoop(n) PROVE Cut'
  BY <1>3, CutLoop
<1>4. CASE UNCHANGED vars
  <2>1. UNCHANGED <<chan, outbox, snapshots, marking, receivedSnapshots>>
    BY <1>4 DEF vars, loopVars, cut
  <2>2. \A p \in Node : \A x \in outbox'[p] : x[2].type \notin OfCut
    BY <2>1 DEF Cut, Recording
  <2> QED
    BY <2>1, <2>2, CutKept
<1> QED
  BY <1>1, <1>2, <1>3, <1>4 DEF Next

\* No node's report is counted twice, and when the coordinator has as many as there are
\* nodes, every node has closed its channels in this round and no marker or report is left
\* under way: whatever the graph, the tree and the script are, however many snapshots are
\* taken one after the other, and whoever has the lock (SnapshotOver).
THEOREM SnapshotsEnd == Spec => []SnapshotOver
<1>1. TypeOK /\ Cut => SnapshotOver
  <2> SUFFICES ASSUME TypeOK, Cut PROVE SnapshotOver
    OBVIOUS
  <2>1. IsInjective(receivedSnapshots)
    BY ListOnce
  <2>2. ASSUME Complete, NEW p \in Node, NEW q \in Node
        PROVE  /\ snapshots[p].id = snapshots[Leader].id /\ Closed(snapshots[p].msgInActive)
               /\ \A i \in DOMAIN chan[p][q] : chan[p][q][i].type \notin {"marker", "state"}
    <3>1. AllReceived
      BY <2>2 DEF Complete
    <3> QED
      BY <3>1, Settled DEF Round, Closed, OfCut
  <2> QED
    BY <2>1, <2>2 DEF SnapshotOver
<1>2. Init => TypeOK /\ Holding /\ Cut
  BY TypesInit, HoldingInit, CutInit
<1>3. TypeOK /\ Holding /\ Cut /\ [Next]_vars => (TypeOK /\ Holding /\ Cut)'
  BY TypesNext, CutNext
<1> QED
  BY <1>1, <1>2, <1>3, PTL DEF Spec
=============================================================================
