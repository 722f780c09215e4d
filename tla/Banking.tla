------------------------------ MODULE Banking ------------------------------
(***************************************************************************)
(* Transactions and snapshots of the BANKING extension, the two experiments *)
(* of internal/node/banking_ext.go that run on top of its lock.            *)
(*                                                                         *)
(* At every node the message handler and the transaction loop run side by  *)
(* side, and at the coordinator a third goroutine, leaderLoop, which takes *)
(* snapshots.  A handler is one step, but for one: whoever records its     *)
(* state on a marker sends markers one at a time, and the transaction loop *)
(* may send in between.  Both loops are interleaved send by send.          *)
(***************************************************************************)
EXTENDS Network, FiniteSets, FiniteSetsExt, Functions

CONSTANTS
  Neigh,       \* the neighbours of each node
  Leader,      \* the coordinator
  Parent,      \* srcUID of every other node
  Scripts,     \* bound: who gets the lock in turn, and with whom it deals
  MaxSnapshots \* bound: how many snapshots there are, for each script

ASSUME NodeAssumption == Node \subseteq Nat \ {0} /\ IsFiniteSet(Node) /\ Leader \in Node
ASSUME NeighAssumption ==
  /\ Neigh \in [Node -> SUBSET Node]
  /\ \A n \in Node : n \notin Neigh[n] /\ \A q \in Neigh[n] : n \in Neigh[q]
ASSUME ParentAssumption ==
  Parent \in [Node \ {Leader} -> Node] /\ \A n \in Node \ {Leader} : Parent[n] \in Neigh[n]
\* Whoever goes from a node to its parent, and on, comes by the coordinator.
ASSUME SpanningAssumption ==
  \A S \in SUBSET Node : S # {} /\ (\A n \in S \ {Leader} : Parent[n] \in S) => Leader \in S
ASSUME BoundAssumption ==
  /\ Scripts \subseteq Seq([by : Node, with : Node])
  /\ \A s \in Scripts : s # <<>> /\ \A t \in DOMAIN s : s[t].by # s[t].with
  /\ MaxSnapshots \in [Scripts -> Nat]

VARIABLES
  chan,
  known,                      \* the flooded messages a node has seen
  balance,                    \* the updates a node's balance has undergone
  lockRequestActive,
  lockAckCounter,
  transactAckReceived,
  transactBalanceReceived,
  loop,                       \* where the transaction loop is
  outbox,                     \* what it has still to send: <<destination, message>>
  trans,                      \* who gets the lock in turn, and what they choose
  begun,                      \* how many transactions have begun
  strayed,                    \* history: how a holder first took another's answer, if so
  snapshots,                  \* of each node, the one in progress or the last
  marking,                    \* the neighbours a marker is still to be sent to
  receivedSnapshots           \* whose snapshots the coordinator has received

money == <<balance, transactAckReceived, transactBalanceReceived>>
lock == <<lockRequestActive, lockAckCounter>>
loopVars == <<loop, outbox, trans, begun>>
cut == <<snapshots, marking, receivedSnapshots>>
vars == <<chan, known, money, lock, loopVars, strayed, cut>>

(***************************************************************************)
(* A flooded message is told apart by its type and the number t of its     *)
(* transaction, for which the code has a UUID each.  What is recorded of   *)
(* an answer is whether it has only come along the tree (history).         *)
(***************************************************************************)
Nobody == 0
GetBalance(t, target) == [type |-> "transactGetBalance", t |-> t, target |-> target]
Start(t, target) == [type |-> "transactStart", t |-> t, target |-> target]
Answer(type, t) == [type |-> type, t |-> t, tree |-> TRUE]
Release == [type |-> "lockRelease"]
Ack(uid) == [type |-> "lockAck", uid |-> uid]
Marker(id) == [type |-> "marker", id |-> id]
State(uid) == [type |-> "state", uid |-> uid]

Requests == {"transactGetBalance", "transactStart"}
Answers == {"transactBalance", "transactAck"}
Message ==
  [type : Requests, t : Nat, target : Node] \cup [type : Answers, t : Nat, tree : BOOLEAN]
  \cup {Release} \cup [type : {"marker"}, id : Nat] \cup [type : {"lockAck", "state"}, uid : Node]

Id(m) == <<m.type, m.t>>

Childs(n) == {c \in Node \ {Leader} : Parent[c] = n}
Tree(n) == Childs(n) \cup (IF n = Leader THEN {} ELSE {Parent[n]})

NoSnapshot == [id |-> 0, balance |-> <<>>, randP |-> 0, msgInActive |-> {}, affected |-> FALSE]

Init ==
  /\ chan = EmptyNet
  /\ known = [n \in Node |-> {}]
  /\ balance = [n \in Node |-> <<>>]
  /\ trans \in Scripts /\ begun = 0
  /\ lockRequestActive = [n \in Node |-> n = trans[1].by]
  /\ lockAckCounter = [n \in Node |-> 0]
  /\ transactAckReceived = [n \in Node |-> FALSE]
  /\ transactBalanceReceived = [n \in Node |-> FALSE]
  /\ loop = [n \in Node |-> "wait"]
  /\ outbox = [n \in Node |-> {}]
  /\ strayed = "no"
  /\ snapshots = [n \in Node |-> NoSnapshot]
  /\ marking = [n \in Node |-> {}]
  /\ receivedSnapshots = <<>>

-----------------------------------------------------------------------------
(***************************************************************************)
(* Handling in general: n takes the first message under way from q, unless *)
(* its handler is still sending markers.  Messages of the lock and of      *)
(* transactions are first stored in a snapshot that is recording q.        *)
(***************************************************************************)
Takes(n, q, types) ==
  /\ n = Leader \/ marking[n] = {}
  /\ chan[q][n] # <<>>
  /\ Head(chan[q][n]).type \in types
  /\ UNCHANGED loopVars

\* Mutant of Affecting: answers are forgotten.
AffectingStarts == {"transactStart"}
\* The messages of a snapshot that the coordinator takes to affect balances.
Affecting == {"transactStart", "transactBalance"}

Store(n, q) ==
  /\ snapshots' = IF q \in snapshots[n].msgInActive /\ Head(chan[q][n]).type \in Affecting
                  THEN [snapshots EXCEPT ![n].affected = TRUE] ELSE snapshots
  /\ UNCHANGED <<marking, receivedSnapshots>>

\* floodWithLamportClock: to every neighbour but the one it is from.
Flood(n, src, m) ==
  LET over(R, msg) == To((Neigh[n] \ {src}) \cap R, msg)
  IN IF m.type \in Requests THEN over(Node, m)
     ELSE Then(over(Tree(n), m), over(Node \ Tree(n), [m EXCEPT !.tree = FALSE]))

-----------------------------------------------------------------------------
(***************************************************************************)
(* Transactions.  Three things can happen to a flooded message: it is      *)
(* known already, it is passed on, or it is this node's to deal with.      *)
(***************************************************************************)
\* Mutant of Concerned: the target does not know itself.
ConcernedAnswers(n, m) == m.type \in Answers /\ lockRequestActive[n]
Concerned(n, m) == IF m.type \in Requests THEN m.target = n ELSE lockRequestActive[n]

Deduplicate(n, q) ==
  /\ Takes(n, q, Requests \cup Answers)
  /\ Id(Head(chan[q][n])) \in known[n]
  /\ Store(n, q)
  /\ chan' = Taken(chan, q, n)
  /\ UNCHANGED <<known, money, lock, strayed>>

PassOn(n, q) ==
  LET m == Head(chan[q][n])
  IN /\ Takes(n, q, Requests \cup Answers)
     /\ Id(m) \notin known[n] /\ ~Concerned(n, m)
     /\ Store(n, q)
     /\ known' = [known EXCEPT ![n] = @ \cup {Id(m)}]
     /\ chan' = Exchanged(chan, q, n, Flood(n, q, m))
     /\ UNCHANGED <<money, lock, strayed>>

\* n, who is concerned, takes m and floods its answer.
Answering(n, q, type, answer) ==
  LET m == Head(chan[q][n])
  IN /\ Takes(n, q, {type})
     /\ Id(m) \notin known[n] /\ Concerned(n, m)
     /\ Store(n, q)
     /\ known' = [known EXCEPT ![n] = @ \cup {Id(m), <<answer, m.t>>}]
     /\ chan' = Exchanged(chan, q, n, Flood(n, n, Answer(answer, m.t)))
     /\ UNCHANGED <<transactAckReceived, transactBalanceReceived, lock, strayed>>

Update(n, m) == balance' = [balance EXCEPT ![n] = Append(@, Id(m))]

handle_transactGetBalance(n, q) ==
  /\ Answering(n, q, "transactGetBalance", "transactBalance")
  /\ UNCHANGED balance

handle_transactStart(n, q) ==
  /\ Answering(n, q, "transactStart", "transactAck")
  /\ Update(n, Head(chan[q][n]))

\* An answer to the transaction that is going on, n being in it.
Own(n, m) == loop[n] \in {"asked", "started"} /\ m.t = begun

\* n, who has the lock, takes an answer.  Nothing of it says whom it is for.
Accepting(n, q, type) ==
  LET m == Head(chan[q][n])
  IN /\ Takes(n, q, {type})
     /\ Id(m) \notin known[n] /\ Concerned(n, m)
     /\ Store(n, q)
     /\ known' = [known EXCEPT ![n] = @ \cup {Id(m)}]
     /\ chan' = Taken(chan, q, n)
     /\ strayed' = IF strayed # "no" \/ Own(n, m) THEN strayed
                   ELSE IF m.tree THEN "tree" ELSE "shortcut"
     /\ UNCHANGED lock

handle_transactAck(n, q) ==
  /\ Accepting(n, q, "transactAck")
  /\ transactAckReceived' = [transactAckReceived EXCEPT ![n] = TRUE]
  /\ UNCHANGED <<balance, transactBalanceReceived>>

handle_transactBalance(n, q) ==
  /\ Accepting(n, q, "transactBalance")
  /\ Update(n, Head(chan[q][n]))
  /\ transactBalanceReceived' = [transactBalanceReceived EXCEPT ![n] = TRUE]
  /\ UNCHANGED transactAckReceived

-----------------------------------------------------------------------------
(***************************************************************************)
(* The lock, as far as what it sends overtakes, or is overtaken by, the    *)
(* messages of a transaction: a release and the acknowledgements it sets   *)
(* off travel over the tree.  Which request is next is taken for granted,  *)
(* and that only its node gets the lock (LamportMutex has both).           *)
(***************************************************************************)
\* The first in the queues of the lock, once the one before is released.
turn == IF begun < Len(trans) THEN trans[begun + 1].by ELSE Nobody

\* Whom n acknowledges the first request to: nobody if it is n's own, or there is none.
AckTo(n) == IF turn \in {n, Nobody} THEN {} ELSE Tree(n)

handle_lockRelease(n, q) ==
  /\ Takes(n, q, {"lockRelease"})
  /\ Store(n, q)
  /\ chan' = Exchanged(chan, q, n,
       Then(To(AckTo(n), Ack(turn)), To(Tree(n) \ {q}, Release)))
  /\ UNCHANGED <<known, money, lock, strayed>>

\* Mutants of Counted: the counter is not reset; one acknowledgement is enough.
CountedOn(n) == lockAckCounter[n] + 1
CountedOne(n) == 0
\* The counter after one more acknowledgement; 0 stands for all of them.
Counted(n) == (lockAckCounter[n] + 1) % (Cardinality(Node) - 1)

\* transactionLoop resets the counter with its next request.
handle_lockAck(n, q) ==
  LET m == Head(chan[q][n])
  IN /\ Takes(n, q, {"lockAck"})
     /\ Store(n, q)
     /\ \/ /\ m.uid = n
           /\ chan' = Taken(chan, q, n)
           /\ lockAckCounter' = [lockAckCounter EXCEPT ![n] = Counted(n)]
           /\ lockRequestActive' = [lockRequestActive EXCEPT ![n] = @ \/ Counted(n) = 0]
        \/ /\ m.uid # n
           /\ chan' = Exchanged(chan, q, n, To(Tree(n) \ {q}, m))
           /\ UNCHANGED lock
     /\ UNCHANGED <<known, money, strayed>>

-----------------------------------------------------------------------------
(***************************************************************************)
(* The critical section of transactionLoop.                                *)
(***************************************************************************)
SendAll(n, R, m) == outbox' = [outbox EXCEPT ![n] = {<<r, m>> : r \in R}]
Goes(n, l) == loop' = [loop EXCEPT ![n] = l]
At(n, l) == loop[n] = l /\ outbox[n] = {}

\* ENTERING CRITICAL SECTION; the request for the balance is sent before the start.
Enter(n) ==
  /\ At(n, "wait") /\ lockRequestActive[n] /\ begun < Len(trans)
  /\ transactAckReceived' = [transactAckReceived EXCEPT ![n] = FALSE]
  /\ transactBalanceReceived' = [transactBalanceReceived EXCEPT ![n] = FALSE]
  /\ begun' = begun + 1
  /\ LET m == GetBalance(begun + 1, trans[begun + 1].with)
     IN known' = [known EXCEPT ![n] = @ \cup {Id(m)}] /\ SendAll(n, Neigh[n], m)
  /\ Goes(n, "asked")
  /\ UNCHANGED <<chan, balance, lock, trans, strayed, cut>>

\* Mutant of FloodStart: the two floods are not waited for one after the other.
FloodStartAtOnce(n) ==
  /\ loop[n] = "asked"
  /\ LET m == Start(begun, trans[begun].with)
     IN /\ known' = [known EXCEPT ![n] = @ \cup {Id(m)}]
        /\ outbox' = [outbox EXCEPT ![n] = @ \cup {<<r, m>> : r \in Neigh[n]}]
  /\ Goes(n, "started")
  /\ UNCHANGED <<chan, money, lock, trans, begun, strayed, cut>>
FloodStart(n) ==
  /\ At(n, "asked")
  /\ LET m == Start(begun, trans[begun].with)
     IN known' = [known EXCEPT ![n] = @ \cup {Id(m)}] /\ SendAll(n, Neigh[n], m)
  /\ Goes(n, "started")
  /\ UNCHANGED <<chan, money, lock, trans, begun, strayed, cut>>

\* Mutant of MayExit: one of the two answers is enough.
MayExitEither(n) == transactAckReceived[n] \/ transactBalanceReceived[n]
MayExit(n) == transactAckReceived[n] /\ transactBalanceReceived[n]

\* EXIT CRITICAL SECTION.  A release nobody waits for sets nothing off and is left out.
Exit(n) ==
  /\ At(n, "started") /\ MayExit(n)
  /\ lockRequestActive' = [lockRequestActive EXCEPT ![n] = FALSE]
  /\ SendAll(n, IF turn = Nobody THEN {} ELSE Tree(n), Release)
  /\ Goes(n, "released")
  /\ UNCHANGED <<chan, known, money, lockAckCounter, trans, begun, strayed, cut>>

AckNext(n) ==
  /\ At(n, "released")
  /\ SendAll(n, AckTo(n), Ack(turn))
  /\ Goes(n, "wait")
  /\ UNCHANGED <<chan, known, money, lock, trans, begun, strayed, cut>>

LoopSend(n) ==
  /\ \E s \in outbox[n] :
       /\ chan' = Sent(chan, n, To({s[1]}, s[2]))
       /\ outbox' = [outbox EXCEPT ![n] = @ \ {s}]
  /\ UNCHANGED <<known, money, lock, loop, trans, begun, strayed, cut>>

transactionLoop(n) == Enter(n) \/ FloodStart(n) \/ Exit(n) \/ AckNext(n) \/ LoopSend(n)

-----------------------------------------------------------------------------
(***************************************************************************)
(* Snapshots.                                                              *)
(***************************************************************************)
\* The percentage of the last transaction of n, for which its number stands.
randP(n) == Max({0} \cup {t \in 1 .. begun : trans[t].by = n})

\* NewSnapshot, recording all channels but those from R.
Record(n, id, R) ==
  snapshots' = [snapshots EXCEPT ![n] =
    [id |-> id, balance |-> balance[n], randP |-> randP(n),
     msgInActive |-> Neigh[n] \ R, affected |-> FALSE]]

\* Mutant of Closed: one channel may still be open.
ClosedButOne(active) == Cardinality(active) <= 1
Closed(active) == active = {}

\* All channels of n are closed: a node reports to its parent, the coordinator to itself.
Report(n, active) == IF n # Leader /\ Closed(active) THEN To({Parent[n]}, State(n)) ELSE Nothing
addCompleteSnapshot(uid) == receivedSnapshots' = Append(receivedSnapshots, uid)
AllReceived == Len(receivedSnapshots) = Cardinality(Node)

\* leaderLoop: there is no snapshot yet, or the last one is complete and looked at.
NewSnapshot ==
  /\ snapshots[Leader].id < MaxSnapshots[trans] /\ marking[Leader] = {}
  /\ snapshots[Leader].id = 0 \/ AllReceived
  /\ Record(Leader, snapshots[Leader].id + 1, {})
  /\ marking' = [marking EXCEPT ![Leader] = Neigh[Leader]]
  /\ receivedSnapshots' = <<>>
  /\ UNCHANGED <<chan, known, money, lock, loopVars, strayed>>

\* A handler that has sent its last marker looks whether its channels are closed.
SendMarker(n, r) ==
  /\ r \in marking[n]
  /\ marking' = [marking EXCEPT ![n] = @ \ {r}]
  /\ chan' = Sent(chan, n,
       Then(To({r}, Marker(snapshots[n].id)),
            IF marking[n] = {r} THEN Report(n, snapshots[n].msgInActive) ELSE Nothing))
  /\ UNCHANGED <<known, money, lock, loopVars, strayed, snapshots, receivedSnapshots>>

FirstMarker(n, q) ==
  LET id == Head(chan[q][n]).id
  IN /\ Takes(n, q, {"marker"})
     /\ snapshots[n].id # id
     /\ Record(n, id, {q})
     /\ marking' = [marking EXCEPT ![n] = Neigh[n]]
     /\ chan' = Taken(chan, q, n)
     /\ UNCHANGED <<known, money, lock, strayed, receivedSnapshots>>

LaterMarker(n, q) ==
  LET active == snapshots[n].msgInActive \ {q}
  IN /\ Takes(n, q, {"marker"})
     /\ snapshots[n].id = Head(chan[q][n]).id
     /\ snapshots' = [snapshots EXCEPT ![n].msgInActive = active]
     /\ chan' = Exchanged(chan, q, n, Report(n, active))
     /\ IF n = Leader /\ Closed(active) THEN addCompleteSnapshot(n) ELSE UNCHANGED receivedSnapshots
     /\ UNCHANGED <<known, money, lock, strayed, marking>>

handle_marker(n, q) == FirstMarker(n, q) \/ LaterMarker(n, q)

handle_state(n, q) ==
  LET m == Head(chan[q][n])
  IN /\ Takes(n, q, {"state"})
     /\ \/ /\ n = Leader
           /\ addCompleteSnapshot(m.uid)
           /\ chan' = Taken(chan, q, n)
        \/ /\ n # Leader
           /\ chan' = Exchanged(chan, q, n, To({Parent[n]}, m))
           /\ UNCHANGED receivedSnapshots
     /\ UNCHANGED <<known, money, lock, strayed, snapshots, marking>>

-----------------------------------------------------------------------------
Handle(n, q) ==
  \/ Deduplicate(n, q) \/ PassOn(n, q)
  \/ handle_transactGetBalance(n, q) \/ handle_transactStart(n, q)
  \/ handle_transactAck(n, q) \/ handle_transactBalance(n, q)
  \/ handle_lockRelease(n, q) \/ handle_lockAck(n, q)
  \/ handle_marker(n, q) \/ handle_state(n, q)

\* The message handler of n, and the coordinator's goroutine.
Handler(n) == \E q \in Neigh[n] : Handle(n, q) \/ (n # Leader /\ SendMarker(n, q))
leaderLoop == NewSnapshot \/ \E r \in Node : SendMarker(Leader, r)

Next ==
  \/ \E n \in Node : Handler(n) \/ transactionLoop(n)
  \/ leaderLoop

Spec == Init /\ [][Next]_vars

-----------------------------------------------------------------------------
(***************************************************************************)
(* Properties.                                                             *)
(***************************************************************************)
\* Every variable holds values of its Go type, and no acknowledgements are left over
\* when the lock is granted.
BalanceUpdate == {"transactStart", "transactBalance"} \X Nat
Snapshot == [id : Nat, balance : Seq(BalanceUpdate), randP : Nat,
             msgInActive : SUBSET Node, affected : BOOLEAN]
TypeOK ==
  /\ chan \in [Node -> [Node -> Seq(Message)]]
  /\ known \in [Node -> SUBSET ((Requests \cup Answers) \X Nat)]
  /\ balance \in [Node -> Seq(BalanceUpdate)]
  /\ lockRequestActive \in [Node -> BOOLEAN]
  /\ lockAckCounter \in [Node -> 0 .. Cardinality(Node) - 2]
  /\ transactAckReceived \in [Node -> BOOLEAN]
  /\ transactBalanceReceived \in [Node -> BOOLEAN]
  /\ loop \in [Node -> {"wait", "asked", "started", "released"}]
  /\ outbox \in [Node -> SUBSET (Node \X Message)]
  /\ trans \in Scripts /\ begun \in 0 .. Len(trans)
  /\ strayed \in {"no", "tree", "shortcut"}
  /\ snapshots \in [Node -> Snapshot]
  /\ marking \in [Node -> SUBSET Node]
  /\ receivedSnapshots \in Seq(Node)

\* Along whatever paths the two floods of a transaction come, every node hears of the
\* request for the balance first: the target's answer is its balance before the update.
FloodOrder ==
  \A n \in Node : \A t \in 1 .. begun :
    <<"transactStart", t>> \in known[n] => <<"transactGetBalance", t>> \in known[n]

\* A transaction that is over has updated the balance of its two nodes, each once, and
\* nobody else's, however often its messages come by, unless an answer has strayed.
Times(u, n) == Cardinality({i \in DOMAIN balance[n] : balance[n][i] = u})
Over(t) == t < begun \/ loop[trans[t].by] \in {"released", "wait"}
UpdatedTogether ==
  strayed = "no" =>
    \A t \in 1 .. begun : Over(t) =>
      \A n \in Node :
        /\ Times(<<"transactStart", t>>, n) = IF n = trans[t].with THEN 1 ELSE 0
        /\ Times(<<"transactBalance", t>>, n) = IF n = trans[t].by THEN 1 ELSE 0

\* handle_transactBalance says "Mutex; no need to check neigh IDs".  One node at a time
\* has the lock, and what comes over the tree is indeed its own answer, because the
\* acknowledgements that give the lock on follow it; the first to take another's has it
\* from a flood outside the tree.
Exclusive == \A p, q \in Node : lockRequestActive[p] /\ lockRequestActive[q] => p = q
StraysByShortcut == Exclusive /\ strayed # "tree"

\* README.md:318, the coordinator adds up the balances of a snapshot without messages
\* "affecting the balance": if the target of a transaction has had its share, so has the
\* node that started it.  (Not the other way round: it may be answered before it starts.)
Complete == snapshots[Leader].id > 0 /\ AllReceived
Has(n, u) == \E i \in DOMAIN snapshots[n].balance : snapshots[n].balance[i] = u
TargetsCounted ==
  Complete /\ strayed = "no" /\ (\A n \in Node : ~snapshots[n].affected) =>
    \A t \in 1 .. begun :
      Has(trans[t].with, <<"transactStart", t>>) => Has(trans[t].by, <<"transactBalance", t>>)

\* The coordinator counts reports, not nodes.  No node reports twice, and once there are
\* enough of them all channels are closed and no marker or report is under way, so that
\* the next snapshot has the network to itself.
SnapshotOver ==
  /\ IsInjective(receivedSnapshots)
  /\ Complete =>
       \A p, q \in Node :
         /\ snapshots[p].id = snapshots[Leader].id /\ Closed(snapshots[p].msgInActive)
         /\ \A i \in DOMAIN chan[p][q] : chan[p][q][i].type \notin {"marker", "state"}

\* Everybody comes to a stop only when all transactions are over and every snapshot is
\* complete; as each step uses something up, that point is always reached.
EndsWhenDone ==
  ~ENABLED Next =>
    /\ begun = Len(trans) /\ Over(begun)
    /\ snapshots[Leader].id = MaxSnapshots[trans]
    /\ snapshots[Leader].id > 0 => AllReceived

-----------------------------------------------------------------------------
(***************************************************************************)
(* What the repository says and the code does not do.                      *)
(***************************************************************************)
\* README.md:305, "implemented using the Chandy Lamport algorithm": no effect without
\* its cause.  The recorded balance of a target has no update with a percentage that
\* the recorded state of the node that started it (randP) does not have yet.
CausesRecorded ==
  Complete => \A t \in 1 .. begun :
    Has(trans[t].with, <<"transactStart", t>>) => snapshots[trans[t].by].randP >= t
=============================================================================
