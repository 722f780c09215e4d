---------------------------- MODULE LamportMutex ----------------------------
(***************************************************************************)
(* Lamport's mutual exclusion as the BANKING extension has it: the clock   *)
(* and the queue of internal/node/lamport.go, the lock handlers and the    *)
(* locking half of transactionLoop in internal/node/banking_ext.go.        *)
(*                                                                         *)
(* Requests, acknowledgements and releases are not sent to every node but  *)
(* passed on along the spanning tree the election has left.  Two           *)
(* goroutines work on the state: the message handler, whose handlers are   *)
(* one step each, and the transaction loop, which the handler interrupts   *)
(* between any two of its steps and between any two of its sends.          *)
(***************************************************************************)
EXTENDS Network, FiniteSets

CONSTANTS
  Tree,          \* childUIDs followed by srcUID, without the node itself
  MaxRequests    \* bound: the lock requests of each node

ASSUME NodeAssumption == Node \subseteq Nat \ {0} /\ IsFiniteSet(Node)
ASSUME TreeAssumption ==
  /\ Tree \in [Node -> Seq(Node)]
  /\ \A n \in Node : \A i \in DOMAIN Tree[n] :
       /\ Tree[n][i] # n
       /\ \A j \in DOMAIN Tree[n] : Tree[n][i] = Tree[n][j] => i = j
       /\ \E k \in DOMAIN Tree[Tree[n][i]] : Tree[Tree[n][i]][k] = n
\* It is connected, and taking away an edge parts it: the tree the election has left.
ASSUME SpanningAssumption ==
  /\ \A S \in SUBSET Node : S # {} /\ (\A x \in S : \A i \in DOMAIN Tree[x] : Tree[x][i] \in S) => S = Node
  /\ \A n \in Node : \A k \in DOMAIN Tree[n] : \E S \in SUBSET Node :
       /\ n \notin S /\ Tree[n][k] \in S
       /\ \A x \in S : \A i \in DOMAIN Tree[x] : Tree[x][i] \in S \/ (x = Tree[n][k] /\ Tree[x][i] = n)
ASSUME BoundAssumption == MaxRequests \in [Node -> Nat]

VARIABLES
  chan,
  LC,                 \* the Lamport clock
  queue,              \* the requests a node knows of, sorted by timestamp
  lockRequestActive,
  lockAckCounter,
  loop,               \* where the transaction loop is
  reqLC,              \* the timestamp of the loop's request
  outbox,             \* what the loop has still to send: <<destination, message>>
  requests,           \* history: how many requests the loop has made
  ackedBy             \* history: who has acknowledged the loop's last request

clockVars == <<LC, queue, lockRequestActive, lockAckCounter>>
loopVars == <<loop, reqLC, outbox, requests>>
vars == <<chan, clockVars, loopVars, ackedBy>>

(***************************************************************************)
(* `lockRequest;ts;uid;lc`, `lockAck;ts;uid;lc` and `lockRelease;ts;uid;lc`: *)
(* ts is stamped anew on every hop.  by, the node a message is from, is not  *)
(* in the payload: only ackedBy depends on it.                             *)
(***************************************************************************)
Kinds == {"lockRequest", "lockAck", "lockRelease"}
Msg(kind, uid, lc, by) ==
  [type |-> kind, ts |-> 0, uid |-> uid, lc |-> lc, by |-> by]
Message == [type : Kinds, ts : Nat, uid : Node, lc : Nat, by : Node]
Entry == [lc : Nat, uid : Node]

Init ==
  /\ chan = EmptyNet
  /\ LC = [n \in Node |-> 0]
  /\ queue = [n \in Node |-> <<>>]
  /\ lockRequestActive = [n \in Node |-> FALSE]
  /\ lockAckCounter = [n \in Node |-> 0]
  /\ loop = [n \in Node |-> "sleep"]
  /\ reqLC = [n \in Node |-> 0]
  /\ outbox = [n \in Node |-> <<>>]
  /\ requests = [n \in Node |-> 0]
  /\ ackedBy = [n \in Node |-> {}]

-----------------------------------------------------------------------------
(***************************************************************************)
(* lamport.go.                                                             *)
(***************************************************************************)
\* Mutants of ReceiveEventTS: the clock is set back; it is not synchronised.
ReceiveEventTSBack(lc, ts) == ts + 1
ReceiveEventTSNot(lc, ts) == lc
\* A clock that shows the received time or a later one is left alone.
ReceiveEventTS(lc, ts) == IF ts > lc THEN ts + 1 ELSE lc

Known(q, lc) == \E i \in DOMAIN q : q[i].lc = lc

\* Mutant of Add: sort.Ints is left out.
AddUnsorted(q, lc, uid) == Append(q, [lc |-> lc, uid |-> uid])
\* Add keeps the queue sorted; an entry with the same timestamp is an error.
Earlier(q, lc) == Cardinality({i \in DOMAIN q : q[i].lc < lc})
Add(q, lc, uid) ==
  LET k == Earlier(q, lc)
  IN [i \in 1 .. Len(q) + 1 |-> IF i <= k THEN q[i]
                                 ELSE IF i = k + 1 THEN [lc |-> lc, uid |-> uid] ELSE q[i - 1]]

Pop(q) == IF q = <<>> THEN q ELSE Tail(q)

-----------------------------------------------------------------------------
(***************************************************************************)
(* distributeWithLamportClock: one tick and one copy for every neighbour   *)
(* in the tree but the one the message came from.                          *)
(***************************************************************************)
Others(n, src) == {i \in DOMAIN Tree[n] : Tree[n][i] # src}

\* How often the clock ticks until the copy for r is sent, and altogether.
TicksTo(n, src, r) ==
  Cardinality({i \in Others(n, src) : \E j \in Others(n, src) : i <= j /\ Tree[n][j] = r})
Ticks(n, src) == Cardinality(Others(n, src))

\* The copies n sends when its clock shows lc.
Distribute(n, src, lc, m) ==
  [r \in Node |-> IF TicksTo(n, src, r) = 0 THEN <<>>
                  ELSE <<[m EXCEPT !.ts = lc + TicksTo(n, src, r)]>>]

\* What the loop has to send for one call, the message being its own.
ToSend(n, m) == [i \in DOMAIN Tree[n] |-> <<Tree[n][i], m>>]

\* The acknowledgement n sends for the first request in q.
AckFor(n, q) == Msg("lockAck", Head(q).uid, Head(q).lc, n)

-----------------------------------------------------------------------------
(***************************************************************************)
(* The handlers: n takes the first message under way from q.               *)
(***************************************************************************)
Takes(n, q, kind) ==
  /\ chan[q][n] # <<>>
  /\ Head(chan[q][n]).type = kind
  /\ UNCHANGED loopVars

Clock(n, q) == ReceiveEventTS(LC[n], Head(chan[q][n]).ts)

\* First an acknowledgement to the whole tree, if wanted, then the message itself.
AckAndForward(n, q, wanted, ack) ==
  LET m == Head(chan[q][n])
      lc == Clock(n, q)
      lc2 == IF wanted THEN lc + Ticks(n, n) ELSE lc
  IN /\ chan' = Exchanged(chan, q, n,
          Then(IF wanted THEN Distribute(n, n, lc, ack) ELSE Nothing,
               Distribute(n, q, lc2, m)))
     /\ LC' = [LC EXCEPT ![n] = lc2 + Ticks(n, q)]

\* Mutant of IsFirst: every request is acknowledged at once.
IsFirstAlways(newQueue, lc) == TRUE
IsFirst(newQueue, lc) == Head(newQueue).lc = lc

handle_lockRequest(n, q) ==
  LET m == Head(chan[q][n])
      newQueue == Add(queue[n], m.lc, m.uid)
  IN /\ Takes(n, q, "lockRequest")
     /\ \/ /\ ~Known(queue[n], m.lc)
           /\ queue' = [queue EXCEPT ![n] = newQueue]
           /\ AckAndForward(n, q, IsFirst(newQueue, m.lc), Msg("lockAck", m.uid, m.lc, n))
        \/ /\ Known(queue[n], m.lc)      \* an error: neither stored nor passed on
           /\ LC' = [LC EXCEPT ![n] = Clock(n, q)]
           /\ chan' = Taken(chan, q, n)
           /\ UNCHANGED queue
     /\ UNCHANGED <<lockRequestActive, lockAckCounter, ackedBy>>

\* The popped entry is an error only if neither its timestamp nor its node is the
\* released one's; it is gone either way.
Accepts(q, m) == q # <<>> /\ (Head(q).lc = m.lc \/ Head(q).uid = m.uid)

handle_lockRelease(n, q) ==
  LET m == Head(chan[q][n])
      newQueue == Pop(queue[n])
  IN /\ Takes(n, q, "lockRelease")
     /\ queue' = [queue EXCEPT ![n] = newQueue]
     /\ \/ /\ Accepts(queue[n], m)
           /\ AckAndForward(n, q, newQueue # <<>>, AckFor(n, newQueue))
        \/ /\ ~Accepts(queue[n], m)
           /\ LC' = [LC EXCEPT ![n] = Clock(n, q)]
           /\ chan' = Taken(chan, q, n)
     /\ UNCHANGED <<lockRequestActive, lockAckCounter, ackedBy>>

\* Mutant of Needed: the node waits for itself too.
NeededAndSelf == Cardinality(Node)
\* len(h.neighs.AllNodes) - 1
Needed == Cardinality(Node) - 1

handle_lockAck(n, q) ==
  LET m == Head(chan[q][n])
      counted == lockAckCounter[n] + (IF m.ts > m.lc THEN 1 ELSE 0)
  IN /\ Takes(n, q, "lockAck")
     /\ \/ /\ m.uid = n
           /\ lockAckCounter' = [lockAckCounter EXCEPT ![n] = counted]
           /\ lockRequestActive' =
                [lockRequestActive EXCEPT ![n] = @ \/ counted = Needed]
           /\ ackedBy' = IF m.lc = reqLC[n] THEN [ackedBy EXCEPT ![n] = @ \cup {m.by}]
                                            ELSE ackedBy
           /\ LC' = [LC EXCEPT ![n] = Clock(n, q)]
           /\ chan' = Taken(chan, q, n)
        \/ /\ m.uid # n
           /\ LC' = [LC EXCEPT ![n] = Clock(n, q) + Ticks(n, q)]
           /\ chan' = Exchanged(chan, q, n, Distribute(n, q, Clock(n, q), m))
           /\ UNCHANGED <<lockAckCounter, lockRequestActive, ackedBy>>
     /\ UNCHANGED queue

Handle(n, q) ==
  \/ handle_lockRequest(n, q)
  \/ handle_lockRelease(n, q)
  \/ handle_lockAck(n, q)

-----------------------------------------------------------------------------
(***************************************************************************)
(* The transaction loop.                                                   *)
(***************************************************************************)
RequestTick(n) ==
  /\ loop[n] = "sleep" /\ outbox[n] = <<>> /\ requests[n] < MaxRequests[n]
  /\ LC' = [LC EXCEPT ![n] = @ + 1]
  /\ reqLC' = [reqLC EXCEPT ![n] = LC[n] + 1]
  /\ requests' = [requests EXCEPT ![n] = @ + 1]
  /\ loop' = [loop EXCEPT ![n] = "ticked"]
  /\ ackedBy' = [ackedBy EXCEPT ![n] = {}]
  /\ UNCHANGED <<chan, queue, lockRequestActive, lockAckCounter, outbox>>

\* The error of Add is not looked at: the request is sent either way.
RequestAdd(n) ==
  /\ loop[n] = "ticked"
  /\ lockAckCounter' = [lockAckCounter EXCEPT ![n] = 0]
  /\ queue' = IF Known(queue[n], reqLC[n]) THEN queue
              ELSE [queue EXCEPT ![n] = Add(@, reqLC[n], n)]
  /\ outbox' = [outbox EXCEPT ![n] = ToSend(n, Msg("lockRequest", n, reqLC[n], n))]
  /\ loop' = [loop EXCEPT ![n] = "wait"]
  /\ UNCHANGED <<chan, LC, lockRequestActive, reqLC, requests, ackedBy>>

\* One tick and one send of a distributeWithLamportClock.
LoopSend(n) ==
  /\ outbox[n] # <<>>
  /\ LET to == Head(outbox[n])[1]
         m == [Head(outbox[n])[2] EXCEPT !.ts = LC[n] + 1]
     IN chan' = Sent(chan, n, To({to}, m))
  /\ LC' = [LC EXCEPT ![n] = @ + 1]
  /\ outbox' = [outbox EXCEPT ![n] = Tail(@)]
  /\ UNCHANGED <<queue, lockRequestActive, lockAckCounter, loop, reqLC, requests, ackedBy>>

Enter(n) ==
  /\ loop[n] = "wait" /\ outbox[n] = <<>> /\ lockRequestActive[n]
  /\ loop' = [loop EXCEPT ![n] = "critical"]
  /\ UNCHANGED <<chan, clockVars, reqLC, outbox, requests, ackedBy>>

\* The transaction is over: release.
Release(n) ==
  /\ loop[n] = "critical"
  /\ queue' = [queue EXCEPT ![n] = Pop(@)]
  /\ lockRequestActive' = [lockRequestActive EXCEPT ![n] = FALSE]
  /\ outbox' = [outbox EXCEPT ![n] = ToSend(n, Msg("lockRelease", n, reqLC[n], n))]
  /\ loop' = [loop EXCEPT ![n] = "release"]
  /\ UNCHANGED <<chan, LC, lockAckCounter, reqLC, requests, ackedBy>>

\* The release is sent: acknowledge the next request, if there is one.
AckNext(n) ==
  /\ loop[n] = "release" /\ outbox[n] = <<>>
  /\ outbox' = [outbox EXCEPT ![n] = IF queue[n] = <<>> THEN <<>> ELSE ToSend(n, AckFor(n, queue[n]))]
  /\ loop' = [loop EXCEPT ![n] = "sleep"]
  /\ UNCHANGED <<chan, clockVars, reqLC, requests, ackedBy>>

Advance(n) == RequestAdd(n) \/ LoopSend(n) \/ Enter(n) \/ Release(n) \/ AckNext(n)

Next ==
  \/ \E n, q \in Node : Handle(n, q)
  \/ \E n \in Node : RequestTick(n) \/ Advance(n)

Spec == Init /\ [][Next]_vars

\* A goroutine that can go on does so, and a transaction ends.  The scheduler runs every
\* one of them; as long as requests are bounded it is enough that it runs some.
Fairness == WF_vars(\E n \in Node : Advance(n) \/ \E q \in Node : Handle(n, q))
LiveSpec == Spec /\ Fairness

-----------------------------------------------------------------------------
(***************************************************************************)
(* Properties.                                                             *)
(***************************************************************************)
\* Every variable holds values of its Go type, and the queue stands for tsNodeMap
\* as well: sorted, one entry per timestamp.
TypeOK ==
  /\ chan \in [Node -> [Node -> Seq(Message)]]
  /\ LC \in [Node -> Nat]
  /\ queue \in [Node -> Seq(Entry)]
  /\ \A n \in Node : \A i, j \in DOMAIN queue[n] : i < j => queue[n][i].lc < queue[n][j].lc
  /\ lockRequestActive \in [Node -> BOOLEAN]
  /\ lockAckCounter \in [Node -> Nat]
  /\ loop \in [Node -> {"sleep", "ticked", "wait", "critical", "release"}]
  /\ reqLC \in [Node -> Nat]
  /\ outbox \in [Node -> Seq(Node \X Message)]
  /\ \A n \in Node : requests[n] \in 0 .. MaxRequests[n]

\* handle_lockAck counts an acknowledgement only if its timestamp is later than the
\* request's, and says nothing of one that is not; every acknowledgement that
\* reaches its requester, over however many hops, is later.
AcksLater ==
  \A q, n \in Node : \A i \in DOMAIN chan[q][n] :
    LET ack == chan[q][n][i]
    IN ack.type = "lockAck" /\ ack.uid = n => ack.ts > ack.lc

\* A Lamport clock never goes back, however stale the message that is received.
ClocksAdvance == [][\A n \in Node : LC'[n] >= LC[n]]_vars

\* README.md:278: a node enters the critical section "when it received an
\* acknowledgement from all other nodes".  The code counts; it does not look who
\* acknowledged.
Acknowledged(n) == ackedBy[n] = Node \ {n}

Counted == \A n \in Node : loop[n] = "critical" => Acknowledged(n)

\* Handlers run between the Tick and the Add of a request and between the Pop of a release
\* and its sends.  A node must not acknowledge a later request than its own meanwhile, nor
\* queue one with the timestamp of its own.
Between(n) == loop[n] = "ticked" \/ (loop[n] = "release" /\ outbox[n] # <<>>)
AcksLaterOne(n) ==
  \E r \in Node : \E i \in DOMAIN chan[n][r] :
    LET m == chan[n][r][i] IN m.type = "lockAck" /\ m.by = n /\ m.lc > reqLC[n]
Patient ==
  \A n \in Node :
    /\ Between(n) => ~AcksLaterOne(n)
    /\ loop[n] = "ticked" => ~Known(queue[n], reqLC[n])

Alone == \A p, q \in Node : loop[p] = "critical" /\ loop[q] = "critical" => p = q
AcknowledgedAlone == [](Counted /\ Patient) => []Alone

\* README.md:322-331: if no message is lost, no node crashes, channels are FIFO and
\* no two nodes ask with the same timestamp, whoever asks for the lock gets it;
\* here, as long as nobody is let in who has not been acknowledged by all.
NoTies == \A p, q \in Node : p # q /\ requests[p] > 0 /\ requests[q] > 0 => reqLC[p] # reqLC[q]
Granted ==
  [](NoTies /\ Counted /\ Patient) =>
    \A n \in {m \in Node : MaxRequests[m] > 0} : loop[n] = "ticked" ~> loop[n] = "critical"

-----------------------------------------------------------------------------
(***************************************************************************)
(* What the repository says of the lock and the code does not do.          *)
(***************************************************************************)
\* README.md:270, "a distributed lock", with the timestamps unique (323-328): no two
\* nodes are between ENTERING and EXIT CRITICAL SECTION at once.
MutualExclusion ==
  []NoTies => [](\A p, q \in Node : loop[p] = "critical" /\ loop[q] = "critical" => p = q)

\* README.md:329, "a deadlock cannot happen": never do all nodes wait for the lock
\* with nothing under way that could give it to one of them.
NoDeadlock ==
  ~ /\ \A n \in Node : loop[n] = "wait" /\ ~lockRequestActive[n] /\ outbox[n] = <<>>
    /\ chan = EmptyNet
=============================================================================
