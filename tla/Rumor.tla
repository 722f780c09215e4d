------------------------------- MODULE Rumor -------------------------------
(***************************************************************************)
(* The rumor experiment: internal/node/rumor.go, started by the DISTRIBUTE *)
(* command of internal/node/control_ext.go.                                *)
(*                                                                         *)
(* The channels are counts: net[p][q][y] is the number of copies of the    *)
(* payload y under way.  Copies of one payload are alike; those of two     *)
(* payloads are taken in any order, also where the network keeps it.       *)
(***************************************************************************)
EXTENDS Integers, FiniteSets

CONSTANTS
  Node,
  Neigh,          \* h.neighs.Nodes
  Rumors,         \* the contents of the rumors
  Thresholds,     \* the values of C in the payloads, any integers
  Commands,       \* the DISTRIBUTE commands a client may send: <<node, payload>>
  MaxDistribute,  \* bound: how often it sends each
  MaxLoss         \* bound: copies of a payload lost on each edge

\* What a message carries, `<C>;<CONTENT>`.
Payload == [rumor : Rumors, c : Thresholds]

ASSUME NodeAssumption == Node \subseteq Nat \ {0} /\ IsFiniteSet(Node)
ASSUME NeighAssumption ==
  /\ Neigh \in [Node -> SUBSET Node]
  /\ \A p, q \in Node : q \in Neigh[p] => p \in Neigh[q] /\ p # q
ASSUME ThresholdAssumption == Thresholds \subseteq Int
ASSUME BoundAssumption ==
  Commands \subseteq Node \X Payload /\ MaxDistribute \in Nat /\ MaxLoss \in Nat

VARIABLES
  net,
  counter,        \* how often a node has received a rumor, whatever the threshold
  trustedRumors,  \* the rumors a node trusts
  distributed,    \* history: DISTRIBUTE commands a node has carried out
  passedOn,       \* history: the copies a node has passed on, each with its sender
  heard,          \* history: the copies a node has received from each neighbour
  failed          \* history: the copies com.Send failed to deliver

vars == <<net, counter, trustedRumors, distributed, passedOn, heard, failed>>

PerEdge(S) == [Node -> [Node -> [Payload -> S]]]
NoCopies == [p \in Node |-> [q \in Node |-> [y \in Payload |-> 0]]]

Init ==
  /\ net = NoCopies /\ heard = NoCopies /\ failed = NoCopies
  /\ counter = [n \in Node |-> [r \in Rumors |-> 0]]
  /\ trustedRumors = [n \in Node |-> {}]
  /\ distributed = [n \in Node |-> [y \in Payload |-> 0]]
  /\ passedOn = [n \in Node |-> {}]

\* n sends one copy of y to every node of R.
SendTo(edges, n, R, y) ==
  [edges EXCEPT ![n] = [q \in Node |-> IF q \in R THEN [edges[n][q] EXCEPT ![y] = @ + 1]
                                                  ELSE edges[n][q]]]

-----------------------------------------------------------------------------
\* The command only sends; the node does not count the rumor it starts, nor look at
\* the threshold.
handleControl_distribute(n, y) ==
  /\ <<n, y>> \in Commands /\ distributed[n][y] < MaxDistribute
  /\ distributed' = [distributed EXCEPT ![n][y] = @ + 1]
  /\ net' = SendTo(net, n, Neigh[n], y)
  /\ UNCHANGED <<counter, trustedRumors, passedOn, heard, failed>>

\* Mutants of Targets: back to the sender too; only away from smaller UIDs.
TargetsAll(n, q) == Neigh[n]
TargetsUp(n, q) == {p \in Neigh[n] \ {q} : p > n}
\* "Propagate to all but the receiving edge".
Targets(n, q) == Neigh[n] \ {q}

\* Mutant of Trusts: the rumor has been heard before the threshold is looked at.
TrustsBeyond(n, y) == counter[n][y.rumor] = y.c
\* `s == c`: all copies of the content are counted, the threshold is that of this copy.
Trusts(n, y) == counter[n][y.rumor] + 1 = y.c

IsNew(n, r) == counter[n][r] = 0

\* n handles a copy of y that q sent: count its content, pass the copy on if that is new,
\* trust it when the count equals the copy's threshold.
Handle(n, q, y) ==
  /\ net[q][n][y] > 0
  /\ counter' = [counter EXCEPT ![n][y.rumor] = @ + 1]
  /\ heard' = [heard EXCEPT ![n][q][y] = @ + 1]
  /\ LET taken == [net EXCEPT ![q][n][y] = @ - 1]
     IN \/ /\ IsNew(n, y.rumor)
           /\ net' = SendTo(taken, n, Targets(n, q), y)
           /\ passedOn' = [passedOn EXCEPT ![n] = @ \cup {<<q, y>>}]
        \/ /\ ~IsNew(n, y.rumor)
           /\ net' = taken
           /\ UNCHANGED passedOn
  /\ trustedRumors' = IF Trusts(n, y)
                      THEN [trustedRumors EXCEPT ![n] = @ \cup {y.rumor}]
                      ELSE trustedRumors
  /\ UNCHANGED <<distributed, failed>>

\* com.Send returned an error, which is logged: the copy does not arrive.
SendFails(p, q, y) ==
  /\ net[p][q][y] > 0 /\ failed[p][q][y] < MaxLoss
  /\ net' = [net EXCEPT ![p][q][y] = @ - 1]
  /\ failed' = [failed EXCEPT ![p][q][y] = @ + 1]
  /\ UNCHANGED <<counter, trustedRumors, distributed, passedOn, heard>>

Next ==
  \/ \E n \in Node, y \in Payload : handleControl_distribute(n, y)
  \/ \E n, q \in Node, y \in Payload : Handle(n, q, y)
  \/ \E p, q \in Node, y \in Payload : SendFails(p, q, y)

Spec == Init /\ [][Next]_vars

\* The handler loop runs while it has a message; commands may never come.
Fairness == \A n \in Node : WF_vars(\E q \in Node, y \in Payload : Handle(n, q, y))
LiveSpec == Spec /\ Fairness

-----------------------------------------------------------------------------
TypeOK ==
  /\ net \in PerEdge(Nat)
  /\ counter \in [Node -> [Rumors -> Nat]]
  /\ trustedRumors \in [Node -> SUBSET Rumors]
  /\ distributed \in [Node -> [Payload -> Nat]]
  /\ passedOn \in [Node -> SUBSET (Node \X Payload)]
  /\ heard \in PerEdge(Nat)
  /\ failed \in PerEdge(Nat)

\* The payloads a client has started, and the thresholds it has started a rumor with.
Started == {y \in Payload : \E n \in Node : distributed[n][y] > 0}
Asked(r) == {y.c : y \in {x \in Started : x.rumor = r}}

\* Copies are counted by content and the test for equality uses the threshold of the copy
\* at hand.  So a trusted rumor has been received as often as one of its thresholds says;
\* and if it was only ever started with one threshold, a node trusts it exactly when it
\* has received it that often, and never if the threshold is not positive.  With two
\* thresholds the count may step over both.
Reached(n, r, c) == 1 <= c /\ c <= counter[n][r]
TrustedAtThreshold ==
  \A n \in Node, r \in Rumors :
    /\ r \in trustedRumors[n] => \E c \in Asked(r) : Reached(n, r, c)
    /\ \A c \in Thresholds :
         Asked(r) = {c} => (r \in trustedRumors[n] <=> Reached(n, r, c))

\* A node has passed this payload on to this neighbour, having had it from another.
Relayed(p, q, y) == IF \E m \in Node \ {q} : <<m, y>> \in passedOn[p] THEN 1 ELSE 0

\* Conservation, edge by edge: all that p ever sends its neighbour q of a payload is
\* one copy per command and, once, one copy when it first hears the content from
\* elsewhere.  So flooding ends, and without a command a node hears a rumor from each
\* neighbour at most once.
CopiesConserved ==
  \A p, q \in Node, y \in Payload :
    net[p][q][y] + heard[q][p][y] + failed[p][q][y]
      = IF q \in Neigh[p] THEN distributed[p][y] + Relayed(p, q, y) ELSE 0

\* If nothing is lost, a rumor that is started reaches every node with a path to an
\* origin (the graphs of the runs are connected), the origins excepted: neighbours
\* that first hear it from an origin do not return it.
NothingFails == failed = NoCopies
RumorSpreads ==
  []NothingFails =>
    \A n \in Node, r \in Rumors :
      Asked(r) # {} ~>
        counter[n][r] > 0 \/ \E y \in Payload : y.rumor = r /\ distributed[n][y] > 0
=============================================================================
