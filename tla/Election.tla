------------------------------ MODULE Election ------------------------------
(***************************************************************************)
(* The leader election of internal/node/leader.go, which both the          *)
(* CONSENSUS and the BANKING extension embed: an echo wave per candidate,  *)
(* waves with a larger UID evicting those with a smaller one, and the      *)
(* spanning tree (srcUID, childUIDs) the winning wave leaves behind.       *)
(*                                                                         *)
(* One action per handler; a handler holds the Leader mutex from the first *)
(* read to the last send, so it is one step.  Every node's fields are      *)
(* functions of its UID under the names they have in the source.           *)
(***************************************************************************)
EXTENDS Network, FiniteSets

CONSTANTS
  Neigh,        \* h.neighs.Nodes: the neighbours of each node
  Coins,        \* bound: the outcomes of the nodes' coins that are considered
  MaxCommands,  \* how many "coordinator" commands the client sends each node
  PromptStart,  \* TRUE: a command reaches a node before any explore does
  MaxLoss       \* how many sends may fail in a behaviour

ASSUME NodeAssumption == Node \subseteq Nat \ {0} /\ IsFiniteSet(Node)
ASSUME NeighAssumption ==
  /\ Neigh \in [Node -> SUBSET Node]
  /\ \A p, q \in Node : q \in Neigh[p] => p \in Neigh[q] /\ p # q
ASSUME InputAssumption ==
  /\ MaxCommands \in Nat /\ MaxLoss \in Nat /\ PromptStart \in BOOLEAN
  /\ Coins \subseteq [Node -> BOOLEAN]

VARIABLES
  wantLeader,        \* the coin each node flips when its extension is built
  chan,              \* election messages under way, see Network
  commands,          \* "coordinator" commands each node has yet to receive
  m,                 \* the wave a node takes part in, 0 for none
  leaderUID,         \* the elected leader as far as the node knows, 0 for none
  isLeader,
  childUIDs,         \* a slice: a node may appear in it more than once
  receivedParentMsg, \* "child" answers received in this wave
  receivedExplore,
  sentExplore,
  receivedEcho,
  srcUID,            \* the parent, 0 for none, the node itself at a wave's root
  started,           \* history: the nodes that have started a wave
  lost               \* history: the number of sends that have failed

nodeVars == <<m, leaderUID, isLeader, childUIDs, receivedParentMsg,
              receivedExplore, sentExplore, receivedEcho, srcUID>>
vars == <<wantLeader, chan, commands, nodeVars, started, lost>>

(***************************************************************************)
(* The payloads `explore;w`, `child;w;1`, `child;w;0`, `echo;w`, `leader;w`. *)
(***************************************************************************)
Kinds == {"explore", "adopt", "refuse", "echo", "leader"}
Message == [type : Kinds, uid : Node]

Explore(w) == [type |-> "explore", uid |-> w]
\* Mutant of Child: the third field of the payload is left out.
ChildUnmarked(w, yes) == [type |-> "child", uid |-> w]
Child(w, yes) == [type |-> IF yes THEN "adopt" ELSE "refuse", uid |-> w]
Echo(w) == [type |-> "echo", uid |-> w]
LeaderMsg(w) == [type |-> "leader", uid |-> w]

Init ==
  /\ wantLeader \in Coins
  /\ chan = EmptyNet
  /\ commands = [n \in Node |-> MaxCommands]
  /\ m = [n \in Node |-> 0]
  /\ leaderUID = [n \in Node |-> 0]
  /\ isLeader = [n \in Node |-> FALSE]
  /\ childUIDs = [n \in Node |-> <<>>]
  /\ receivedParentMsg = [n \in Node |-> 0]
  /\ receivedExplore = [n \in Node |-> 0]
  /\ sentExplore = [n \in Node |-> 0]
  /\ receivedEcho = [n \in Node |-> 0]
  /\ srcUID = [n \in Node |-> 0]
  /\ started = {}
  /\ lost = 0

-----------------------------------------------------------------------------
(***************************************************************************)
(* PropagateChilds: one copy of msg per entry of childUIDs.                *)
(***************************************************************************)
PropagateChilds(children, msg) ==
  [r \in Node |->
     [k \in 1 .. Cardinality({i \in DOMAIN children : children[i] = r}) |-> msg]]

\* Mutants of EchoDue: it does not wait for every answer; only leaves echo.
EchoDueEarly(n, sent, answered, children, echoes, explores) == Len(children) = echoes
EchoDueAtLeaves(n, sent, answered, children, echoes, explores) ==
  /\ sent = answered
  /\ Len(children) = 0 /\ explores = Cardinality(Neigh[n])

(***************************************************************************)
(* The condition of checkSendEcho: every explore is answered, and either   *)
(* every child has echoed or there is no child and every neighbour has     *)
(* been heard exploring.                                                   *)
(***************************************************************************)
EchoDue(n, sent, answered, children, echoes, explores) ==
  /\ sent = answered
  /\ \/ Len(children) = echoes
     \/ Len(children) = 0 /\ explores = Cardinality(Neigh[n])

(***************************************************************************)
(* checkSendEcho, the tail of three handlers: n has taken q's message, has *)
(* sent out, and its counters are the primed ones.  The root of the wave   *)
(* wins and tells its children; any other node echoes to its parent.       *)
(***************************************************************************)
CheckSendEcho(n, q, out) ==
  LET due == EchoDue(n, sentExplore'[n], receivedParentMsg'[n], childUIDs'[n],
                     receivedEcho'[n], receivedExplore'[n])
  IN \/ /\ ~due
        /\ chan' = Exchanged(chan, q, n, out)
        /\ UNCHANGED <<leaderUID, isLeader>>
     \/ /\ due /\ m'[n] = n
        /\ leaderUID' = [leaderUID EXCEPT ![n] = n]
        /\ isLeader' = [isLeader EXCEPT ![n] = TRUE]
        /\ chan' = Exchanged(chan, q, n,
                     Then(out, PropagateChilds(childUIDs'[n], LeaderMsg(n))))
     \/ /\ due /\ m'[n] # n
        /\ chan' = Exchanged(chan, q, n,
                     Then(out, To({srcUID'[n]} \cap Neigh[n], Echo(m'[n]))))
        /\ UNCHANGED <<leaderUID, isLeader>>

-----------------------------------------------------------------------------
(***************************************************************************)
(* The client's "coordinator" command.                                     *)
(***************************************************************************)
CommandFor(n) ==
  /\ commands[n] > 0
  /\ PromptStart => m[n] = 0
  /\ commands' = [commands EXCEPT ![n] = @ - 1]

\* Note what handle_coordinator leaves alone: receivedParentMsg, and a leader
\* the node may already know.
handle_coordinator(n) ==
  /\ CommandFor(n)
  /\ wantLeader[n]
  /\ m' = [m EXCEPT ![n] = n]
  /\ childUIDs' = [childUIDs EXCEPT ![n] = <<>>]
  /\ receivedEcho' = [receivedEcho EXCEPT ![n] = 0]
  /\ receivedExplore' = [receivedExplore EXCEPT ![n] = 0]
  /\ srcUID' = [srcUID EXCEPT ![n] = n]
  /\ sentExplore' = [sentExplore EXCEPT ![n] = Cardinality(Neigh[n])]
  /\ chan' = Sent(chan, n, To(Neigh[n], Explore(n)))
  /\ started' = started \cup {n}
  /\ UNCHANGED <<wantLeader, leaderUID, isLeader, receivedParentMsg, lost>>

IgnoreCoordinator(n) ==
  /\ CommandFor(n)
  /\ ~wantLeader[n]
  /\ UNCHANGED <<wantLeader, chan, nodeVars, started, lost>>

-----------------------------------------------------------------------------
(***************************************************************************)
(* n takes the first message under way from q.                             *)
(***************************************************************************)
Takes(n, q, kinds) ==
  /\ chan[q][n] # <<>>
  /\ Head(chan[q][n]).type \in kinds
  /\ UNCHANGED <<wantLeader, commands, started, lost>>

\* Mutant of Wave: the sender's UID instead of the one in the payload.
WaveOfSender(n, q) == q
Wave(n, q) == Head(chan[q][n]).uid

\* Mutant of Evicts: any other wave takes over.
EvictsAny(n, q) == Wave(n, q) # m[n]
Evicts(n, q) == Wave(n, q) > m[n]

Ignored(n, q) ==
  /\ chan' = Taken(chan, q, n)
  /\ UNCHANGED nodeVars

\* A larger wave: forget the present one, adopt q as parent, pass it on.
JoinWave(n, q) ==
  /\ Takes(n, q, {"explore"})
  /\ leaderUID[n] = 0
  /\ Evicts(n, q)
  /\ m' = [m EXCEPT ![n] = Wave(n, q)]
  /\ receivedParentMsg' = [receivedParentMsg EXCEPT ![n] = 0]
  /\ receivedExplore' = [receivedExplore EXCEPT ![n] = 1]
  /\ sentExplore' = [sentExplore EXCEPT ![n] = Cardinality(Neigh[n] \ {q})]
  /\ childUIDs' = [childUIDs EXCEPT ![n] = <<>>]
  /\ srcUID' = [srcUID EXCEPT ![n] = q]
  /\ UNCHANGED receivedEcho      \* the one counter that is not reset here
  /\ CheckSendEcho(n, q, Then(To({q}, Child(Wave(n, q), TRUE)),
                              To(Neigh[n] \ {q}, Explore(Wave(n, q)))))

\* The wave is known already: q is no parent of n.
RefuseWave(n, q) ==
  /\ Takes(n, q, {"explore"})
  /\ leaderUID[n] = 0
  /\ Wave(n, q) = m[n]
  /\ receivedExplore' = [receivedExplore EXCEPT ![n] = @ + 1]
  /\ UNCHANGED <<m, childUIDs, receivedParentMsg, sentExplore, receivedEcho, srcUID>>
  /\ CheckSendEcho(n, q, To({q}, Child(Wave(n, q), FALSE)))

EvictWave(n, q) ==
  /\ Takes(n, q, {"explore"})
  /\ leaderUID[n] # 0 \/ (~Evicts(n, q) /\ Wave(n, q) # m[n])
  /\ Ignored(n, q)

handle_explore(n, q) == JoinWave(n, q) \/ RefuseWave(n, q) \/ EvictWave(n, q)

CountChild(n, q) ==
  /\ Takes(n, q, {"adopt", "refuse"})
  /\ leaderUID[n] = 0
  /\ Wave(n, q) = m[n]
  /\ receivedParentMsg' = [receivedParentMsg EXCEPT ![n] = @ + 1]
  /\ childUIDs' = IF Head(chan[q][n]).type = "adopt"
                  THEN [childUIDs EXCEPT ![n] = Append(@, q)]
                  ELSE childUIDs
  /\ UNCHANGED <<m, receivedExplore, sentExplore, receivedEcho, srcUID>>
  /\ CheckSendEcho(n, q, Nothing)

CountEcho(n, q) ==
  /\ Takes(n, q, {"echo"})
  /\ leaderUID[n] = 0
  /\ Wave(n, q) = m[n]
  /\ receivedEcho' = [receivedEcho EXCEPT ![n] = @ + 1]
  /\ UNCHANGED <<m, childUIDs, receivedParentMsg, receivedExplore, sentExplore, srcUID>>
  /\ CheckSendEcho(n, q, Nothing)

\* A leader is known, or the wave is an evicted or a wrong one ("invalid state").
IgnoreAnswer(n, q) ==
  /\ Takes(n, q, {"adopt", "refuse", "echo"})
  /\ leaderUID[n] # 0 \/ Wave(n, q) # m[n]
  /\ Ignored(n, q)

\* Mutant of handle_leader: the result goes to all neighbours but the sender.
handle_leader_flooding(n, q) ==
  /\ Takes(n, q, {"leader"})
  /\ leaderUID' = [leaderUID EXCEPT ![n] = Wave(n, q)]
  /\ chan' = Exchanged(chan, q, n, To(Neigh[n] \ {q}, LeaderMsg(Wave(n, q))))
  /\ UNCHANGED <<m, isLeader, childUIDs, receivedParentMsg, receivedExplore,
                 sentExplore, receivedEcho, srcUID>>

handle_leader(n, q) ==
  /\ Takes(n, q, {"leader"})
  /\ leaderUID' = [leaderUID EXCEPT ![n] = Wave(n, q)]
  /\ chan' = Exchanged(chan, q, n,
               PropagateChilds(childUIDs[n], LeaderMsg(Wave(n, q))))
  /\ UNCHANGED <<m, isLeader, childUIDs, receivedParentMsg, receivedExplore,
                 sentExplore, receivedEcho, srcUID>>

TryHandleLeaderMessage(n, q) ==
  \/ handle_explore(n, q)
  \/ CountChild(n, q)
  \/ CountEcho(n, q)
  \/ IgnoreAnswer(n, q)
  \/ handle_leader(n, q)

(***************************************************************************)
(* com.Send returns an error (refused, 5 s dial timeout).  Every caller    *)
(* only logs it, so the message is simply gone; losing it at the head of   *)
(* the channel is the same as never having sent it.                        *)
(***************************************************************************)
SendFails(p, q) ==
  /\ lost < MaxLoss
  /\ chan[p][q] # <<>>
  /\ chan' = Taken(chan, p, q)
  /\ lost' = lost + 1
  /\ UNCHANGED <<wantLeader, commands, nodeVars, started>>

Next ==
  \/ \E n \in Node : handle_coordinator(n) \/ IgnoreCoordinator(n)
  \/ \E n, q \in Node : TryHandleLeaderMessage(n, q)
  \/ \E p, q \in Node : SendFails(p, q)

Spec == Init /\ [][Next]_vars

\* The handler loop of a node never stops, so while a message waits for it the node
\* handles some message.
Fairness == \A n \in Node : WF_vars(\E q \in Node : TryHandleLeaderMessage(n, q))
LiveSpec == Spec /\ Fairness

-----------------------------------------------------------------------------
(***************************************************************************)
(* Properties.                                                             *)
(***************************************************************************)
\* Every variable holds values of its Go type, and the UIDs are the nodes'.
TypeOK ==
  /\ wantLeader \in [Node -> BOOLEAN]
  /\ chan \in [Node -> [Node -> Seq(Message)]]
  /\ commands \in [Node -> 0 .. MaxCommands]
  /\ m \in [Node -> Node \cup {0}]
  /\ leaderUID \in [Node -> Node \cup {0}]
  /\ isLeader \in [Node -> BOOLEAN]
  /\ childUIDs \in [Node -> Seq(Node)]
  /\ receivedParentMsg \in [Node -> Nat]
  /\ receivedExplore \in [Node -> Nat]
  /\ sentExplore \in [Node -> Nat]
  /\ receivedEcho \in [Node -> Nat]
  /\ srcUID \in [Node -> Node \cup {0}]
  /\ started \in SUBSET Node
  /\ lost \in 0 .. MaxLoss

\* Whatever the interleaving, a UID an election message carries or a node holds
\* as its wave or its leader is that of a node whose coin said yes and which a
\* command has reached; a node calls itself leader only of its own wave.
Validity ==
  /\ \A n \in started : wantLeader[n]
  /\ \A p, q \in Node : \A i \in DOMAIN chan[p][q] : chan[p][q][i].uid \in started
  /\ \A n \in Node : m[n] \in started \cup {0} /\ leaderUID[n] \in started \cup {0}
  /\ \A n \in Node : isLeader[n] => n \in started

\* No message of a kind but the listed ones, between any two nodes.
Pending(q, n, kind) == InFlight(chan, q, n, {[type |-> kind, uid |-> w] : w \in Node})
PendingFor(n, kind) == Total([q \in Node |-> Pending(q, n, kind)])

SoleCandidate == Cardinality(started) <= 1

\* With one candidate and no loss every child reports once: the echoes a node has counted or
\* will receive are no more than the children it knows or will learn of, though
\* checkSendEcho is called again by every late explore, answer and echo.
EchoOncePerChild ==
  SoleCandidate /\ lost = 0 =>
    \A n \in Node :
      receivedEcho[n] + PendingFor(n, "echo") <= Len(childUIDs[n]) + PendingFor(n, "adopt")

\* The result visits every node once: no node is told twice who the leader is,
\* and the leader is not told.
ResultVisitsOnce ==
  \A n \in Node : PendingFor(n, "leader") + (IF leaderUID[n] # 0 THEN 1 ELSE 0) <= 1

\* The parent relation is a tree with root r that spans the nodes: every set of
\* nodes that contains the parents of its members contains r.  And childUIDs is
\* its inverse, without duplicates.
SpanningTree(r) ==
  /\ srcUID[r] = r
  /\ \A S \in SUBSET Node : S # {} /\ (\A n \in S : srcUID[n] \in S) => r \in S
  /\ \A p, n \in Node :
       Cardinality({i \in DOMAIN childUIDs[p] : childUIDs[p][i] = n})
         = IF srcUID[n] = p /\ n # p THEN 1 ELSE 0

\* When the sole candidate calls itself leader every node has joined its wave,
\* and the parents and children the nodes hold make a spanning tree, which the
\* extensions use for all further communication.
LeaderHasTree ==
  SoleCandidate => \A r \in Node : isLeader[r] => SpanningTree(r) /\ \A n \in Node : m[n] = r

\* A node never goes back to a smaller wave.
WaveGrows == [][\A n \in Node : m'[n] >= m[n]]_vars

\* What the rest of the program is promised, see LeaderElection: one leader, the largest
\* candidate, and no candidate after it; with two candidates, see LargestWins.
Abstract == INSTANCE LeaderElection WITH candidates <- started, known <- leaderUID
Elects == Abstract!Spec

\* If there is a sole candidate and nothing is lost, every node learns the leader.
SoleCandidateElected ==
  [](SoleCandidate /\ lost = 0) => (started # {} ~> \A n \in Node : leaderUID[n] # 0)

-----------------------------------------------------------------------------
(***************************************************************************)
(* What the repository says and the code does not do.                      *)
(***************************************************************************)
\* README.md:207: "The largest `node-id` should win": whoever calls itself leader is
\* the largest of the nodes that have started a wave so far.
LargestWins ==
  [][\A n \in Node : isLeader'[n] /\ ~isLeader[n] => \A c \in started : c <= n]_vars
=============================================================================
