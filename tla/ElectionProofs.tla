--------------------------- MODULE ElectionProofs ---------------------------
(***************************************************************************)
(* The election on every communication graph, with any coins, commands and *)
(* lost messages.                                                          *)
(*                                                                         *)
(* One inductive invariant gives type correctness and Validity: the types  *)
(* of TypeOK with `started` in place of Node wherever the value is the UID *)
(* of a wave.                                                              *)
(***************************************************************************)
EXTENDS Election, NetworkProofs, FiniteSetTheorems, TLAPS

\* Messages about the waves of S.
About(S) == [type : Kinds, uid : S]

StartedWant == started \in SUBSET Node /\ \A n \in started : wantLeader[n]
Waves ==
  /\ chan \in Channels(About(started))
  /\ m \in [Node -> started \cup {0}]
  /\ leaderUID \in [Node -> started \cup {0}]
  /\ \A n \in Node : isLeader[n] => n \in started
Counters ==
  /\ receivedParentMsg \in [Node -> Nat] /\ receivedExplore \in [Node -> Nat]
  /\ sentExplore \in [Node -> Nat] /\ receivedEcho \in [Node -> Nat]
  /\ childUIDs \in [Node -> Seq(Node)]
  /\ srcUID \in [Node -> Node \cup {0}]
  /\ isLeader \in [Node -> BOOLEAN]
Bounds ==
  /\ wantLeader \in [Node -> BOOLEAN]
  /\ commands \in [Node -> 0 .. MaxCommands]
  /\ lost \in 0 .. MaxLoss

Inv == StartedWant /\ Waves /\ Counters /\ Bounds

-----------------------------------------------------------------------------
(***************************************************************************)
(* Channels.                                                               *)
(***************************************************************************)
\* A sequence whose elements are in a larger set too.
LEMMA SeqMonotone == ASSUME NEW S, NEW T, S \subseteq T, NEW s \in Seq(S) PROVE s \in Seq(T)
OBVIOUS

\* Channels about fewer waves.
LEMMA ChannelsMonotone ==
  ASSUME NEW S, NEW T, S \subseteq T, NEW net \in Channels(About(S))
  PROVE  net \in Channels(About(T))
<1>1. About(S) \subseteq About(T)
  BY DEF About
<1>2. \A p, q \in Node : net[p][q] \in Seq(About(T))
  BY <1>1, SeqMonotone DEF Channels, Outgoing
<1> QED
  BY <1>2 DEF Channels, Outgoing

\* A handler that sends to its children.
LEMMA PropagateType ==
  ASSUME NEW S, NEW children \in Seq(Node), NEW msg \in About(S)
  PROVE  PropagateChilds(children, msg) \in Outgoing(About(S))
<1> SUFFICES ASSUME NEW r \in Node
             PROVE  [k \in 1 .. Cardinality({i \in DOMAIN children : children[i] = r}) |-> msg]
                      \in Seq(About(S))
  BY DEF PropagateChilds, Outgoing
<1> DEFINE Entries == {i \in DOMAIN children : children[i] = r}
<1>1. IsFiniteSet(1 .. Len(children))
  BY FS_Interval
<1>2. Entries \subseteq 1 .. Len(children)
  OBVIOUS
<1>3. Cardinality(Entries) \in Nat
  BY <1>1, <1>2, FS_Subset, FS_CardinalityType
<1> HIDE DEF Entries
<1>4. [k \in 1 .. Cardinality(Entries) |-> msg] \in Seq(About(S))
  BY <1>3
<1> QED
  BY <1>4 DEF Entries

\* The number of a node's neighbours, with or without one of them.
LEMMA NeighCount ==
  ASSUME NEW n \in Node, NEW R
  PROVE  Cardinality(Neigh[n]) \in Nat /\ Cardinality(Neigh[n] \ R) \in Nat
BY NodeAssumption, NeighAssumption, FS_Subset, FS_CardinalityType

-----------------------------------------------------------------------------
(***************************************************************************)
(* The invariant.                                                          *)
(***************************************************************************)
\* No wave has started and nothing is under way.
LEMMA InvInit == Init => Inv
<1> SUFFICES ASSUME Init PROVE Inv
  OBVIOUS
<1>1. <<>> \in Seq(Node) /\ <<>> \in Seq(About(started))
  BY EmptySeq
<1>2. chan \in Channels(About(started))
  BY <1>1 DEF Init, EmptyNet, Channels, Outgoing
<1>3. StartedWant
  BY DEF Init, StartedWant
<1>4. Waves
  BY <1>2 DEF Init, Waves
<1>5. Counters
  BY <1>1 DEF Init, Counters
<1>6. Bounds
  BY InputAssumption DEF Init, Bounds
<1> QED
  BY <1>3, <1>4, <1>5, <1>6 DEF Inv

\* A message under way names a started wave.
LEMMA WaveStarted ==
  ASSUME Inv, NEW n \in Node, NEW q \in Node, chan[q][n] # <<>>
  PROVE  Wave(n, q) \in started /\ Wave(n, q) \in Nat \ {0}
<1>1. Head(chan[q][n]) \in About(started)
  BY HeadType DEF Inv, Waves
<1> QED
  BY <1>1, NodeAssumption DEF Wave, About, Inv, StartedWant

\* checkSendEcho, at the end of a handler that leaves n in a started wave, keeps the
\* part of the invariant about waves.
LEMMA CheckSendEchoWaves ==
  ASSUME Inv, NEW n \in Node, NEW q \in Node, chan[q][n] # <<>>,
         NEW out \in Outgoing(About(started)), CheckSendEcho(n, q, out), Counters',
         m' \in [Node -> started \cup {0}], m'[n] \in started, started' = started
  PROVE  Waves'
<1> DEFINE due == EchoDue(n, sentExplore'[n], receivedParentMsg'[n], childUIDs'[n],
                          receivedEcho'[n], receivedExplore'[n])
<1>1. \/ /\ chan' = Exchanged(chan, q, n, out)
         /\ UNCHANGED <<leaderUID, isLeader>>
      \/ /\ m'[n] = n
         /\ leaderUID' = [leaderUID EXCEPT ![n] = n]
         /\ isLeader' = [isLeader EXCEPT ![n] = TRUE]
         /\ chan' = Exchanged(chan, q, n,
                      Then(out, PropagateChilds(childUIDs'[n], LeaderMsg(n))))
      \/ /\ chan' = Exchanged(chan, q, n,
                      Then(out, To({srcUID'[n]} \cap Neigh[n], Echo(m'[n]))))
         /\ UNCHANGED <<leaderUID, isLeader>>
  BY DEF CheckSendEcho
<1>2. chan \in Channels(About(started))
  BY DEF Inv, Waves
<1>3. CASE chan' = Exchanged(chan, q, n, out) /\ UNCHANGED <<leaderUID, isLeader>>
  BY <1>2, <1>3, ExchangedType DEF Waves, Inv
<1>4. CASE /\ m'[n] = n
           /\ leaderUID' = [leaderUID EXCEPT ![n] = n]
           /\ isLeader' = [isLeader EXCEPT ![n] = TRUE]
           /\ chan' = Exchanged(chan, q, n,
                        Then(out, PropagateChilds(childUIDs'[n], LeaderMsg(n))))
  <2>1. LeaderMsg(n) \in About(started) /\ childUIDs'[n] \in Seq(Node)
    BY <1>4 DEF LeaderMsg, About, Kinds, Counters
  <2>2. chan' \in Channels(About(started))
    BY <1>2, <1>4, <2>1, PropagateType, ThenType, ExchangedType
  <2>3. n \in started
    <3>1. m' \in [Node -> started \cup {0}] /\ m'[n] \in started
      OBVIOUS
    <3> QED
      BY <1>4, <3>1
  <2>4. leaderUID' \in [Node -> started \cup {0}]
    BY <1>4, <2>3 DEF Inv, Waves
  <2>5. \A p \in Node : isLeader'[p] => p \in started
    <3>1. isLeader \in [Node -> BOOLEAN] /\ \A p \in Node : isLeader[p] => p \in started
      BY DEF Inv, Waves, Counters
    <3> QED
      BY <1>4, <2>3, <3>1
  <2> QED
    BY <2>2, <2>4, <2>5 DEF Waves
<1>5. CASE /\ chan' = Exchanged(chan, q, n,
                        Then(out, To({srcUID'[n]} \cap Neigh[n], Echo(m'[n]))))
           /\ UNCHANGED <<leaderUID, isLeader>>
  <2>1. Echo(m'[n]) \in About(started)
    BY DEF Echo, About, Kinds
  <2>2. chan' \in Channels(About(started))
    BY <1>2, <1>5, <2>1, ToType, ThenType, ExchangedType
  <2> QED
    BY <1>5, <2>2 DEF Waves, Inv
<1> QED
  BY <1>1, <1>3, <1>4, <1>5

\* One step per action; only handle_coordinator adds a wave.
LEMMA InvNext == Inv /\ [Next]_vars => Inv'
<1> SUFFICES ASSUME Inv, [Next]_vars
             PROVE  Inv'
  OBVIOUS
<1>c. chan \in Channels(About(started))
  BY DEF Inv, Waves
\* What the handlers of messages leave to their callers.
<1>h. ASSUME NEW n \in Node, NEW q \in Node, NEW kinds, Takes(n, q, kinds)
      PROVE  /\ chan[q][n] # <<>> /\ Wave(n, q) \in started /\ started' = started
             /\ StartedWant' /\ Bounds'
  BY <1>h, WaveStarted DEF Takes, Inv, StartedWant, Bounds
<1>i. ASSUME NEW n \in Node, NEW q \in Node, NEW kinds, Takes(n, q, kinds), Ignored(n, q)
      PROVE  Inv'
  BY <1>c, <1>h, <1>i, TakenAt DEF Ignored, nodeVars, Inv, Waves, Counters
<1>b. ASSUME NEW n \in Node, CommandFor(n)
      PROVE  commands' \in [Node -> 0 .. MaxCommands]
  <2>1. /\ commands \in [Node -> 0 .. MaxCommands] /\ commands[n] > 0
        /\ commands' = [commands EXCEPT ![n] = commands[n] - 1]
    BY <1>b DEF CommandFor, Inv, Bounds
  <2>2. commands[n] - 1 \in 0 .. MaxCommands
    BY <2>1, InputAssumption
  <2> QED
    BY <2>1, <2>2
<1>1. ASSUME NEW n \in Node, handle_coordinator(n)
      PROVE  Inv'
  <2>1. started' = started \cup {n} /\ started \subseteq started'
    BY <1>1 DEF handle_coordinator
  <2>2. StartedWant' /\ Bounds'
    BY <1>1, <1>b DEF handle_coordinator, Inv, StartedWant, Bounds
  <2>3. Counters'
    <3>1. /\ sentExplore' = [sentExplore EXCEPT ![n] = Cardinality(Neigh[n])]
          /\ childUIDs' = [childUIDs EXCEPT ![n] = <<>>]
      BY <1>1 DEF handle_coordinator
    <3>2. sentExplore' \in [Node -> Nat] /\ childUIDs' \in [Node -> Seq(Node)]
      BY <3>1, EmptySeq, NeighCount DEF Inv, Counters
    <3>3. /\ receivedEcho' \in [Node -> Nat] /\ receivedExplore' \in [Node -> Nat]
          /\ srcUID' \in [Node -> Node \cup {0}]
      BY <1>1 DEF handle_coordinator, Inv, Counters
    <3> QED
      BY <1>1, <3>2, <3>3 DEF handle_coordinator, Inv, Counters
  <2>4. chan' \in Channels(About(started'))
    <3>1. Explore(n) \in About(started') /\ chan \in Channels(About(started'))
      BY <1>c, <2>1, ChannelsMonotone DEF Explore, About, Kinds
    <3>2. To(Neigh[n], Explore(n)) \in Outgoing(About(started'))
      BY <3>1, ToType
    <3> QED
      BY <1>1, <3>1, <3>2, SentAt DEF handle_coordinator
  <2>5. Waves'
    BY <1>1, <2>1, <2>4 DEF handle_coordinator, Inv, Waves
  <2> QED
    BY <2>2, <2>3, <2>5 DEF Inv
<1>2. ASSUME NEW n \in Node, IgnoreCoordinator(n)
      PROVE  Inv'
  <2>1. Bounds'
    BY <1>2, <1>b DEF IgnoreCoordinator, Inv, Bounds
  <2>2. StartedWant' /\ Waves' /\ Counters'
    BY <1>2 DEF IgnoreCoordinator, nodeVars, Inv, StartedWant, Waves, Counters
  <2> QED
    BY <2>1, <2>2 DEF Inv
<1>3. ASSUME NEW n \in Node, NEW q \in Node, JoinWave(n, q)
      PROVE  Inv'
  <2>1. /\ chan[q][n] # <<>> /\ Wave(n, q) \in started /\ started' = started
        /\ StartedWant' /\ Bounds'
    BY <1>3, <1>h DEF JoinWave
  <2>2. Counters'
    <3>1. isLeader' \in [Node -> BOOLEAN]
      BY <1>3 DEF JoinWave, CheckSendEcho, Inv, Counters
    <3> QED
      BY <1>3, <3>1, EmptySeq, NeighCount DEF JoinWave, Inv, Counters
  <2>3. m' \in [Node -> started \cup {0}] /\ m'[n] \in started
    BY <1>3, <2>1 DEF JoinWave, Inv, Waves
  <2>4. Child(Wave(n, q), TRUE) \in About(started) /\ Explore(Wave(n, q)) \in About(started)
    BY <2>1 DEF Child, Explore, About, Kinds
  <2>5. Then(To({q}, Child(Wave(n, q), TRUE)), To(Neigh[n] \ {q}, Explore(Wave(n, q))))
          \in Outgoing(About(started))
    BY <2>4, ToType, ThenType
  <2>6. Waves'
    BY <1>3, <2>1, <2>2, <2>3, <2>5, CheckSendEchoWaves DEF JoinWave
  <2> QED
    BY <2>1, <2>2, <2>6 DEF Inv
<1>4. ASSUME NEW n \in Node, NEW q \in Node, RefuseWave(n, q)
      PROVE  Inv'
  <2>1. /\ chan[q][n] # <<>> /\ Wave(n, q) \in started /\ started' = started
        /\ StartedWant' /\ Bounds'
    BY <1>4, <1>h DEF RefuseWave
  <2>2. Counters'
    <3>1. isLeader' \in [Node -> BOOLEAN]
      BY <1>4 DEF RefuseWave, CheckSendEcho, Inv, Counters
    <3>2. receivedExplore' \in [Node -> Nat]
      BY <1>4 DEF RefuseWave, Inv, Counters
    <3>3. UNCHANGED <<receivedParentMsg, sentExplore, childUIDs, srcUID, receivedEcho>>
      BY <1>4 DEF RefuseWave
    <3> QED
      BY <3>1, <3>2, <3>3 DEF Inv, Counters
  <2>3. m' \in [Node -> started \cup {0}] /\ m'[n] \in started
    BY <1>4, <2>1 DEF RefuseWave, Inv, Waves
  <2>4. Child(Wave(n, q), FALSE) \in About(started)
    BY <2>1 DEF Child, About, Kinds
  <2>5. To({q}, Child(Wave(n, q), FALSE)) \in Outgoing(About(started))
    BY <2>4, ToType
  <2>6. Waves'
    BY <1>4, <2>1, <2>2, <2>3, <2>5, CheckSendEchoWaves DEF RefuseWave
  <2> QED
    BY <2>1, <2>2, <2>6 DEF Inv
<1>5. ASSUME NEW n \in Node, NEW q \in Node, EvictWave(n, q) \/ IgnoreAnswer(n, q)
      PROVE  Inv'
  BY <1>5, <1>i DEF EvictWave, IgnoreAnswer
<1>6. ASSUME NEW n \in Node, NEW q \in Node, CountChild(n, q)
      PROVE  Inv'
  <2>1. /\ chan[q][n] # <<>> /\ Wave(n, q) \in started /\ started' = started
        /\ StartedWant' /\ Bounds'
    BY <1>6, <1>h DEF CountChild
  <2>2. Counters'
    <3>1. isLeader' \in [Node -> BOOLEAN]
      BY <1>6 DEF CountChild, CheckSendEcho, Inv, Counters
    <3>2. childUIDs' \in [Node -> Seq(Node)] /\ receivedParentMsg' \in [Node -> Nat]
      <4>1. /\ receivedParentMsg' = [receivedParentMsg EXCEPT ![n] = @ + 1]
            /\ childUIDs' = [childUIDs EXCEPT ![n] = Append(@, q)] \/ childUIDs' = childUIDs
        BY <1>6 DEF CountChild
      <4>2. childUIDs \in [Node -> Seq(Node)] /\ receivedParentMsg \in [Node -> Nat]
        BY DEF Inv, Counters
      <4>3. [childUIDs EXCEPT ![n] = Append(childUIDs[n], q)] \in [Node -> Seq(Node)]
        <5>1. childUIDs[n] \in Seq(Node)
          BY <4>2
        <5>2. Append(childUIDs[n], q) \in Seq(Node)
          BY <5>1
        <5> QED
          BY <4>2, <5>2
      <4>4. receivedParentMsg' \in [Node -> Nat]
        BY <4>1, <4>2
      <4> QED
        BY <4>1, <4>2, <4>3, <4>4
    <3>3. UNCHANGED <<receivedExplore, sentExplore, receivedEcho, srcUID>>
      BY <1>6 DEF CountChild
    <3> QED
      BY <3>1, <3>2, <3>3 DEF Inv, Counters
  <2>3. m' \in [Node -> started \cup {0}] /\ m'[n] \in started
    BY <1>6, <2>1 DEF CountChild, Inv, Waves
  <2>4. Waves'
    BY <1>6, <2>1, <2>2, <2>3, NothingType, CheckSendEchoWaves DEF CountChild
  <2> QED
    BY <2>1, <2>2, <2>4 DEF Inv
<1>7. ASSUME NEW n \in Node, NEW q \in Node, CountEcho(n, q)
      PROVE  Inv'
  <2>1. /\ chan[q][n] # <<>> /\ Wave(n, q) \in started /\ started' = started
        /\ StartedWant' /\ Bounds'
    BY <1>7, <1>h DEF CountEcho
  <2>2. Counters'
    <3>1. isLeader' \in [Node -> BOOLEAN]
      BY <1>7 DEF CountEcho, CheckSendEcho, Inv, Counters
    <3>2. receivedEcho' \in [Node -> Nat]
      BY <1>7 DEF CountEcho, Inv, Counters
    <3>3. UNCHANGED <<receivedParentMsg, sentExplore, childUIDs, srcUID, receivedExplore>>
      BY <1>7 DEF CountEcho
    <3> QED
      BY <3>1, <3>2, <3>3 DEF Inv, Counters
  <2>3. m' \in [Node -> started \cup {0}] /\ m'[n] \in started
    BY <1>7, <2>1 DEF CountEcho, Inv, Waves
  <2>4. Waves'
    BY <1>7, <2>1, <2>2, <2>3, NothingType, CheckSendEchoWaves DEF CountEcho
  <2> QED
    BY <2>1, <2>2, <2>4 DEF Inv
<1>8. ASSUME NEW n \in Node, NEW q \in Node, handle_leader(n, q)
      PROVE  Inv'
  <2>1. /\ chan[q][n] # <<>> /\ Wave(n, q) \in started /\ started' = started
        /\ StartedWant' /\ Bounds'
    BY <1>8, <1>h DEF handle_leader
  <2>2. Counters'
    BY <1>8 DEF handle_leader, Inv, Counters
  <2>3. LeaderMsg(Wave(n, q)) \in About(started) /\ childUIDs[n] \in Seq(Node)
    BY <2>1 DEF LeaderMsg, About, Kinds, Inv, Counters
  <2>4. chan' \in Channels(About(started))
    BY <1>c, <1>8, <2>1, <2>3, PropagateType, ExchangedType DEF handle_leader
  <2>5. Waves'
    BY <1>8, <2>1, <2>4 DEF handle_leader, Inv, Waves
  <2> QED
    BY <2>1, <2>2, <2>5 DEF Inv
<1>9. ASSUME NEW p \in Node, NEW q \in Node, SendFails(p, q)
      PROVE  Inv'
  <2>1. chan' \in Channels(About(started))
    BY <1>c, <1>9, TakenAt DEF SendFails
  <2>2. lost' \in 0 .. MaxLoss
    BY <1>9, InputAssumption DEF SendFails, Inv, Bounds
  <2> QED
    BY <1>9, <2>1, <2>2 DEF SendFails, nodeVars, Inv, StartedWant, Waves, Counters, Bounds
<1>10. CASE UNCHANGED vars
  BY <1>10 DEF vars, nodeVars, Inv, StartedWant, Waves, Counters, Bounds
<1> QED
  BY <1>1, <1>2, <1>3, <1>4, <1>5, <1>6, <1>7, <1>8, <1>9, <1>10
     DEF Next, TryHandleLeaderMessage, handle_explore

\* In every reachable state the waves, leaders and messages in the network are those
\* of nodes that handle_coordinator has made start a wave.
THEOREM Invariance == Spec => []Inv
BY InvInit, InvNext, PTL DEF Spec

\* Every field keeps its Go type and every UID in it is a node's, through overtaken
\* waves, repeated commands and lost messages.
THEOREM TypeCorrect == Spec => []TypeOK
<1>1. Inv => TypeOK
  <2> SUFFICES ASSUME Inv PROVE TypeOK
    OBVIOUS
  <2>1. chan \in Channels(About(Node))
    BY ChannelsMonotone DEF Inv, StartedWant, Waves
  <2>2. chan \in [Node -> [Node -> Seq(Message)]]
    BY <2>1 DEF Channels, Outgoing, About, Message
  <2> QED
    BY <2>2 DEF Inv, StartedWant, Waves, Counters, Bounds, TypeOK
<1> QED
  BY <1>1, Invariance, PTL

\* On any graph, whichever messages are lost or overtaken, nobody joins the wave of
\* or accepts as leader a node that did not want to lead and start a wave.
THEOREM OnlyCandidatesLead == Spec => []Validity
<1>1. Inv => Validity
  <2> SUFFICES ASSUME Inv PROVE Validity
    OBVIOUS
  <2>1. ASSUME NEW p \in Node, NEW q \in Node, NEW i \in DOMAIN chan[p][q]
        PROVE  chan[p][q][i].uid \in started
    <3>1. chan[p][q] \in Seq(About(started))
      BY DEF Inv, Waves, Channels, Outgoing
    <3>2. chan[p][q][i] \in About(started)
      BY <3>1
    <3> QED
      BY <3>2 DEF About
  <2> QED
    BY <2>1 DEF Inv, StartedWant, Waves, Validity
<1> QED
  BY <1>1, Invariance, PTL

\* When commands arrive before explores no node ever leaves a wave for a smaller one.
THEOREM WavesGrow == ASSUME PromptStart PROVE Spec => WaveGrows
<1>1. Inv /\ [Next]_vars => [\A n \in Node : m'[n] >= m[n]]_vars
  <2> SUFFICES ASSUME Inv, Next, NEW k \in Node
               PROVE  m'[k] >= m[k]
    BY DEF Inv
  <2>1. m \in [Node -> Nat] /\ k \in Nat
    <3>1. started \cup {0} \subseteq Nat
      BY NodeAssumption DEF Inv, StartedWant
    <3>2. m \in [Node -> started \cup {0}]
      BY DEF Inv, Waves
    <3> QED
      BY <3>1, <3>2, NodeAssumption
  <2>2. ASSUME UNCHANGED m PROVE m'[k] >= m[k]
    BY <2>1, <2>2
  <2>3. ASSUME NEW n \in Node, handle_coordinator(n)
        PROVE  m'[k] >= m[k]
    <3>1. m[n] = 0 /\ m' = [m EXCEPT ![n] = n] /\ n \in Nat
      BY <2>3, NodeAssumption DEF handle_coordinator, CommandFor
    <3> QED
      BY <2>1, <3>1
  <2>4. ASSUME NEW n \in Node, NEW q \in Node, JoinWave(n, q)
        PROVE  m'[k] >= m[k]
    <3>1. Wave(n, q) \in Nat /\ Wave(n, q) > m[n] /\ m' = [m EXCEPT ![n] = Wave(n, q)]
      BY <2>4, WaveStarted DEF JoinWave, Takes, Evicts
    <3> QED
      BY <2>1, <3>1
  <2>5. ASSUME NEW n \in Node, NEW q \in Node, TryHandleLeaderMessage(n, q)
        PROVE  UNCHANGED m \/ JoinWave(n, q)
    BY <2>5
       DEF TryHandleLeaderMessage, handle_explore, RefuseWave, EvictWave, Ignored, CountChild,
           CountEcho, IgnoreAnswer, handle_leader, nodeVars
  <2>6. ASSUME NEW n \in Node, NEW q \in Node, IgnoreCoordinator(n) \/ SendFails(n, q)
        PROVE  UNCHANGED m
    BY <2>6 DEF IgnoreCoordinator, SendFails, nodeVars
  <2> QED
    BY <2>2, <2>3, <2>4, <2>5, <2>6 DEF Next
<1> QED
  BY <1>1, Invariance, PTL DEF Spec, WaveGrows

-----------------------------------------------------------------------------
(***************************************************************************)
(* A sole candidate.  Its wave makes a tree of the nodes: each joins on    *)
(* the first explore it gets, and is due to echo when its neighbours have  *)
(* answered and its children have echoed.  Every kind of message goes from *)
(* one node to another at most once, so what is under way is a set of      *)
(* kinds.                                                                  *)
(***************************************************************************)
Types(s) == {s[i].type : i \in DOMAIN s}
OnWay(p, r) == Types(chan[p][r])

Joined(n) == m[n] # 0
Asked(n) == Neigh[n] \ {srcUID[n]}
Kids(n) == {c \in Node : srcUID[c] = n /\ c # n}
Listed(n) == {childUIDs[n][i] : i \in DOMAIN childUIDs[n]}
Due(n) ==
  Joined(n) /\ EchoDue(n, sentExplore[n], receivedParentMsg[n], childUIDs[n],
                       receivedEcho[n], receivedExplore[n])

\* The neighbours n asked whose answer it has counted, or will never count, and the
\* children whose echo it has.
Silent(q, n) == "explore" \notin OnWay(q, n) /\ "adopt" \notin OnWay(q, n) /\ "refuse" \notin OnWay(q, n)
Heard(n) ==
  {q \in Asked(n) : /\ Joined(q) /\ "explore" \notin OnWay(n, q) /\ Silent(q, n)
                    /\ srcUID[q] = n => q \in Listed(n)}
Reported(n) == {c \in Kids(n) : Due(c) /\ "echo" \notin OnWay(c, n)}

\* A node that has not joined has done nothing, and is only asked to join.
Idle ==
  \A n \in Node : ~Joined(n) =>
    /\ n \notin started /\ srcUID[n] = 0 /\ leaderUID[n] = 0
    /\ receivedParentMsg[n] = 0 /\ receivedEcho[n] = 0 /\ childUIDs[n] = <<>>
    /\ \A r \in Node, k \in Kinds : k \notin OnWay(n, r) /\ (k \in OnWay(r, n) => k = "explore")

\* The parents make a tree: every set of nodes that has the parents of its members has a root.
Fathered ==
  \A n \in Node : Joined(n) =>
    /\ srcUID[n] = n <=> m[n] = n
    /\ srcUID[n] \in Neigh[n] \cup {n} /\ Joined(srcUID[n])
    /\ sentExplore[n] = Cardinality(Asked(n))
Rooted ==
  \A S \in SUBSET Node :
    S # {} /\ (\A n \in S : Joined(n) /\ srcUID[n] \in S) => \E r \in S : m[r] = r

\* A kind goes once from one node to another, and what a node sends on joining is first.
Orderly(s) ==
  /\ \A i, j \in DOMAIN s : s[i].type = s[j].type => i = j
  /\ \A i \in DOMAIN s : s[i].type \in {"explore", "adopt"} => i = 1
Ordered == \A p, r \in Node : Orderly(chan[p][r])

\* Who may send what to whom.
Exploring(p, r) ==
  /\ p \in Neigh[r] /\ Joined(p) /\ srcUID[p] # r /\ srcUID[r] # p
  /\ "refuse" \notin OnWay(r, p)
Adopting(p, r) == srcUID[p] = r /\ p # r /\ p \notin Listed(r)
Refusing(p, r) == p \in Neigh[r] /\ Joined(p) /\ Joined(r) /\ srcUID[p] # r /\ srcUID[r] # p
Echoing(p, r) == srcUID[p] = r /\ p # r /\ Due(p)
Telling(p, r) == srcUID[r] = p /\ p # r /\ leaderUID[p] # 0 /\ leaderUID[r] = 0
Placed ==
  \A p, r \in Node :
    /\ "explore" \in OnWay(p, r) => Exploring(p, r)
    /\ "adopt" \in OnWay(p, r) => Adopting(p, r)
    /\ "refuse" \in OnWay(p, r) => Refusing(p, r)
    /\ "echo" \in OnWay(p, r) => Echoing(p, r)
    /\ "leader" \in OnWay(p, r) => Telling(p, r)

\* A child is listed once.
Listing ==
  \A n \in Node : \A i, j \in DOMAIN childUIDs[n] :
    childUIDs[n][i] \in Kids(n) /\ (childUIDs[n][i] = childUIDs[n][j] => i = j)

\* The counters are not ahead of the neighbours.
NotAhead ==
  \A n \in Node : /\ receivedParentMsg[n] <= Cardinality(Heard(n))
                  /\ receivedEcho[n] <= Cardinality(Reported(n))

\* Who knows a leader is done, and so is its parent.
Told ==
  \A n \in Node : /\ leaderUID[n] # 0 => Due(n) /\ leaderUID[srcUID[n]] # 0
                  /\ isLeader[n] => leaderUID[n] # 0 /\ m[n] = n

\* No child is forgotten.
Whole ==
  lost = 0 => \A n \in Node : \A c \in Kids(n) : c \in Listed(n) \/ "adopt" \in OnWay(c, n)

Growing ==
  /\ Idle /\ Fathered /\ Rooted
  /\ Ordered /\ Placed /\ Listing
  /\ NotAhead /\ Told /\ Whole

-----------------------------------------------------------------------------
\* Sequences of messages of different kinds.
LEMMA TypesOf ==
  ASSUME NEW S, NEW s \in Seq(About(S)), NEW t \in Seq(About(S))
  PROVE  /\ \A k : k \in Types(s \o t) <=> k \in Types(s) \/ k \in Types(t)
         /\ \A k : k \notin Types(<<>>)
         /\ Types(s) \subseteq Kinds
         /\ (\A k \in Kinds : k \notin Types(s)) => s = <<>>
<1>1. ASSUME NEW i \in DOMAIN s PROVE s[i].type \in Types(s) /\ s[i].type \in Kinds
  <2>1. s[i] \in About(S)
    BY Elements
  <2> QED
    BY <2>1 DEF Types, About
<1>2. s # <<>> => 1 \in DOMAIN s
  BY Elements
<1>3. ASSUME NEW k, k \in Types(s \o t) PROVE k \in Types(s) \/ k \in Types(t)
  <2>1. PICK i \in DOMAIN (s \o t) : k = (s \o t)[i].type
    BY <1>3 DEF Types
  <2> QED
    BY <2>1, Concat DEF Types
<1>4. ASSUME NEW k, k \in Types(s) PROVE k \in Types(s \o t)
  <2>1. PICK i \in DOMAIN s : k = s[i].type
    BY <1>4 DEF Types
  <2>2. i \in DOMAIN (s \o t) /\ (s \o t)[i] = s[i]
    BY Concat
  <2> QED
    BY <2>1, <2>2 DEF Types
<1>5. ASSUME NEW k, k \in Types(t) PROVE k \in Types(s \o t)
  <2>1. PICK i \in DOMAIN t : k = t[i].type
    BY <1>5 DEF Types
  <2>2. Len(s) + i \in DOMAIN (s \o t) /\ (s \o t)[Len(s) + i] = t[i]
    BY Elements, <2>1
  <2> QED
    BY <2>1, <2>2 DEF Types
<1>6. \A k : k \notin Types(<<>>)
  BY EmptySeq DEF Types
<1>7. Types(s) \subseteq Kinds
  BY <1>1 DEF Types
<1> QED
  BY <1>1, <1>2, <1>3, <1>4, <1>5, <1>6, <1>7

\* Taking the first one.
LEMMA TypesTail ==
  ASSUME NEW S, NEW s \in Seq(About(S)), s # <<>>, Orderly(s)
  PROVE  /\ \A k : k \in Types(Tail(s)) <=> k \in Types(s) /\ k # Head(s).type
         /\ Orderly(Tail(s))
         /\ Head(s).type \in Types(s) /\ Head(s).type \in Kinds
         /\ Head(s).type \notin {"explore", "adopt"} => "explore" \notin Types(s) /\ "adopt" \notin Types(s)
<1>1. /\ Head(s) = s[1] /\ 1 \in DOMAIN s /\ Head(s) \in About(S)
      /\ \A i \in DOMAIN Tail(s) : i \in Nat /\ i >= 1 /\ i + 1 \in DOMAIN s /\ Tail(s)[i] = s[i + 1]
      /\ \A i \in DOMAIN s : i \in Nat /\ (i = 1 \/ (i - 1 \in DOMAIN Tail(s) /\ Tail(s)[i - 1] = s[i]))
  BY Uncons
<1>2. \A i, j \in DOMAIN s : s[i].type = s[j].type => i = j
  BY DEF Orderly
<1>3. \A i \in DOMAIN s : s[i].type \in {"explore", "adopt"} => i = 1
  BY DEF Orderly
<1>4. ASSUME NEW k, k \in Types(Tail(s)) PROVE k \in Types(s) /\ k # Head(s).type
  <2>1. PICK i \in DOMAIN Tail(s) : k = Tail(s)[i].type
    BY <1>4 DEF Types
  <2>2. i + 1 \in DOMAIN s /\ Tail(s)[i] = s[i + 1] /\ i + 1 # 1
    BY <1>1
  <2> QED
    BY <1>1, <1>2, <2>1, <2>2 DEF Types
<1>5. ASSUME NEW k, k \in Types(s), k # Head(s).type PROVE k \in Types(Tail(s))
  <2>1. PICK i \in DOMAIN s : k = s[i].type
    BY <1>5 DEF Types
  <2>2. i - 1 \in DOMAIN Tail(s) /\ Tail(s)[i - 1] = s[i]
    BY <1>1, <1>5, <2>1
  <2> QED
    BY <2>1, <2>2 DEF Types
<1>6. Orderly(Tail(s))
  <2>1. ASSUME NEW i \in DOMAIN Tail(s), NEW j \in DOMAIN Tail(s), Tail(s)[i].type = Tail(s)[j].type PROVE i = j
    <3>1. i + 1 \in DOMAIN s /\ j + 1 \in DOMAIN s /\ s[i + 1].type = s[j + 1].type
      BY <1>1, <2>1
    <3>2. i + 1 = j + 1
      BY <1>2, <3>1
    <3> QED
      BY <1>1, <3>2
  <2>2. ASSUME NEW i \in DOMAIN Tail(s), Tail(s)[i].type \in {"explore", "adopt"} PROVE FALSE
    <3>1. i + 1 \in DOMAIN s /\ s[i + 1].type \in {"explore", "adopt"} /\ i + 1 # 1
      BY <1>1, <2>2
    <3> QED
      BY <1>3, <3>1
  <2> QED
    BY <2>1, <2>2 DEF Orderly
<1>7. Head(s).type \in Types(s) /\ Head(s).type \in Kinds
  BY <1>1 DEF Types, About
<1>8. ASSUME NEW k \in {"explore", "adopt"}, k \in Types(s) PROVE Head(s).type = k
  BY <1>1, <1>3, <1>8 DEF Types
<1> QED
  BY <1>4, <1>5, <1>6, <1>7, <1>8

\* Sending more.
LEMMA OrderlyConcat ==
  ASSUME NEW S, NEW s \in Seq(About(S)), NEW t \in Seq(About(S)), Orderly(s), Orderly(t),
         \A k : k \in Types(t) => k \notin Types(s),
         s = <<>> \/ ("explore" \notin Types(t) /\ "adopt" \notin Types(t))
  PROVE  Orderly(s \o t)
<1>1. CASE s = <<>>
  <2>1. s \o t = t
    BY <1>1
  <2> QED
    BY <2>1
<1>2. CASE "explore" \notin Types(t) /\ "adopt" \notin Types(t)
  <2> DEFINE u == s \o t
  <2>1. /\ Len(s) \in Nat /\ DOMAIN s = 1 .. Len(s)
        /\ \A i \in DOMAIN u : /\ i \in Int
                               /\ \/ i \in DOMAIN s /\ u[i] = s[i]
                                  \/ i - Len(s) \in DOMAIN t /\ u[i] = t[i - Len(s)] /\ i > Len(s)
    BY Elements, Concat
  <2>2. \A i \in DOMAIN s : s[i].type \in Types(s)
    BY DEF Types
  <2>3. \A i \in DOMAIN t : t[i].type \in Types(t)
    BY DEF Types
  <2>4. \A i, j \in DOMAIN s : s[i].type = s[j].type => i = j
    BY DEF Orderly
  <2>5. \A i, j \in DOMAIN t : t[i].type = t[j].type => i = j
    BY DEF Orderly
  <2>6. \A i \in DOMAIN s : s[i].type \in {"explore", "adopt"} => i = 1
    BY DEF Orderly
  <2> HIDE DEF u
  <2>7. ASSUME NEW i \in DOMAIN u, NEW j \in DOMAIN u, u[i].type = u[j].type PROVE i = j
    <3>1. CASE i \in DOMAIN s /\ u[i] = s[i] /\ j \in DOMAIN s /\ u[j] = s[j]
      BY <2>4, <2>7, <3>1
    <3>2. CASE i \in DOMAIN s /\ u[i] = s[i] /\ j - Len(s) \in DOMAIN t /\ u[j] = t[j - Len(s)]
      BY <2>2, <2>3, <2>7, <3>2
    <3>3. CASE i - Len(s) \in DOMAIN t /\ u[i] = t[i - Len(s)] /\ j \in DOMAIN s /\ u[j] = s[j]
      BY <2>2, <2>3, <2>7, <3>3
    <3>4. CASE i - Len(s) \in DOMAIN t /\ u[i] = t[i - Len(s)] /\ j - Len(s) \in DOMAIN t /\ u[j] = t[j - Len(s)]
      <4>1. i - Len(s) = j - Len(s)
        BY <2>5, <2>7, <3>4
      <4> QED
        BY <2>1, <4>1
    <3> QED
      BY <2>1, <3>1, <3>2, <3>3, <3>4
  <2>8. ASSUME NEW i \in DOMAIN u, u[i].type \in {"explore", "adopt"} PROVE i = 1
    BY <1>2, <2>1, <2>3, <2>6, <2>8
  <2> QED
    BY <2>7, <2>8 DEF Orderly, u
<1> QED
  BY <1>1, <1>2

\* What may be added to the kinds on their way from n.
Fresh(n, out) ==
  \A r \in Node :
    /\ Orderly(out[r]) /\ \A k \in Types(out[r]) : k \notin OnWay(n, r)
    /\ \/ \A k \in Kinds : k \notin OnWay(n, r)
       \/ "explore" \notin Types(out[r]) /\ "adopt" \notin Types(out[r])

\* A handler at n takes a message of q and sends out.
LEMMA WayExchanged ==
  ASSUME Inv, Ordered, NEW n \in Node, NEW q \in Node, q # n, chan[q][n] # <<>>,
         NEW T, NEW out \in Outgoing(About(T)), started \subseteq T, chan' = Exchanged(chan, q, n, out)
  PROVE  /\ \A p, r \in Node : \A k :
              k \in OnWay(p, r)' <=> \/ k \in OnWay(p, r) /\ ~(p = q /\ r = n /\ k = Head(chan[q][n]).type)
                                     \/ p = n /\ k \in Types(out[r])
         /\ Fresh(n, out) => Ordered'
<1> DEFINE rest == Taken(chan, q, n)
           M == About(T)
<1>1. chan \in Channels(M)
  BY ChannelsMonotone DEF Inv, Waves
<1>2. /\ rest \in Channels(M)
      /\ \A p, r \in Node : rest[p][r] = IF p = q /\ r = n THEN Tail(chan[q][n]) ELSE chan[p][r]
  BY <1>1, TakenAt
<1>3. \A p, r \in Node : chan'[p][r] = IF p = n THEN rest[n][r] \o out[r] ELSE rest[p][r]
  BY <1>2, SentAt DEF Exchanged
<1>4. \A p, r \in Node : chan[p][r] \in Seq(M) /\ rest[p][r] \in Seq(M) /\ out[r] \in Seq(M) /\ Orderly(chan[p][r])
  BY <1>1, <1>2 DEF Channels, Outgoing, Ordered
<1> HIDE DEF rest
<1>5. \A r \in Node : chan'[n][r] = chan[n][r] \o out[r]
  BY <1>2, <1>3
<1>6. \A p, r \in Node : p # n => chan'[p][r] = IF p = q /\ r = n THEN Tail(chan[q][n]) ELSE chan[p][r]
  BY <1>2, <1>3
<1>7. /\ \A k : k \in Types(Tail(chan[q][n])) <=> k \in Types(chan[q][n]) /\ k # Head(chan[q][n]).type
      /\ Orderly(Tail(chan[q][n]))
  BY <1>4, TypesTail
<1>8. ASSUME NEW r \in Node, NEW k PROVE k \in OnWay(n, r)' <=> k \in OnWay(n, r) \/ k \in Types(out[r])
  <2>1. chan[n][r] \in Seq(M) /\ out[r] \in Seq(M)
    BY <1>4
  <2>2. k \in Types(chan[n][r] \o out[r]) <=> k \in Types(chan[n][r]) \/ k \in Types(out[r])
    BY <2>1, TypesOf
  <2> QED
    BY <1>5, <2>2 DEF OnWay
<1>9. ASSUME NEW p \in Node, NEW r \in Node, NEW k, p # n
      PROVE  k \in OnWay(p, r)' <=> k \in OnWay(p, r) /\ ~(p = q /\ r = n /\ k = Head(chan[q][n]).type)
  <2>1. CASE p = q /\ r = n
    BY <1>6, <1>7, <1>9, <2>1 DEF OnWay
  <2>2. CASE ~(p = q /\ r = n)
    BY <1>6, <1>9, <2>2 DEF OnWay
  <2> QED
    BY <2>1, <2>2
<1>10. ASSUME Fresh(n, out), NEW p \in Node, NEW r \in Node PROVE Orderly(chan'[p][r])
  <2>1. CASE p = n
    <3>1. chan[n][r] \in Seq(M) /\ out[r] \in Seq(M) /\ Orderly(chan[n][r]) /\ Orderly(out[r])
      BY <1>4, <1>10 DEF Fresh
    <3>2. \A k : k \in Types(out[r]) => k \notin Types(chan[n][r])
      BY <1>10 DEF Fresh, OnWay
    <3>3. chan[n][r] = <<>> \/ ("explore" \notin Types(out[r]) /\ "adopt" \notin Types(out[r]))
      BY <1>10, <3>1, TypesOf DEF Fresh, OnWay
    <3>4. Orderly(chan[n][r] \o out[r])
      BY <3>1, <3>2, <3>3, OrderlyConcat
    <3> QED
      BY <1>5, <2>1, <3>4
  <2>2. CASE p # n
    BY <1>4, <1>6, <1>7, <2>2
  <2> QED
    BY <2>1, <2>2
<1>11. Fresh(n, out) => Ordered'
  BY <1>10 DEF Ordered
<1>12. ASSUME NEW p \in Node, NEW r \in Node, NEW k
       PROVE  k \in OnWay(p, r)' <=> \/ k \in OnWay(p, r) /\ ~(p = q /\ r = n /\ k = Head(chan[q][n]).type)
                                     \/ p = n /\ k \in Types(out[r])
  BY <1>8, <1>9
<1> QED
  BY <1>11, <1>12

-----------------------------------------------------------------------------
(***************************************************************************)
(* What the invariant says of a state.                                     *)
(***************************************************************************)
\* No two candidates, now and after the step.
LEMMA Sole ==
  ASSUME Inv
  PROVE  /\ IsFiniteSet(started)
         /\ SoleCandidate <=> \A a, b \in started : a = b
<1>1. IsFiniteSet(started)
  BY NodeAssumption, FS_Subset DEF Inv, StartedWant
<1> QED
  BY <1>1, AtMostOne DEF SoleCandidate

LEMMA SoleNext ==
  ASSUME Inv'
  PROVE  SoleCandidate' <=> \A a, b \in started' : a = b
<1>1. IsFiniteSet(started')
  BY NodeAssumption, FS_Subset DEF Inv, StartedWant
<1> QED
  BY <1>1, AtMostOne DEF SoleCandidate

\* Nodes and what is under way.
LEMMA Known ==
  ASSUME Inv
  PROVE  /\ IsFiniteSet(Node) /\ \A n \in Node : n # 0 /\ n \in Nat
         /\ \A p, r \in Node : /\ p \in Neigh[r] <=> r \in Neigh[p]
                               /\ p \in Neigh[r] => p # r
         /\ \A n \in Node : /\ Neigh[n] \subseteq Node /\ IsFiniteSet(Kids(n)) /\ IsFiniteSet(Asked(n))
                            /\ receivedParentMsg[n] \in Nat /\ receivedEcho[n] \in Nat
                            /\ m[n] \in started \cup {0} /\ started \subseteq Node
         /\ \A p, r \in Node : OnWay(p, r) \subseteq Kinds
<1>1. IsFiniteSet(Node) /\ \A n \in Node : n # 0 /\ n \in Nat
  BY NodeAssumption
<1>2. \A p, r \in Node : (p \in Neigh[r] <=> r \in Neigh[p]) /\ (p \in Neigh[r] => p # r)
  BY NeighAssumption
<1>3. \A n \in Node : Neigh[n] \subseteq Node
  BY NeighAssumption
<1>4. \A n \in Node : Kids(n) \subseteq Node /\ Asked(n) \subseteq Node
  BY <1>3 DEF Kids, Asked
<1>5. \A n \in Node : IsFiniteSet(Kids(n)) /\ IsFiniteSet(Asked(n))
  BY <1>1, <1>4, FS_Subset
<1>6. ASSUME NEW p \in Node, NEW r \in Node PROVE OnWay(p, r) \subseteq Kinds
  <2>1. chan[p][r] \in Seq(About(started))
    BY DEF Inv, Waves, Channels, Outgoing
  <2> QED
    BY <2>1, TypesOf DEF OnWay
<1> QED
  BY <1>1, <1>2, <1>3, <1>5, <1>6 DEF Inv, Waves, Counters, StartedWant

\* A node is not its parent's parent.
LEMMA NoCycle ==
  ASSUME Inv, Growing, NEW p \in Node, NEW r \in Node, srcUID[p] = r, srcUID[r] = p
  PROVE  p = r
<1>1. Joined(p) /\ Joined(r)
  BY Known DEF Growing, Idle
<1>2. \E x \in {p, r} : m[x] = x
  <2>1. {p, r} \in SUBSET Node /\ {p, r} # {} /\ \A n \in {p, r} : Joined(n) /\ srcUID[n] \in {p, r}
    BY <1>1
  <2> QED
    BY <2>1 DEF Growing, Rooted
<1> QED
  BY <1>1, <1>2 DEF Growing, Fathered

\* A child has joined and was asked.
LEMMA KidsAsked ==
  ASSUME Inv, Growing, NEW n \in Node, NEW c \in Kids(n)
  PROVE  Joined(c) /\ Joined(n) /\ c \in Asked(n) /\ n \in Neigh[c]
<1>1. c \in Node /\ c # n /\ srcUID[c] = n
  BY DEF Kids
<1>2. Joined(c)
  BY <1>1, Known DEF Growing, Idle
<1>3. Joined(n) /\ n \in Neigh[c]
  BY <1>1, <1>2 DEF Growing, Fathered
<1>4. c \in Neigh[n]
  BY <1>1, <1>3, Known
<1>5. srcUID[n] # c
  BY <1>1, NoCycle
<1> QED
  BY <1>2, <1>3, <1>4, <1>5 DEF Asked

\* The children a node has listed.
LEMMA ListedKids ==
  ASSUME Inv, Growing, NEW n \in Node
  PROVE  /\ Listed(n) \subseteq Kids(n) /\ IsFiniteSet(Listed(n))
         /\ Cardinality(Listed(n)) = Len(childUIDs[n])
<1> DEFINE s == childUIDs[n]
<1>1. s \in Seq(Node) /\ Len(s) \in Nat /\ DOMAIN s = 1 .. Len(s)
  <2>1. s \in Seq(Node)
    BY DEF Inv, Counters
  <2> QED
    BY <2>1, Elements
<1>2. Listed(n) \subseteq Kids(n)
  BY DEF Growing, Listing, Listed
<1>3. \A i, j \in DOMAIN s : s[i] = s[j] => i = j
  BY DEF Growing, Listing
<1>4. s \in [1 .. Len(s) -> Listed(n)]
  BY <1>1 DEF Listed
<1>5. \A t \in Listed(n) : \E i \in 1 .. Len(s) : s[i] = t
  BY <1>1 DEF Listed
<1>6. IsFiniteSet(1 .. Len(s)) /\ Cardinality(1 .. Len(s)) = Len(s)
  BY <1>1, FS_Interval
<1>7. \A i, j \in 1 .. Len(s) : s[i] = s[j] => i = j
  BY <1>1, <1>3
<1> HIDE DEF s
<1>8. IsFiniteSet(Listed(n)) /\ Cardinality(Listed(n)) = Cardinality(1 .. Len(s))
  BY <1>4, <1>5, <1>6, <1>7, SameSize
<1> QED
  BY <1>2, <1>6, <1>8 DEF s

\* A node with all its answers.
LEMMA AllHeard ==
  ASSUME Inv, Growing, NEW n \in Node, Joined(n), sentExplore[n] = receivedParentMsg[n]
  PROVE  /\ Heard(n) = Asked(n) /\ Kids(n) = Listed(n)
         /\ \A q \in Node : Silent(q, n)
<1>1. Heard(n) = Asked(n)
  <2>1. Heard(n) \subseteq Asked(n) /\ IsFiniteSet(Asked(n))
    BY Known DEF Heard
  <2>2. IsFiniteSet(Heard(n)) /\ Cardinality(Heard(n)) <= Cardinality(Asked(n))
        /\ Cardinality(Heard(n)) \in Nat /\ Cardinality(Asked(n)) \in Nat
    BY <2>1, FS_Subset, FS_CardinalityType
  <2>3. Cardinality(Asked(n)) <= Cardinality(Heard(n))
    BY DEF Growing, Fathered, NotAhead
  <2> QED
    BY <2>1, <2>2, <2>3, FS_Subset
<1>2. Kids(n) \subseteq Listed(n)
  BY <1>1, KidsAsked DEF Heard, Kids
<1>3. ASSUME NEW q \in Node, ~Silent(q, n) PROVE q \in Asked(n)
  <2>1. CASE "explore" \in OnWay(q, n)
    BY <2>1 DEF Growing, Placed, Exploring, Asked
  <2>2. CASE "adopt" \in OnWay(q, n)
    <3>1. q \in Kids(n)
      BY <2>2 DEF Growing, Placed, Adopting, Kids
    <3> QED
      BY <3>1, KidsAsked
  <2>3. CASE "refuse" \in OnWay(q, n)
    BY <2>3 DEF Growing, Placed, Refusing, Asked
  <2> QED
    BY <1>3, <2>1, <2>2, <2>3 DEF Silent
<1>4. \A q \in Asked(n) : Silent(q, n)
  BY <1>1 DEF Heard
<1> QED
  BY <1>1, <1>2, <1>3, <1>4, ListedKids

\* A node that is due: its children are, and nothing but the result comes to it any more.
LEMMA DueFacts ==
  ASSUME Inv, Growing, NEW n \in Node, Due(n)
  PROVE  /\ Joined(n) /\ Heard(n) = Asked(n) /\ Kids(n) = Listed(n) /\ Kids(n) = Reported(n)
         /\ \A q \in Node, k \in Kinds : k \in OnWay(q, n) => k = "leader"
<1>1. Joined(n) /\ sentExplore[n] = receivedParentMsg[n]
  BY DEF Due, EchoDue
<1>2. Heard(n) = Asked(n) /\ Kids(n) = Listed(n) /\ \A q \in Node : Silent(q, n)
  BY <1>1, AllHeard
<1>3. Cardinality(Kids(n)) = Len(childUIDs[n]) /\ IsFiniteSet(Kids(n)) /\ Len(childUIDs[n]) \in Nat
  <2>1. Cardinality(Kids(n)) = Len(childUIDs[n]) /\ IsFiniteSet(Kids(n))
    BY <1>2, ListedKids
  <2> QED
    BY <2>1, FS_CardinalityType
<1>4. Reported(n) \subseteq Kids(n)
  BY DEF Reported
<1>5. IsFiniteSet(Reported(n)) /\ Cardinality(Reported(n)) \in Nat
      /\ Cardinality(Reported(n)) <= Cardinality(Kids(n))
      /\ (Cardinality(Reported(n)) = Cardinality(Kids(n)) => Reported(n) = Kids(n))
  BY <1>3, <1>4, FS_Subset, FS_CardinalityType
<1>6. Reported(n) = Kids(n)
  <2>1. receivedEcho[n] <= Cardinality(Reported(n)) /\ receivedEcho[n] \in Nat
    BY Known DEF Growing, NotAhead
  <2>2. Len(childUIDs[n]) = receivedEcho[n] \/ Len(childUIDs[n]) = 0
    BY DEF Due, EchoDue
  <2> QED
    BY <1>3, <1>5, <2>1, <2>2
<1>7. ASSUME NEW q \in Node, NEW k \in Kinds, k \in OnWay(q, n) PROVE k = "leader"
  <2>1. k # "echo"
    <3>1. SUFFICES ASSUME "echo" \in OnWay(q, n) PROVE FALSE
      BY <1>7
    <3>2. q \in Kids(n)
      BY <3>1 DEF Growing, Placed, Echoing, Kids
    <3> QED
      BY <1>6, <3>1, <3>2 DEF Reported
  <2> QED
    BY <1>2, <1>7, <2>1 DEF Kinds, Silent
<1> QED
  BY <1>1, <1>2, <1>6, <1>7

\* Where a message comes from, and whose wave it belongs to.
LEMMA Arrival ==
  ASSUME Inv, SoleCandidate, Growing, NEW n \in Node, NEW q \in Node, chan[q][n] # <<>>
  PROVE  /\ Head(chan[q][n]).type \in OnWay(q, n) /\ Head(chan[q][n]).type \in Kinds /\ q # n
         /\ Joined(q) /\ Wave(n, q) = m[q] /\ (Joined(n) => Wave(n, q) = m[n])
         /\ ~Joined(n) => Head(chan[q][n]).type = "explore"
         /\ Due(n) => Head(chan[q][n]).type = "leader"
<1>1. Head(chan[q][n]).type \in OnWay(q, n) /\ Head(chan[q][n]).type \in Kinds
  <2>1. chan[q][n] \in Seq(About(started)) /\ Orderly(chan[q][n])
    BY DEF Inv, Waves, Channels, Outgoing, Growing, Ordered
  <2> QED
    BY <2>1, TypesTail DEF OnWay
<1>2. Wave(n, q) \in started
  BY WaveStarted
<1>3. Joined(q) /\ (Head(chan[q][n]).type # "explore" => Joined(n))
  BY <1>1 DEF Growing, Idle
<1>4. q # n
  <2>1. SUFFICES ASSUME q = n PROVE FALSE
    OBVIOUS
  <2>2. \E k \in Kinds : k \in OnWay(n, n)
    BY <1>1, <2>1
  <2>3. n \notin Neigh[n]
    BY Known
  <2> QED
    BY <2>2, <2>3 DEF Growing, Placed, Exploring, Adopting, Refusing, Echoing, Telling, Kinds
<1>5. \A a, b \in started : a = b
  BY Sole
<1>6. m[q] \in started /\ (Joined(n) => m[n] \in started)
  BY <1>3, Known DEF Joined
<1> QED
  BY <1>1, <1>2, <1>3, <1>4, <1>5, <1>6, DueFacts

-----------------------------------------------------------------------------
(***************************************************************************)
(* What a handler sends.                                                   *)
(***************************************************************************)
\* One message to some nodes.
LEMMA SendsTo ==
  ASSUME Inv, NEW n \in Node, NEW R, NEW msg \in About(Node),
         \A r \in R : msg.type \notin OnWay(n, r),
         \/ \A r \in R, k \in Kinds : k \notin OnWay(n, r)
         \/ msg.type \notin {"explore", "adopt"}
  PROVE  /\ \A r \in Node, k \in Kinds : k \in Types(To(R, msg)[r]) <=> r \in R /\ k = msg.type
         /\ Fresh(n, To(R, msg)) /\ To(R, msg) \in Outgoing(About(Node))
<1>1. \A r \in Node : To(R, msg)[r] = IF r \in R THEN <<msg>> ELSE <<>>
  BY DEF To
<1>2. <<msg>> \in Seq(About(Node)) /\ DOMAIN <<msg>> = {1} /\ <<msg>>[1] = msg
  OBVIOUS
<1>3. \A k : k \in Types(<<msg>>) <=> k = msg.type
  BY <1>2 DEF Types
<1>4. \A k : k \notin Types(<<>>)
  BY EmptySeq DEF Types
<1>5. ASSUME NEW r \in Node, NEW k \in Kinds PROVE k \in Types(To(R, msg)[r]) <=> r \in R /\ k = msg.type
  BY <1>1, <1>3, <1>4
<1>6. Orderly(<<msg>>) /\ Orderly(<<>>)
  BY <1>2, EmptySeq DEF Orderly
<1>7. ASSUME NEW r \in Node
      PROVE  /\ Orderly(To(R, msg)[r]) /\ \A k \in Types(To(R, msg)[r]) : k \notin OnWay(n, r)
             /\ \/ \A k \in Kinds : k \notin OnWay(n, r)
                \/ "explore" \notin Types(To(R, msg)[r]) /\ "adopt" \notin Types(To(R, msg)[r])
  <2>1. CASE r \in R
    BY <1>1, <1>3, <1>6, <2>1
  <2>2. CASE r \notin R
    BY <1>1, <1>4, <1>6, <2>2
  <2> QED
    BY <2>1, <2>2
<1>8. Fresh(n, To(R, msg))
  BY <1>7 DEF Fresh
<1>9. To(R, msg) \in Outgoing(About(Node))
  BY ToType
<1> QED
  BY <1>5, <1>8, <1>9

\* Nothing.
LEMMA SendsNothing ==
  ASSUME NEW n \in Node
  PROVE  /\ \A r \in Node, k \in Kinds : k \notin Types(Nothing[r])
         /\ Fresh(n, Nothing) /\ Nothing \in Outgoing(About(Node))
<1>1. \A r \in Node : Nothing[r] = <<>>
  BY DEF Nothing
<1>2. Orderly(<<>>) /\ \A k : k \notin Types(<<>>)
  BY EmptySeq DEF Orderly, Types
<1>3. Fresh(n, Nothing)
  BY <1>1, <1>2 DEF Fresh
<1> QED
  BY <1>1, <1>2, <1>3, NothingType

\* Twice.
LEMMA SendsThen ==
  ASSUME NEW n \in Node, NEW a \in Outgoing(About(Node)), NEW b \in Outgoing(About(Node)), Fresh(n, a), Fresh(n, b),
         \A r \in Node, k \in Kinds : k \in Types(b[r]) => k \notin Types(a[r]) /\ k \notin {"explore", "adopt"}
  PROVE  /\ \A r \in Node, k \in Kinds : k \in Types(Then(a, b)[r]) <=> k \in Types(a[r]) \/ k \in Types(b[r])
         /\ Fresh(n, Then(a, b)) /\ Then(a, b) \in Outgoing(About(Node))
<1>1. \A r \in Node : /\ Then(a, b)[r] = a[r] \o b[r]
                      /\ a[r] \in Seq(About(Node)) /\ b[r] \in Seq(About(Node))
  BY DEF Then, Outgoing
<1>2. ASSUME NEW r \in Node
      PROVE  /\ \A k : k \in Types(Then(a, b)[r]) <=> k \in Types(a[r]) \/ k \in Types(b[r])
             /\ Types(b[r]) \subseteq Kinds
  BY <1>1, TypesOf
<1>3. ASSUME NEW r \in Node
      PROVE  "explore" \notin Types(b[r]) /\ "adopt" \notin Types(b[r])
  BY DEF Kinds
<1>4. ASSUME NEW r \in Node PROVE Orderly(Then(a, b)[r])
  <2>1. Orderly(a[r]) /\ Orderly(b[r])
    BY DEF Fresh
  <2>2. \A k : k \in Types(b[r]) => k \notin Types(a[r])
    BY <1>2
  <2>3. Orderly(a[r] \o b[r])
    BY <1>1, <1>3, <2>1, <2>2, OrderlyConcat
  <2> QED
    BY <1>1, <2>3
<1>5. ASSUME NEW r \in Node
      PROVE  /\ \A k \in Types(Then(a, b)[r]) : k \notin OnWay(n, r)
             /\ \/ \A k \in Kinds : k \notin OnWay(n, r)
                \/ "explore" \notin Types(Then(a, b)[r]) /\ "adopt" \notin Types(Then(a, b)[r])
  BY <1>2, <1>3 DEF Fresh
<1>6. Fresh(n, Then(a, b))
  BY <1>4, <1>5 DEF Fresh
<1> QED
  BY <1>2, <1>6, ThenType

\* The result, to children listed once.
LEMMA SendsResult ==
  ASSUME NEW n \in Node, NEW s \in Seq(Node), \A i, j \in DOMAIN s : s[i] = s[j] => i = j,
         NEW w \in Node, \A r \in Node : "leader" \notin OnWay(n, r)
  PROVE  /\ \A r \in Node, k \in Kinds : k \in Types(PropagateChilds(s, LeaderMsg(w))[r])
                                            <=> k = "leader" /\ \E i \in DOMAIN s : s[i] = r
         /\ Fresh(n, PropagateChilds(s, LeaderMsg(w))) /\ PropagateChilds(s, LeaderMsg(w)) \in Outgoing(About(Node))
<1> DEFINE out == PropagateChilds(s, LeaderMsg(w))
           E(r) == {i \in DOMAIN s : s[i] = r}
<1>1. LeaderMsg(w) \in About(Node) /\ LeaderMsg(w).type = "leader"
  BY DEF LeaderMsg, About, Kinds
<1>2. \A r \in Node : out[r] = [k \in 1 .. Cardinality(E(r)) |-> LeaderMsg(w)]
  BY DEF PropagateChilds
<1>3. ASSUME NEW r \in Node, NEW j \in DOMAIN s, s[j] = r PROVE Cardinality(E(r)) = 1
  <2>1. E(r) = {j}
    BY <1>3
  <2>2. Cardinality({j}) = 1
    BY FS_Singleton
  <2> QED
    BY <2>1, <2>2
<1>4. ASSUME NEW r \in Node, ~\E i \in DOMAIN s : s[i] = r PROVE Cardinality(E(r)) = 0
  <2>1. E(r) = {}
    BY <1>4
  <2> QED
    BY <2>1, FS_EmptySet
<1>5. ASSUME NEW r \in Node
      PROVE  IF \E i \in DOMAIN s : s[i] = r
             THEN DOMAIN out[r] = {1} /\ out[r][1] = LeaderMsg(w) ELSE DOMAIN out[r] = {}
  <2>c. out[r] = [k \in 1 .. Cardinality(E(r)) |-> LeaderMsg(w)]
    BY <1>2
  <2> HIDE DEF E, out
  <2>1. DOMAIN out[r] = 1 .. Cardinality(E(r)) /\ \A k \in 1 .. Cardinality(E(r)) : out[r][k] = LeaderMsg(w)
    BY <2>c
  <2>2. CASE \E i \in DOMAIN s : s[i] = r
    BY <1>3, <2>1, <2>2
  <2>3. CASE ~\E i \in DOMAIN s : s[i] = r
    BY <1>4, <2>1, <2>3
  <2> QED
    BY <2>2, <2>3
<1> HIDE DEF out
<1>6. ASSUME NEW r \in Node, NEW k
      PROVE  k \in Types(out[r]) <=> k = "leader" /\ \E i \in DOMAIN s : s[i] = r
  BY <1>1, <1>5 DEF Types
<1>7. ASSUME NEW r \in Node PROVE Orderly(out[r])
  BY <1>1, <1>5 DEF Orderly
<1>8. Fresh(n, out)
  <2> SUFFICES ASSUME NEW r \in Node
               PROVE  /\ \A k \in Types(out[r]) : k \notin OnWay(n, r)
                      /\ "explore" \notin Types(out[r]) /\ "adopt" \notin Types(out[r])
    BY <1>7 DEF Fresh
  <2>1. \A k : k \in Types(out[r]) => k = "leader"
    BY <1>6
  <2> QED
    BY <2>1
<1>9. out \in Outgoing(About(Node))
  BY <1>1, PropagateType DEF out
<1> QED
  BY <1>6, <1>8, <1>9 DEF out

\* checkSendEcho: an echo to the parent, or the result to the children, if it is due.
Won(n) == Due(n) /\ m[n] = n
LEMMA Tailed ==
  ASSUME Inv, Inv', Ordered, NEW n \in Node, NEW q \in Node, q # n, chan[q][n] # <<>>,
         NEW out \in Outgoing(About(Node)), Fresh(n, out), CheckSendEcho(n, q, out), Joined(n)',
         srcUID'[n] = n <=> m'[n] = n, srcUID'[n] \in Neigh[n] \cup {n},
         \A i, j \in DOMAIN childUIDs'[n] : childUIDs'[n][i] = childUIDs'[n][j] => i = j,
         \A r \in Node : /\ "echo" \notin OnWay(n, r) /\ "leader" \notin OnWay(n, r)
                         /\ "echo" \notin Types(out[r]) /\ "leader" \notin Types(out[r])
  PROVE  /\ \A p, r \in Node, k \in Kinds :
              k \in OnWay(p, r)' <=> \/ k \in OnWay(p, r) /\ ~(p = q /\ r = n /\ k = Head(chan[q][n]).type)
                                     \/ p = n /\ k \in Types(out[r])
                                     \/ p = n /\ k = "echo" /\ Due(n)' /\ ~Won(n)' /\ r = srcUID'[n]
                                     \/ p = n /\ k = "leader" /\ Won(n)' /\ r \in Listed(n)'
         /\ Ordered'
         /\ leaderUID' = IF Won(n)' THEN [leaderUID EXCEPT ![n] = n] ELSE leaderUID
         /\ isLeader' = IF Won(n)' THEN [isLeader EXCEPT ![n] = TRUE] ELSE isLeader
<1> DEFINE due == EchoDue(n, sentExplore'[n], receivedParentMsg'[n], childUIDs'[n],
                          receivedEcho'[n], receivedExplore'[n])
<1>1. due <=> Due(n)'
  BY DEF Due
<1>2. m'[n] \in Node /\ childUIDs'[n] \in Seq(Node) /\ started \subseteq Node
  BY DEF Joined, Inv, Waves, Counters, StartedWant
<1>3. CASE ~due
  <2>1. chan' = Exchanged(chan, q, n, out) /\ UNCHANGED <<leaderUID, isLeader>>
    BY <1>3 DEF CheckSendEcho
  <2>2. /\ \A p, r \in Node : \A k :
              k \in OnWay(p, r)' <=> \/ k \in OnWay(p, r) /\ ~(p = q /\ r = n /\ k = Head(chan[q][n]).type)
                                     \/ p = n /\ k \in Types(out[r])
        /\ Ordered'
    BY <1>2, <2>1, WayExchanged
  <2>3. ~Due(n)' /\ ~Won(n)'
    BY <1>1, <1>3 DEF Won
  <2> QED
    BY <2>1, <2>2, <2>3
<1>4. CASE due /\ m'[n] = n
  <2> DEFINE res == PropagateChilds(childUIDs'[n], LeaderMsg(n))
             all == Then(out, res)
  <2>1. /\ chan' = Exchanged(chan, q, n, all)
        /\ leaderUID' = [leaderUID EXCEPT ![n] = n]
        /\ isLeader' = [isLeader EXCEPT ![n] = TRUE]
    BY <1>4 DEF CheckSendEcho
  <2>2. PICK s \in Seq(Node) : s = childUIDs'[n]
    BY <1>2
  <2>3. /\ \A r \in Node, k \in Kinds : k \in Types(res[r]) <=> k = "leader" /\ \E i \in DOMAIN s : s[i] = r
        /\ Fresh(n, res) /\ res \in Outgoing(About(Node))
    BY <2>2, SendsResult
  <2> HIDE DEF res
  <2>4. /\ \A r \in Node, k \in Kinds : k \in Types(all[r]) <=> k \in Types(out[r]) \/ k \in Types(res[r])
        /\ Fresh(n, all) /\ all \in Outgoing(About(Node))
    BY <2>3, SendsThen
  <2> HIDE DEF all
  <2>5. /\ \A p, r \in Node : \A k :
              k \in OnWay(p, r)' <=> \/ k \in OnWay(p, r) /\ ~(p = q /\ r = n /\ k = Head(chan[q][n]).type)
                                     \/ p = n /\ k \in Types(all[r])
        /\ Ordered'
    BY <1>2, <2>1, <2>4, WayExchanged
  <2>6. Won(n)' /\ \A r : r \in Listed(n)' <=> \E i \in DOMAIN s : s[i] = r
    BY <1>1, <1>4, <2>2 DEF Won, Listed
  <2> QED
    BY <2>1, <2>3, <2>4, <2>5, <2>6
<1>5. CASE due /\ m'[n] # n
  <2> DEFINE R == {srcUID'[n]} \cap Neigh[n]
             echos == To(R, Echo(m'[n]))
             all == Then(out, echos)
  <2>1. /\ chan' = Exchanged(chan, q, n, all)
        /\ UNCHANGED <<leaderUID, isLeader>>
    BY <1>5 DEF CheckSendEcho
  <2>2. srcUID'[n] \in Neigh[n] /\ R = {srcUID'[n]} /\ R \subseteq Node
    BY <1>5, Known
  <2>3. Echo(m'[n]) \in About(Node) /\ Echo(m'[n]).type = "echo"
    BY <1>2 DEF Echo, About, Kinds
  <2>4. /\ \A r \in Node, k \in Kinds : k \in Types(echos[r]) <=> r \in R /\ k = "echo"
        /\ Fresh(n, echos) /\ echos \in Outgoing(About(Node))
    <3>1. PICK msg \in About(Node) : msg = Echo(m'[n])
      BY <2>3
    <3>2. \A r \in R : msg.type \notin OnWay(n, r)
      BY <2>2, <2>3, <3>1
    <3>3. msg.type \notin {"explore", "adopt"}
      BY <2>3, <3>1
    <3> HIDE DEF R
    <3>4. /\ \A r \in Node, k \in Kinds : k \in Types(To(R, msg)[r]) <=> r \in R /\ k = msg.type
          /\ Fresh(n, To(R, msg)) /\ To(R, msg) \in Outgoing(About(Node))
      BY <3>2, <3>3, SendsTo
    <3> QED
      BY <2>3, <3>1, <3>4
  <2> HIDE DEF echos
  <2>5. /\ \A r \in Node, k \in Kinds : k \in Types(all[r]) <=> k \in Types(out[r]) \/ k \in Types(echos[r])
        /\ Fresh(n, all) /\ all \in Outgoing(About(Node))
    BY <2>4, SendsThen
  <2> HIDE DEF all
  <2>6. /\ \A p, r \in Node : \A k :
              k \in OnWay(p, r)' <=> \/ k \in OnWay(p, r) /\ ~(p = q /\ r = n /\ k = Head(chan[q][n]).type)
                                     \/ p = n /\ k \in Types(all[r])
        /\ Ordered'
    BY <1>2, <2>1, <2>5, WayExchanged
  <2>7. Due(n)' /\ ~Won(n)' /\ "echo" \in Kinds
    BY <1>1, <1>5 DEF Won, Kinds
  <2> QED
    BY <2>1, <2>2, <2>4, <2>5, <2>6, <2>7
<1> QED
  BY <1>3, <1>4, <1>5

-----------------------------------------------------------------------------
(***************************************************************************)
(* What every step has in common: nobody leaves the tree, what is finished *)
(* stays finished, and a node explores, answers and echoes once.           *)
(***************************************************************************)
Gets(p, r, k) == k \in OnWay(p, r)' /\ k \notin OnWay(p, r)
Forward ==
  /\ \A n \in Node : /\ Joined(n) => m'[n] = m[n] /\ srcUID'[n] = srcUID[n]
                     /\ Joined(n) => Listed(n) \subseteq Listed(n)'
                     /\ Due(n) => Due(n)'
  /\ \A p, r \in Node : /\ Gets(p, r, "explore") => ~Joined(p)
                        /\ Gets(p, r, "adopt") \/ Gets(p, r, "refuse") => "explore" \in OnWay(r, p)
                        /\ Gets(p, r, "echo") => ~Due(p)

LEMMA Onward ==
  ASSUME Inv, Growing, Forward, NEW n \in Node
  PROVE  /\ Joined(n) => Joined(n)' /\ Kids(n) \subseteq Kids(n)'
         /\ Joined(n) => Heard(n) \subseteq Heard(n)'
         /\ Reported(n) \subseteq Reported(n)'
         /\ IsFiniteSet(Heard(n)') /\ IsFiniteSet(Reported(n)')
         /\ Cardinality(Heard(n)') \in Nat /\ Cardinality(Reported(n)') \in Nat
         /\ IsFiniteSet(Heard(n)) /\ IsFiniteSet(Reported(n))
         /\ Cardinality(Heard(n)) \in Nat /\ Cardinality(Reported(n)) \in Nat
<1>1. \A c \in Kids(n) : Joined(c) /\ c \in Node
  BY KidsAsked DEF Kids
<1>2. \A x \in Node : Joined(x) => Joined(x)' /\ srcUID'[x] = srcUID[x]
  BY DEF Forward, Joined
<1>3. Kids(n) \subseteq Kids(n)'
  BY <1>1, <1>2 DEF Kids
<1>4. ASSUME Joined(n), NEW q \in Heard(n) PROVE q \in Heard(n)'
  <2>1. /\ q \in Asked(n) /\ Joined(q) /\ "explore" \notin OnWay(n, q) /\ Silent(q, n)
        /\ srcUID[q] = n => q \in Listed(n)
    BY DEF Heard
  <2>2. q \in Node /\ q \in Asked(n)'
    BY <1>2, <1>4, <2>1, Known DEF Asked
  <2>3. "explore" \notin OnWay(n, q)' /\ Silent(q, n)'
    BY <1>4, <2>1, <2>2 DEF Forward, Gets, Silent
  <2>4. srcUID'[q] = n => q \in Listed(n)'
    BY <1>2, <1>4, <2>1, <2>2 DEF Forward
  <2> QED
    BY <1>2, <2>1, <2>2, <2>3, <2>4 DEF Heard
<1>5. ASSUME NEW c \in Reported(n) PROVE c \in Reported(n)'
  <2>1. c \in Kids(n) /\ c \in Node /\ Due(c) /\ "echo" \notin OnWay(c, n)
    BY <1>1 DEF Reported
  <2>2. c \in Kids(n)' /\ Due(c)' /\ "echo" \notin OnWay(c, n)'
    BY <1>3, <2>1 DEF Forward, Gets
  <2> QED
    BY <2>2 DEF Reported
<1>6. IsFiniteSet(Node) /\ Neigh[n] \subseteq Node
  BY Known
<1>7. Heard(n) \subseteq Node /\ Heard(n)' \subseteq Node /\ Reported(n) \subseteq Node /\ Reported(n)' \subseteq Node
  BY <1>6 DEF Heard, Reported, Asked, Kids
<1>8. \A S \in SUBSET Node : IsFiniteSet(S) /\ Cardinality(S) \in Nat
  BY <1>6, FS_Subset, FS_CardinalityType
<1> QED
  BY <1>2, <1>3, <1>4, <1>5, <1>7, <1>8

\* A node whose counters stay the same.
LEMMA SameAhead ==
  ASSUME Inv, Growing, Forward, NEW n \in Node, Joined(n),
         receivedParentMsg'[n] = receivedParentMsg[n], receivedEcho'[n] = receivedEcho[n]
  PROVE  /\ receivedParentMsg'[n] <= Cardinality(Heard(n)')
         /\ receivedEcho'[n] <= Cardinality(Reported(n)')
<1>1. Cardinality(Heard(n)) <= Cardinality(Heard(n)') /\ Cardinality(Reported(n)) <= Cardinality(Reported(n)')
  BY Onward, FS_Subset
<1> QED
  BY <1>1, Onward, Known DEF Growing, NotAhead

-----------------------------------------------------------------------------
(***************************************************************************)
(* A handler of a node that has joined: it counts what it takes, refuses   *)
(* an explore, and checks whether it is due.                               *)
(***************************************************************************)
TakesOf(n, q) == Head(chan[q][n]).type
Handles(n, q, out) ==
  /\ chan[q][n] # <<>> /\ leaderUID[n] = 0 /\ Joined(n)
  /\ UNCHANGED <<m, sentExplore, srcUID, started, lost>>
  /\ \A x \in Node \ {n} : /\ childUIDs'[x] = childUIDs[x] /\ receivedParentMsg'[x] = receivedParentMsg[x]
                           /\ receivedEcho'[x] = receivedEcho[x] /\ receivedExplore'[x] = receivedExplore[x]
  /\ \A c : c \in Listed(n)' <=> c \in Listed(n) \/ (c = q /\ TakesOf(n, q) = "adopt")
  /\ \A i, j \in DOMAIN childUIDs'[n] : childUIDs'[n][i] = childUIDs'[n][j] => i = j
  /\ \A r \in Node, k \in Kinds : k \in Types(out[r]) => k = "refuse" /\ r = q /\ TakesOf(n, q) = "explore"
  /\ TakesOf(n, q) # "leader"
  /\ CheckSendEcho(n, q, out)
\* What is under way afterwards.
Passes(n, q, out) ==
  \A p, r \in Node, k \in Kinds :
    k \in OnWay(p, r)' <=> \/ k \in OnWay(p, r) /\ ~(p = q /\ r = n /\ k = TakesOf(n, q))
                           \/ p = n /\ k \in Types(out[r])
                           \/ p = n /\ k = "echo" /\ Due(n)' /\ ~Won(n)' /\ r = srcUID'[n]
                           \/ p = n /\ k = "leader" /\ Won(n)' /\ r \in Listed(n)'
LeadersAfter(n) ==
  /\ leaderUID' = IF Won(n)' THEN [leaderUID EXCEPT ![n] = n] ELSE leaderUID
  /\ isLeader' = IF Won(n)' THEN [isLeader EXCEPT ![n] = TRUE] ELSE isLeader

\* It has not been due before.
LEMMA HandlesWhat ==
  ASSUME Inv, Inv', SoleCandidate, Growing, NEW n \in Node, NEW q \in Node, NEW out \in Outgoing(About(Node)),
         Handles(n, q, out), Fresh(n, out)
  PROVE  /\ q # n /\ Joined(q) /\ ~Due(n) /\ TakesOf(n, q) \in OnWay(q, n) /\ TakesOf(n, q) \in Kinds
         /\ Passes(n, q, out) /\ Ordered' /\ LeadersAfter(n)
<1>1. q # n /\ Joined(q) /\ ~Due(n) /\ TakesOf(n, q) \in OnWay(q, n) /\ TakesOf(n, q) \in Kinds
  BY Arrival DEF Handles, TakesOf
<1>2. Joined(n)' /\ (srcUID'[n] = n <=> m'[n] = n) /\ srcUID'[n] \in Neigh[n] \cup {n}
  BY DEF Handles, Joined, Growing, Fathered
<1>3. \A r \in Node : /\ "echo" \notin OnWay(n, r) /\ "leader" \notin OnWay(n, r)
                      /\ "echo" \notin Types(out[r]) /\ "leader" \notin Types(out[r])
  BY <1>1 DEF Handles, Growing, Placed, Echoing, Telling, Kinds
<1>4. Ordered /\ CheckSendEcho(n, q, out) /\ chan[q][n] # <<>>
      /\ \A i, j \in DOMAIN childUIDs'[n] : childUIDs'[n][i] = childUIDs'[n][j] => i = j
  BY DEF Growing, Handles
<1>5. Passes(n, q, out) /\ Ordered' /\ LeadersAfter(n)
  BY <1>1, <1>2, <1>3, <1>4, Tailed DEF Passes, LeadersAfter, TakesOf
<1> QED
  BY <1>1, <1>5

\* It leaves the tree as it is, finishes nobody else, and is heard once.
LEMMA HandlesForward ==
  ASSUME Inv, Inv', SoleCandidate, Growing, NEW n \in Node, NEW q \in Node, NEW out \in Outgoing(About(Node)),
         Handles(n, q, out), Fresh(n, out)
  PROVE  /\ Forward /\ \A x \in Node : (Joined(x)' <=> Joined(x)) /\ Kids(x)' = Kids(x)
         /\ \A x \in Node : x # n => (Due(x)' <=> Due(x)) /\ Listed(x)' = Listed(x)
<1>1. ~Due(n) /\ Passes(n, q, out) /\ q # n /\ TakesOf(n, q) \in OnWay(q, n)
  BY HandlesWhat
<1>2. \A x \in Node : (Joined(x)' <=> Joined(x)) /\ Kids(x)' = Kids(x)
  BY DEF Handles, Joined, Kids
<1>3. \A x \in Node : x # n => (Due(x)' <=> Due(x)) /\ Listed(x)' = Listed(x)
  BY <1>2 DEF Handles, Due, Listed
<1>4. \A x \in Node : m'[x] = m[x] /\ srcUID'[x] = srcUID[x] /\ Listed(x) \subseteq Listed(x)'
                      /\ (Due(x) => Due(x)')
  BY <1>1, <1>3 DEF Handles
<1>5. ASSUME NEW p \in Node, NEW r \in Node
      PROVE  /\ Gets(p, r, "explore") => ~Joined(p)
             /\ Gets(p, r, "adopt") \/ Gets(p, r, "refuse") => "explore" \in OnWay(r, p)
             /\ Gets(p, r, "echo") => ~Due(p)
  <2>1. {"explore", "adopt", "refuse", "echo"} \subseteq Kinds
    BY DEF Kinds
  <2>2. ~Gets(p, r, "explore") /\ ~Gets(p, r, "adopt")
    BY <1>1, <2>1 DEF Passes, Gets, Handles
  <2>3. Gets(p, r, "refuse") => "explore" \in OnWay(r, p)
    BY <1>1, <2>1 DEF Passes, Gets, Handles
  <2>4. Gets(p, r, "echo") => ~Due(p)
    BY <1>1, <2>1 DEF Passes, Gets, Handles
  <2> QED
    BY <2>2, <2>3, <2>4
<1> QED
  BY <1>2, <1>3, <1>4, <1>5 DEF Forward

\* All of the invariant that is not about its own counters.
LEMMA HandlesGrowing ==
  ASSUME Inv, Inv', SoleCandidate, Growing, NEW n \in Node, NEW q \in Node, NEW out \in Outgoing(About(Node)),
         Handles(n, q, out), Fresh(n, out),
         receivedParentMsg'[n] <= Cardinality(Heard(n)'), receivedEcho'[n] <= Cardinality(Reported(n)')
  PROVE  Growing'
<1>1. /\ q # n /\ Joined(q) /\ ~Due(n) /\ TakesOf(n, q) \in OnWay(q, n) /\ TakesOf(n, q) \in Kinds
      /\ Passes(n, q, out) /\ Ordered' /\ LeadersAfter(n)
  BY HandlesWhat
<1>2. /\ Forward /\ \A x \in Node : (Joined(x)' <=> Joined(x)) /\ Kids(x)' = Kids(x)
      /\ \A x \in Node : x # n => (Due(x)' <=> Due(x)) /\ Listed(x)' = Listed(x)
  BY HandlesForward
<1>3. \A x \in Node : /\ leaderUID'[x] = IF Won(n)' /\ x = n THEN n ELSE leaderUID[x]
                      /\ isLeader'[x] = IF Won(n)' /\ x = n THEN TRUE ELSE isLeader[x]
  BY <1>1 DEF LeadersAfter, Inv, Waves, Counters
<1>4. {"explore", "adopt", "refuse", "echo", "leader"} = Kinds
  BY DEF Kinds
<1>5. UNCHANGED <<m, srcUID, sentExplore, started>>
  BY DEF Handles
<1>6. srcUID[n] \in Neigh[n] \cup {n} /\ (srcUID[n] = n <=> m[n] = n) /\ Joined(n) /\ Joined(srcUID[n])
      /\ srcUID[n] \in Node /\ n # 0
  <2>1. Joined(n) /\ Neigh[n] \subseteq Node /\ n # 0
    BY Known DEF Handles
  <2> QED
    BY <2>1 DEF Growing, Fathered
<1>7. \A c \in Listed(n)' : c \in Kids(n)
  <2>1. TakesOf(n, q) = "adopt" => q \in Kids(n)
    BY <1>1 DEF Growing, Placed, Adopting, Kids
  <2> QED
    BY <2>1, ListedKids DEF Handles
<1>8. Won(n)' => Due(n)' /\ m[n] = n
  BY <1>5 DEF Won
<1>a. Idle'
  <2> SUFFICES ASSUME NEW x \in Node, ~Joined(x)
               PROVE  /\ x \notin started' /\ srcUID'[x] = 0 /\ leaderUID'[x] = 0
                      /\ receivedParentMsg'[x] = 0 /\ receivedEcho'[x] = 0 /\ childUIDs'[x] = <<>>
                      /\ \A r \in Node, k \in Kinds : k \notin OnWay(x, r)' /\ (k \in OnWay(r, x)' => k = "explore")
    BY <1>2 DEF Idle
  <2>1. x # n /\ x # q
    BY <1>1, <1>6
  <2>2. /\ x \notin started /\ srcUID[x] = 0 /\ leaderUID[x] = 0
        /\ receivedParentMsg[x] = 0 /\ receivedEcho[x] = 0 /\ childUIDs[x] = <<>>
        /\ \A r \in Node, k \in Kinds : k \notin OnWay(x, r) /\ (k \in OnWay(r, x) => k = "explore")
    BY DEF Growing, Idle
  <2>3. ASSUME NEW r \in Node, NEW k \in Kinds PROVE k \notin OnWay(x, r)'
    BY <1>1, <2>1, <2>2 DEF Passes
  <2>4. ASSUME NEW r \in Node, NEW k \in Kinds, k \in OnWay(r, x)' PROVE k = "explore"
    <3>1. x # srcUID[n] /\ x \notin Listed(n)'
      BY <1>6, <1>7, KidsAsked
    <3>2. k \notin Types(out[x])
      BY <2>1 DEF Handles
    <3>3. k \in OnWay(r, x)
      BY <1>1, <1>5, <2>4, <3>1, <3>2 DEF Passes
    <3> QED
      BY <2>2, <3>3
  <2> QED
    BY <1>3, <1>5, <2>1, <2>2, <2>3, <2>4 DEF Handles
<1>b. Fathered'
  <2> SUFFICES ASSUME NEW x \in Node, Joined(x)
               PROVE  /\ srcUID'[x] = x <=> m'[x] = x
                      /\ srcUID'[x] \in Neigh[x] \cup {x} /\ Joined(srcUID[x])'
                      /\ sentExplore'[x] = Cardinality(Asked(x)')
    BY <1>2 DEF Fathered
  <2>1. /\ srcUID[x] = x <=> m[x] = x
        /\ srcUID[x] \in Neigh[x] \cup {x} /\ Joined(srcUID[x])
        /\ sentExplore[x] = Cardinality(Asked(x))
    BY DEF Growing, Fathered
  <2> QED
    BY <1>5, <2>1 DEF Asked, Joined
<1>c. Rooted'
  BY <1>2, <1>5 DEF Growing, Rooted
<1>d. Placed'
  <2> SUFFICES ASSUME NEW p \in Node, NEW r \in Node
               PROVE  /\ "explore" \in OnWay(p, r)' => Exploring(p, r)'
                      /\ "adopt" \in OnWay(p, r)' => Adopting(p, r)'
                      /\ "refuse" \in OnWay(p, r)' => Refusing(p, r)'
                      /\ "echo" \in OnWay(p, r)' => Echoing(p, r)'
                      /\ "leader" \in OnWay(p, r)' => Telling(p, r)'
    BY DEF Placed
  <2>1. ASSUME "explore" \in OnWay(p, r)' PROVE Exploring(p, r)'
    <3>1. "explore" \in OnWay(p, r) /\ ~(p = q /\ r = n /\ TakesOf(n, q) = "explore")
      BY <1>1, <1>4, <2>1 DEF Passes, Handles
    <3>2. Exploring(p, r)
      BY <3>1 DEF Growing, Placed
    <3>3. "refuse" \notin OnWay(r, p)'
      BY <1>1, <1>4, <3>1, <3>2 DEF Passes, Handles, Exploring
    <3> QED
      BY <1>2, <1>5, <3>2, <3>3 DEF Exploring
  <2>2. ASSUME "adopt" \in OnWay(p, r)' PROVE Adopting(p, r)'
    <3>1. "adopt" \in OnWay(p, r) /\ ~(p = q /\ r = n /\ TakesOf(n, q) = "adopt")
      BY <1>1, <1>4, <2>2 DEF Passes, Handles
    <3>2. Adopting(p, r)
      BY <3>1 DEF Growing, Placed
    <3>3. p \notin Listed(r)'
      BY <1>2, <3>1, <3>2 DEF Adopting, Handles
    <3> QED
      BY <1>5, <3>2, <3>3 DEF Adopting
  <2>3. ASSUME "refuse" \in OnWay(p, r)' PROVE Refusing(p, r)'
    <3>1. CASE "refuse" \in OnWay(p, r)
      <4>1. Refusing(p, r)
        BY <3>1 DEF Growing, Placed
      <4> QED
        BY <1>2, <1>5, <4>1 DEF Refusing
    <3>2. CASE "refuse" \notin OnWay(p, r)
      <4>1. p = n /\ r = q /\ TakesOf(n, q) = "explore"
        BY <1>1, <1>4, <2>3, <3>2 DEF Passes, Handles
      <4>2. Exploring(q, n)
        BY <1>1, <4>1 DEF Growing, Placed
      <4>3. n \in Neigh[q]
        BY <4>2, Known DEF Exploring
      <4> QED
        BY <1>1, <1>2, <1>5, <1>6, <4>1, <4>2, <4>3 DEF Exploring, Refusing
    <3> QED
      BY <3>1, <3>2
  <2>4. ASSUME "echo" \in OnWay(p, r)' PROVE Echoing(p, r)'
    <3>1. CASE "echo" \in OnWay(p, r)
      <4>1. Echoing(p, r)
        BY <3>1 DEF Growing, Placed
      <4>2. Due(p)'
        BY <1>2, <4>1 DEF Echoing, Forward
      <4> QED
        BY <1>5, <4>1, <4>2 DEF Echoing
    <3>2. CASE "echo" \notin OnWay(p, r)
      <4>1. p = n /\ Due(n)' /\ ~Won(n)' /\ r = srcUID'[n]
        BY <1>1, <1>4, <2>4, <3>2 DEF Passes, Handles
      <4>2. srcUID[n] # n
        BY <1>5, <1>6, <4>1 DEF Won
      <4> QED
        BY <1>5, <4>1, <4>2 DEF Echoing
    <3> QED
      BY <3>1, <3>2
  <2>5. ASSUME "leader" \in OnWay(p, r)' PROVE Telling(p, r)'
    <3>1. CASE "leader" \in OnWay(p, r)
      <4>1. Telling(p, r)
        BY <3>1 DEF Growing, Placed
      <4>2. ~(Won(n)' /\ r = n)
        BY <1>6, <1>8, <4>1 DEF Telling
      <4>3. leaderUID'[r] = 0 /\ leaderUID'[p] # 0
        BY <1>3, <1>6, <4>1, <4>2 DEF Telling
      <4> QED
        BY <1>5, <4>1, <4>3 DEF Telling
    <3>2. CASE "leader" \notin OnWay(p, r)
      <4>1. p = n /\ Won(n)' /\ r \in Listed(n)'
        BY <1>1, <1>4, <2>5, <3>2 DEF Passes, Handles
      <4>2. r # n /\ srcUID[r] = n
        BY <1>7, <4>1 DEF Kids
      <4>3. leaderUID[r] = 0
        BY <4>2 DEF Growing, Told, Handles
      <4>4. leaderUID'[n] # 0 /\ leaderUID'[r] = 0
        BY <1>3, <1>6, <4>1, <4>2, <4>3
      <4> QED
        BY <1>5, <4>1, <4>2, <4>4 DEF Telling
    <3> QED
      BY <3>1, <3>2
  <2> QED
    BY <2>1, <2>2, <2>3, <2>4, <2>5
<1>e. Listing'
  <2> SUFFICES ASSUME NEW x \in Node, NEW i \in DOMAIN childUIDs'[x], NEW j \in DOMAIN childUIDs'[x]
               PROVE  childUIDs'[x][i] \in Kids(x)' /\ (childUIDs'[x][i] = childUIDs'[x][j] => i = j)
    BY DEF Listing
  <2>1. CASE x = n
    <3>1. childUIDs'[n][i] \in Listed(n)'
      BY <2>1 DEF Listed
    <3> QED
      BY <1>2, <1>7, <2>1, <3>1 DEF Handles
  <2>2. CASE x # n
    <3>1. childUIDs'[x] = childUIDs[x]
      BY <2>2 DEF Handles
    <3> QED
      BY <1>2, <3>1 DEF Growing, Listing
  <2> QED
    BY <2>1, <2>2
<1>f. NotAhead'
  <2> SUFFICES ASSUME NEW x \in Node
               PROVE  /\ receivedParentMsg'[x] <= Cardinality(Heard(x)')
                      /\ receivedEcho'[x] <= Cardinality(Reported(x)')
    BY DEF NotAhead
  <2>1. CASE x = n
    BY <2>1
  <2>2. CASE x # n /\ Joined(x)
    BY <1>2, <2>2, SameAhead DEF Handles
  <2>3. CASE x # n /\ ~Joined(x)
    <3>1. receivedParentMsg'[x] = 0 /\ receivedEcho'[x] = 0
      BY <2>3 DEF Handles, Growing, Idle
    <3>2. Cardinality(Heard(x)') \in Nat /\ Cardinality(Reported(x)') \in Nat
      BY <1>2, Onward
    <3> QED
      BY <3>1, <3>2
  <2> QED
    BY <2>1, <2>2, <2>3
<1>g. Told'
  <2> SUFFICES ASSUME NEW x \in Node
               PROVE  /\ leaderUID'[x] # 0 => Due(x)' /\ leaderUID'[srcUID'[x]] # 0
                      /\ isLeader'[x] => leaderUID'[x] # 0 /\ m'[x] = x
    BY DEF Told
  <2>1. CASE Won(n)' /\ x = n
    BY <1>3, <1>5, <1>6, <1>8, <2>1
  <2>2. CASE ~(Won(n)' /\ x = n)
    <3>1. leaderUID'[x] = leaderUID[x] /\ isLeader'[x] = isLeader[x]
      BY <1>3, <2>2
    <3>2. /\ leaderUID[x] # 0 => Due(x) /\ leaderUID[srcUID[x]] # 0
          /\ isLeader[x] => leaderUID[x] # 0 /\ m[x] = x
      BY DEF Growing, Told
    <3>3. leaderUID[x] # 0 => srcUID[x] \in Node
      BY <3>2, Known DEF Due, Growing, Fathered
    <3>4. leaderUID[x] # 0 => leaderUID'[srcUID[x]] # 0
      BY <1>3, <1>6, <3>2, <3>3
    <3>5. Due(x) => Due(x)'
      BY <1>2 DEF Forward
    <3> QED
      BY <1>5, <3>1, <3>2, <3>4, <3>5
  <2> QED
    BY <2>1, <2>2
<1>h. Whole'
  <2> SUFFICES ASSUME lost = 0, NEW x \in Node, NEW c \in Kids(x)
               PROVE  c \in Listed(x)' \/ "adopt" \in OnWay(c, x)'
    BY <1>2 DEF Whole, Handles
  <2>1. c \in Listed(x) \/ "adopt" \in OnWay(c, x)
    BY DEF Growing, Whole
  <2>2. c \in Node
    BY DEF Kids
  <2>3. CASE c \in Listed(x)
    BY <1>2, <2>3 DEF Forward, Handles
  <2>4. CASE "adopt" \in OnWay(c, x) /\ ~(c = q /\ x = n /\ TakesOf(n, q) = "adopt")
    BY <1>1, <1>4, <2>2, <2>4 DEF Passes
  <2>5. CASE c = q /\ x = n /\ TakesOf(n, q) = "adopt"
    BY <2>5 DEF Handles
  <2> QED
    BY <2>1, <2>3, <2>4, <2>5
<1> QED
  BY <1>1, <1>a, <1>b, <1>c, <1>d, <1>e, <1>f, <1>g, <1>h DEF Growing

\* An answer to an explore.
LEMMA GrowChild ==
  ASSUME Inv, Inv', SoleCandidate, Growing, NEW n \in Node, NEW q \in Node, CountChild(n, q)
  PROVE  Growing'
<1>1. /\ chan[q][n] # <<>> /\ TakesOf(n, q) \in {"adopt", "refuse"} /\ leaderUID[n] = 0
      /\ UNCHANGED <<started, lost, m, receivedExplore, sentExplore, receivedEcho, srcUID>>
      /\ receivedParentMsg' = [receivedParentMsg EXCEPT ![n] = @ + 1]
      /\ childUIDs' = IF TakesOf(n, q) = "adopt" THEN [childUIDs EXCEPT ![n] = Append(@, q)] ELSE childUIDs
      /\ CheckSendEcho(n, q, Nothing)
  BY DEF CountChild, Takes, TakesOf
<1>2. /\ TakesOf(n, q) \in OnWay(q, n) /\ TakesOf(n, q) \in Kinds /\ q # n
      /\ Joined(q) /\ Joined(n)
  BY <1>1, Arrival DEF TakesOf
<1>3. /\ childUIDs \in [Node -> Seq(Node)] /\ receivedParentMsg \in [Node -> Nat]
  BY DEF Inv, Counters
<1>4. TakesOf(n, q) = "adopt" => q \in Kids(n) /\ q \notin Listed(n)
  BY <1>2 DEF Growing, Placed, Adopting, Kids
<1>5. /\ \A c : c \in Listed(n)' <=> c \in Listed(n) \/ (c = q /\ TakesOf(n, q) = "adopt")
      /\ \A i, j \in DOMAIN childUIDs'[n] : childUIDs'[n][i] = childUIDs'[n][j] => i = j
  <2>1. \A i, j \in DOMAIN childUIDs[n] : childUIDs[n][i] = childUIDs[n][j] => i = j
    BY DEF Growing, Listing
  <2>2. CASE TakesOf(n, q) = "refuse"
    BY <1>1, <2>1, <2>2 DEF Listed
  <2>3. CASE TakesOf(n, q) = "adopt"
    <3>1. PICK s \in Seq(Node) : s = childUIDs[n]
      BY <1>3
    <3>2. childUIDs'[n] = Append(s, q)
      BY <1>1, <1>3, <2>3, <3>1
    <3>3. /\ Len(s) \in Nat /\ DOMAIN s = 1 .. Len(s) /\ DOMAIN Append(s, q) = 1 .. Len(s) + 1
          /\ \A i \in 1 .. Len(s) : Append(s, q)[i] = s[i]
          /\ Append(s, q)[Len(s) + 1] = q
      OBVIOUS
    <3>4. \A i \in DOMAIN s : s[i] # q
      BY <1>4, <2>3, <3>1 DEF Listed
    <3>5. \A c : c \in Listed(n) <=> \E i \in 1 .. Len(s) : c = s[i]
      BY <3>1, <3>3 DEF Listed
    <3>6. \A c : c \in Listed(n)' <=> \E i \in 1 .. Len(s) + 1 : c = Append(s, q)[i]
      BY <3>2, <3>3 DEF Listed
    <3>7. \A i \in 1 .. Len(s) + 1 : i \in 1 .. Len(s) \/ i = Len(s) + 1
      BY <3>3
    <3>8. 1 .. Len(s) \subseteq 1 .. Len(s) + 1 /\ Len(s) + 1 \in 1 .. Len(s) + 1
      BY <3>3
    <3>9. ASSUME NEW c PROVE c \in Listed(n)' <=> c \in Listed(n) \/ c = q
      BY <3>3, <3>5, <3>6, <3>7, <3>8
    <3>10. ASSUME NEW i \in 1 .. Len(s) + 1, NEW j \in 1 .. Len(s) + 1, Append(s, q)[i] = Append(s, q)[j]
           PROVE  i = j
      BY <2>1, <3>1, <3>3, <3>4, <3>7, <3>10
    <3> QED
      BY <2>3, <3>2, <3>3, <3>9, <3>10
  <2> QED
    BY <1>1, <2>2, <2>3
<1>6. /\ \A r \in Node, k \in Kinds : k \notin Types(Nothing[r])
      /\ Fresh(n, Nothing) /\ Nothing \in Outgoing(About(Node))
  BY SendsNothing
<1>7. Handles(n, q, Nothing)
  BY <1>1, <1>2, <1>3, <1>5, <1>6 DEF Handles
<1>8. /\ Passes(n, q, Nothing) /\ Forward /\ \A x \in Node : (Joined(x)' <=> Joined(x)) /\ Kids(x)' = Kids(x)
  BY <1>6, <1>7, HandlesWhat, HandlesForward
<1>9. "explore" \notin OnWay(q, n) /\ (TakesOf(n, q) = "refuse" => "adopt" \notin OnWay(q, n))
  <2>1. chan[q][n] \in Seq(About(started)) /\ Orderly(chan[q][n])
    BY DEF Inv, Waves, Channels, Outgoing, Growing, Ordered
  <2>2. TakesOf(n, q) = "refuse" => "explore" \notin OnWay(q, n) /\ "adopt" \notin OnWay(q, n)
    BY <1>1, <2>1, TypesTail DEF OnWay, TakesOf
  <2>3. TakesOf(n, q) = "adopt" => "explore" \notin OnWay(q, n)
    BY <1>2 DEF Growing, Placed, Adopting, Exploring
  <2> QED
    BY <1>1, <2>2, <2>3
<1>10. q \in Heard(n)' /\ q \notin Heard(n)
  <2>1. q \in Asked(n)
    <3>1. CASE TakesOf(n, q) = "adopt"
      BY <1>4, <3>1, KidsAsked
    <3>2. CASE TakesOf(n, q) = "refuse"
      BY <1>2, <3>2 DEF Growing, Placed, Refusing, Asked
    <3> QED
      BY <1>1, <3>1, <3>2
  <2>2. "explore" \notin OnWay(n, q)
    BY <1>1, <1>2, <1>4 DEF Growing, Placed, Exploring, Kids
  <2>3. TakesOf(n, q) = "adopt" => "refuse" \notin OnWay(q, n)
    BY <1>2, <1>4 DEF Growing, Placed, Refusing, Kids
  <2>4. {"explore", "adopt", "refuse"} \subseteq Kinds
    BY DEF Kinds
  <2>5. Silent(q, n)'
    BY <1>1, <1>2, <1>6, <1>8, <1>9, <2>3, <2>4 DEF Passes, Silent
  <2>6. "explore" \notin OnWay(n, q)'
    BY <1>2, <1>6, <1>8, <2>2, <2>4 DEF Passes
  <2>7. srcUID'[q] = n => q \in Listed(n)'
    <3>1. TakesOf(n, q) = "refuse" => srcUID[q] # n
      BY <1>2 DEF Growing, Placed, Refusing
    <3> QED
      BY <1>1, <1>5, <3>1
  <2>8. q \in Asked(n)'
    BY <1>1, <2>1 DEF Asked
  <2>9. q \in Heard(n)'
    BY <1>2, <1>8, <2>5, <2>6, <2>7, <2>8 DEF Heard
  <2>10. q \notin Heard(n)
    BY <1>1, <1>2 DEF Heard, Silent
  <2> QED
    BY <2>9, <2>10
<1>11. receivedParentMsg'[n] <= Cardinality(Heard(n)')
  <2>1. Heard(n) \subseteq Heard(n)' /\ IsFiniteSet(Heard(n)') /\ Cardinality(Heard(n)') \in Nat
        /\ IsFiniteSet(Heard(n)) /\ Cardinality(Heard(n)) \in Nat
    BY <1>2, <1>8, Onward
  <2>2. Cardinality(Heard(n) \cup {q}) = Cardinality(Heard(n)) + 1
    BY <1>10, <2>1, FS_AddElement
  <2>3. Heard(n) \cup {q} \subseteq Heard(n)'
    BY <1>10, <2>1
  <2>4. Cardinality(Heard(n) \cup {q}) <= Cardinality(Heard(n)')
    BY <2>1, <2>3, FS_Subset
  <2>5. receivedParentMsg[n] <= Cardinality(Heard(n)) /\ receivedParentMsg'[n] = receivedParentMsg[n] + 1
        /\ receivedParentMsg[n] \in Nat
    BY <1>1, <1>3 DEF Growing, NotAhead
  <2> QED
    BY <2>1, <2>2, <2>4, <2>5
<1>12. receivedEcho'[n] <= Cardinality(Reported(n)')
  <2>1. Cardinality(Reported(n)) <= Cardinality(Reported(n)') /\ Cardinality(Reported(n)) \in Nat
        /\ Cardinality(Reported(n)') \in Nat
    BY <1>8, Onward, FS_Subset
  <2>2. receivedEcho[n] <= Cardinality(Reported(n)) /\ receivedEcho'[n] = receivedEcho[n] /\ receivedEcho[n] \in Nat
    BY <1>1, Known DEF Growing, NotAhead
  <2> QED
    BY <2>1, <2>2
<1> QED
  BY <1>6, <1>7, <1>11, <1>12, HandlesGrowing

\* An echo: the child is done, and has not been counted.
LEMMA GrowEcho ==
  ASSUME Inv, Inv', SoleCandidate, Growing, NEW n \in Node, NEW q \in Node, CountEcho(n, q)
  PROVE  Growing'
<1>1. /\ chan[q][n] # <<>> /\ TakesOf(n, q) = "echo" /\ leaderUID[n] = 0
      /\ UNCHANGED <<started, lost, m, receivedExplore, sentExplore, receivedParentMsg, childUIDs, srcUID>>
      /\ receivedEcho' = [receivedEcho EXCEPT ![n] = @ + 1]
      /\ CheckSendEcho(n, q, Nothing)
  BY DEF CountEcho, Takes, TakesOf
<1>2. "echo" \in OnWay(q, n) /\ "echo" \in Kinds /\ q # n /\ Joined(q) /\ Joined(n)
  BY <1>1, Arrival DEF TakesOf
<1>3. receivedEcho \in [Node -> Nat]
  BY DEF Inv, Counters
<1>4. Listed(n)' = Listed(n)
      /\ \A i, j \in DOMAIN childUIDs'[n] : childUIDs'[n][i] = childUIDs'[n][j] => i = j
  BY <1>1 DEF Listed, Growing, Listing
<1>5. /\ \A r \in Node, k \in Kinds : k \notin Types(Nothing[r])
      /\ Fresh(n, Nothing) /\ Nothing \in Outgoing(About(Node))
  BY SendsNothing
<1>6. Handles(n, q, Nothing)
  BY <1>1, <1>2, <1>3, <1>4, <1>5 DEF Handles
<1>7. /\ Passes(n, q, Nothing) /\ Forward /\ \A x \in Node : (Joined(x)' <=> Joined(x)) /\ Kids(x)' = Kids(x)
  BY <1>5, <1>6, HandlesWhat, HandlesForward
<1>8. q \in Reported(n)' /\ q \notin Reported(n)
  <2>1. q \in Kids(n) /\ Due(q)
    BY <1>2 DEF Growing, Placed, Echoing, Kids
  <2>2. "echo" \notin OnWay(q, n)'
    BY <1>1, <1>2, <1>5, <1>7 DEF Passes
  <2> QED
    BY <1>2, <1>7, <2>1, <2>2 DEF Reported, Forward
<1>9. receivedEcho'[n] <= Cardinality(Reported(n)')
  <2>1. Reported(n) \subseteq Reported(n)' /\ IsFiniteSet(Reported(n)') /\ Cardinality(Reported(n)') \in Nat
        /\ IsFiniteSet(Reported(n)) /\ Cardinality(Reported(n)) \in Nat
    BY <1>7, Onward
  <2>2. Cardinality(Reported(n) \cup {q}) = Cardinality(Reported(n)) + 1
    BY <1>8, <2>1, FS_AddElement
  <2>3. Reported(n) \cup {q} \subseteq Reported(n)'
    BY <1>8, <2>1
  <2>4. Cardinality(Reported(n) \cup {q}) <= Cardinality(Reported(n)')
    BY <2>1, <2>3, FS_Subset
  <2>5. receivedEcho[n] <= Cardinality(Reported(n)) /\ receivedEcho'[n] = receivedEcho[n] + 1
        /\ receivedEcho[n] \in Nat
    BY <1>1, <1>3 DEF Growing, NotAhead
  <2> QED
    BY <2>1, <2>2, <2>4, <2>5
<1>10. receivedParentMsg'[n] <= Cardinality(Heard(n)')
  <2>1. Cardinality(Heard(n)) <= Cardinality(Heard(n)') /\ Cardinality(Heard(n)) \in Nat
        /\ Cardinality(Heard(n)') \in Nat
    BY <1>2, <1>7, Onward, FS_Subset
  <2>2. receivedParentMsg[n] <= Cardinality(Heard(n)) /\ receivedParentMsg'[n] = receivedParentMsg[n]
        /\ receivedParentMsg[n] \in Nat
    BY <1>1, Known DEF Growing, NotAhead
  <2> QED
    BY <2>1, <2>2
<1> QED
  BY <1>5, <1>6, <1>9, <1>10, HandlesGrowing

\* An explore of the wave n takes part in.
LEMMA GrowRefuse ==
  ASSUME Inv, Inv', SoleCandidate, Growing, NEW n \in Node, NEW q \in Node, RefuseWave(n, q)
  PROVE  Growing'
<1> DEFINE msg == Child(Wave(n, q), FALSE)
           out == To({q}, msg)
<1>1. /\ chan[q][n] # <<>> /\ TakesOf(n, q) = "explore" /\ leaderUID[n] = 0 /\ Wave(n, q) = m[n]
      /\ UNCHANGED <<started, lost, m, receivedEcho, sentExplore, receivedParentMsg, childUIDs, srcUID>>
      /\ receivedExplore' = [receivedExplore EXCEPT ![n] = @ + 1]
      /\ CheckSendEcho(n, q, out)
  BY DEF RefuseWave, Takes, TakesOf
<1>2. Wave(n, q) \in started /\ Wave(n, q) \in Node /\ Wave(n, q) # 0
  BY <1>1, WaveStarted, Known
<1>3. "explore" \in OnWay(q, n) /\ "explore" \in Kinds /\ q # n /\ Joined(q) /\ Joined(n)
  BY <1>1, <1>2, Arrival DEF TakesOf, Joined
<1>4. msg \in About(Node) /\ msg.type = "refuse"
  BY <1>2 DEF Child, About, Kinds
<1>5. "refuse" \notin OnWay(n, q)
  BY <1>3 DEF Growing, Placed, Exploring
<1>6. /\ \A r \in Node, k \in Kinds : k \in Types(out[r]) <=> r \in {q} /\ k = "refuse"
      /\ Fresh(n, out) /\ out \in Outgoing(About(Node))
  <2>1. PICK a \in About(Node) : a = msg
    BY <1>4
  <2>2. (\A r \in {q} : a.type \notin OnWay(n, r)) /\ a.type \notin {"explore", "adopt"}
    BY <1>4, <1>5, <2>1
  <2>3. /\ \A r \in Node, k \in Kinds : k \in Types(To({q}, a)[r]) <=> r \in {q} /\ k = a.type
        /\ Fresh(n, To({q}, a)) /\ To({q}, a) \in Outgoing(About(Node))
    BY <2>2, SendsTo
  <2> QED
    BY <1>4, <2>1, <2>3
<1> HIDE DEF out, msg
<1>7. Listed(n)' = Listed(n)
      /\ \A i, j \in DOMAIN childUIDs'[n] : childUIDs'[n][i] = childUIDs'[n][j] => i = j
  BY <1>1 DEF Listed, Growing, Listing
<1>8. receivedExplore \in [Node -> Nat]
  BY DEF Inv, Counters
<1>9. Handles(n, q, out)
  BY <1>1, <1>3, <1>6, <1>7, <1>8 DEF Handles
<1>10. Forward
  BY <1>6, <1>9, HandlesForward
<1>11. receivedParentMsg'[n] <= Cardinality(Heard(n)') /\ receivedEcho'[n] <= Cardinality(Reported(n)')
  BY <1>1, <1>3, <1>10, SameAhead
<1> QED
  BY <1>6, <1>9, <1>11, HandlesGrowing

-----------------------------------------------------------------------------
(***************************************************************************)
(* A node that joins.                                                      *)
(***************************************************************************)
LEMMA GrowJoin ==
  ASSUME Inv, Inv', SoleCandidate, Growing, NEW n \in Node, NEW q \in Node, JoinWave(n, q)
  PROVE  Growing'
<1> DEFINE w == Wave(n, q)
           out == Then(To({q}, Child(w, TRUE)), To(Neigh[n] \ {q}, Explore(w)))
<1>1. /\ chan[q][n] # <<>> /\ TakesOf(n, q) = "explore" /\ leaderUID[n] = 0 /\ Evicts(n, q)
      /\ UNCHANGED <<started, lost, receivedEcho>>
      /\ m' = [m EXCEPT ![n] = w]
      /\ receivedParentMsg' = [receivedParentMsg EXCEPT ![n] = 0]
      /\ receivedExplore' = [receivedExplore EXCEPT ![n] = 1]
      /\ sentExplore' = [sentExplore EXCEPT ![n] = Cardinality(Neigh[n] \ {q})]
      /\ childUIDs' = [childUIDs EXCEPT ![n] = <<>>]
      /\ srcUID' = [srcUID EXCEPT ![n] = q]
      /\ CheckSendEcho(n, q, out)
  BY DEF JoinWave, Takes, TakesOf
<1>2. w \in started /\ w \in Node /\ w # 0 /\ n # 0 /\ q # 0
  BY <1>1, WaveStarted, Known
<1>3. "explore" \in OnWay(q, n) /\ q # n /\ Joined(q) /\ ~Joined(n)
  <2>1. "explore" \in OnWay(q, n) /\ q # n /\ Joined(q) /\ (Joined(n) => w = m[n])
    BY <1>1, Arrival DEF TakesOf
  <2>2. w \in Nat /\ ~(w > w)
    BY <1>1, WaveStarted
  <2> QED
    BY <1>1, <2>1, <2>2 DEF Evicts
<1>4. Kinds = {"explore", "adopt", "refuse", "echo", "leader"}
  BY DEF Kinds
<1>5. /\ n \notin started /\ srcUID[n] = 0 /\ leaderUID[n] = 0
      /\ receivedParentMsg[n] = 0 /\ receivedEcho[n] = 0 /\ childUIDs[n] = <<>>
      /\ \A r \in Node, k \in Kinds : k \notin OnWay(n, r) /\ (k \in OnWay(r, n) => k = "explore")
  BY <1>3 DEF Growing, Idle
<1>6. Exploring(q, n) /\ q \in Neigh[n] /\ n \in Neigh[q] /\ srcUID[q] # n
  <2>1. Exploring(q, n)
    BY <1>3 DEF Growing, Placed
  <2> QED
    BY <2>1, Known DEF Exploring
<1>7. /\ \A r \in Node, k \in Kinds : k \in Types(out[r]) <=> \/ r = q /\ k = "adopt"
                                                              \/ r \in Neigh[n] \ {q} /\ k = "explore"
      /\ Fresh(n, out) /\ out \in Outgoing(About(Node))
  <2> DEFINE a == Child(w, TRUE)
             b == Explore(w)
             none == <<>>
  <2>1. a \in About(Node) /\ a.type = "adopt" /\ b \in About(Node) /\ b.type = "explore"
    BY <1>2 DEF Child, Explore, About, Kinds
  <2> HIDE DEF a, b
  <2>2. \A r \in Node, k \in Kinds : k \notin OnWay(n, r)
    BY <1>5
  <2>3. \A r \in Neigh[n] \ {q} : r \in Node
    BY Known
  <2>4. PICK x \in About(Node) : x = a
    BY <2>1
  <2>5. PICK y \in About(Node) : y = b
    BY <2>1
  <2>6. /\ \A r \in Node, k \in Kinds : k \in Types(To({q}, x)[r]) <=> r \in {q} /\ k = x.type
        /\ Fresh(n, To({q}, x)) /\ To({q}, x) \in Outgoing(About(Node))
    <3>1. x.type \in Kinds /\ \A r \in {q} : x.type \notin OnWay(n, r)
      BY <2>1, <2>2, <2>4, <1>4
    <3>2. \A r \in {q}, k \in Kinds : k \notin OnWay(n, r)
      BY <2>2
    <3> QED
      BY <3>1, <3>2, SendsTo
  <2>7. /\ \A r \in Node, k \in Kinds : k \in Types(To(Neigh[n] \ {q}, y)[r]) <=> r \in Neigh[n] \ {q} /\ k = y.type
        /\ Fresh(n, To(Neigh[n] \ {q}, y)) /\ To(Neigh[n] \ {q}, y) \in Outgoing(About(Node))
    <3>1. y.type \in Kinds /\ \A r \in Neigh[n] \ {q} : y.type \notin OnWay(n, r)
      BY <2>1, <2>2, <2>3, <2>5, <1>4
    <3>2. \A r \in Neigh[n] \ {q}, k \in Kinds : k \notin OnWay(n, r)
      BY <2>2, <2>3
    <3> QED
      BY <3>1, <3>2, SendsTo
  <2> DEFINE oa == To({q}, x)
             ob == To(Neigh[n] \ {q}, y)
  <2>8. out = Then(oa, ob)
    BY <2>4, <2>5 DEF a, b
  <2> HIDE DEF oa, ob
  <2>9. /\ \A r \in Node, k \in Kinds : k \in Types(oa[r]) <=> r = q /\ k = "adopt"
        /\ \A r \in Node, k \in Kinds : k \in Types(ob[r]) <=> r \in Neigh[n] \ {q} /\ k = "explore"
        /\ oa \in Outgoing(About(Node)) /\ ob \in Outgoing(About(Node)) /\ Fresh(n, oa) /\ Fresh(n, ob)
    BY <2>1, <2>4, <2>5, <2>6, <2>7 DEF oa, ob
  <2>10. Then(oa, ob) \in Outgoing(About(Node))
    BY <2>9, ThenType
  <2>11. ASSUME NEW r \in Node
         PROVE  /\ \A k : k \in Types(Then(oa, ob)[r]) <=> k \in Types(oa[r]) \/ k \in Types(ob[r])
                /\ Orderly(Then(oa, ob)[r])
    <3>1. /\ Then(oa, ob)[r] = oa[r] \o ob[r]
          /\ oa[r] \in Seq(About(Node)) /\ ob[r] \in Seq(About(Node))
          /\ Orderly(oa[r]) /\ Orderly(ob[r])
      BY <2>9 DEF Then, Outgoing, Fresh
    <3>2. Types(oa[r]) \subseteq Kinds /\ Types(ob[r]) \subseteq Kinds
          /\ ((\A k \in Kinds : k \notin Types(oa[r])) => oa[r] = <<>>)
      BY <3>1, TypesOf
    <3>3. \A k : k \in Types(ob[r]) => k \notin Types(oa[r])
      BY <2>9, <3>2
    <3>4. oa[r] = <<>> \/ ("explore" \notin Types(ob[r]) /\ "adopt" \notin Types(ob[r]))
      BY <1>4, <2>9, <3>2
    <3>5. Orderly(oa[r] \o ob[r])
      BY <3>1, <3>3, <3>4, OrderlyConcat
    <3>6. \A k : k \in Types(oa[r] \o ob[r]) <=> k \in Types(oa[r]) \/ k \in Types(ob[r])
      BY <3>1, TypesOf
    <3> QED
      BY <3>1, <3>5, <3>6
  <2>12. Fresh(n, Then(oa, ob))
    <3>1. ASSUME NEW r \in Node, NEW k \in Types(Then(oa, ob)[r]) PROVE k \notin OnWay(n, r)
      <4>1. Then(oa, ob)[r] \in Seq(About(Node))
        BY <2>10 DEF Outgoing
      <4>2. k \in Kinds
        BY <4>1, TypesOf
      <4> QED
        BY <2>2, <4>2
    <3> QED
      BY <2>2, <2>11, <3>1 DEF Fresh
  <2> QED
    BY <2>8, <2>9, <2>10, <2>11, <2>12
<1> HIDE DEF out, w
<1>8. /\ m \in [Node -> Node \cup {0}] /\ srcUID \in [Node -> Node \cup {0}] /\ childUIDs \in [Node -> Seq(Node)]
      /\ receivedParentMsg \in [Node -> Nat] /\ receivedExplore \in [Node -> Nat] /\ sentExplore \in [Node -> Nat]
      /\ leaderUID \in [Node -> Node \cup {0}] /\ isLeader \in [Node -> BOOLEAN]
  BY DEF Inv, Waves, Counters, StartedWant
<1>9. /\ m'[n] = w /\ srcUID'[n] = q /\ childUIDs'[n] = <<>> /\ receivedParentMsg'[n] = 0 /\ receivedEcho'[n] = 0
      /\ sentExplore'[n] = Cardinality(Neigh[n] \ {q})
      /\ \A x \in Node : x # n =>
           /\ m'[x] = m[x] /\ srcUID'[x] = srcUID[x] /\ childUIDs'[x] = childUIDs[x]
           /\ receivedParentMsg'[x] = receivedParentMsg[x] /\ receivedEcho'[x] = receivedEcho[x]
           /\ receivedExplore'[x] = receivedExplore[x] /\ sentExplore'[x] = sentExplore[x]
  BY <1>1, <1>5, <1>8
<1>10. /\ Joined(n)' /\ m'[n] # n /\ ~Won(n)'
       /\ \A x \in Node : x # n => (Joined(x)' <=> Joined(x)) /\ (Due(x)' <=> Due(x)) /\ Listed(x)' = Listed(x)
       /\ Listed(n)' = {} /\ Listed(n) = {} /\ ~Due(n)
  <2>1. Joined(n)' /\ m'[n] # n /\ ~Won(n)'
    BY <1>2, <1>5, <1>9 DEF Joined, Won
  <2>2. \A x \in Node : x # n => (Joined(x)' <=> Joined(x)) /\ (Due(x)' <=> Due(x)) /\ Listed(x)' = Listed(x)
    BY <1>9 DEF Joined, Due, Listed
  <2>3. Listed(n)' = {} /\ Listed(n) = {} /\ ~Due(n)
    BY <1>3, <1>5, <1>9, EmptySeq DEF Listed, Due
  <2> QED
    BY <2>1, <2>2, <2>3
<1>11. /\ \A p, r \in Node, k \in Kinds :
            k \in OnWay(p, r)' <=> \/ k \in OnWay(p, r) /\ ~(p = q /\ r = n /\ k = "explore")
                                   \/ p = n /\ r = q /\ k = "adopt"
                                   \/ p = n /\ r \in Neigh[n] \ {q} /\ k = "explore"
                                   \/ p = n /\ r = q /\ k = "echo" /\ Due(n)'
       /\ Ordered' /\ leaderUID' = leaderUID /\ isLeader' = isLeader
  <2>1. \A r \in Node : /\ "echo" \notin OnWay(n, r) /\ "leader" \notin OnWay(n, r)
                        /\ "echo" \notin Types(out[r]) /\ "leader" \notin Types(out[r])
    BY <1>4, <1>5, <1>7
  <2>2. \A i, j \in DOMAIN childUIDs'[n] : childUIDs'[n][i] = childUIDs'[n][j] => i = j
    BY <1>9, EmptySeq
  <2>3. (srcUID'[n] = n <=> m'[n] = n) /\ srcUID'[n] \in Neigh[n] \cup {n}
    BY <1>3, <1>6, <1>9, <1>10
  <2>4. /\ \A p, r \in Node, k \in Kinds :
              k \in OnWay(p, r)' <=> \/ k \in OnWay(p, r) /\ ~(p = q /\ r = n /\ k = Head(chan[q][n]).type)
                                     \/ p = n /\ k \in Types(out[r])
                                     \/ p = n /\ k = "echo" /\ Due(n)' /\ ~Won(n)' /\ r = srcUID'[n]
                                     \/ p = n /\ k = "leader" /\ Won(n)' /\ r \in Listed(n)'
        /\ Ordered'
        /\ leaderUID' = IF Won(n)' THEN [leaderUID EXCEPT ![n] = n] ELSE leaderUID
        /\ isLeader' = IF Won(n)' THEN [isLeader EXCEPT ![n] = TRUE] ELSE isLeader
    <3>1. Ordered
      BY DEF Growing
    <3> QED
      BY <1>1, <1>3, <1>7, <1>10, <2>1, <2>2, <2>3, <3>1, Tailed
  <2> QED
    BY <1>1, <1>7, <1>9, <1>10, <2>4 DEF TakesOf
<1>12. Forward
  <2>1. ASSUME NEW x \in Node
        PROVE  /\ Joined(x) => m'[x] = m[x] /\ srcUID'[x] = srcUID[x]
               /\ Joined(x) => Listed(x) \subseteq Listed(x)'
               /\ Due(x) => Due(x)'
    BY <1>3, <1>9, <1>10
  <2>2. ASSUME NEW p \in Node, NEW r \in Node
        PROVE  /\ Gets(p, r, "explore") => ~Joined(p)
               /\ Gets(p, r, "adopt") \/ Gets(p, r, "refuse") => "explore" \in OnWay(r, p)
               /\ Gets(p, r, "echo") => ~Due(p)
    BY <1>3, <1>4, <1>10, <1>11 DEF Gets
  <2> QED
    BY <2>1, <2>2 DEF Forward
<1>13. \A x \in Node : Kids(x)' = IF x = q THEN Kids(q) \cup {n} ELSE Kids(x)
  BY <1>2, <1>3, <1>5, <1>9, Known DEF Kids
<1>14. \A c \in Node : srcUID[c] # n
  <2> SUFFICES ASSUME NEW c \in Node, srcUID[c] = n PROVE FALSE
    OBVIOUS
  <2>1. Joined(c)
    BY <1>2 DEF Growing, Idle
  <2> QED
    BY <1>3, <2>1 DEF Growing, Fathered
<1>a. Idle'
  <2> SUFFICES ASSUME NEW x \in Node, ~Joined(x)'
               PROVE  /\ x \notin started' /\ srcUID'[x] = 0 /\ leaderUID'[x] = 0
                      /\ receivedParentMsg'[x] = 0 /\ receivedEcho'[x] = 0 /\ childUIDs'[x] = <<>>
                      /\ \A r \in Node, k \in Kinds : k \notin OnWay(x, r)' /\ (k \in OnWay(r, x)' => k = "explore")
    BY DEF Idle
  <2>1. x # n /\ ~Joined(x) /\ x # q
    BY <1>3, <1>10
  <2>2. /\ x \notin started /\ srcUID[x] = 0 /\ leaderUID[x] = 0
        /\ receivedParentMsg[x] = 0 /\ receivedEcho[x] = 0 /\ childUIDs[x] = <<>>
        /\ \A r \in Node, k \in Kinds : k \notin OnWay(x, r) /\ (k \in OnWay(r, x) => k = "explore")
    BY <2>1 DEF Growing, Idle
  <2>3. \A r \in Node, k \in Kinds : k \notin OnWay(x, r)' /\ (k \in OnWay(r, x)' => k = "explore")
    BY <1>11, <2>1, <2>2
  <2> QED
    BY <1>1, <1>9, <1>11, <2>1, <2>2, <2>3
<1>b. Fathered'
  <2> SUFFICES ASSUME NEW x \in Node, Joined(x)'
               PROVE  /\ srcUID'[x] = x <=> m'[x] = x
                      /\ srcUID'[x] \in Neigh[x] \cup {x} /\ Joined(srcUID[x])'
                      /\ sentExplore'[x] = Cardinality(Asked(x)')
    BY DEF Fathered
  <2>1. CASE x = n
    BY <1>3, <1>6, <1>9, <1>10, <2>1 DEF Asked, Joined
  <2>2. CASE x # n
    <3>1. /\ srcUID[x] = x <=> m[x] = x
          /\ srcUID[x] \in Neigh[x] \cup {x} /\ Joined(srcUID[x])
          /\ sentExplore[x] = Cardinality(Asked(x))
      BY <1>10, <2>2 DEF Growing, Fathered
    <3>2. srcUID[x] # n /\ srcUID[x] \in Node
      BY <1>14, <3>1, Known
    <3> QED
      BY <1>9, <2>2, <3>1, <3>2 DEF Asked, Joined
  <2> QED
    BY <2>1, <2>2
<1>c. Rooted'
  <2> SUFFICES ASSUME NEW S \in SUBSET Node, S # {}, \A x \in S : Joined(x)' /\ srcUID'[x] \in S
               PROVE  \E r \in S : m'[r] = r
    BY DEF Rooted
  <2>1. CASE n \notin S
    <3>1. \A x \in S : Joined(x) /\ srcUID[x] \in S
      BY <1>9, <1>10, <2>1
    <3>2. PICK r \in S : m[r] = r
      BY <3>1 DEF Growing, Rooted
    <3> QED
      BY <1>9, <2>1, <3>2
  <2>2. CASE n \in S
    <3> DEFINE T == S \ {n}
    <3>1. q \in T /\ T \in SUBSET Node /\ T # {}
      BY <1>3, <1>9, <2>2
    <3>2. \A x \in T : Joined(x) /\ srcUID[x] \in T
      BY <1>9, <1>10, <1>14
    <3>3. PICK r \in T : m[r] = r
      BY <3>1, <3>2 DEF Growing, Rooted
    <3> QED
      BY <1>9, <3>3
  <2> QED
    BY <2>1, <2>2
<1>d. Placed'
  <2> SUFFICES ASSUME NEW p \in Node, NEW r \in Node
               PROVE  /\ "explore" \in OnWay(p, r)' => Exploring(p, r)'
                      /\ "adopt" \in OnWay(p, r)' => Adopting(p, r)'
                      /\ "refuse" \in OnWay(p, r)' => Refusing(p, r)'
                      /\ "echo" \in OnWay(p, r)' => Echoing(p, r)'
                      /\ "leader" \in OnWay(p, r)' => Telling(p, r)'
    BY DEF Placed
  <2>1. ASSUME "explore" \in OnWay(p, r)' PROVE Exploring(p, r)'
    <3>1. CASE "explore" \in OnWay(p, r)
      <4>1. ~(p = q /\ r = n) /\ p # n
        BY <1>4, <1>5, <1>11, <2>1, <3>1
      <4>2. Exploring(p, r)
        BY <3>1 DEF Growing, Placed
      <4>3. "refuse" \notin OnWay(r, p)'
        BY <1>4, <1>11, <4>2 DEF Exploring
      <4>4. srcUID'[r] # p
        BY <1>9, <4>1, <4>2 DEF Exploring
      <4> QED
        BY <1>9, <1>10, <4>1, <4>2, <4>3, <4>4 DEF Exploring
    <3>2. CASE "explore" \notin OnWay(p, r)
      <4>1. p = n /\ r \in Neigh[n] \ {q}
        BY <1>4, <1>11, <2>1, <3>2
      <4>2. n \in Neigh[r] /\ r # n
        BY <4>1, Known
      <4>3. "refuse" \notin OnWay(r, n)'
        BY <1>4, <1>5, <1>11, <4>2
      <4>4. srcUID'[r] # n
        BY <1>9, <1>14, <4>2
      <4> QED
        BY <1>9, <1>10, <4>1, <4>2, <4>3, <4>4 DEF Exploring
    <3> QED
      BY <3>1, <3>2
  <2>2. ASSUME "adopt" \in OnWay(p, r)' PROVE Adopting(p, r)'
    <3>1. CASE "adopt" \in OnWay(p, r)
      <4>1. p # n /\ Adopting(p, r)
        BY <1>4, <1>5, <3>1 DEF Growing, Placed
      <4> QED
        BY <1>9, <1>10, <4>1 DEF Adopting
    <3>2. CASE "adopt" \notin OnWay(p, r)
      <4>1. p = n /\ r = q
        BY <1>4, <1>11, <2>2, <3>2
      <4>2. n \notin Listed(q)'
        <5>1. Listed(q) \subseteq Kids(q) /\ n \notin Kids(q)
          BY <1>6, <1>5, <1>2, ListedKids DEF Kids
        <5> QED
          BY <1>3, <1>10, <5>1
      <4> QED
        BY <1>3, <1>9, <4>1, <4>2 DEF Adopting
    <3> QED
      BY <3>1, <3>2
  <2>3. ASSUME "refuse" \in OnWay(p, r)' PROVE Refusing(p, r)'
    <3>1. "refuse" \in OnWay(p, r)
      BY <1>4, <1>11, <2>3
    <3>2. p # n /\ r # n /\ Refusing(p, r)
      BY <1>4, <1>5, <3>1 DEF Growing, Placed
    <3> QED
      BY <1>9, <1>10, <3>2 DEF Refusing
  <2>4. ASSUME "echo" \in OnWay(p, r)' PROVE Echoing(p, r)'
    <3>1. CASE "echo" \in OnWay(p, r)
      <4>1. p # n /\ Echoing(p, r)
        BY <1>4, <1>5, <3>1 DEF Growing, Placed
      <4> QED
        BY <1>9, <1>10, <4>1 DEF Echoing
    <3>2. CASE "echo" \notin OnWay(p, r)
      <4>1. p = n /\ r = q /\ Due(n)'
        BY <1>4, <1>11, <2>4, <3>2
      <4> QED
        BY <1>3, <1>9, <4>1 DEF Echoing
    <3> QED
      BY <3>1, <3>2
  <2>5. ASSUME "leader" \in OnWay(p, r)' PROVE Telling(p, r)'
    <3>1. "leader" \in OnWay(p, r)
      BY <1>4, <1>11, <2>5
    <3>2. p # n /\ r # n /\ Telling(p, r)
      BY <1>4, <1>5, <3>1 DEF Growing, Placed
    <3> QED
      BY <1>9, <1>11, <3>2 DEF Telling
  <2> QED
    BY <2>1, <2>2, <2>3, <2>4, <2>5
<1>e. Listing'
  <2> SUFFICES ASSUME NEW x \in Node, NEW i \in DOMAIN childUIDs'[x], NEW j \in DOMAIN childUIDs'[x]
               PROVE  childUIDs'[x][i] \in Kids(x)' /\ (childUIDs'[x][i] = childUIDs'[x][j] => i = j)
    BY DEF Listing
  <2>1. x # n
    BY <1>9, EmptySeq
  <2>2. childUIDs'[x] = childUIDs[x]
    BY <1>9, <2>1
  <2>3. Kids(x) \subseteq Kids(x)'
    BY <1>13
  <2> QED
    BY <2>2, <2>3 DEF Growing, Listing
<1>f. NotAhead'
  <2> SUFFICES ASSUME NEW x \in Node
               PROVE  /\ receivedParentMsg'[x] <= Cardinality(Heard(x)')
                      /\ receivedEcho'[x] <= Cardinality(Reported(x)')
    BY DEF NotAhead
  <2>1. CASE Joined(x)
    BY <1>3, <1>9, <1>12, <2>1, SameAhead
  <2>2. CASE ~Joined(x)
    <3>1. receivedParentMsg[x] = 0 /\ receivedEcho[x] = 0
      BY <2>2 DEF Growing, Idle
    <3>2. receivedParentMsg'[x] = 0 /\ receivedEcho'[x] = 0
      BY <1>9, <3>1
    <3>3. Cardinality(Heard(x)') \in Nat /\ Cardinality(Reported(x)') \in Nat
      BY <1>12, Onward
    <3> QED
      BY <3>2, <3>3
  <2> QED
    BY <2>1, <2>2
<1>g. Told'
  <2> SUFFICES ASSUME NEW x \in Node
               PROVE  /\ leaderUID'[x] # 0 => Due(x)' /\ leaderUID'[srcUID'[x]] # 0
                      /\ isLeader'[x] => leaderUID'[x] # 0 /\ m'[x] = x
    BY DEF Told
  <2>1. /\ leaderUID[x] # 0 => Due(x) /\ leaderUID[srcUID[x]] # 0
        /\ isLeader[x] => leaderUID[x] # 0 /\ m[x] = x
    BY DEF Growing, Told
  <2>2. CASE x = n
    BY <1>5, <1>11, <2>1, <2>2
  <2>3. CASE x # n
    BY <1>9, <1>10, <1>11, <2>1, <2>3
  <2> QED
    BY <2>2, <2>3
<1>h. Whole'
  <2> SUFFICES ASSUME lost = 0, NEW x \in Node, NEW c \in Kids(x)'
               PROVE  c \in Listed(x)' \/ "adopt" \in OnWay(c, x)'
    BY <1>1 DEF Whole
  <2>1. CASE c \in Kids(x)
    <3>1. c \in Listed(x) \/ "adopt" \in OnWay(c, x)
      BY <2>1 DEF Growing, Whole
    <3>2. c \in Node /\ x # n
      BY <1>14, <2>1 DEF Kids
    <3> QED
      BY <1>4, <1>10, <1>11, <3>1, <3>2
  <2>2. CASE c \notin Kids(x)
    <3>1. x = q /\ c = n
      BY <1>13, <2>2
    <3> QED
      BY <1>4, <1>11, <3>1
  <2> QED
    BY <2>1, <2>2
<1> QED
  BY <1>11, <1>a, <1>b, <1>c, <1>d, <1>e, <1>f, <1>g, <1>h DEF Growing

-----------------------------------------------------------------------------
(***************************************************************************)
(* The result, a start, a loss.                                            *)
(***************************************************************************)
\* A step that leaves the tree and the counters as they are.
Fields == <<m, srcUID, childUIDs, receivedParentMsg, receivedEcho, receivedExplore, sentExplore, started>>

LEMMA SameTree ==
  ASSUME Inv, Growing, UNCHANGED Fields
  PROVE  /\ \A x \in Node : /\ Joined(x)' <=> Joined(x)
                            /\ Due(x)' <=> Due(x)
                            /\ Kids(x)' = Kids(x) /\ Listed(x)' = Listed(x)
         /\ Fathered' /\ Rooted' /\ Listing'
<1>1. \A x \in Node : /\ Joined(x)' <=> Joined(x)
                      /\ Due(x)' <=> Due(x)
                      /\ Kids(x)' = Kids(x) /\ Listed(x)' = Listed(x)
  BY DEF Fields, Joined, Due, Kids, Listed
<1>2. ASSUME NEW x \in Node, Joined(x)
      PROVE  /\ srcUID'[x] = x <=> m'[x] = x
             /\ srcUID'[x] \in Neigh[x] \cup {x} /\ Joined(srcUID[x])'
             /\ sentExplore'[x] = Cardinality(Asked(x)')
  <2>1. /\ srcUID[x] = x <=> m[x] = x
        /\ srcUID[x] \in Neigh[x] \cup {x} /\ Joined(srcUID[x])
        /\ sentExplore[x] = Cardinality(Asked(x))
    BY <1>2 DEF Growing, Fathered
  <2> QED
    BY <2>1 DEF Fields, Asked, Joined
<1>3. Fathered'
  BY <1>1, <1>2 DEF Fathered
<1>4. Rooted'
  BY <1>1 DEF Growing, Rooted, Fields
<1>5. Listing'
  BY <1>1 DEF Growing, Listing, Fields
<1> QED
  BY <1>1, <1>3, <1>4, <1>5

\* The counters stay behind if nothing is sent that they count.
LEMMA SameCounts ==
  ASSUME Inv, Growing, UNCHANGED Fields,
         \A p, r \in Node : \A k \in {"explore", "adopt", "refuse", "echo"} : ~Gets(p, r, k)
  PROVE  Forward /\ NotAhead'
<1>1. \A x \in Node : /\ Joined(x)' <=> Joined(x)
                      /\ Due(x)' <=> Due(x)
                      /\ Kids(x)' = Kids(x) /\ Listed(x)' = Listed(x)
  BY SameTree
<1>2. Forward
  BY <1>1 DEF Forward, Fields
<1>3. ASSUME NEW x \in Node
      PROVE  /\ receivedParentMsg'[x] <= Cardinality(Heard(x)')
             /\ receivedEcho'[x] <= Cardinality(Reported(x)')
  <2>1. CASE Joined(x)
    BY <1>2, <2>1, SameAhead DEF Fields
  <2>2. CASE ~Joined(x)
    <3>1. receivedParentMsg'[x] = 0 /\ receivedEcho'[x] = 0
      BY <2>2 DEF Growing, Idle, Fields
    <3>2. Cardinality(Heard(x)') \in Nat /\ Cardinality(Reported(x)') \in Nat
      BY <1>2, Onward
    <3> QED
      BY <3>1, <3>2
  <2> QED
    BY <2>1, <2>2
<1> QED
  BY <1>2, <1>3 DEF NotAhead

\* n learns the leader from its parent and tells its children.
LEMMA GrowLeader ==
  ASSUME Inv, Inv', SoleCandidate, Growing, NEW n \in Node, NEW q \in Node, handle_leader(n, q)
  PROVE  Growing'
<1> DEFINE w == Wave(n, q)
           out == PropagateChilds(childUIDs[n], LeaderMsg(w))
<1>1. /\ chan[q][n] # <<>> /\ Head(chan[q][n]).type = "leader"
      /\ UNCHANGED <<lost, isLeader>> /\ UNCHANGED Fields
      /\ leaderUID' = [leaderUID EXCEPT ![n] = w]
      /\ chan' = Exchanged(chan, q, n, out)
  BY DEF handle_leader, Takes, Fields
<1>2. w \in started /\ w \in Node /\ w # 0 /\ n # 0 /\ started \subseteq Node
  BY <1>1, WaveStarted, Known
<1>3. "leader" \in OnWay(q, n) /\ q # n /\ Joined(q) /\ Joined(n)
  BY <1>1, Arrival
<1>4. Kinds = {"explore", "adopt", "refuse", "echo", "leader"}
  BY DEF Kinds
<1>5. srcUID[n] = q /\ leaderUID[q] # 0 /\ leaderUID[n] = 0
  BY <1>3 DEF Growing, Placed, Telling
<1>6. Due(n)
  <2>1. Due(q)
    BY <1>5 DEF Growing, Told
  <2>2. n \in Kids(q)
    BY <1>3, <1>5 DEF Kids
  <2> QED
    BY <2>1, <2>2, DueFacts DEF Reported
<1>7. \A x \in Node : leaderUID'[x] = IF x = n THEN w ELSE leaderUID[x]
  BY <1>1 DEF Inv, Waves
<1>8. /\ \A r \in Node, k \in Kinds : k \in Types(out[r]) <=> k = "leader" /\ r \in Listed(n)
      /\ Fresh(n, out) /\ out \in Outgoing(About(Node))
  <2>1. PICK s \in Seq(Node) : s = childUIDs[n]
    BY DEF Inv, Counters
  <2>2. \A i, j \in DOMAIN s : s[i] = s[j] => i = j
    BY <2>1 DEF Growing, Listing
  <2>3. \A r \in Node : "leader" \notin OnWay(n, r)
    BY <1>5 DEF Growing, Placed, Telling
  <2>4. PICK u \in Node : u = w
    BY <1>2
  <2>5. /\ \A r \in Node, k \in Kinds : k \in Types(PropagateChilds(s, LeaderMsg(u))[r])
                                            <=> k = "leader" /\ \E i \in DOMAIN s : s[i] = r
        /\ Fresh(n, PropagateChilds(s, LeaderMsg(u))) /\ PropagateChilds(s, LeaderMsg(u)) \in Outgoing(About(Node))
    BY <2>2, <2>3, SendsResult
  <2>6. \A r : r \in Listed(n) <=> \E i \in DOMAIN s : s[i] = r
    BY <2>1 DEF Listed
  <2> QED
    BY <2>1, <2>4, <2>5, <2>6
<1> HIDE DEF out, w
<1>9. /\ \A p, r \in Node, k \in Kinds :
           k \in OnWay(p, r)' <=> \/ k \in OnWay(p, r) /\ ~(p = q /\ r = n /\ k = "leader")
                                  \/ p = n /\ k = "leader" /\ r \in Listed(n)
      /\ Ordered'
  <2>0. Ordered
    BY DEF Growing
  <2>1. \A p, r \in Node : \A k :
           k \in OnWay(p, r)' <=> \/ k \in OnWay(p, r) /\ ~(p = q /\ r = n /\ k = Head(chan[q][n]).type)
                                  \/ p = n /\ k \in Types(out[r])
    BY <1>1, <1>2, <1>3, <1>8, <2>0, WayExchanged
  <2>2. Ordered'
    BY <1>1, <1>2, <1>3, <1>8, <2>0, WayExchanged
  <2>3. ASSUME NEW p \in Node, NEW r \in Node, NEW k \in Kinds
        PROVE  k \in OnWay(p, r)' <=> \/ k \in OnWay(p, r) /\ ~(p = q /\ r = n /\ k = "leader")
                                      \/ p = n /\ k = "leader" /\ r \in Listed(n)
    <3>1. k \in OnWay(p, r)' <=> \/ k \in OnWay(p, r) /\ ~(p = q /\ r = n /\ k = Head(chan[q][n]).type)
                                 \/ p = n /\ k \in Types(out[r])
      BY <2>1
    <3>2. k \in Types(out[r]) <=> k = "leader" /\ r \in Listed(n)
      BY <1>8
    <3> QED
      BY <1>1, <3>1, <3>2
  <2> QED
    BY <2>2, <2>3
<1>10. /\ \A x \in Node : /\ Joined(x)' <=> Joined(x)
                          /\ Due(x)' <=> Due(x)
                          /\ Kids(x)' = Kids(x) /\ Listed(x)' = Listed(x)
       /\ Fathered' /\ Rooted' /\ Listing'
  BY <1>1, SameTree
<1>11. NotAhead'
  <2>1. \A p, r \in Node : \A k \in {"explore", "adopt", "refuse", "echo"} : ~Gets(p, r, k)
    BY <1>4, <1>9 DEF Gets
  <2> QED
    BY <1>1, <2>1, SameCounts
<1>12. Listed(n) \subseteq Kids(n) /\ \A c \in Kids(n) : Joined(c)
  BY ListedKids, KidsAsked
<1>a. Idle'
  <2> SUFFICES ASSUME NEW x \in Node, ~Joined(x)
               PROVE  /\ x \notin started' /\ srcUID'[x] = 0 /\ leaderUID'[x] = 0
                      /\ receivedParentMsg'[x] = 0 /\ receivedEcho'[x] = 0 /\ childUIDs'[x] = <<>>
                      /\ \A r \in Node, k \in Kinds : k \notin OnWay(x, r)' /\ (k \in OnWay(r, x)' => k = "explore")
    BY <1>10 DEF Idle
  <2>1. x # n
    BY <1>3
  <2>2. /\ x \notin started /\ srcUID[x] = 0 /\ leaderUID[x] = 0
        /\ receivedParentMsg[x] = 0 /\ receivedEcho[x] = 0 /\ childUIDs[x] = <<>>
        /\ \A r \in Node, k \in Kinds : k \notin OnWay(x, r) /\ (k \in OnWay(r, x) => k = "explore")
    BY DEF Growing, Idle
  <2>3. \A r \in Node, k \in Kinds : k \notin OnWay(x, r)' /\ (k \in OnWay(r, x)' => k = "explore")
    BY <1>9, <1>12, <2>1, <2>2
  <2> QED
    BY <1>1, <1>7, <2>1, <2>2, <2>3 DEF Fields
<1>b. Placed'
  <2> SUFFICES ASSUME NEW p \in Node, NEW r \in Node
               PROVE  /\ "explore" \in OnWay(p, r)' => Exploring(p, r)'
                      /\ "adopt" \in OnWay(p, r)' => Adopting(p, r)'
                      /\ "refuse" \in OnWay(p, r)' => Refusing(p, r)'
                      /\ "echo" \in OnWay(p, r)' => Echoing(p, r)'
                      /\ "leader" \in OnWay(p, r)' => Telling(p, r)'
    BY DEF Placed
  <2>1. UNCHANGED <<m, srcUID>>
    BY <1>1 DEF Fields
  <2>2. ASSUME NEW k \in {"explore", "adopt", "refuse", "echo"} PROVE k \in OnWay(p, r)' <=> k \in OnWay(p, r)
    BY <1>4, <1>9
  <2>3. "refuse" \in OnWay(r, p)' <=> "refuse" \in OnWay(r, p)
    BY <1>4, <1>9
  <2>4. /\ "explore" \in OnWay(p, r)' => Exploring(p, r)'
        /\ "adopt" \in OnWay(p, r)' => Adopting(p, r)'
        /\ "refuse" \in OnWay(p, r)' => Refusing(p, r)'
        /\ "echo" \in OnWay(p, r)' => Echoing(p, r)'
    BY <1>10, <2>1, <2>2, <2>3 DEF Growing, Placed, Exploring, Adopting, Refusing, Echoing
  <2>5. ASSUME "leader" \in OnWay(p, r)' PROVE Telling(p, r)'
    <3>1. CASE "leader" \in OnWay(p, r) /\ ~(p = q /\ r = n)
      <4>1. Telling(p, r)
        BY <3>1 DEF Growing, Placed
      <4>2. r # n
        BY <1>5, <3>1, <4>1 DEF Telling
      <4> QED
        BY <1>2, <1>7, <2>1, <4>1, <4>2 DEF Telling
    <3>2. CASE p = n /\ r \in Listed(n)
      <4>1. srcUID[r] = n /\ r # n
        BY <1>12, <3>2 DEF Kids
      <4>2. leaderUID[r] = 0
        BY <1>5, <4>1 DEF Growing, Told
      <4> QED
        BY <1>2, <1>7, <2>1, <3>2, <4>1, <4>2 DEF Telling
    <3> QED
      BY <1>4, <1>9, <2>5, <3>1, <3>2
  <2> QED
    BY <2>4, <2>5
<1>c. Told'
  <2> SUFFICES ASSUME NEW x \in Node
               PROVE  /\ leaderUID'[x] # 0 => Due(x)' /\ leaderUID'[srcUID'[x]] # 0
                      /\ isLeader'[x] => leaderUID'[x] # 0 /\ m'[x] = x
    BY DEF Told
  <2>1. /\ leaderUID[x] # 0 => Due(x) /\ leaderUID[srcUID[x]] # 0
        /\ isLeader[x] => leaderUID[x] # 0 /\ m[x] = x
    BY DEF Growing, Told
  <2>2. UNCHANGED <<m, srcUID, isLeader>>
    BY <1>1 DEF Fields
  <2>3. CASE x = n
    BY <1>2, <1>3, <1>5, <1>6, <1>7, <1>10, <2>1, <2>2, <2>3
  <2>4. CASE x # n
    <3>1. leaderUID[x] # 0 => srcUID[x] \in Node
      BY <2>1, Known DEF Due, Growing, Fathered
    <3> QED
      BY <1>2, <1>7, <1>10, <2>1, <2>2, <2>4, <3>1
  <2> QED
    BY <2>3, <2>4
<1>d. Whole'
  <2> SUFFICES ASSUME lost = 0, NEW x \in Node, NEW c \in Kids(x)
               PROVE  c \in Listed(x)' \/ "adopt" \in OnWay(c, x)'
    BY <1>1, <1>10 DEF Whole
  <2>1. c \in Node
    BY DEF Kids
  <2> QED
    BY <1>4, <1>9, <1>10, <2>1 DEF Growing, Whole
<1> QED
  BY <1>9, <1>10, <1>11, <1>a, <1>b, <1>c, <1>d DEF Growing

\* Fewer messages, and nothing else.
LEMMA GrowLess ==
  ASSUME Inv, Growing, UNCHANGED Fields, UNCHANGED <<leaderUID, isLeader>>, Ordered',
         \A p, r \in Node, k \in Kinds : k \in OnWay(p, r)' => k \in OnWay(p, r),
         lost' = 0 => lost = 0 /\ \A p, r \in Node, k \in Kinds : k \in OnWay(p, r) => k \in OnWay(p, r)'
  PROVE  Growing'
<1>1. Kinds = {"explore", "adopt", "refuse", "echo", "leader"}
  BY DEF Kinds
<1>2. /\ \A x \in Node : /\ Joined(x)' <=> Joined(x)
                         /\ Due(x)' <=> Due(x)
                         /\ Kids(x)' = Kids(x) /\ Listed(x)' = Listed(x)
      /\ Fathered' /\ Rooted' /\ Listing'
  BY SameTree
<1>3. NotAhead'
  <2>1. \A p, r \in Node : \A k \in {"explore", "adopt", "refuse", "echo"} : ~Gets(p, r, k)
    BY <1>1 DEF Gets
  <2> QED
    BY <2>1, SameCounts
<1>4. Idle'
  BY <1>2 DEF Growing, Idle, Fields
<1>5. Placed'
  <2> SUFFICES ASSUME NEW p \in Node, NEW r \in Node
               PROVE  /\ "explore" \in OnWay(p, r)' => Exploring(p, r)'
                      /\ "adopt" \in OnWay(p, r)' => Adopting(p, r)'
                      /\ "refuse" \in OnWay(p, r)' => Refusing(p, r)'
                      /\ "echo" \in OnWay(p, r)' => Echoing(p, r)'
                      /\ "leader" \in OnWay(p, r)' => Telling(p, r)'
    BY DEF Placed
  <2>1. UNCHANGED <<m, srcUID, leaderUID>>
    BY DEF Fields
  <2>2. \A k \in Kinds : /\ k \in OnWay(p, r)' => k \in OnWay(p, r)
                         /\ k \in OnWay(r, p)' => k \in OnWay(r, p)
    OBVIOUS
  <2> QED
    BY <1>1, <1>2, <2>1, <2>2 DEF Growing, Placed, Exploring, Adopting, Refusing, Echoing, Telling
<1>6. Told'
  BY <1>2 DEF Growing, Told, Fields
<1>7. Whole'
  <2> SUFFICES ASSUME lost' = 0, NEW x \in Node, NEW c \in Kids(x)
               PROVE  c \in Listed(x)' \/ "adopt" \in OnWay(c, x)'
    BY <1>2 DEF Whole
  <2>1. c \in Node /\ "adopt" \in Kinds
    BY <1>1 DEF Kids
  <2> QED
    BY <1>2, <2>1 DEF Growing, Whole
<1> QED
  BY <1>2, <1>3, <1>4, <1>5, <1>6, <1>7 DEF Growing

\* A lost message is not missed: the counters only fall further behind.
LEMMA GrowLoss ==
  ASSUME Inv, Growing, NEW q \in Node, NEW n \in Node, SendFails(q, n)
  PROVE  Growing'
<1>1. /\ chan[q][n] # <<>> /\ lost' = lost + 1 /\ UNCHANGED Fields /\ UNCHANGED <<leaderUID, isLeader>>
      /\ chan' = Taken(chan, q, n)
  BY DEF SendFails, Fields, nodeVars
<1>2. lost' # 0
  BY <1>1, InputAssumption DEF Inv, Bounds
<1>3. \A p, r \in Node : chan'[p][r] = IF p = q /\ r = n THEN Tail(chan[q][n]) ELSE chan[p][r]
  BY <1>1, TakenAt DEF Inv, Waves
<1>4. chan[q][n] \in Seq(About(started)) /\ Orderly(chan[q][n])
  BY DEF Inv, Waves, Channels, Outgoing, Growing, Ordered
<1>5. /\ \A k : k \in Types(Tail(chan[q][n])) => k \in Types(chan[q][n])
      /\ Orderly(Tail(chan[q][n]))
  BY <1>1, <1>4, TypesTail
<1>6. ASSUME NEW p \in Node, NEW r \in Node, NEW k, k \in OnWay(p, r)' PROVE k \in OnWay(p, r)
  <2>1. CASE p = q /\ r = n
    BY <1>3, <1>5, <1>6, <2>1 DEF OnWay
  <2>2. CASE ~(p = q /\ r = n)
    BY <1>3, <1>6, <2>2 DEF OnWay
  <2> QED
    BY <2>1, <2>2
<1>7. Ordered'
  BY <1>3, <1>5 DEF Growing, Ordered
<1> QED
  BY <1>1, <1>2, <1>6, <1>7, GrowLess

\* A step that concerns no node's fields.
LEMMA GrowSame ==
  ASSUME Inv, Growing, UNCHANGED <<chan, nodeVars, started, lost>>
  PROVE  Growing'
<1>1. UNCHANGED Fields /\ UNCHANGED <<leaderUID, isLeader, chan, lost>>
  BY DEF nodeVars, Fields
<1>2. \A p, r \in Node : OnWay(p, r)' = OnWay(p, r)
  BY <1>1 DEF OnWay
<1>3. Ordered'
  BY <1>1 DEF Growing, Ordered
<1> QED
  BY <1>1, <1>2, <1>3, GrowLess

\* Nobody has joined.
LEMMA GrowNone ==
  ASSUME \A n \in Node : /\ m[n] = 0 /\ srcUID[n] = 0 /\ leaderUID[n] = 0 /\ ~isLeader[n]
                         /\ receivedParentMsg[n] = 0 /\ receivedEcho[n] = 0 /\ childUIDs[n] = <<>>
                         /\ \A r \in Node : chan[n][r] = <<>>,
         started = {}
  PROVE  Growing
<1>1. \A n \in Node : ~Joined(n) /\ ~Due(n) /\ Kids(n) = {}
  BY NodeAssumption DEF Joined, Due, Kids
<1>2. \A p, r \in Node : \A k : k \notin OnWay(p, r)
  BY EmptySeq DEF OnWay, Types
<1>3. Idle /\ Fathered /\ Rooted
  BY <1>1, <1>2 DEF Idle, Fathered, Rooted
<1>4. Ordered /\ Placed /\ Listing
  BY <1>2, EmptySeq DEF Ordered, Orderly, Placed, Listing
<1>5. NotAhead
  <2> SUFFICES ASSUME NEW n \in Node PROVE Cardinality(Heard(n)) \in Nat /\ Cardinality(Reported(n)) \in Nat
    BY DEF NotAhead
  <2>1. Heard(n) = {} /\ Reported(n) = {}
    BY <1>1, NeighAssumption DEF Heard, Reported, Asked
  <2> QED
    BY <2>1, FS_EmptySet
<1>6. Told /\ Whole
  BY <1>1 DEF Told, Whole
<1> QED
  BY <1>3, <1>4, <1>5, <1>6 DEF Growing

\* The only candidate starts.
LEMMA GrowStart ==
  ASSUME Inv, Inv', PromptStart, Growing, SoleCandidate', NEW n \in Node, handle_coordinator(n)
  PROVE  Growing'
<1>1. /\ m[n] = 0 /\ started' = started \cup {n}
      /\ m' = [m EXCEPT ![n] = n]
      /\ childUIDs' = [childUIDs EXCEPT ![n] = <<>>]
      /\ receivedEcho' = [receivedEcho EXCEPT ![n] = 0]
      /\ srcUID' = [srcUID EXCEPT ![n] = n]
      /\ sentExplore' = [sentExplore EXCEPT ![n] = Cardinality(Neigh[n])]
      /\ chan' = Sent(chan, n, To(Neigh[n], Explore(n)))
      /\ UNCHANGED <<leaderUID, isLeader, receivedParentMsg, lost>>
  BY DEF handle_coordinator, CommandFor
<1>2. started = {}
  <2>1. n \notin started
    BY <1>1 DEF Growing, Idle, Joined
  <2>2. \A a, b \in started' : a = b
    BY SoleNext
  <2> QED
    BY <1>1, <2>1, <2>2
<1>3. n # 0 /\ \A x \in Node : /\ m[x] = 0 /\ srcUID[x] = 0 /\ leaderUID[x] = 0
                               /\ receivedParentMsg[x] = 0 /\ receivedEcho[x] = 0 /\ childUIDs[x] = <<>>
                               /\ ~isLeader[x]
  <2>1. \A x \in Node : m[x] = 0
    BY <1>2, Known
  <2> QED
    BY <2>1, Known DEF Growing, Idle, Told, Joined
<1>4. Kinds = {"explore", "adopt", "refuse", "echo", "leader"}
  BY DEF Kinds
<1>5. \A p, r \in Node : chan[p][r] = <<>>
  <2> SUFFICES ASSUME NEW p \in Node, NEW r \in Node PROVE chan[p][r] = <<>>
    OBVIOUS
  <2>1. chan[p][r] \in Seq(About(started))
    BY DEF Inv, Waves, Channels, Outgoing
  <2>2. \A k \in Kinds : k \notin Types(chan[p][r])
    BY <1>3 DEF Growing, Idle, Joined, OnWay
  <2> QED
    BY <2>1, <2>2, TypesOf
<1>6. \A p, r \in Node : chan'[p][r] = IF p = n /\ r \in Neigh[n] THEN <<Explore(n)>> ELSE <<>>
  <2>1. Explore(n) \in About(Node)
    BY DEF Explore, About, Kinds
  <2>2. To(Neigh[n], Explore(n)) \in Outgoing(About(Node))
    BY <2>1, ToType
  <2>3. chan \in Channels(About(Node))
    BY ChannelsMonotone DEF Inv, Waves, StartedWant
  <2>4. ASSUME NEW p \in Node, NEW r \in Node
        PROVE  chan'[p][r] = IF p = n THEN chan[n][r] \o To(Neigh[n], Explore(n))[r] ELSE chan[p][r]
    <3>1. PICK out \in Outgoing(About(Node)) : out = To(Neigh[n], Explore(n))
      BY <2>2
    <3>2. Sent(chan, n, out)[p][r] = IF p = n THEN chan[n][r] \o out[r] ELSE chan[p][r]
      BY <2>3, SentAt
    <3> QED
      BY <1>1, <3>1, <3>2
  <2>5. \A msg \in About(Node) : <<>> \o <<msg>> = <<msg>>
    OBVIOUS
  <2>6. <<>> \o <<>> = <<>>
    OBVIOUS
  <2> SUFFICES ASSUME NEW p \in Node, NEW r \in Node
               PROVE  chan'[p][r] = IF p = n /\ r \in Neigh[n] THEN <<Explore(n)>> ELSE <<>>
    OBVIOUS
  <2>7. CASE p = n /\ r \in Neigh[n]
    <3>1. To(Neigh[n], Explore(n))[r] = <<Explore(n)>>
      BY <2>7 DEF To
    <3> QED
      BY <1>5, <2>1, <2>4, <2>5, <2>7, <3>1
  <2>8. CASE p = n /\ r \notin Neigh[n]
    <3>1. To(Neigh[n], Explore(n))[r] = <<>>
      BY <2>8 DEF To
    <3> QED
      BY <1>5, <2>4, <2>6, <2>8, <3>1
  <2>9. CASE p # n
    BY <1>5, <2>4, <2>9
  <2> QED
    BY <2>7, <2>8, <2>9
<1>7. \A p, r \in Node : \A k : k \in OnWay(p, r)' <=> p = n /\ r \in Neigh[n] /\ k = "explore"
  <2>1. DOMAIN <<Explore(n)>> = {1} /\ <<Explore(n)>>[1].type = "explore"
    BY DEF Explore
  <2> SUFFICES ASSUME NEW p \in Node, NEW r \in Node, NEW k
               PROVE  k \in OnWay(p, r)' <=> p = n /\ r \in Neigh[n] /\ k = "explore"
    OBVIOUS
  <2>2. CASE p = n /\ r \in Neigh[n]
    BY <1>6, <2>1, <2>2 DEF OnWay, Types
  <2>3. CASE ~(p = n /\ r \in Neigh[n])
    BY <1>6, <2>3, EmptySeq DEF OnWay, Types
  <2> QED
    BY <2>2, <2>3
<1>8. /\ m'[n] = n /\ srcUID'[n] = n /\ childUIDs'[n] = <<>> /\ receivedParentMsg'[n] = 0 /\ receivedEcho'[n] = 0
      /\ sentExplore'[n] = Cardinality(Neigh[n])
      /\ \A x \in Node : x # n =>
           /\ m'[x] = 0 /\ srcUID'[x] = 0 /\ childUIDs'[x] = <<>> /\ receivedParentMsg'[x] = 0 /\ receivedEcho'[x] = 0
  <2>1. /\ m \in [Node -> started \cup {0}] /\ childUIDs \in [Node -> Seq(Node)] /\ receivedEcho \in [Node -> Nat]
        /\ srcUID \in [Node -> Node \cup {0}] /\ sentExplore \in [Node -> Nat]
    BY DEF Inv, Waves, Counters
  <2> QED
    BY <1>1, <1>3, <2>1
<1>9. /\ Joined(n)' /\ \A x \in Node : x # n => ~Joined(x)' /\ ~Due(x)'
      /\ \A x \in Node : Kids(x)' = {}
  BY <1>3, <1>8, Known DEF Joined, Due, Kids
<1>10. n \notin Neigh[n] /\ \A x \in Neigh[n] : x \in Node /\ x # n /\ n \in Neigh[x]
  BY Known
<1>a. Idle'
  BY <1>1, <1>2, <1>3, <1>7, <1>8, <1>9 DEF Idle
<1>b. Fathered'
  <2>1. Asked(n)' = Neigh[n]
    BY <1>8, <1>10 DEF Asked
  <2> SUFFICES ASSUME NEW x \in Node, Joined(x)'
               PROVE  /\ srcUID'[x] = x <=> m'[x] = x
                      /\ srcUID'[x] \in Neigh[x] \cup {x} /\ Joined(srcUID[x])'
                      /\ sentExplore'[x] = Cardinality(Asked(x)')
    BY DEF Fathered
  <2>2. x = n
    BY <1>9
  <2> QED
    BY <1>3, <1>8, <2>1, <2>2 DEF Joined
<1>c. Rooted'
  <2> SUFFICES ASSUME NEW S \in SUBSET Node, S # {}, \A x \in S : Joined(x)' /\ srcUID'[x] \in S
               PROVE  \E r \in S : m'[r] = r
    BY DEF Rooted
  <2> QED
    BY <1>8, <1>9
<1>d. Ordered'
  <2> SUFFICES ASSUME NEW p \in Node, NEW r \in Node PROVE Orderly(chan'[p][r])
    BY DEF Ordered
  <2>1. Orderly(<<Explore(n)>>) /\ Orderly(<<>>)
    BY EmptySeq DEF Orderly
  <2> QED
    BY <1>6, <2>1
<1>e. Placed'
  <2> SUFFICES ASSUME NEW p \in Node, NEW r \in Node, "explore" \in OnWay(p, r)' PROVE Exploring(p, r)'
    BY <1>7 DEF Placed
  <2>1. p = n /\ r \in Neigh[n]
    BY <1>7
  <2>2. "refuse" \notin OnWay(r, p)'
    BY <1>7
  <2> QED
    BY <1>3, <1>8, <1>9, <1>10, <2>1, <2>2 DEF Exploring
<1>f. Listing'
  BY <1>8, EmptySeq DEF Listing
<1>g. NotAhead'
  <2> SUFFICES ASSUME NEW x \in Node
               PROVE  Cardinality(Heard(x)') \in Nat /\ Cardinality(Reported(x)') \in Nat
    BY <1>8 DEF NotAhead
  <2>1. Heard(x)' \subseteq Node /\ Reported(x)' \subseteq Node
    BY Known DEF Heard, Reported, Asked, Kids
  <2> QED
    BY <2>1, NodeAssumption, FS_Subset, FS_CardinalityType
<1>h. Told' /\ Whole'
  BY <1>1, <1>3, <1>9 DEF Told, Whole
<1> QED
  BY <1>a, <1>b, <1>c, <1>d, <1>e, <1>f, <1>g, <1>h DEF Growing

\* Every step.
Lone == SoleCandidate => Growing
LEMMA LoneInit == Init => Lone
<1> SUFFICES ASSUME Init PROVE Growing
  BY DEF Lone
<1>1. \A p, r \in Node : chan[p][r] = <<>>
  BY DEF Init, EmptyNet
<1> QED
  BY <1>1, GrowNone DEF Init

LEMMA LoneNext ==
  ASSUME PromptStart, Inv, Inv', Lone, [Next]_vars
  PROVE  Lone'
<1> SUFFICES ASSUME SoleCandidate' PROVE Growing'
  BY DEF Lone
<1>1. started \subseteq started'
  <2>1. ASSUME NEW n \in Node, NEW q \in Node, TryHandleLeaderMessage(n, q) PROVE started' = started
    BY <2>1 DEF TryHandleLeaderMessage, handle_explore, JoinWave, RefuseWave, EvictWave, CountChild, CountEcho,
                IgnoreAnswer, handle_leader, Takes
  <2>2. ASSUME NEW n \in Node, NEW q \in Node, SendFails(q, n) PROVE started' = started
    BY <2>2 DEF SendFails
  <2>3. ASSUME NEW n \in Node, handle_coordinator(n) \/ IgnoreCoordinator(n) PROVE started \subseteq started'
    BY <2>3 DEF handle_coordinator, IgnoreCoordinator
  <2>4. CASE UNCHANGED vars
    BY <2>4 DEF vars
  <2> QED
    BY <2>1, <2>2, <2>3, <2>4 DEF Next
<1>2. SoleCandidate /\ Growing
  <2>1. \A a, b \in started' : a = b
    BY SoleNext
  <2>2. \A a, b \in started : a = b
    BY <1>1, <2>1
  <2> QED
    BY <2>2, Sole DEF Lone
<1>3. ASSUME NEW n \in Node, IgnoreCoordinator(n) PROVE Growing'
  BY <1>2, <1>3, GrowSame DEF IgnoreCoordinator
<1>4. CASE UNCHANGED vars
  BY <1>2, <1>4, GrowSame DEF vars
<1>5. ASSUME NEW n \in Node, NEW q \in Node, EvictWave(n, q) \/ IgnoreAnswer(n, q) PROVE FALSE
  <2>1. chan[q][n] # <<>> /\ Head(chan[q][n]).type # "leader"
    BY <1>5 DEF EvictWave, IgnoreAnswer, Takes
  <2>2. /\ Joined(n) => Wave(n, q) = m[n]
        /\ ~Joined(n) => Head(chan[q][n]).type = "explore"
        /\ ~Due(n)
    BY <1>2, <2>1, Arrival
  <2>3. leaderUID[n] = 0
    BY <1>2, <2>2 DEF Growing, Told
  <2>4. Wave(n, q) # m[n]
    BY <1>5, <2>3 DEF EvictWave, IgnoreAnswer
  <2>5. m[n] = 0 /\ Head(chan[q][n]).type = "explore"
    BY <2>2, <2>4 DEF Joined
  <2>6. ~Evicts(n, q)
    BY <1>5, <2>3, <2>5 DEF EvictWave, IgnoreAnswer, Takes
  <2>7. Wave(n, q) > 0
    BY <2>1, WaveStarted
  <2> QED
    BY <2>5, <2>6, <2>7 DEF Evicts
<1>6. ASSUME NEW n \in Node, NEW q \in Node, TryHandleLeaderMessage(n, q) PROVE Growing'
  <2>1. CASE JoinWave(n, q)
    BY <1>2, <2>1, GrowJoin
  <2>2. CASE RefuseWave(n, q)
    BY <1>2, <2>2, GrowRefuse
  <2>3. CASE CountChild(n, q)
    BY <1>2, <2>3, GrowChild
  <2>4. CASE CountEcho(n, q)
    BY <1>2, <2>4, GrowEcho
  <2>5. CASE handle_leader(n, q)
    BY <1>2, <2>5, GrowLeader
  <2>6. CASE EvictWave(n, q) \/ IgnoreAnswer(n, q)
    BY <1>5, <2>6
  <2> QED
    BY <1>6, <2>1, <2>2, <2>3, <2>4, <2>5, <2>6 DEF TryHandleLeaderMessage, handle_explore
<1>7. ASSUME NEW n \in Node, handle_coordinator(n) PROVE Growing'
  BY <1>2, <1>7, GrowStart
<1>8. ASSUME NEW q \in Node, NEW n \in Node, SendFails(q, n) PROVE Growing'
  BY <1>2, <1>8, GrowLoss
<1> QED
  BY <1>3, <1>4, <1>6, <1>7, <1>8 DEF Next

\* A sole candidate's wave grows one tree, on every graph, whatever is lost.
THEOREM TreeGrows == ASSUME PromptStart PROVE Spec => []Lone
<1>1. Inv /\ Inv' /\ Lone /\ [Next]_vars => Lone'
  BY LoneNext
<1> QED
  BY <1>1, LoneInit, Invariance, PTL DEF Spec

-----------------------------------------------------------------------------
(***************************************************************************)
(* What the tree gives.                                                    *)
(***************************************************************************)
\* The messages of one kind that are under way to n are as many as the nodes they come from.
Senders(n, kind) == {q \in Node : kind \in OnWay(q, n)}
LEMMA OnePerSender ==
  ASSUME Inv, Growing, NEW n \in Node, NEW kind \in Kinds
  PROVE  IsFiniteSet(Senders(n, kind)) /\ PendingFor(n, kind) = Cardinality(Senders(n, kind))
<1> DEFINE S == {[type |-> kind, uid |-> w] : w \in Node}
           f == [q \in Node |-> Pending(q, n, kind)]
<1>1. ASSUME NEW q \in Node
      PROVE  Pending(q, n, kind) = IF kind \in OnWay(q, n) THEN 1 ELSE 0
  <2>1. PICK s \in Seq(About(started)) : s = chan[q][n] /\ Orderly(s)
    BY DEF Inv, Waves, Channels, Outgoing, Growing, Ordered
  <2>2. \A i \in DOMAIN s : s[i] \in S <=> s[i].type = kind
    <3>1. \A i \in DOMAIN s : s[i] \in About(started)
      BY Elements
    <3> QED
      BY <3>1 DEF About, Inv, StartedWant
  <2> HIDE DEF S
  <2>3. /\ Copies(s, S) \in Nat /\ IsFiniteSet(Places(s, S)) /\ Copies(s, S) = Cardinality(Places(s, S))
        /\ Copies(s, S) = 0 <=> \A i \in DOMAIN s : s[i] \notin S
    BY CopiesType
  <2>4. \A i, j \in Places(s, S) : i = j
    BY <2>1, <2>2 DEF Places, Orderly
  <2>5. Copies(s, S) <= 1
    BY <2>3, <2>4, AtMostOne
  <2>6. Copies(s, S) = 0 <=> kind \notin OnWay(q, n)
    BY <2>1, <2>2, <2>3 DEF OnWay, Types
  <2>7. Pending(q, n, kind) = Copies(s, S)
    BY <2>1 DEF Pending, InFlight, S
  <2> QED
    BY <2>3, <2>5, <2>6, <2>7
<1>2. f \in [Node -> Nat] /\ \A q \in Node : f[q] <= 1 /\ (f[q] = 1 <=> kind \in OnWay(q, n))
  BY <1>1
<1>3. IsFiniteSet(Node)
  BY NodeAssumption
<1>4. PendingFor(n, kind) = Total(f)
  BY DEF PendingFor
<1> HIDE DEF f
<1>5. Total(f) = Cardinality({q \in Node : f[q] = 1})
  BY <1>2, <1>3, TotalOnes
<1>6. {q \in Node : f[q] = 1} = Senders(n, kind)
  BY <1>2 DEF Senders
<1>7. IsFiniteSet(Senders(n, kind))
  BY <1>3, FS_Subset DEF Senders
<1> QED
  BY <1>4, <1>5, <1>6, <1>7

\* Echoes come from children that have not reported yet, adoptions from children not yet listed.
LEMMA EchoState ==
  ASSUME Inv, Growing, lost = 0, NEW n \in Node
  PROVE  receivedEcho[n] + PendingFor(n, "echo") <= Len(childUIDs[n]) + PendingFor(n, "adopt")
<1> DEFINE E == Senders(n, "echo")
           A == Senders(n, "adopt")
<1>1. /\ IsFiniteSet(E) /\ PendingFor(n, "echo") = Cardinality(E)
      /\ IsFiniteSet(A) /\ PendingFor(n, "adopt") = Cardinality(A)
  <2>1. "echo" \in Kinds /\ "adopt" \in Kinds
    BY DEF Kinds
  <2> QED
    BY <2>1, OnePerSender
<1>2. E \subseteq Kids(n) /\ E \cap Reported(n) = {}
  BY DEF Senders, Growing, Placed, Echoing, Kids, Reported
<1>3. Reported(n) \subseteq Kids(n) /\ IsFiniteSet(Kids(n)) /\ IsFiniteSet(Reported(n))
  BY Known, FS_Subset DEF Reported
<1>4. A \cap Listed(n) = {} /\ Kids(n) \subseteq A \cup Listed(n)
  BY DEF Senders, Growing, Placed, Adopting, Whole, Kids
<1>5. IsFiniteSet(Listed(n)) /\ Cardinality(Listed(n)) = Len(childUIDs[n])
  BY ListedKids
<1>6. receivedEcho[n] \in Nat /\ receivedEcho[n] <= Cardinality(Reported(n))
  BY Known DEF Growing, NotAhead
<1> HIDE DEF E, A
<1>7. /\ Cardinality(E) \in Nat /\ Cardinality(Reported(n)) \in Nat
      /\ Cardinality(E \cup Reported(n)) = Cardinality(E) + Cardinality(Reported(n))
  BY <1>1, <1>2, <1>3, DisjointSize
<1>8. Cardinality(E \cup Reported(n)) <= Cardinality(Kids(n)) /\ Cardinality(Kids(n)) \in Nat
  <2>1. E \cup Reported(n) \subseteq Kids(n)
    BY <1>2, <1>3
  <2> QED
    BY <1>3, <2>1, FS_Subset, FS_CardinalityType
<1>9. /\ Cardinality(A) \in Nat /\ Cardinality(Listed(n)) \in Nat /\ IsFiniteSet(A \cup Listed(n))
      /\ Cardinality(A \cup Listed(n)) = Cardinality(A) + Cardinality(Listed(n))
  BY <1>1, <1>4, <1>5, DisjointSize
<1>10. Cardinality(Kids(n)) <= Cardinality(A \cup Listed(n))
  BY <1>4, <1>9, FS_Subset
<1> QED
  BY <1>1, <1>5, <1>6, <1>7, <1>8, <1>9, <1>10

\* While nothing is lost the echoes a sole candidate's wave brings a node, counted or under way,
\* are no more than its children: checkSendEcho runs after every late explore, answer and echo,
\* but none comes once it has sent the echo.
THEOREM EchoesOnce == ASSUME PromptStart PROVE Spec => []EchoOncePerChild
<1>1. Inv /\ Lone => EchoOncePerChild
  BY EchoState DEF Lone, EchoOncePerChild
<1> QED
  BY <1>1, Invariance, TreeGrows, PTL

\* The result of a sole candidate comes to each node from its parent, once, and not to the leader.
THEOREM ResultsOnce == ASSUME PromptStart PROVE Spec => [](SoleCandidate => ResultVisitsOnce)
<1>1. ASSUME Inv, Growing, NEW n \in Node
      PROVE  PendingFor(n, "leader") + (IF leaderUID[n] # 0 THEN 1 ELSE 0) <= 1
  <2> DEFINE L == Senders(n, "leader")
  <2>1. IsFiniteSet(L) /\ PendingFor(n, "leader") = Cardinality(L)
    <3>1. "leader" \in Kinds
      BY DEF Kinds
    <3> QED
      BY <1>1, <3>1, OnePerSender
  <2>2. \A q \in L : srcUID[n] = q /\ leaderUID[n] = 0
    BY <1>1 DEF Senders, Growing, Placed, Telling
  <2> HIDE DEF L
  <2>3. Cardinality(L) \in Nat /\ Cardinality(L) <= 1
    BY <2>1, <2>2, AtMostOne, FS_CardinalityType
  <2>4. leaderUID[n] # 0 => Cardinality(L) = 0
    BY <2>2, FS_EmptySet
  <2> QED
    BY <2>1, <2>3, <2>4
<1>2. Inv /\ Lone => (SoleCandidate => ResultVisitsOnce)
  BY <1>1 DEF Lone, ResultVisitsOnce
<1> QED
  BY <1>2, Invariance, TreeGrows, PTL

-----------------------------------------------------------------------------
(***************************************************************************)
(* The spanning tree.                                                      *)
(***************************************************************************)
\* A set of nodes that contains its members' neighbours contains every node.
Connected == \A S \in SUBSET Node : S # {} /\ (\A n \in S : Neigh[n] \subseteq S) => S = Node

\* When the root is done, every node that has joined is done.
LEMMA AllDue ==
  ASSUME Inv, SoleCandidate, Growing, NEW r \in Node, isLeader[r], NEW x \in Node, Joined(x)
  PROVE  Due(x)
<1> DEFINE B == {y \in Node : Joined(y) /\ ~Due(y)}
<1>1. m[r] = r /\ Due(r)
  BY DEF Growing, Told
<1>2. \A y \in Node : m[y] = y => y = r
  BY <1>1, Known, Sole
<1>3. ASSUME NEW y \in B PROVE srcUID[y] \in B
  <2>1. srcUID[y] \in Node /\ Joined(srcUID[y])
    BY Known DEF Growing, Fathered
  <2>2. ASSUME Due(srcUID[y]) PROVE FALSE
    <3>1. y \in Kids(srcUID[y])
      BY <2>2 DEF Kids
    <3>2. y \in Reported(srcUID[y])
      BY <2>1, <2>2, <3>1, DueFacts
    <3> QED
      BY <3>2 DEF Reported
  <2> QED
    BY <2>1, <2>2
<1>4. B = {}
  <2>1. SUFFICES ASSUME B # {} PROVE FALSE
    OBVIOUS
  <2>2. B \in SUBSET Node /\ \A y \in B : Joined(y) /\ srcUID[y] \in B
    BY <1>3
  <2>3. PICK y \in B : m[y] = y
    BY <2>1, <2>2 DEF Growing, Rooted
  <2> QED
    BY <1>1, <1>2, <2>3
<1> QED
  BY <1>4

\* On a connected graph a leader that is the sole candidate has a spanning tree.
LEMMA TreeState ==
  ASSUME Inv, SoleCandidate, Growing, Connected, NEW r \in Node, isLeader[r]
  PROVE  SpanningTree(r) /\ \A n \in Node : m[n] = r
<1>1. m[r] = r /\ Joined(r) /\ srcUID[r] = r
  BY DEF Growing, Told, Fathered, Due
<1>2. \A n \in Node : Joined(n)
  <2> DEFINE J == {n \in Node : Joined(n)}
  <2>1. ASSUME NEW n \in J, NEW y \in Neigh[n] PROVE y \in J
    <3>1. Due(n) /\ y \in Node
      BY AllDue, Known
    <3>2. y = srcUID[n] \/ y \in Asked(n)
      BY DEF Asked
    <3>3. CASE y = srcUID[n]
      BY <3>1, <3>3 DEF Growing, Fathered
    <3>4. CASE y \in Asked(n)
      BY <3>1, <3>4, DueFacts DEF Heard
    <3> QED
      BY <3>2, <3>3, <3>4
  <2>2. J \in SUBSET Node /\ J # {}
    BY <1>1
  <2>3. J = Node
    BY <2>1, <2>2 DEF Connected
  <2> QED
    BY <2>3
<1>3. \A n \in Node : m[n] = r
  <2>1. \A n \in Node : m[n] \in started
    BY <1>2, Known DEF Joined
  <2> QED
    BY <1>1, <2>1, Sole
<1>4. ASSUME NEW S \in SUBSET Node, S # {}, \A n \in S : srcUID[n] \in S PROVE r \in S
  <2>1. PICK n \in S : m[n] = n
    BY <1>2, <1>4 DEF Growing, Rooted
  <2> QED
    BY <1>3, <2>1
<1>5. ASSUME NEW p \in Node, NEW n \in Node
      PROVE  Cardinality({i \in DOMAIN childUIDs[p] : childUIDs[p][i] = n})
               = IF srcUID[n] = p /\ n # p THEN 1 ELSE 0
  <2> DEFINE E == {i \in DOMAIN childUIDs[p] : childUIDs[p][i] = n}
  <2>1. Kids(p) = Listed(p)
    BY <1>2, AllDue, DueFacts
  <2>2. \A i, j \in E : i = j
    BY DEF Growing, Listing
  <2>3. E # {} <=> srcUID[n] = p /\ n # p
    BY <2>1 DEF Listed, Kids
  <2>4. CASE E = {}
    BY <2>3, <2>4, FS_EmptySet
  <2>5. CASE E # {}
    <3>1. PICK i : E = {i}
      BY <2>2, <2>5
    <3>2. Cardinality(E) = 1
      BY <3>1, FS_Singleton
    <3> QED
      BY <2>3, <2>5, <3>2
  <2> QED
    BY <2>4, <2>5
<1> QED
  BY <1>1, <1>3, <1>4, <1>5 DEF SpanningTree

\* When the sole candidate calls itself leader, srcUID and childUIDs are a spanning tree of
\* all the nodes.
THEOREM LeadersTree == ASSUME PromptStart, Connected PROVE Spec => []LeaderHasTree
<1>1. Inv /\ Lone => LeaderHasTree
  BY TreeState DEF Lone, LeaderHasTree
<1> QED
  BY <1>1, Invariance, TreeGrows, PTL
=============================================================================
