---------------------------- MODULE RumorProofs ----------------------------
(***************************************************************************)
(* The rumor experiment on every communication graph, with every set of    *)
(* thresholds and any number of commands and lost copies.                  *)
(***************************************************************************)
EXTENDS Rumor, TLAPS

\* What sending one copy of y to the nodes of R does to a matrix of counts.
LEMMA SendToFact ==
  ASSUME NEW edges \in PerEdge(Nat), NEW n \in Node, NEW R, NEW y \in Payload
  PROVE  /\ SendTo(edges, n, R, y) \in PerEdge(Nat)
         /\ \A a, b \in Node, z \in Payload :
              SendTo(edges, n, R, y)[a][b][z]
                = IF a = n /\ b \in R /\ z = y THEN edges[a][b][z] + 1 ELSE edges[a][b][z]
<1> DEFINE row == [q \in Node |-> IF q \in R THEN [edges[n][q] EXCEPT ![y] = @ + 1]
                                             ELSE edges[n][q]]
<1>1. row \in [Node -> [Payload -> Nat]]
  BY DEF PerEdge
<1>2. \A b \in Node, z \in Payload :
        row[b][z] = IF b \in R /\ z = y THEN edges[n][b][z] + 1 ELSE edges[n][b][z]
  BY DEF PerEdge
<1>3. SendTo(edges, n, R, y) = [edges EXCEPT ![n] = row]
  BY DEF SendTo
<1> HIDE DEF row
<1> QED
  BY <1>1, <1>2, <1>3 DEF PerEdge

\* What changing one entry of such a matrix does to it.
LEMMA UpdateFact ==
  ASSUME NEW edges \in PerEdge(Nat), NEW p \in Node, NEW q \in Node, NEW y \in Payload, NEW k \in Nat
  PROVE  /\ [edges EXCEPT ![p][q][y] = k] \in PerEdge(Nat)
         /\ \A a, b \in Node, z \in Payload :
              [edges EXCEPT ![p][q][y] = k][a][b][z]
                = IF a = p /\ b = q /\ z = y THEN k ELSE edges[a][b][z]
BY DEF PerEdge

-----------------------------------------------------------------------------
(***************************************************************************)
(* Each action, entry by entry.                                            *)
(***************************************************************************)
\* Handle, by what it does to the copies under way.
LEMMA HandleNet ==
  ASSUME TypeOK, NEW n \in Node, NEW q \in Node, NEW y \in Payload, Handle(n, q, y)
  PROVE  /\ net' \in PerEdge(Nat)
         /\ \E taken \in PerEdge(Nat) :
              /\ \A a, b \in Node, z \in Payload :
                   taken[a][b][z] = IF a = q /\ b = n /\ z = y THEN net[a][b][z] - 1 ELSE net[a][b][z]
              /\ \/ ~IsNew(n, y.rumor) /\ net' = taken /\ passedOn' = passedOn
                 \/ /\ IsNew(n, y.rumor) /\ passedOn' = [passedOn EXCEPT ![n] = @ \cup {<<q, y>>}]
                    /\ \A a, b \in Node, z \in Payload :
                         net'[a][b][z] = IF a = n /\ b \in Targets(n, q) /\ z = y
                                         THEN taken[a][b][z] + 1 ELSE taken[a][b][z]
<1> DEFINE taken == [net EXCEPT ![q][n][y] = @ - 1]
<1>1. net \in PerEdge(Nat) /\ net[q][n][y] - 1 \in Nat
  BY DEF TypeOK, Handle, PerEdge
<1>2. taken = [net EXCEPT ![q][n][y] = net[q][n][y] - 1]
  BY <1>1 DEF PerEdge
<1>3. /\ taken \in PerEdge(Nat)
      /\ \A a, b \in Node, z \in Payload :
           taken[a][b][z] = IF a = q /\ b = n /\ z = y THEN net[a][b][z] - 1 ELSE net[a][b][z]
  BY <1>1, <1>2, UpdateFact
<1>4. \/ ~IsNew(n, y.rumor) /\ net' = taken /\ passedOn' = passedOn
      \/ /\ IsNew(n, y.rumor) /\ passedOn' = [passedOn EXCEPT ![n] = @ \cup {<<q, y>>}]
         /\ net' = SendTo(taken, n, Targets(n, q), y)
  BY DEF Handle
<1> HIDE DEF taken
<1> QED
  BY <1>3, <1>4, SendToFact

\* No copy exists.
LEMMA TypeInit == Init => TypeOK
BY DEF Init, TypeOK, PerEdge, NoCopies

\* One step per action.
LEMMA TypeNext == TypeOK /\ [Next]_vars => TypeOK'
<1> SUFFICES ASSUME TypeOK, [Next]_vars
             PROVE  TypeOK'
  OBVIOUS
<1>1. ASSUME NEW n \in Node, NEW y \in Payload, handleControl_distribute(n, y)
      PROVE  TypeOK'
  <2>1. net' \in PerEdge(Nat)
    BY <1>1, SendToFact DEF handleControl_distribute, TypeOK
  <2> QED
    BY <1>1, <2>1 DEF handleControl_distribute, TypeOK
<1>2. ASSUME NEW n \in Node, NEW q \in Node, NEW y \in Payload, Handle(n, q, y)
      PROVE  TypeOK'
  <2>1. net' \in PerEdge(Nat)
    BY <1>2, HandleNet
  <2>2. heard' \in PerEdge(Nat)
    BY <1>2 DEF Handle, TypeOK, PerEdge
  <2>3. counter' \in [Node -> [Rumors -> Nat]]
    <3>1. y.rumor \in Rumors /\ counter[n][y.rumor] \in Nat
      BY DEF TypeOK, Payload
    <3> QED
      BY <1>2, <3>1 DEF Handle, TypeOK
  <2>4. passedOn' \in [Node -> SUBSET (Node \X Payload)]
    <3>1. CASE passedOn' = passedOn
      BY <3>1 DEF TypeOK
    <3>2. CASE passedOn' = [passedOn EXCEPT ![n] = @ \cup {<<q, y>>}]
      BY <3>2 DEF TypeOK
    <3>3. passedOn' = passedOn \/ passedOn' = [passedOn EXCEPT ![n] = @ \cup {<<q, y>>}]
      BY <1>2, HandleNet
    <3> QED
      BY <3>1, <3>2, <3>3
  <2>5. trustedRumors' \in [Node -> SUBSET Rumors]
    BY <1>2 DEF Handle, TypeOK, Payload
  <2> QED
    BY <1>2, <2>1, <2>2, <2>3, <2>4, <2>5 DEF Handle, TypeOK
<1>3. ASSUME NEW p \in Node, NEW q \in Node, NEW y \in Payload, SendFails(p, q, y)
      PROVE  TypeOK'
  <2>1. net' \in PerEdge(Nat) /\ failed' \in PerEdge(Nat)
    BY <1>3 DEF SendFails, TypeOK, PerEdge
  <2> QED
    BY <1>3, <2>1 DEF SendFails, TypeOK
<1>4. CASE UNCHANGED vars
  BY <1>4 DEF vars, TypeOK
<1> QED
  BY <1>1, <1>2, <1>3, <1>4 DEF Next

\* The counters count, and only copies of payloads on edges between nodes exist.
THEOREM TypeCorrect == Spec => []TypeOK
BY TypeInit, TypeNext, PTL DEF Spec

-----------------------------------------------------------------------------
(***************************************************************************)
(* Where copies come from.                                                 *)
(***************************************************************************)
\* Only what was started is under way, only what was counted is passed on, and
\* only what was started is counted.
UnderWayStarted == \A p, q \in Node, y \in Payload : net[p][q][y] > 0 => y \in Started
PassedOnCounted ==
  \A n, q \in Node, y \in Payload : <<q, y>> \in passedOn[n] => counter[n][y.rumor] > 0
CountedAsked == \A n \in Node, r \in Rumors : counter[n][r] > 0 => Asked(r) # {}
Origin == UnderWayStarted /\ PassedOnCounted /\ CountedAsked

\* The parts of a payload.
LEMMA PayloadFact == ASSUME NEW y \in Payload PROVE y.rumor \in Rumors /\ y.c \in Int
BY ThresholdAssumption DEF Payload

\* The threshold of a payload that was started is one its rumor was started with.
LEMMA AskedFact == ASSUME NEW y \in Started PROVE y.c \in Asked(y.rumor)
BY DEF Asked

\* What has been started depends on the commands carried out and on nothing else.
LEMMA StartedSame == ASSUME UNCHANGED distributed
                     PROVE  Started' = Started /\ \A r \in Rumors : Asked(r)' = Asked(r)
BY DEF Started, Asked

\* A command adds its payload to what has been started.
LEMMA StartedGrows ==
  ASSUME TypeOK, NEW n \in Node, NEW y \in Payload, handleControl_distribute(n, y)
  PROVE  /\ Started \subseteq Started' /\ y \in Started'
         /\ \A r \in Rumors : Asked(r) \subseteq Asked(r)'
<1>1. \A m \in Node, z \in Payload :
        /\ distributed[m][z] \in Nat
        /\ distributed'[m][z] = IF m = n /\ z = y THEN distributed[m][z] + 1 ELSE distributed[m][z]
  BY DEF handleControl_distribute, TypeOK
<1>2. Started \subseteq Started' /\ y \in Started'
  BY <1>1 DEF Started
<1> QED
  BY <1>2 DEF Asked

\* Nothing has been started.
LEMMA OriginInit == Init => Origin
BY DEF Init, NoCopies, Origin, UnderWayStarted, PassedOnCounted, CountedAsked, Payload

\* One step per action, and under Handle one per part.
LEMMA OriginNext == TypeOK /\ Origin /\ [Next]_vars => Origin'
<1> SUFFICES ASSUME TypeOK, Origin, [Next]_vars
             PROVE  Origin'
  OBVIOUS
<1> USE DEF Origin
<1>1. ASSUME NEW n \in Node, NEW y \in Payload, handleControl_distribute(n, y)
      PROVE  Origin'
  <2>1. Started \subseteq Started' /\ y \in Started' /\ \A r \in Rumors : Asked(r) \subseteq Asked(r)'
    BY <1>1, StartedGrows
  <2>2. \A p, q \in Node, z \in Payload : net'[p][q][z] > 0 => z = y \/ net[p][q][z] > 0
    BY <1>1, SendToFact DEF handleControl_distribute, TypeOK
  <2>3. UnderWayStarted'
    BY <2>1, <2>2 DEF UnderWayStarted
  <2>4. PassedOnCounted'
    BY <1>1 DEF handleControl_distribute, PassedOnCounted
  <2>5. CountedAsked'
    BY <1>1, <2>1 DEF handleControl_distribute, CountedAsked
  <2> QED
    BY <2>3, <2>4, <2>5
<1>2. ASSUME NEW n \in Node, NEW q \in Node, NEW y \in Payload, Handle(n, q, y)
      PROVE  Origin'
  <2>1. /\ Started' = Started /\ (\A r \in Rumors : Asked(r)' = Asked(r))
        /\ y \in Started /\ y.rumor \in Rumors /\ net[q][n][y] > 0
    BY <1>2, StartedSame, PayloadFact DEF Handle, UnderWayStarted
  <2>2. PICK taken \in PerEdge(Nat) :
          /\ \A a, b \in Node, z \in Payload :
               taken[a][b][z] = IF a = q /\ b = n /\ z = y THEN net[a][b][z] - 1 ELSE net[a][b][z]
          /\ \/ ~IsNew(n, y.rumor) /\ net' = taken /\ passedOn' = passedOn
             \/ /\ IsNew(n, y.rumor) /\ passedOn' = [passedOn EXCEPT ![n] = @ \cup {<<q, y>>}]
                /\ \A a, b \in Node, z \in Payload :
                     net'[a][b][z] = IF a = n /\ b \in Targets(n, q) /\ z = y
                                     THEN taken[a][b][z] + 1 ELSE taken[a][b][z]
    BY <1>2, HandleNet
  <2>3. \A a, b \in Node, z \in Payload : net'[a][b][z] > 0 => z = y \/ net[a][b][z] > 0
    BY <2>2 DEF PerEdge
  <2>4. UnderWayStarted'
    BY <2>1, <2>3 DEF UnderWayStarted
  <2>5. \A m \in Node, r \in Rumors :
          /\ counter[m][r] \in Nat
          /\ counter'[m][r] = IF m = n /\ r = y.rumor THEN counter[m][r] + 1 ELSE counter[m][r]
    BY <1>2, <2>1 DEF Handle, TypeOK
  <2>6. \A m, p \in Node, z \in Payload :
          <<p, z>> \in passedOn'[m] => <<p, z>> \in passedOn[m] \/ (m = n /\ z = y)
    BY <2>2 DEF TypeOK
  <2>7. PassedOnCounted'
    BY <2>1, <2>5, <2>6, PayloadFact DEF PassedOnCounted
  <2>8. CountedAsked'
    <3>1. Asked(y.rumor) # {}
      BY <2>1, AskedFact
    <3> QED
      BY <2>1, <2>5, <3>1 DEF CountedAsked
  <2> QED
    BY <2>4, <2>7, <2>8
<1>3. ASSUME NEW p \in Node, NEW q \in Node, NEW y \in Payload, SendFails(p, q, y)
      PROVE  Origin'
  <2>1. Started' = Started /\ \A r \in Rumors : Asked(r)' = Asked(r)
    BY <1>3, StartedSame DEF SendFails
  <2>2. \A a, b \in Node, z \in Payload : net'[a][b][z] > 0 => net[a][b][z] > 0
    BY <1>3 DEF SendFails, TypeOK, PerEdge
  <2> QED
    BY <1>3, <2>1, <2>2 DEF SendFails, UnderWayStarted, PassedOnCounted, CountedAsked
<1>4. CASE UNCHANGED vars
  <2>1. Started' = Started /\ \A r \in Rumors : Asked(r)' = Asked(r)
    BY <1>4, StartedSame DEF vars
  <2> QED
    BY <1>4, <2>1 DEF vars, UnderWayStarted, PassedOnCounted, CountedAsked
<1> QED
  BY <1>1, <1>2, <1>3, <1>4 DEF Next

-----------------------------------------------------------------------------
\* The count is kept by content, the threshold comes with each copy and is tested by `==`.
\* Whatever thresholds are mixed, nobody trusts a rumor before one of them is reached; and
\* where a rumor has only one, no count is skipped: a node trusts it exactly when it has
\* received it that often.
THEOREM TrustExactlyAtThreshold == Spec => []TrustedAtThreshold
<1>1. Init => TrustedAtThreshold
  <2> SUFFICES ASSUME Init, NEW n \in Node, NEW r \in Rumors, NEW c \in Thresholds
               PROVE  r \notin trustedRumors[n] /\ ~Reached(n, r, c)
    BY DEF TrustedAtThreshold, Init
  <2> QED
    BY ThresholdAssumption DEF Init, Reached
<1>2. TypeOK /\ Origin /\ TrustedAtThreshold /\ [Next]_vars => TrustedAtThreshold'
  <2> SUFFICES ASSUME TypeOK, Origin, TrustedAtThreshold, [Next]_vars
               PROVE  TrustedAtThreshold'
    OBVIOUS
  <2>1. ASSUME UNCHANGED <<counter, trustedRumors, distributed>>
        PROVE  TrustedAtThreshold'
    <3>1. \A r \in Rumors : Asked(r)' = Asked(r)
      BY <2>1, StartedSame
    <3> QED
      BY <2>1, <3>1 DEF TrustedAtThreshold, Reached
  <2>2. ASSUME NEW m \in Node, NEW y \in Payload, handleControl_distribute(m, y)
        PROVE  TrustedAtThreshold'
    <3> SUFFICES ASSUME NEW n \in Node, NEW r \in Rumors
                 PROVE  /\ r \in trustedRumors[n] => \E c \in Asked(r)' : Reached(n, r, c)
                        /\ \A c \in Thresholds :
                             Asked(r)' = {c} => (r \in trustedRumors[n] <=> Reached(n, r, c))
      BY <2>2 DEF TrustedAtThreshold, Reached, handleControl_distribute
    <3>1. Asked(r) \subseteq Asked(r)'
      BY <2>2, StartedGrows
    <3>2. r \in trustedRumors[n] => \E c \in Asked(r) : Reached(n, r, c)
      BY DEF TrustedAtThreshold
    <3>3. ASSUME NEW c \in Thresholds, Asked(r)' = {c}
          PROVE  r \in trustedRumors[n] <=> Reached(n, r, c)
      <4>1. CASE Asked(r) = {}
        <5>1. counter[n][r] = 0
          BY <4>1 DEF Origin, CountedAsked, TypeOK
        <5>2. ~Reached(n, r, c)
          BY <5>1, ThresholdAssumption DEF Reached
        <5> QED
          BY <3>2, <4>1, <5>2
      <4>2. CASE Asked(r) = {c}
        BY <4>2 DEF TrustedAtThreshold
      <4> QED
        BY <3>1, <3>3, <4>1, <4>2
    <3> QED
      BY <3>1, <3>2, <3>3
  <2>3. ASSUME NEW m \in Node, NEW q \in Node, NEW y \in Payload, Handle(m, q, y)
        PROVE  TrustedAtThreshold'
    <3> SUFFICES ASSUME NEW n \in Node, NEW r \in Rumors
                 PROVE  /\ r \in trustedRumors'[n] => \E c \in Asked(r) : Reached(n, r, c)'
                        /\ \A c \in Thresholds :
                             Asked(r) = {c} => (r \in trustedRumors'[n] <=> Reached(n, r, c)')
      <4>1. \A s \in Rumors : Asked(s)' = Asked(s)
        BY <2>3, StartedSame DEF Handle
      <4> QED
        BY <4>1 DEF TrustedAtThreshold
    <3>1. /\ counter[n][r] \in Nat
          /\ r \in trustedRumors[n] => \E c \in Asked(r) : Reached(n, r, c)
          /\ \A c \in Thresholds :
               Asked(r) = {c} => (r \in trustedRumors[n] <=> Reached(n, r, c))
      BY DEF TypeOK, TrustedAtThreshold
    <3>2. Asked(r) \subseteq Int
      BY PayloadFact DEF Asked, Started
    <3>3. CASE n = m /\ r = y.rumor
      <4>1. counter'[n][r] = counter[n][r] + 1
        BY <2>3, <3>3 DEF Handle, TypeOK
      <4>2. r \in trustedRumors'[n] <=> r \in trustedRumors[n] \/ counter[n][r] + 1 = y.c
        BY <2>3, <3>3 DEF Handle, TypeOK, Trusts
      <4>3. y.c \in Asked(r) /\ y.c \in Int
        BY <2>3, <3>3, AskedFact, PayloadFact DEF Handle, Origin, UnderWayStarted
      <4>4. \A c \in Int : Reached(n, r, c)' <=> Reached(n, r, c) \/ counter[n][r] + 1 = c
        BY <3>1, <4>1 DEF Reached
      <4>5. ASSUME r \in trustedRumors'[n]
            PROVE  \E c \in Asked(r) : Reached(n, r, c)'
        BY <3>1, <3>2, <4>2, <4>3, <4>4, <4>5
      <4>6. ASSUME NEW c \in Thresholds, Asked(r) = {c}
            PROVE  r \in trustedRumors'[n] <=> Reached(n, r, c)'
        BY <3>1, <4>2, <4>3, <4>4, <4>6
      <4> QED
        BY <4>5, <4>6
    <3>4. CASE ~(n = m /\ r = y.rumor)
      <4>1. counter'[n][r] = counter[n][r]
        BY <2>3, <3>4, PayloadFact DEF Handle, TypeOK
      <4>2. r \in trustedRumors'[n] <=> r \in trustedRumors[n]
        BY <2>3, <3>4 DEF Handle, TypeOK
      <4> QED
        BY <3>1, <4>1, <4>2 DEF Reached
    <3> QED
      BY <3>3, <3>4
  <2> QED
    BY <2>1, <2>2, <2>3 DEF Next, SendFails, vars
<1> QED
  BY <1>1, <1>2, TypeInit, TypeNext, OriginInit, OriginNext, PTL DEF Spec

-----------------------------------------------------------------------------
(***************************************************************************)
(* Conservation: both sides of the equation, entry by entry.               *)
(***************************************************************************)
Gone(p, q, y) == net[p][q][y] + heard[q][p][y] + failed[p][q][y]
Due(p, q, y) == IF q \in Neigh[p] THEN distributed[p][y] + Relayed(p, q, y) ELSE 0

\* Handle keeps every entry balanced.
LEMMA ConservedHandle ==
  ASSUME TypeOK, Origin, CopiesConserved,
         NEW n \in Node, NEW q \in Node, NEW y \in Payload, Handle(n, q, y),
         NEW a \in Node, NEW b \in Node, NEW z \in Payload
  PROVE  Gone(a, b, z)' = Due(a, b, z)'
<1>1. /\ net[a][b][z] \in Nat /\ heard[b][a][z] \in Nat /\ failed[a][b][z] \in Nat
      /\ counter[a][z.rumor] \in Nat /\ distributed[a][z] \in Nat /\ net[q][n][y] \in Nat
      /\ heard[n][q][y] \in Nat /\ failed[q][n][y] \in Nat
  BY PayloadFact DEF TypeOK, PerEdge
<1>2. Gone(a, b, z) = Due(a, b, z)
  BY DEF CopiesConserved, Gone, Due
\* A copy is under way only between neighbours, so q and n are two nodes.
<1>3. n \in Neigh[q] /\ q \in Neigh[n] /\ q # n
  <2>1. net[q][n][y] > 0 /\ Gone(q, n, y) = Due(q, n, y)
    BY DEF Handle, CopiesConserved, Gone, Due
  <2>2. n \in Neigh[q]
    BY <1>1, <2>1 DEF Gone, Due
  <2> QED
    BY <2>2, NeighAssumption
<1>4. /\ failed' = failed /\ distributed' = distributed
      /\ heard'[b][a][z] = IF b = n /\ a = q /\ z = y THEN heard[b][a][z] + 1 ELSE heard[b][a][z]
  BY DEF Handle, TypeOK, PerEdge
<1>5. PICK taken \in PerEdge(Nat) :
        /\ \A c, d \in Node, w \in Payload :
             taken[c][d][w] = IF c = q /\ d = n /\ w = y THEN net[c][d][w] - 1 ELSE net[c][d][w]
        /\ \/ ~IsNew(n, y.rumor) /\ net' = taken /\ passedOn' = passedOn
           \/ /\ IsNew(n, y.rumor) /\ passedOn' = [passedOn EXCEPT ![n] = @ \cup {<<q, y>>}]
              /\ \A c, d \in Node, w \in Payload :
                   net'[c][d][w] = IF c = n /\ d \in Targets(n, q) /\ w = y
                                   THEN taken[c][d][w] + 1 ELSE taken[c][d][w]
  BY HandleNet
<1>6. taken[a][b][z] = IF a = q /\ b = n /\ z = y THEN net[a][b][z] - 1 ELSE net[a][b][z]
  BY <1>5
\* A copy n has had before: one copy moves from under way to heard.
<1>7. CASE ~IsNew(n, y.rumor)
  <2>1. net'[a][b][z] = taken[a][b][z] /\ passedOn' = passedOn
    BY <1>5, <1>7
  <2>2. Relayed(a, b, z)' = Relayed(a, b, z)
    BY <2>1 DEF Relayed
  <2> QED
    BY <1>1, <1>2, <1>3, <1>4, <1>6, <2>1, <2>2 DEF Gone, Due
\* The first copy: n passes it on to exactly those it then counts as relayed to.
<1>8. CASE IsNew(n, y.rumor)
  <2>1. /\ net'[a][b][z] = IF a = n /\ b \in Neigh[n] \ {q} /\ z = y
                           THEN taken[a][b][z] + 1 ELSE taken[a][b][z]
        /\ \A m \in Node : <<m, z>> \in passedOn'[a] <=>
                            <<m, z>> \in passedOn[a] \/ (a = n /\ m = q /\ z = y)
    BY <1>5, <1>8 DEF Targets, TypeOK
  <2>2. CASE a = n /\ z = y
    <3>1. \A m \in Node : <<m, z>> \notin passedOn[a]
      BY <1>8, <2>2 DEF Origin, PassedOnCounted, IsNew
    <3>2. Relayed(a, b, z) = 0
      BY <3>1 DEF Relayed
    <3>3. Relayed(a, b, z)' = IF b = q THEN 0 ELSE 1
      BY <2>1, <2>2, <3>1 DEF Relayed
    <3> QED
      BY <1>1, <1>2, <1>3, <1>4, <1>6, <2>1, <2>2, <3>2, <3>3 DEF Gone, Due
  <2>3. CASE ~(a = n /\ z = y)
    <3>1. Relayed(a, b, z)' = Relayed(a, b, z)
      BY <2>1, <2>3 DEF Relayed
    <3> QED
      BY <1>1, <1>2, <1>3, <1>4, <1>6, <2>1, <2>3, <3>1 DEF Gone, Due
  <2> QED
    BY <2>2, <2>3
<1> QED
  BY <1>7, <1>8

\* Over any graph and any history, what a node has sent a neighbour of a payload is one
\* copy per command and at most one more: flooding stops by itself, and every copy
\* is under way, was received, or was lost by a failed send.
THEOREM CopiesAreConserved == Spec => []CopiesConserved
<1>1. Init => CopiesConserved
  BY DEF Init, NoCopies, CopiesConserved, Relayed
<1>2. TypeOK /\ Origin /\ CopiesConserved /\ [Next]_vars => CopiesConserved'
  <2> SUFFICES ASSUME TypeOK, Origin, CopiesConserved, [Next]_vars,
                      NEW a \in Node, NEW b \in Node, NEW z \in Payload
               PROVE  Gone(a, b, z)' = Due(a, b, z)'
    BY DEF CopiesConserved, Gone, Due
  <2>1. Gone(a, b, z) = Due(a, b, z)
    BY DEF CopiesConserved, Gone, Due
  <2>2. /\ net[a][b][z] \in Nat /\ heard[b][a][z] \in Nat /\ failed[a][b][z] \in Nat
        /\ distributed[a][z] \in Nat /\ Relayed(a, b, z) \in 0 .. 1
    BY DEF TypeOK, PerEdge, Relayed
  <2>3. ASSUME NEW n \in Node, NEW y \in Payload, handleControl_distribute(n, y)
        PROVE  Gone(a, b, z)' = Due(a, b, z)'
    <3>1. net'[a][b][z] = IF a = n /\ b \in Neigh[n] /\ z = y THEN net[a][b][z] + 1 ELSE net[a][b][z]
      BY <2>3, SendToFact DEF handleControl_distribute, TypeOK
    <3>2. distributed'[a][z] = IF a = n /\ z = y THEN distributed[a][z] + 1 ELSE distributed[a][z]
      BY <2>3 DEF handleControl_distribute, TypeOK
    <3>3. heard' = heard /\ failed' = failed /\ Relayed(a, b, z)' = Relayed(a, b, z)
      BY <2>3 DEF handleControl_distribute, Relayed
    <3> QED
      BY <2>1, <2>2, <3>1, <3>2, <3>3 DEF Gone, Due
  <2>4. ASSUME NEW n \in Node, NEW q \in Node, NEW y \in Payload, Handle(n, q, y)
        PROVE  Gone(a, b, z)' = Due(a, b, z)'
    BY <2>4, ConservedHandle
  <2>5. ASSUME NEW p \in Node, NEW q \in Node, NEW y \in Payload, SendFails(p, q, y)
        PROVE  Gone(a, b, z)' = Due(a, b, z)'
    <3>1. /\ net'[a][b][z] = IF a = p /\ b = q /\ z = y THEN net[a][b][z] - 1 ELSE net[a][b][z]
          /\ failed'[a][b][z] = IF a = p /\ b = q /\ z = y THEN failed[a][b][z] + 1 ELSE failed[a][b][z]
      BY <2>5 DEF SendFails, TypeOK, PerEdge
    <3>2. heard' = heard /\ distributed' = distributed /\ Relayed(a, b, z)' = Relayed(a, b, z)
      BY <2>5 DEF SendFails, Relayed
    <3> QED
      BY <2>1, <2>2, <3>1, <3>2 DEF Gone, Due
  <2>6. CASE UNCHANGED vars
    BY <2>1, <2>6 DEF vars, Gone, Due, Relayed
  <2> QED
    BY <2>3, <2>4, <2>5, <2>6 DEF Next
<1> QED
  BY <1>1, <1>2, TypeInit, TypeNext, OriginInit, OriginNext, PTL DEF Spec
=============================================================================
