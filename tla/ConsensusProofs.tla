-------------------------- MODULE ConsensusProofs --------------------------
(***************************************************************************)
(* The consensus on every graph and tree, with any times, parameters and   *)
(* sends that fail.                                                        *)
(***************************************************************************)
EXTENDS Consensus, NetworkProofs, FiniteSetTheorems, TLAPS

Loops == {"elected", "count", "collect", "done", "stuck"}
Failures == {"nothing", "vote", "control"}

-----------------------------------------------------------------------------
(***************************************************************************)
(* Types.                                                                  *)
(***************************************************************************)
\* The fields of a message.
LEMMA MessageFields ==
  ASSUME NEW m \in Message
  PROVE  /\ m.type \in {"proposal", "proposalResponse"} => m.time \in Times
         /\ m.type \in {"stateRequest", "stateResponse"} => m.id \in 1 .. MaxRounds
         /\ m.type = "stateResponse" => m.state \in State
         /\ m.type = "collect" => m.result \in Result
<1>1. \/ m = VoteBegin
      \/ m \in [type : {"proposal", "proposalResponse"}, time : Times]
      \/ m \in [type : {"stateRequest"}, id : 1 .. MaxRounds]
      \/ m \in [type : {"stateResponse"}, id : 1 .. MaxRounds, state : State]
      \/ m = CollectRequest
      \/ m \in [type : {"collect"}, result : Result]
  BY DEF Message, Vote, Control
<1>2. CASE m = VoteBegin
  BY <1>2 DEF VoteBegin
<1>3. CASE m \in [type : {"proposal", "proposalResponse"}, time : Times]
  BY <1>3
<1>4. CASE m \in [type : {"stateRequest"}, id : 1 .. MaxRounds]
  BY <1>4
<1>5. CASE m \in [type : {"stateResponse"}, id : 1 .. MaxRounds, state : State]
  BY <1>5
<1>6. CASE m = CollectRequest
  BY <1>6 DEF CollectRequest
<1>7. CASE m \in [type : {"collect"}, result : Result]
  BY <1>7
<1> QED
  BY <1>1, <1>2, <1>3, <1>4, <1>5, <1>6, <1>7

\* The messages a node makes.
LEMMA Makes ==
  /\ VoteBegin \in Message /\ CollectRequest \in Message
  /\ \A t \in Times : Proposal(t) \in Message /\ ProposalResponse(t) \in Message
  /\ \A id \in 1 .. MaxRounds : StateRequest(id) \in Message
  /\ \A id \in 1 .. MaxRounds, s \in State : StateResponse(id, s) \in Message
  /\ \A r \in Result : CollectResponse(r) \in Message
BY DEF Message, Vote, Control, VoteBegin, CollectRequest, Proposal, ProposalResponse,
       StateRequest, StateResponse, CollectResponse

\* Where in s the calls to vote are.
Begins(s) == {i \in DOMAIN s : s[i].type = "voteBegin"}

\* What is sent has no call to vote in it.
Silent(out) == \A r \in Node : Begins(out[r]) = {}

\* No call more, if none is sent.
LEMMA BeginsConcat ==
  ASSUME NEW s \in Seq(Message), NEW t \in Seq(Message), Begins(t) = {}
  PROVE  Begins(s \o t) = Begins(s)
<1>1. ASSUME NEW i \in Begins(s) PROVE i \in Begins(s \o t)
  BY <1>1, Concat DEF Begins
<1>2. ASSUME NEW i \in Begins(s \o t) PROVE i \in Begins(s)
  <2>1. \/ i \in DOMAIN s /\ (s \o t)[i] = s[i]
        \/ i - Len(s) \in DOMAIN t /\ (s \o t)[i] = t[i - Len(s)]
    BY Concat DEF Begins
  <2> QED
    BY <2>1 DEF Begins
<1> QED
  BY <1>1, <1>2

\* Messages of another kind, and nothing, are no calls.
LEMMA Silence ==
  /\ Silent(Nothing)
  /\ \A R, msg : msg.type # "voteBegin" => Silent(To(R, msg))
  /\ \A out, msg : msg.type # "voteBegin" /\ (\A r \in Node : \A i \in DOMAIN out[r] : out[r][i] = msg)
                  => Silent(out)
  /\ \A out1, out2 \in Outgoing(Message) : Silent(out1) /\ Silent(out2) => Silent(Then(out1, out2))
<1>1. Silent(Nothing)
  BY EmptySeq DEF Silent, Nothing, Begins
<1>2. ASSUME NEW R, NEW msg, msg.type # "voteBegin" PROVE Silent(To(R, msg))
  BY <1>2, EmptySeq DEF Silent, To, Begins
<1>3. ASSUME NEW out, NEW msg, msg.type # "voteBegin",
             \A r \in Node : \A i \in DOMAIN out[r] : out[r][i] = msg
      PROVE  Silent(out)
  <2> SUFFICES ASSUME NEW r \in Node, NEW i \in Begins(out[r]) PROVE FALSE
    BY DEF Silent
  <2> QED
    BY <1>3 DEF Begins
<1>4. ASSUME NEW out1 \in Outgoing(Message), NEW out2 \in Outgoing(Message), Silent(out1), Silent(out2)
      PROVE  Silent(Then(out1, out2))
  <2> SUFFICES ASSUME NEW r \in Node PROVE Begins(Then(out1, out2)[r]) = {}
    BY DEF Silent
  <2>1. /\ out1[r] \in Seq(Message) /\ out2[r] \in Seq(Message)
        /\ Begins(out1[r]) = {} /\ Begins(out2[r]) = {}
    BY <1>4 DEF Silent, Outgoing
  <2> QED
    BY <2>1, BeginsConcat DEF Then
<1> QED
  BY <1>1, <1>2, <1>3, <1>4

\* The time in the middle of two.
LEMMA MidTimeType == ASSUME NEW t1 \in Times, NEW t2 \in Times PROVE MidTime(t1, t2) \in Times
<1>1. MaxTime \in Nat /\ t1 \in 1 .. MaxTime /\ t2 \in 1 .. MaxTime
  BY ParameterAssumption DEF Times
<1>2. (t1 + t2 + 1) \div 2 \in 1 .. MaxTime
  BY <1>1
<1> QED
  BY <1>2 DEF MidTime, Times

\* What is added up.
LEMMA AddStateType == ASSUME NEW s1 \in State, NEW s2 \in State PROVE AddState(s1, s2) \in State
BY DEF AddState, State

\* The result.
LEMMA AddResultType ==
  ASSUME NEW r \in Result, NEW agreement \in BOOLEAN, NEW t \in Times \cup {None}
  PROVE  AddResult(r, agreement, t) \in Result
<1>1. r.agreement \in BOOLEAN /\ r.timestamp \in Times \cup {None}
  BY DEF Result
<1> DEFINE conflict == None \notin {r.timestamp, t} /\ r.timestamp # t
           agreed == r.agreement /\ agreement /\ ~conflict
           timestamp == IF ~agreed THEN None
                        ELSE IF r.timestamp = None THEN t ELSE r.timestamp
<1>2. timestamp \in Times \cup {None} /\ agreed \in BOOLEAN
  BY <1>1
<1>3. AddResult(r, agreement, t) = [agreement |-> agreed, timestamp |-> timestamp]
  BY DEF AddResult
<1> HIDE DEF agreed, timestamp
<1> QED
  BY <1>2, <1>3 DEF Result

\* There are finitely many neighbours.
LEMMA NeighFinite ==
  ASSUME NEW n \in Node
  PROVE  /\ Neigh[n] \subseteq Node /\ IsFiniteSet(Neigh[n]) /\ Cardinality(Neigh[n]) \in Nat
         /\ \A lost \in SUBSET Neigh[n] :
              Cardinality(Neigh[n] \ lost) \in Nat /\ Cardinality(Neigh[n] \ lost) <= Cardinality(Neigh[n])
<1>1. Neigh[n] \subseteq Node /\ IsFiniteSet(Neigh[n])
  BY NodeAssumption, NeighAssumption, FS_Subset
<1>2. ASSUME NEW lost \in SUBSET Neigh[n]
      PROVE  IsFiniteSet(Neigh[n] \ lost) /\ Cardinality(Neigh[n] \ lost) <= Cardinality(Neigh[n])
  BY <1>1, FS_Subset
<1> QED
  BY <1>1, <1>2, FS_CardinalityType

\* How many votes a node sends with one sendProposals.
LEMMA FanType == ASSUME NEW n \in Node PROVE Fan(n) \in Nat
BY NeighFinite DEF Fan

\* Every proposal that is sent, and how many.
LEMMA ProposalsType ==
  ASSUME NEW n \in Node, failed \in Failures, NEW msg \in Message, NEW p \in sendProposals(n, msg)
  PROVE  /\ p.out \in Outgoing(Message) /\ p.failed \in Failures
         /\ p.sent \in Nat /\ p.sent <= Fan(n)
         /\ \A r \in Node : \A i \in DOMAIN p.out[r] : p.out[r][i] = msg
<1>1. CASE pNeighs[n] = 0
  <2>1. p = NoVotes
    BY <1>1 DEF sendProposals
  <2>2. p.out = Nothing /\ p.sent = 0 /\ p.failed = failed
    BY <2>1 DEF NoVotes
  <2> QED
    BY <2>2, FanType, NothingType, EmptySeq DEF Nothing
<1>2. CASE pNeighs[n] # 0
  <2>1. PICK x \in Neigh[n], lost \in Lost(n) : p = Proposed(n, msg, x, lost)
    BY <1>2 DEF sendProposals
  <2>2. lost \in SUBSET Neigh[n]
    BY DEF Lost
  <2> DEFINE first == To(Neigh[n] \ lost, msg)
             second == To({x}, msg)
  <2>3. p.out = Then(first, second) /\ p.sent = Cardinality(Neigh[n] \ lost) + 1
        /\ p.failed \in {failed, "vote"}
    BY <2>1 DEF Proposed
  <2>4. first \in Outgoing(Message) /\ second \in Outgoing(Message)
    BY ToType
  <2>5. \A r \in Node : \A i \in DOMAIN p.out[r] : p.out[r][i] = msg
    <3> SUFFICES ASSUME NEW r \in Node, NEW i \in DOMAIN (first[r] \o second[r])
                 PROVE  (first[r] \o second[r])[i] = msg
      <4>1. \A r \in Node : p.out[r] = first[r] \o second[r]
        BY <2>3 DEF Then
      <4> HIDE DEF first, second
      <4> QED
        BY <4>1
    <3>1. /\ \A j \in DOMAIN first[r] : first[r][j] = msg
          /\ \A j \in DOMAIN second[r] : second[r][j] = msg
      BY EmptySeq DEF To
    <3>2. first[r] \in Seq(Message) /\ second[r] \in Seq(Message)
      BY <2>4 DEF Outgoing
    <3> HIDE DEF first, second
    <3>3. \/ i \in DOMAIN first[r] /\ (first[r] \o second[r])[i] = first[r][i]
          \/ i - Len(first[r]) \in DOMAIN second[r]
             /\ (first[r] \o second[r])[i] = second[r][i - Len(first[r])]
      BY <3>2, Concat
    <3> QED
      BY <3>1, <3>3
  <2> HIDE DEF first, second
  <2>6. p.out \in Outgoing(Message)
    BY <2>3, <2>4, ThenType
  <2>7. p.sent \in Nat /\ p.sent <= Fan(n)
    <3>1. /\ Cardinality(Neigh[n] \ lost) \in Nat /\ Cardinality(Neigh[n]) \in Nat
          /\ Cardinality(Neigh[n] \ lost) <= Cardinality(Neigh[n])
      BY <2>2, NeighFinite
    <3> QED
      BY <1>2, <2>3, <3>1 DEF Fan
  <2> QED
    BY <2>3, <2>5, <2>6, <2>7 DEF Failures
<1> QED
  BY <1>1, <1>2

\* And the answer to a proposal.
LEMMA ResponseType ==
  ASSUME NEW n \in Node, NEW q \in Node, failed \in Failures, NEW msg \in Message,
         NEW p \in sendResponse(n, q, msg)
  PROVE  /\ p.out \in Outgoing(Message) /\ p.failed \in Failures
         /\ p.sent \in Nat /\ p.sent <= 1
         /\ \A r \in Node : \A i \in DOMAIN p.out[r] : p.out[r][i] = msg
<1>1. CASE p = [out |-> To({q}, msg), sent |-> 1, failed |-> failed]
  <2>1. p.out = To({q}, msg) /\ p.sent = 1 /\ p.failed = failed
    BY <1>1
  <2>2. \A r \in Node : \A i \in DOMAIN p.out[r] : p.out[r][i] = msg
    BY <2>1, EmptySeq DEF To
  <2>3. p.out \in Outgoing(Message)
    BY <2>1, ToType
  <2> QED
    BY <2>1, <2>2, <2>3
<1>2. CASE p = [NoVotes EXCEPT !.failed = "vote"]
  <2>1. p.out = Nothing /\ p.sent = 0 /\ p.failed = "vote"
    BY <1>2 DEF NoVotes
  <2> QED
    BY <2>1, NothingType, EmptySeq DEF Nothing, Failures
<1> QED
  BY <1>1, <1>2 DEF sendResponse

\* What a handler finds.
LEMMA TakesType ==
  ASSUME TypeOK, NEW n \in Node, NEW q \in Node, NEW kind, Takes(n, q, kind)
  PROVE  /\ chan \in Channels(Message) /\ chan[q][n] # <<>>
         /\ Head(chan[q][n]) \in Message /\ Head(chan[q][n]).type = kind
         /\ UNCHANGED <<loop, outbox, round>>
<1>1. chan \in Channels(Message)
  BY DEF TypeOK, Channels, Outgoing
<1> QED
  BY <1>1, HeadType DEF Takes, loopVars

\* What is counted.
LEMMA CountsType ==
  ASSUME TypeOK, NEW n \in Node, NEW sent \in Nat
  PROVE  /\ Sends(n, sent) => msgOutCounter' \in [Node -> Nat] /\ msgOutCounter'[n] = msgOutCounter[n] + sent
         /\ Received(n) => msgInCounter' \in [Node -> Nat]
<1>1. msgOutCounter[n] + sent \in Nat /\ msgInCounter[n] + 1 \in Nat
  BY DEF TypeOK
<1> QED
  BY <1>1 DEF TypeOK, Sends, Received

\* A message of the vote.
LEMMA TypesVote ==
  ASSUME TypeOK, NEW n \in Node, NEW q \in Node,
         handle_voteBegin(n, q) \/ handle_proposal(n, q) \/ handle_proposalResponse(n, q)
  PROVE  TypeOK'
<1> DEFINE m == Head(chan[q][n])
<1>1. /\ chan \in Channels(Message) /\ failed \in Failures /\ tK[n] \in Times
      /\ aMax[n] \in Nat /\ aCurrent[n] \in Nat
  BY ParameterAssumption DEF TypeOK, Channels, Outgoing, Failures
<1>2. CASE handle_voteBegin(n, q)
  <2>1. Takes(n, q, "voteBegin") /\ Received(n) /\ UNCHANGED <<tK, aCurrent, echo, rounds, result>>
    BY <1>2 DEF handle_voteBegin
  <2>2. PICK p \in sendProposals(n, Proposal(tK[n])) :
          chan' = Exchanged(chan, q, n, p.out) /\ Sends(n, p.sent) /\ failed' = p.failed
    BY <1>2 DEF handle_voteBegin
  <2>3. p.out \in Outgoing(Message) /\ p.failed \in Failures /\ p.sent \in Nat
    BY <1>1, Makes, ProposalsType
  <2>4. chan' \in Channels(Message) /\ UNCHANGED <<loop, outbox, round>>
    BY <2>1, <2>2, <2>3, TakesType, ExchangedType
  <2>5. msgOutCounter' \in [Node -> Nat] /\ msgInCounter' \in [Node -> Nat]
    BY <2>1, <2>2, <2>3, CountsType
  <2> QED
    BY <2>1, <2>2, <2>3, <2>4, <2>5 DEF TypeOK, Channels, Outgoing, Failures, rounds, result
<1>3. CASE AcceptProposal(n, q)
  <2> DEFINE t == MidTime(m.time, tK[n])
  <2>1. /\ Takes(n, q, "proposal") /\ aCurrent[n] < aMax[n] /\ Received(n) /\ Counted(n)
        /\ tK' = [tK EXCEPT ![n] = t] /\ UNCHANGED <<echo, rounds, result>>
    BY <1>3 DEF AcceptProposal
  <2>2. m \in Message /\ m.type = "proposal" /\ chan[q][n] # <<>> /\ UNCHANGED <<loop, outbox, round>>
    BY <2>1, TakesType
  <2>3. t \in Times
    BY <1>1, <2>2, MessageFields, MidTimeType
  <2>4. PICK r \in sendResponse(n, q, ProposalResponse(t)), p \in sendProposals(n, Proposal(t)) :
          /\ chan' = Exchanged(chan, q, n, Then(r.out, p.out)) /\ Sends(n, r.sent + p.sent)
          /\ failed' = IF r.failed = failed THEN p.failed ELSE r.failed
    BY <1>3 DEF AcceptProposal
  <2> HIDE DEF t
  <2>5. /\ r.out \in Outgoing(Message) /\ r.failed \in Failures /\ r.sent \in Nat
        /\ p.out \in Outgoing(Message) /\ p.failed \in Failures /\ p.sent \in Nat
    BY <1>1, <2>3, Makes, ProposalsType, ResponseType
  <2>6. Then(r.out, p.out) \in Outgoing(Message)
    BY <2>5, ThenType
  <2>7. chan' \in Channels(Message)
    BY <1>1, <2>2, <2>4, <2>6, ExchangedType
  <2>8. r.sent + p.sent \in Nat
    BY <2>5
  <2>9. msgOutCounter' \in [Node -> Nat] /\ msgInCounter' \in [Node -> Nat]
    BY <2>1, <2>4, <2>8, CountsType
  <2>10. aCurrent' \in [Node -> Nat] /\ \A k \in Node : aCurrent'[k] <= aMax[k]
    <3>1. aCurrent[n] + 1 \in Nat /\ aCurrent[n] + 1 <= aMax[n]
      BY <1>1, <2>1
    <3> QED
      BY <2>1, <3>1 DEF Counted, TypeOK
  <2>11. tK' \in [Node -> Times]
    BY <2>1, <2>3 DEF TypeOK
  <2>12. failed' \in Failures
    BY <2>4, <2>5
  <2> QED
    BY <2>1, <2>2, <2>7, <2>9, <2>10, <2>11, <2>12 DEF TypeOK, Channels, Outgoing, Failures, rounds, result
<1>4. CASE DropProposal(n, q)
  <2>1. /\ Takes(n, q, "proposal") /\ Received(n) /\ chan' = Taken(chan, q, n)
        /\ UNCHANGED <<tK, aCurrent, msgOutCounter, echo, rounds, result, failed>>
    BY <1>4 DEF DropProposal
  <2>2. chan' \in Channels(Message) /\ UNCHANGED <<loop, outbox, round>>
    BY <2>1, TakesType, TakenAt
  <2>3. msgInCounter' \in [Node -> Nat]
    BY <2>1, CountsType
  <2> QED
    BY <2>1, <2>2, <2>3 DEF TypeOK, Channels, Outgoing, rounds, result
<1>5. CASE handle_proposalResponse(n, q)
  <2>1. /\ Takes(n, q, "proposalResponse") /\ Received(n) /\ chan' = Taken(chan, q, n)
        /\ tK' = [tK EXCEPT ![n] = m.time]
        /\ UNCHANGED <<aCurrent, msgOutCounter, echo, rounds, result, failed>>
    BY <1>5 DEF handle_proposalResponse
  <2>2. chan' \in Channels(Message) /\ UNCHANGED <<loop, outbox, round>>
    BY <2>1, TakesType, TakenAt
  <2>3. msgInCounter' \in [Node -> Nat]
    BY <2>1, CountsType
  <2>4. m.time \in Times
    BY <2>1, TakesType, MessageFields
  <2>5. tK' \in [Node -> Times]
    BY <2>1, <2>4 DEF TypeOK
  <2> QED
    BY <2>1, <2>2, <2>3, <2>5 DEF TypeOK, Channels, Outgoing, rounds, result
<1> QED
  BY <1>2, <1>3, <1>4, <1>5 DEF handle_proposal

\* The answer to a request, to the parent.
LEMMA ToParentType ==
  ASSUME NEW n \in Node, NEW msg \in Message, msg.type # "voteBegin"
  PROVE  ToParent(n, msg) \in Outgoing(Message) /\ Silent(ToParent(n, msg))
BY ToType, NothingType, Silence DEF ToParent

\* A message of the count: types, and no vote is called for.
LEMMA CountStep ==
  ASSUME TypeOK, NEW n \in Node, NEW q \in Node, handle_stateRequest(n, q) \/ handle_stateResponse(n, q)
  PROVE  TypeOK' /\ \E out \in Outgoing(Message) : Silent(out) /\ chan' = Exchanged(chan, q, n, out)
<1> DEFINE m == Head(chan[q][n])
<1>1. Takes(n, q, "stateRequest") \/ Takes(n, q, "stateResponse")
  BY DEF handle_stateRequest, handle_stateResponse
<1>2. /\ chan \in Channels(Message) /\ chan[q][n] # <<>> /\ m \in Message
      /\ m.type \in {"stateRequest", "stateResponse"} /\ UNCHANGED <<loop, outbox, round>>
  BY <1>1, TakesType
<1>3. m.id \in 1 .. MaxRounds /\ m.id \in Requests /\ MaxRounds \in Nat
  BY <1>2, MessageFields, ParameterAssumption DEF Requests, Collect
<1>4. PICK s \in State, count \in Nat, forward \in Outgoing(Message) :
        stateReturn(n, q, m.id, s, count, forward) /\ Silent(forward)
  <2>1. CASE handle_stateRequest(n, q)
    <3>1. NoState \in State /\ 0 \in Nat
      BY DEF NoState, State
    <3>2. PropagateChilds(n, m) \in Outgoing(Message) /\ Silent(PropagateChilds(n, m))
      BY <1>2, ToType, Silence DEF PropagateChilds
    <3> QED
      BY <2>1, <3>1, <3>2 DEF handle_stateRequest
  <2>2. CASE handle_stateResponse(n, q)
    <3>1. m.state \in State
      BY <1>2, <2>2, TakesType, MessageFields DEF handle_stateResponse
    <3>2. accState[n][m.id] \in State /\ echo[n][m.id] \in Nat \cup {None}
      <4>1. accState[n] \in [1 .. MaxRounds -> State] /\ echo[n] \in [Requests -> Nat \cup {None}]
        BY DEF TypeOK
      <4> QED
        BY <1>3, <4>1
    <3>3. AddState(accState[n][m.id], m.state) \in State
      BY <3>1, <3>2, AddStateType
    <3>4. echo[n][m.id] + 1 \in Nat
      <4>1. echo[n][m.id] # None
        BY <2>2 DEF handle_stateResponse
      <4> HIDE DEF m
      <4>2. echo[n][m.id] \in Nat
        BY <3>2, <4>1
      <4> QED
        BY <4>2
    <3>5. Nothing \in Outgoing(Message) /\ Silent(Nothing)
      BY NothingType, Silence
    <3> QED
      BY <2>2, <3>3, <3>4, <3>5 DEF handle_stateResponse
  <2> QED
    BY <2>1, <2>2
<1> DEFINE total == IF AllAnswered(n, count) THEN AddState(s, OwnState(n)) ELSE s
           report == IF AllAnswered(n, count) THEN ToParent(n, StateResponse(m.id, total)) ELSE Nothing
<1>5. total \in State
  <2>1. OwnState(n) \in State
    BY DEF OwnState, State, TypeOK
  <2> QED
    BY <2>1, AddStateType
<1>6. /\ echo' = [echo EXCEPT ![n][m.id] = count]
      /\ accState' = [accState EXCEPT ![n][m.id] = total]
      /\ accStateDone' = accStateDone \cup {m.id} \/ accStateDone' = accStateDone
      /\ chan' = Exchanged(chan, q, n, Then(forward, report))
  BY <1>4 DEF stateReturn
<1>7. report \in Outgoing(Message) /\ Silent(report)
  <2> HIDE DEF total
  <2>1. StateResponse(m.id, total) \in Message /\ StateResponse(m.id, total).type # "voteBegin"
    BY <1>3, <1>5, Makes DEF StateResponse
  <2> QED
    BY <2>1, ToParentType, NothingType, Silence
<1> HIDE DEF total, report
<1>8. Then(forward, report) \in Outgoing(Message) /\ Silent(Then(forward, report))
  BY <1>4, <1>7, ThenType, Silence
<1>9. chan' \in Channels(Message)
  BY <1>2, <1>6, <1>8, ExchangedType
<1>10. echo' \in [Node -> [Requests -> Nat \cup {None}]]
  BY <1>3, <1>6 DEF TypeOK
<1>11. accState' \in [Node -> [1 .. MaxRounds -> State]]
  BY <1>3, <1>5, <1>6 DEF TypeOK
<1>12. UNCHANGED <<votes, result, failed>>
  BY DEF handle_stateRequest, handle_stateResponse
<1> HIDE DEF m
<1>13. TypeOK'
  BY <1>2, <1>3, <1>6, <1>9, <1>10, <1>11, <1>12 DEF TypeOK, Channels, Outgoing, votes, result
<1> QED
  BY <1>6, <1>8, <1>13

\* A message of the collection, likewise.
LEMMA CollectStep ==
  ASSUME TypeOK, NEW n \in Node, NEW q \in Node, handle_collectRequest(n, q) \/ handle_collect(n, q)
  PROVE  TypeOK' /\ \E out \in Outgoing(Message) : Silent(out) /\ chan' = Exchanged(chan, q, n, out)
<1> DEFINE m == Head(chan[q][n])
<1>1. Takes(n, q, "collectRequest") \/ Takes(n, q, "collect")
  BY DEF handle_collectRequest, handle_collect
<1>2. /\ chan \in Channels(Message) /\ chan[q][n] # <<>> /\ m \in Message
      /\ UNCHANGED <<loop, outbox, round>>
  BY <1>1, TakesType
<1>3. Collect \in Requests /\ tK[n] \in Times
  BY ParameterAssumption DEF Requests, Collect, TypeOK
<1>4. PICK r \in Result, count \in Nat, forward \in Outgoing(Message) :
        resultReturn(n, q, r, count, forward) /\ Silent(forward)
  <2>1. CASE handle_collectRequest(n, q)
    <3>1. [agreement |-> TRUE, timestamp |-> tK[n]] \in Result /\ 0 \in Nat
      BY <1>3 DEF Result
    <3>2. PropagateChilds(n, CollectRequest) \in Outgoing(Message) /\ Silent(PropagateChilds(n, CollectRequest))
      BY Makes, ToType, Silence DEF PropagateChilds, CollectRequest
    <3> QED
      BY <2>1, <3>1, <3>2 DEF handle_collectRequest
  <2>2. CASE handle_collect(n, q)
    <3>1. m.result \in Result
      BY <2>2, TakesType, MessageFields DEF handle_collect
    <3>2. m.result.agreement \in BOOLEAN /\ m.result.timestamp \in Times \cup {None}
      BY <3>1 DEF Result
    <3>3. accResult[n] \in Result /\ echo[n][Collect] \in Nat \cup {None}
      BY <1>3 DEF TypeOK
    <3>4. AddResult(accResult[n], m.result.agreement, m.result.timestamp) \in Result
      BY <3>2, <3>3, AddResultType
    <3>5. echo[n][Collect] + 1 \in Nat
      <4>1. echo[n][Collect] # None
        BY <2>2 DEF handle_collect
      <4>2. echo[n][Collect] \in Nat
        BY <3>3, <4>1
      <4> QED
        BY <4>2
    <3>6. Nothing \in Outgoing(Message) /\ Silent(Nothing)
      BY NothingType, Silence
    <3> QED
      BY <2>2, <3>4, <3>5, <3>6 DEF handle_collect
  <2> QED
    BY <2>1, <2>2
<1> DEFINE total == IF AllAnswered(n, count) THEN AddResult(r, TRUE, tK[n]) ELSE r
           report == IF AllAnswered(n, count) THEN ToParent(n, CollectResponse(total)) ELSE Nothing
<1>5. total \in Result
  BY <1>3, AddResultType
<1>6. /\ echo' = [echo EXCEPT ![n][Collect] = count]
      /\ accResult' = [accResult EXCEPT ![n] = total]
      /\ accResultDone' \in BOOLEAN
      /\ chan' = Exchanged(chan, q, n, Then(forward, report))
  BY <1>4 DEF resultReturn
<1>7. report \in Outgoing(Message) /\ Silent(report)
  <2> HIDE DEF total
  <2>1. CollectResponse(total) \in Message /\ CollectResponse(total).type # "voteBegin"
    BY <1>5, Makes DEF CollectResponse
  <2> QED
    BY <2>1, ToParentType, NothingType, Silence
<1> HIDE DEF total, report
<1>8. Then(forward, report) \in Outgoing(Message) /\ Silent(Then(forward, report))
  BY <1>4, <1>7, ThenType, Silence
<1>9. chan' \in Channels(Message)
  BY <1>2, <1>6, <1>8, ExchangedType
<1>10. echo' \in [Node -> [Requests -> Nat \cup {None}]]
  BY <1>3, <1>6 DEF TypeOK
<1>11. accResult' \in [Node -> Result]
  BY <1>5, <1>6 DEF TypeOK
<1>12. UNCHANGED <<votes, rounds, failed>>
  BY DEF handle_collectRequest, handle_collect
<1> HIDE DEF m
<1>13. TypeOK'
  BY <1>2, <1>6, <1>9, <1>10, <1>11, <1>12 DEF TypeOK, Channels, Outgoing, votes, rounds
<1> QED
  BY <1>6, <1>8, <1>13

\* A step of leaderLoop.
LEMMA TypesLeader == ASSUME TypeOK, leaderLoop PROVE TypeOK'
<1>1. /\ chan \in Channels(Message) /\ outbox \in Outgoing(Message) /\ failed \in Failures
      /\ Leader \in Node /\ MaxRounds \in Nat
  BY NodeAssumption, ParameterAssumption DEF TypeOK, Channels, Outgoing, Failures
<1>2. CASE BeginVote
  <2>1. outbox' \in Outgoing(Message)
    <3>1. VoteBegin \in Message
      BY Makes
    <3>2. \A x : To(Neigh[Leader], VoteBegin) \in Outgoing(Message) /\ To({x}, VoteBegin) \in Outgoing(Message)
      BY <3>1, ToType
    <3>3. \A x : Then(To(Neigh[Leader], VoteBegin), To({x}, VoteBegin)) \in Outgoing(Message)
      BY <3>2, ThenType
    <3>4. outbox' = Nothing
          \/ \E x : outbox' = Then(To(Neigh[Leader], VoteBegin), To({x}, VoteBegin))
      BY <1>2 DEF BeginVote
    <3> QED
      BY <3>3, <3>4, NothingType
  <2> QED
    BY <1>2, <2>1 DEF BeginVote, TypeOK, Outgoing, votes, rounds, result
<1>3. ASSUME NEW r \in Node, LoopSend(r) \/ LoopSendFails(r) PROVE TypeOK'
  <2>1. outbox[r] \in Seq(Message) /\ outbox[r] # <<>>
    BY <1>1, <1>3 DEF Outgoing, LoopSend, LoopSendFails
  <2>2. Head(outbox[r]) \in Message /\ Tail(outbox[r]) \in Seq(Message)
    BY <2>1, Uncons
  <2>3. outbox' \in Outgoing(Message)
    BY <1>1, <1>3, <2>2 DEF LoopSend, LoopSendFails, Outgoing
  <2>4. chan' \in Channels(Message)
    <3>1. To({r}, Head(outbox[r])) \in Outgoing(Message)
      BY <2>2, ToType
    <3> QED
      BY <1>1, <1>3, <3>1, SentAt DEF LoopSend, LoopSendFails
  <2>5. msgOutCounter' \in [Node -> Nat]
    <3>1. CASE LoopSend(r)
      <4>1. PICK sent \in {0, 1} : Sends(Leader, sent)
        BY <3>1 DEF LoopSend
      <4> QED
        BY <1>1, <4>1, CountsType
    <3>2. CASE LoopSendFails(r)
      BY <3>2 DEF LoopSendFails, votes, TypeOK
    <3> QED
      BY <1>3, <3>1, <3>2
  <2>6. UNCHANGED <<tK, aCurrent, msgInCounter, echo, rounds, result, loop, round>> /\ failed' \in Failures
    BY <1>1, <1>3 DEF LoopSend, LoopSendFails, votes, Failures
  <2> QED
    BY <2>3, <2>4, <2>5, <2>6 DEF TypeOK, Channels, Outgoing, Failures, rounds, result
<1>4. CASE NextRound
  <2>1. round + 1 \in 1 .. MaxRounds /\ round + 1 \in Requests
    BY <1>1, <1>4 DEF NextRound, TypeOK, Requests, Collect
  <2>2. outbox' \in Outgoing(Message)
    BY <1>4, <2>1, Makes, ToType DEF NextRound, PropagateChilds
  <2>3. echo' \in [Node -> [Requests -> Nat \cup {None}]]
    BY <1>1, <1>4, <2>1 DEF NextRound, TypeOK
  <2>4. NoState \in State
    BY DEF NoState, State
  <2>5. accState' \in [Node -> [1 .. MaxRounds -> State]]
    BY <1>1, <1>4, <2>1, <2>4 DEF NextRound, TypeOK
  <2>6. round' \in 0 .. MaxRounds
    BY <1>1, <1>4, <2>1 DEF NextRound
  <2> QED
    BY <1>4, <2>2, <2>3, <2>5, <2>6 DEF NextRound, TypeOK, Outgoing, votes, result
<1>5. CASE StartCollect
  <2>1. outbox' \in Outgoing(Message)
    BY <1>5, Makes, ToType DEF StartCollect, PropagateChilds
  <2>2. Collect \in Requests
    BY <1>1 DEF Requests, Collect
  <2>3. echo' \in [Node -> [Requests -> Nat \cup {None}]]
    BY <1>1, <1>5, <2>2 DEF StartCollect, TypeOK
  <2>4. NoResult \in Result
    BY DEF NoResult, Result
  <2>5. accResult' \in [Node -> Result]
    BY <1>1, <1>5, <2>4 DEF StartCollect, TypeOK
  <2> QED
    BY <1>5, <2>1, <2>3, <2>5 DEF StartCollect, TypeOK, Outgoing, votes, rounds
<1>6. CASE CheckResult
  BY <1>6 DEF CheckResult, TypeOK, votes, rounds, result
<1> QED
  BY <1>2, <1>3, <1>4, <1>5, <1>6 DEF leaderLoop

\* The start.
LEMMA TypesInit == Init => TypeOK
<1> SUFFICES ASSUME Init PROVE TypeOK
  OBVIOUS
<1>1. <<>> \in Seq(Message) /\ NoState \in State /\ NoResult \in Result /\ MaxRounds \in Nat
  BY EmptySeq, ParameterAssumption DEF NoState, State, NoResult, Result
<1>2. \A n \in Node : aMax[n] \in Nat
  BY ParameterAssumption
<1>3. tK \in [Node -> Times]
  BY ParameterAssumption DEF Init
<1> QED
  <2>1. chan \in [Node -> [Node -> Seq(Message)]] /\ outbox \in [Node -> Seq(Message)]
    BY <1>1 DEF Init, EmptyNet, Nothing
  <2>2. /\ echo \in [Node -> [Requests -> Nat \cup {None}]]
        /\ accState \in [Node -> [1 .. MaxRounds -> State]]
        /\ accResult \in [Node -> Result]
    BY <1>1 DEF Init
  <2>3. /\ aCurrent \in [Node -> Nat] /\ \A n \in Node : aCurrent[n] <= aMax[n]
        /\ msgInCounter \in [Node -> Nat] /\ msgOutCounter \in [Node -> Nat]
    BY <1>2 DEF Init
  <2>4. /\ accStateDone \subseteq 1 .. MaxRounds /\ accResultDone \in BOOLEAN
        /\ loop \in {"elected", "count", "collect", "done", "stuck"} /\ round \in 0 .. MaxRounds
        /\ failed \in {"nothing", "vote", "control"}
    <3>1. accStateDone = {} /\ accResultDone = FALSE /\ loop = "elected" /\ round = 0 /\ failed = "nothing"
      BY DEF Init
    <3>2. accResultDone \in BOOLEAN
      BY <3>1
    <3>3. round \in 0 .. MaxRounds
      BY <1>1, <3>1
    <3> QED
      BY <3>1, <3>2, <3>3
  <2> QED
    BY <1>3, <2>1, <2>2, <2>3, <2>4 DEF TypeOK

\* The types, step by step.
LEMMA TypesNext == TypeOK /\ [Next]_vars => TypeOK'
<1> SUFFICES ASSUME TypeOK, [Next]_vars PROVE TypeOK'
  OBVIOUS
<1>1. ASSUME NEW n \in Node, NEW q \in Node, Handle(n, q) PROVE TypeOK'
  BY <1>1, TypesVote, CountStep, CollectStep DEF Handle
<1>2. CASE leaderLoop
  BY <1>2, TypesLeader
<1>3. ASSUME NEW p \in Node, NEW q \in Node, SendFails(p, q) PROVE TypeOK'
  <2>1. chan \in Channels(Message) /\ chan[p][q] # <<>>
    BY <1>3 DEF SendFails, TypeOK, Channels, Outgoing
  <2>2. chan' \in Channels(Message)
    BY <1>3, <2>1, TakenAt DEF SendFails
  <2> QED
    BY <1>3, <2>2 DEF SendFails, TypeOK, Channels, Outgoing, votes, rounds, result, loopVars
<1>4. CASE UNCHANGED vars
  BY <1>4 DEF vars, TypeOK, votes, rounds, result, loopVars
<1> QED
  BY <1>1, <1>2, <1>3, <1>4 DEF Next

\* Every variable keeps its Go type, times stay among those the nodes may start with,
\* and nobody accepts more than aMax proposals (TypeOK), whatever is lost.
THEOREM TypeCorrect == Spec => []TypeOK
BY TypesInit, TypesNext, PTL DEF Spec

-----------------------------------------------------------------------------
(***************************************************************************)
(* The voting is bounded.  The leader asks a node to vote once or twice,   *)
(* and what it has still to ask is in its outbox or on its way: with that  *)
(* added to what a node has sent, the bound is an invariant in which the   *)
(* proposals accepted so far stand in for aMax.                            *)
(***************************************************************************)
\* The calls to vote n is still to take; two, before the leader has made up its mind.
Pending(n) ==
  IF loop = "elected" THEN 2
  ELSE Cardinality(Begins(chan[Leader][n])) + Cardinality(Begins(outbox[n]))

\* The calls to vote the leader has still to send: to each of some neighbours one, and
\* to one of them perhaps a second.
Called == {r \in Node : Begins(outbox[r]) # {}}
Twice(r) == Cardinality(Begins(outbox[r])) > 1
Unsent ==
  IF loop = "elected" THEN Cardinality(Neigh[Leader]) + 1
  ELSE Cardinality(Called) + (IF \E r \in Node : Twice(r) THEN 1 ELSE 0)

\* Calls to vote come from the leader, and only they are votes that it sends by itself.
Placed ==
  \A p, r \in Node : Begins(chan[p][r]) # {} => p = Leader /\ r # Leader /\ loop # "elected"
Boxed ==
  /\ loop = "elected" => outbox = Nothing
  /\ Begins(outbox[Leader]) = {}
  /\ \A r \in Node : \A i \in DOMAIN outbox[r] : outbox[r][i] \in Vote => outbox[r][i] = VoteBegin
  /\ \A r \in Node : Cardinality(Begins(outbox[r])) <= 2
  /\ \A r, s \in Node : Twice(r) /\ Twice(s) => r = s

Spent(n) == aCurrent[n] * (1 + Fan(n))
LeaderBound == msgOutCounter[Leader] + Unsent <= Cardinality(Neigh[Leader]) + 1 + Spent(Leader)
OthersBound ==
  \A n \in Node \ {Leader} : msgOutCounter[n] + Pending(n) * Fan(n) <= 2 * Fan(n) + Spent(n)

Bounded == Placed /\ Boxed /\ LeaderBound /\ OthersBound

\* There are finitely many calls in a sequence.
LEMMA BeginsFinite ==
  ASSUME NEW s \in Seq(Message)
  PROVE  IsFiniteSet(Begins(s)) /\ Cardinality(Begins(s)) \in Nat
<1>1. Begins(s) \in SUBSET (1 .. Len(s)) /\ Len(s) \in Int
  BY Elements DEF Begins
<1>2. IsFiniteSet(1 .. Len(s))
  BY <1>1, FS_Interval
<1> QED
  BY <1>1, <1>2, FS_Subset, FS_CardinalityType

\* One call less, if the first message is one.
LEMMA BeginsTail ==
  ASSUME NEW s \in Seq(Message), s # <<>>
  PROVE  /\ Head(s).type = "voteBegin" =>
              Begins(s) # {} /\ Cardinality(Begins(s)) = Cardinality(Begins(Tail(s))) + 1
         /\ Head(s).type # "voteBegin" => Cardinality(Begins(s)) = Cardinality(Begins(Tail(s)))
<1> DEFINE rest == Begins(s) \ {1}
           f == [i \in Begins(Tail(s)) |-> i + 1]
<1>1. Tail(s) \in Seq(Message) /\ Head(s) = s[1] /\ 1 \in DOMAIN s
  BY Uncons
<1>2. \A i \in Begins(Tail(s)) : i \in Nat /\ i >= 1 /\ i + 1 \in Begins(s)
  BY Uncons DEF Begins
<1>3. \A j \in rest : j \in Nat /\ j - 1 \in Begins(Tail(s))
  BY Uncons DEF Begins
<1>4. f \in [Begins(Tail(s)) -> rest]
  BY <1>2
<1>5. ExistsBijection(Begins(Tail(s)), rest)
  <2>1. \A i, j \in Begins(Tail(s)) : f[i] = f[j] => i = j
    BY <1>2
  <2>2. \A j \in rest : \E i \in Begins(Tail(s)) : f[i] = j
    <3> SUFFICES ASSUME NEW j \in rest PROVE f[j - 1] = j /\ j - 1 \in Begins(Tail(s))
      OBVIOUS
    <3> QED
      BY <1>3
  <2>3. f \in Injection(Begins(Tail(s)), rest) /\ f \in Surjection(Begins(Tail(s)), rest)
    <3> HIDE DEF f, rest
    <3>1. DOMAIN f = Begins(Tail(s))
      BY <1>4
    <3> QED
      BY <1>4, <2>1, <2>2, <3>1 DEF Injection, Surjection, IsInjective
  <2> HIDE DEF f, rest
  <2> QED
    BY <2>3 DEF ExistsBijection, Bijection
<1>6. Cardinality(rest) = Cardinality(Begins(Tail(s)))
  BY <1>1, <1>5, BeginsFinite, FS_Bijection
<1>7. Cardinality(rest) = IF 1 \in Begins(s) THEN Cardinality(Begins(s)) - 1 ELSE Cardinality(Begins(s))
  BY BeginsFinite, FS_RemoveElement
<1>8. 1 \in Begins(s) <=> Head(s).type = "voteBegin"
  BY <1>1 DEF Begins
<1>9. Cardinality(Begins(s)) \in Nat /\ Cardinality(Begins(Tail(s))) \in Nat
  BY <1>1, BeginsFinite
<1> HIDE DEF rest
<1> QED
  BY <1>6, <1>7, <1>8, <1>9

\* One call more, if it is sent.
LEMMA BeginsLast ==
  ASSUME NEW s \in Seq(Message), NEW m \in Message
  PROVE  Cardinality(Begins(s \o <<m>>)) =
           Cardinality(Begins(s)) + (IF m.type = "voteBegin" THEN 1 ELSE 0)
<1>1. \A i \in DOMAIN (s \o <<m>>) :
        \/ i \in DOMAIN s /\ (s \o <<m>>)[i] = s[i]
        \/ i = Len(s) + 1 /\ (s \o <<m>>)[i] = m
  OBVIOUS
<1>2. /\ \A i \in DOMAIN s : i \in DOMAIN (s \o <<m>>) /\ (s \o <<m>>)[i] = s[i]
      /\ Len(s) + 1 \in DOMAIN (s \o <<m>>) /\ (s \o <<m>>)[Len(s) + 1] = m
      /\ Len(s) + 1 \notin DOMAIN s
  OBVIOUS
<1>3. CASE m.type = "voteBegin"
  <2>1. Begins(s \o <<m>>) = Begins(s) \cup {Len(s) + 1} /\ Len(s) + 1 \notin Begins(s)
    BY <1>1, <1>2, <1>3 DEF Begins
  <2> QED
    BY <1>3, <2>1, BeginsFinite, FS_AddElement
<1>4. CASE m.type # "voteBegin"
  <2>1. Begins(s \o <<m>>) = Begins(s)
    BY <1>1, <1>2, <1>4 DEF Begins
  <2> QED
    BY <1>4, <2>1, BeginsFinite
<1> QED
  BY <1>3, <1>4

\* No call at all.
LEMMA NoBegins ==
  ASSUME NEW s \in Seq(Message)
  PROVE  Begins(s) = {} <=> Cardinality(Begins(s)) = 0
BY BeginsFinite, FS_EmptySet

\* Multiplication.
LEMMA Multiply ==
  /\ \A a, f \in Nat : a * f \in Nat /\ (a + 1) * f = a * f + f
  /\ \A a, b, f \in Nat : a <= b => a * f <= b * f
  /\ \A f \in Nat : 0 * f = 0 /\ 1 * f = f /\ 2 * f = f + f
<1>1. \A a, f \in Nat : a * f \in Nat /\ (a + 1) * f = a * f + f
  OBVIOUS
<1>2. ASSUME NEW a \in Nat, NEW b \in Nat, NEW f \in Nat, a <= b PROVE a * f <= b * f
  <2>1. b - a \in Nat /\ b = a + (b - a)
    BY <1>2
  <2>2. b * f = a * f + (b - a) * f /\ (b - a) * f >= 0
    BY <1>2, <2>1
  <2> QED
    BY <2>1, <2>2
<1> QED
  BY <1>1, <1>2

\* What is used up, for a node.
LEMMA SpentType == ASSUME TypeOK, NEW n \in Node PROVE Fan(n) \in Nat /\ Spent(n) \in Nat
BY FanType DEF Spent, TypeOK

\* The calls under way after a handler that sends none.
LEMMA CallsAfter ==
  ASSUME chan \in Channels(Message), NEW n \in Node, NEW q \in Node, chan[q][n] # <<>>,
         NEW out \in Outgoing(Message), Silent(out),
         chan' = Taken(chan, q, n) \/ chan' = Exchanged(chan, q, n, out),
         NEW p \in Node, NEW r \in Node
  PROVE  /\ Cardinality(Begins(chan'[p][r])) \in Nat
         /\ Cardinality(Begins(chan[p][r])) =
              Cardinality(Begins(chan'[p][r]))
                + (IF p = q /\ r = n /\ Head(chan[q][n]).type = "voteBegin" THEN 1 ELSE 0)
         /\ Begins(chan[p][r]) = {} => Begins(chan'[p][r]) = {}
<1> DEFINE taken == Taken(chan, q, n)
<1>1. /\ taken \in Channels(Message)
      /\ taken[p][r] = IF p = q /\ r = n THEN Tail(chan[q][n]) ELSE chan[p][r]
  BY TakenAt
<1>2. chan[p][r] \in Seq(Message) /\ taken[p][r] \in Seq(Message) /\ out[r] \in Seq(Message)
  BY <1>1 DEF Channels, Outgoing
<1>3. Cardinality(Begins(chan[p][r])) =
        Cardinality(Begins(taken[p][r]))
          + (IF p = q /\ r = n /\ Head(chan[q][n]).type = "voteBegin" THEN 1 ELSE 0)
  BY <1>1, <1>2, BeginsTail, BeginsFinite
<1> HIDE DEF taken
<1>4. Begins(chan'[p][r]) = Begins(taken[p][r]) /\ chan'[p][r] \in Seq(Message)
  <2>1. CASE chan' = taken
    BY <1>2, <2>1
  <2>2. CASE chan' = Sent(taken, n, out)
    <3>1. chan'[p][r] = IF p = n THEN taken[n][r] \o out[r] ELSE taken[p][r]
      BY <1>1, <2>2, SentAt
    <3>0. Begins(out[r]) = {}
      BY DEF Silent
    <3>2. Begins(taken[p][r] \o out[r]) = Begins(taken[p][r]) /\ taken[p][r] \o out[r] \in Seq(Message)
      BY <1>2, <3>0, BeginsConcat, Concat
    <3> QED
      BY <1>2, <3>1, <3>2
  <2> QED
    BY <2>1, <2>2 DEF Exchanged, taken
<1>5. Cardinality(Begins(taken[p][r])) \in Nat
  BY <1>2, BeginsFinite
<1> QED
  BY <1>2, <1>3, <1>4, <1>5, NoBegins

\* A handler that sends votes it may send: for a call, or for a proposal it accepts.
LEMMA HandlerBounded ==
  ASSUME TypeOK, Bounded, NEW n \in Node, NEW q \in Node, chan[q][n] # <<>>,
         NEW out \in Outgoing(Message), Silent(out),
         chan' = Taken(chan, q, n) \/ chan' = Exchanged(chan, q, n, out),
         UNCHANGED <<loop, outbox>>,
         NEW sent \in Nat, msgOutCounter' = [msgOutCounter EXCEPT ![n] = @ + sent],
         NEW more \in {0, 1}, aCurrent' = [aCurrent EXCEPT ![n] = @ + more],
         sent <= (IF Head(chan[q][n]).type = "voteBegin" THEN Fan(n) ELSE 0)
                 + (IF more = 1 THEN 1 + Fan(n) ELSE 0)
  PROVE  Bounded'
<1> DEFINE call == Head(chan[q][n]).type = "voteBegin"
<1>1. chan \in Channels(Message)
  BY DEF TypeOK, Channels, Outgoing
<1>2. \A p, r \in Node :
        /\ Cardinality(Begins(chan'[p][r])) \in Nat
        /\ Cardinality(Begins(chan[p][r])) =
             Cardinality(Begins(chan'[p][r])) + (IF p = q /\ r = n /\ call THEN 1 ELSE 0)
        /\ Begins(chan[p][r]) = {} => Begins(chan'[p][r]) = {}
  <2> SUFFICES ASSUME NEW p \in Node, NEW r \in Node
               PROVE  /\ Cardinality(Begins(chan'[p][r])) \in Nat
                      /\ Cardinality(Begins(chan[p][r])) =
                           Cardinality(Begins(chan'[p][r])) + (IF p = q /\ r = n /\ call THEN 1 ELSE 0)
                      /\ Begins(chan[p][r]) = {} => Begins(chan'[p][r]) = {}
    OBVIOUS
  <2> QED
    BY <1>1, CallsAfter
<1>3. call => q = Leader /\ n # Leader /\ loop # "elected"
  <2>0. chan[q][n] \in Seq(Message)
    BY DEF TypeOK
  <2>1. call => Begins(chan[q][n]) # {}
    BY <2>0, BeginsTail
  <2> QED
    BY <2>1 DEF Bounded, Placed
<1> HIDE DEF call
<1>4. Placed'
  BY <1>2 DEF Bounded, Placed
<1>5. Boxed'
  BY DEF Bounded, Boxed, Twice
<1>6. \A k \in Node : /\ Fan(k) \in Nat /\ aCurrent[k] \in Nat /\ msgOutCounter[k] \in Nat
                      /\ Spent(k) \in Nat /\ Spent(k) = aCurrent[k] * (1 + Fan(k))
                      /\ Spent(k)' = aCurrent'[k] * (1 + Fan(k))
  BY SpentType DEF Spent, Fan, TypeOK
<1>7. /\ \A k \in Node : k # n => msgOutCounter'[k] = msgOutCounter[k] /\ Spent(k)' = Spent(k)
      /\ msgOutCounter'[n] = msgOutCounter[n] + sent
      /\ Spent(n)' = Spent(n) + (IF more = 1 THEN 1 + Fan(n) ELSE 0)
  <2>1. /\ \A k \in Node : k # n => msgOutCounter'[k] = msgOutCounter[k] /\ aCurrent'[k] = aCurrent[k]
        /\ msgOutCounter'[n] = msgOutCounter[n] + sent /\ aCurrent'[n] = aCurrent[n] + more
    BY DEF TypeOK
  <2>2. (aCurrent[n] + 1) * (1 + Fan(n)) = aCurrent[n] * (1 + Fan(n)) + (1 + Fan(n))
    BY <1>6, Multiply
  <2>3. ASSUME NEW k \in Node, k # n PROVE Spent(k)' = Spent(k)
    <3>1. aCurrent'[k] = aCurrent[k]
      BY <2>1, <2>3
    <3> QED
      BY <1>6, <3>1
  <2>4. CASE more = 0
    <3>1. aCurrent'[n] = aCurrent[n]
      BY <1>6, <2>1, <2>4
    <3>2. Spent(n)' = Spent(n)
      BY <1>6, <3>1
    <3> QED
      BY <1>6, <2>1, <2>3, <2>4, <3>2
  <2>5. CASE more = 1
    <3>1. Spent(n)' = Spent(n) + (1 + Fan(n))
      BY <1>6, <2>1, <2>2, <2>5
    <3> QED
      BY <2>1, <2>3, <2>5, <3>1
  <2> QED
    BY <2>4, <2>5
<1>8. LeaderBound'
  <2>1. Unsent' = Unsent /\ Unsent \in Nat /\ Cardinality(Neigh[Leader]) \in Nat /\ Leader \in Node
    <3>1. Called \subseteq Node /\ IsFiniteSet(Called)
      BY NodeAssumption, FS_Subset DEF Called
    <3>2. Cardinality(Called) \in Nat /\ Cardinality(Neigh[Leader]) \in Nat
      BY <3>1, NodeAssumption, NeighFinite, FS_CardinalityType
    <3> QED
      BY <3>2, NodeAssumption DEF Unsent, Called, Twice
  <2>2. LeaderBound
    BY DEF Bounded
  <2>3. CASE n = Leader
    <3>1. sent <= IF more = 1 THEN 1 + Fan(n) ELSE 0
      BY <1>3, <1>6, <2>3 DEF call
    <3>2. msgOutCounter[n] + Unsent <= Cardinality(Neigh[Leader]) + 1 + Spent(n)
      BY <2>2, <2>3 DEF LeaderBound
    <3>3. msgOutCounter'[n] + Unsent <= Cardinality(Neigh[Leader]) + 1 + Spent(n)'
      <4>1. PICK m, u, c, s, f \in Nat :
              m = msgOutCounter[n] /\ u = Unsent /\ c = Cardinality(Neigh[Leader]) /\ s = Spent(n) /\ f = Fan(n)
        BY <1>6, <2>1
      <4>2. /\ m + u <= c + 1 + s /\ sent <= (IF more = 1 THEN 1 + f ELSE 0)
            /\ msgOutCounter'[n] = m + sent
            /\ Spent(n)' = s + (IF more = 1 THEN 1 + f ELSE 0)
        BY <1>7, <3>1, <3>2, <4>1
      <4>3. CASE more = 1
        <5>1. m + u <= c + 1 + s /\ sent <= 1 + f
          BY <4>2, <4>3
        <5>2. (m + sent) + u <= c + 1 + (s + (1 + f))
          BY <5>1
        <5> QED
          BY <4>1, <4>2, <4>3, <5>2
      <4>4. CASE more = 0
        <5>1. m + u <= c + 1 + s /\ sent <= 0
          BY <4>2, <4>4
        <5>2. (m + sent) + u <= c + 1 + s
          BY <5>1
        <5> QED
          BY <4>1, <4>2, <4>4, <5>2
      <4> QED
        BY <4>3, <4>4
    <3> QED
      BY <2>1, <2>3, <3>3 DEF LeaderBound
  <2>4. CASE n # Leader
    BY <1>6, <1>7, <2>1, <2>2, <2>4 DEF LeaderBound
  <2> QED
    BY <2>3, <2>4
<1>9. OthersBound'
  <2> SUFFICES ASSUME NEW k \in Node \ {Leader}
               PROVE  msgOutCounter'[k] + Pending(k)' * Fan(k) <= 2 * Fan(k) + Spent(k)'
    BY DEF OthersBound, Fan
  <2>1. msgOutCounter[k] + Pending(k) * Fan(k) <= 2 * Fan(k) + Spent(k)
    BY DEF Bounded, OthersBound
  <2>2. Pending(k)' \in Nat /\ Pending(k) = Pending(k)' + (IF k = n /\ call THEN 1 ELSE 0)
    <3>1. Cardinality(Begins(outbox[k])) \in Nat
      BY BeginsFinite DEF TypeOK
    <3>2. CASE loop = "elected"
      BY <1>3, <3>2 DEF Pending
    <3>3. CASE loop # "elected"
      <4>1. /\ Cardinality(Begins(chan'[Leader][k])) \in Nat
            /\ Cardinality(Begins(chan[Leader][k])) =
                 Cardinality(Begins(chan'[Leader][k])) + (IF k = n /\ call THEN 1 ELSE 0)
        BY <1>2, <1>3, NodeAssumption
      <4>2. /\ Pending(k) = Cardinality(Begins(chan[Leader][k])) + Cardinality(Begins(outbox[k]))
            /\ Pending(k)' = Cardinality(Begins(chan'[Leader][k])) + Cardinality(Begins(outbox[k]))
        BY <3>3 DEF Pending
      <4> QED
        BY <3>1, <4>1, <4>2
    <3> QED
      BY <3>2, <3>3
  <2>3. PICK before, now, f, s, s2 \in Nat :
          /\ before = Pending(k) * Fan(k) /\ now = Pending(k)' * Fan(k) /\ f = Fan(k)
          /\ s = Spent(k) /\ s2 = Spent(k)'
          /\ before = now + (IF k = n /\ call THEN f ELSE 0)
    <3>1. Pending(k)' * Fan(k) \in Nat /\ (Pending(k)' + 1) * Fan(k) = Pending(k)' * Fan(k) + Fan(k)
      BY <1>6, <2>2, Multiply
    <3>2. Spent(k) \in Nat /\ Spent(k)' \in Nat /\ Fan(k) \in Nat
      <4>1. CASE k # n
        BY <1>6, <1>7, <4>1
      <4>2. CASE k = n
        <5>1. Spent(n) \in Nat /\ Fan(n) \in Nat
          BY <1>6
        <5>2. Spent(n)' \in Nat
          BY <1>7, <5>1
        <5> QED
          BY <4>2, <5>1, <5>2
      <4> QED
        BY <4>1, <4>2
    <3>3. CASE k = n /\ call
      <4>1. Pending(k) = Pending(k)' + 1
        BY <2>2, <3>3
      <4>2. Pending(k) * Fan(k) = Pending(k)' * Fan(k) + Fan(k)
        BY <3>1, <4>1
      <4> QED
        BY <3>1, <3>2, <3>3, <4>2
    <3>4. CASE ~ (k = n /\ call)
      <4>1. Pending(k) = Pending(k)'
        BY <2>2, <3>4
      <4>2. Pending(k) * Fan(k) = Pending(k)' * Fan(k)
        BY <4>1
      <4> QED
        BY <3>1, <3>2, <3>4, <4>2
    <3> QED
      BY <3>3, <3>4
  <2>4. msgOutCounter[k] + before <= 2 * f + s /\ msgOutCounter[k] \in Nat /\ f = Fan(k)
    BY <1>6, <2>1, <2>3
  <2>5. msgOutCounter'[k] + now <= 2 * f + s2
    <3>1. CASE k # n
      BY <1>7, <2>3, <2>4, <3>1
    <3>2. CASE k = n
      <4>1. s2 = s + (IF more = 1 THEN 1 + f ELSE 0) /\ msgOutCounter'[k] = msgOutCounter[k] + sent
        BY <1>7, <2>3, <3>2
      <4>2. sent <= (IF call THEN f ELSE 0) + (IF more = 1 THEN 1 + f ELSE 0)
        BY <2>4, <3>2 DEF call
      <4>3. PICK m \in Nat : m = msgOutCounter[k]
        BY <2>4
      <4>4. m + before <= 2 * f + s /\ before = now + (IF call THEN f ELSE 0)
        BY <2>3, <2>4, <3>2, <4>3
      <4>5. (m + sent) + now <= 2 * f + s2
        BY <4>1, <4>2, <4>4
      <4> QED
        BY <4>1, <4>3, <4>5
    <3> QED
      BY <3>1, <3>2
  <2> QED
    BY <2>3, <2>5
<1> QED
  BY <1>4, <1>5, <1>8, <1>9 DEF Bounded
\* A message that is taken without a vote being sent.
LEMMA TakenBounded ==
  ASSUME TypeOK, Bounded, NEW n \in Node, NEW q \in Node, chan[q][n] # <<>>,
         NEW out \in Outgoing(Message), Silent(out),
         chan' = Taken(chan, q, n) \/ chan' = Exchanged(chan, q, n, out),
         UNCHANGED <<loop, outbox, msgOutCounter, aCurrent>>
  PROVE  Bounded'
<1>1. /\ msgOutCounter' = [msgOutCounter EXCEPT ![n] = @ + 0]
      /\ aCurrent' = [aCurrent EXCEPT ![n] = @ + 0]
  BY DEF TypeOK
<1>2. 0 <= (IF Head(chan[q][n]).type = "voteBegin" THEN Fan(n) ELSE 0)
           + (IF 0 = 1 THEN 1 + Fan(n) ELSE 0)
  BY FanType
<1>3. 0 \in Nat /\ 0 \in {0, 1}
  OBVIOUS
<1> QED
  BY <1>1, <1>2, <1>3, HandlerBounded

\* The handlers of the vote.
LEMMA VoteBounded ==
  ASSUME TypeOK, Bounded, NEW n \in Node, NEW q \in Node,
         handle_voteBegin(n, q) \/ handle_proposal(n, q) \/ handle_proposalResponse(n, q)
  PROVE  Bounded'
<1> DEFINE m == Head(chan[q][n])
<1>1. failed \in Failures /\ tK[n] \in Times /\ aCurrent[n] \in Nat /\ Fan(n) \in Nat
  BY FanType DEF TypeOK, Failures
<1>2. CASE handle_voteBegin(n, q)
  <2>1. Takes(n, q, "voteBegin") /\ UNCHANGED aCurrent
    BY <1>2 DEF handle_voteBegin
  <2>2. PICK p \in sendProposals(n, Proposal(tK[n])) :
          chan' = Exchanged(chan, q, n, p.out) /\ Sends(n, p.sent)
    BY <1>2 DEF handle_voteBegin
  <2>3. /\ p.out \in Outgoing(Message) /\ p.sent \in Nat /\ p.sent <= Fan(n)
        /\ \A r \in Node : \A i \in DOMAIN p.out[r] : p.out[r][i] = Proposal(tK[n])
    BY <1>1, Makes, ProposalsType
  <2>4. Silent(p.out)
    <3>1. Proposal(tK[n]).type # "voteBegin"
      BY DEF Proposal
    <3> QED
      BY <2>3, <3>1, Silence
  <2>5. aCurrent' = [aCurrent EXCEPT ![n] = @ + 0]
    BY <2>1 DEF TypeOK
  <2>6. chan[q][n] # <<>> /\ m.type = "voteBegin" /\ UNCHANGED <<loop, outbox>>
    BY <2>1, TakesType
  <2>7. msgOutCounter' = [msgOutCounter EXCEPT ![n] = @ + p.sent]
    BY <2>2 DEF Sends
  <2>8. p.sent <= (IF m.type = "voteBegin" THEN Fan(n) ELSE 0) + (IF 0 = 1 THEN 1 + Fan(n) ELSE 0)
    BY <1>1, <2>3, <2>6
  <2> HIDE DEF m
  <2>9. 0 \in {0, 1}
    OBVIOUS
  <2> QED
    BY <2>2, <2>3, <2>4, <2>5, <2>6, <2>7, <2>8, <2>9, HandlerBounded DEF m
<1>3. CASE AcceptProposal(n, q)
  <2> DEFINE t == MidTime(m.time, tK[n])
  <2>1. Takes(n, q, "proposal") /\ aCurrent' = [aCurrent EXCEPT ![n] = @ + 1]
    BY <1>3 DEF AcceptProposal, Counted
  <2>2. /\ m \in Message /\ m.type = "proposal" /\ chan[q][n] # <<>> /\ UNCHANGED <<loop, outbox>>
    BY <2>1, TakesType
  <2>3. t \in Times
    BY <1>1, <2>2, MessageFields, MidTimeType
  <2>4. PICK r \in sendResponse(n, q, ProposalResponse(t)), p \in sendProposals(n, Proposal(t)) :
          chan' = Exchanged(chan, q, n, Then(r.out, p.out)) /\ Sends(n, r.sent + p.sent)
    BY <1>3 DEF AcceptProposal
  <2> HIDE DEF t
  <2>5. /\ r.out \in Outgoing(Message) /\ r.sent \in Nat /\ r.sent <= 1
        /\ \A k \in Node : \A i \in DOMAIN r.out[k] : r.out[k][i] = ProposalResponse(t)
    BY <1>1, <2>3, Makes, ResponseType
  <2>6. /\ p.out \in Outgoing(Message) /\ p.sent \in Nat /\ p.sent <= Fan(n)
        /\ \A k \in Node : \A i \in DOMAIN p.out[k] : p.out[k][i] = Proposal(t)
    BY <1>1, <2>3, Makes, ProposalsType
  <2>7. Silent(r.out) /\ Silent(p.out)
    <3>1. Proposal(t).type # "voteBegin" /\ ProposalResponse(t).type # "voteBegin"
      BY DEF Proposal, ProposalResponse
    <3> QED
      BY <2>5, <2>6, <3>1, Silence
  <2>8. Then(r.out, p.out) \in Outgoing(Message) /\ Silent(Then(r.out, p.out))
    BY <2>5, <2>6, <2>7, ThenType, Silence
  <2> DEFINE sent == r.sent + p.sent
  <2>9. sent \in Nat /\ msgOutCounter' = [msgOutCounter EXCEPT ![n] = @ + sent]
    BY <2>4, <2>5, <2>6 DEF Sends
  <2>10. sent <= (IF m.type = "voteBegin" THEN Fan(n) ELSE 0) + (IF 1 = 1 THEN 1 + Fan(n) ELSE 0)
    BY <1>1, <2>2, <2>5, <2>6
  <2> HIDE DEF sent, m
  <2>11. 1 \in {0, 1}
    OBVIOUS
  <2> QED
    BY <2>1, <2>2, <2>4, <2>8, <2>9, <2>10, <2>11, HandlerBounded DEF m
<1>4. CASE DropProposal(n, q) \/ handle_proposalResponse(n, q)
  <2>1. /\ Takes(n, q, "proposal") \/ Takes(n, q, "proposalResponse")
        /\ chan' = Taken(chan, q, n) /\ UNCHANGED <<aCurrent, msgOutCounter>>
    BY <1>4 DEF DropProposal, handle_proposalResponse
  <2>2. chan[q][n] # <<>> /\ UNCHANGED <<loop, outbox>>
    BY <2>1, TakesType
  <2> QED
    BY <2>1, <2>2, NothingType, Silence, TakenBounded
<1> QED
  BY <1>2, <1>3, <1>4 DEF handle_proposal

\* The handlers of the count and of the collection.
LEMMA CountBounded ==
  ASSUME TypeOK, Bounded, NEW n \in Node, NEW q \in Node,
         \/ handle_stateRequest(n, q) \/ handle_stateResponse(n, q)
         \/ handle_collectRequest(n, q) \/ handle_collect(n, q)
  PROVE  Bounded'
<1>1. PICK kind : Takes(n, q, kind)
  BY DEF handle_stateRequest, handle_stateResponse, handle_collectRequest, handle_collect
<1>2. chan[q][n] # <<>> /\ UNCHANGED <<loop, outbox>>
  BY <1>1, TakesType
<1>3. UNCHANGED <<msgOutCounter, aCurrent>>
  BY DEF handle_stateRequest, handle_stateResponse, handle_collectRequest, handle_collect, votes
<1>4. PICK out \in Outgoing(Message) : Silent(out) /\ chan' = Exchanged(chan, q, n, out)
  BY CountStep, CollectStep
<1> QED
  BY <1>2, <1>3, <1>4, TakenBounded
\* Every handler.
LEMMA HandleBounded ==
  ASSUME TypeOK, Bounded, NEW n \in Node, NEW q \in Node, Handle(n, q) PROVE Bounded'
BY VoteBounded, CountBounded DEF Handle

\* A message of the count that is lost.
LEMMA LossBounded ==
  ASSUME TypeOK, Bounded, NEW p \in Node, NEW q \in Node, SendFails(p, q) PROVE Bounded'
<1>1. /\ chan[p][q] # <<>> /\ chan' = Taken(chan, p, q)
      /\ UNCHANGED <<loop, outbox, msgOutCounter, aCurrent>>
  BY DEF SendFails, votes, loopVars
<1> QED
  BY <1>1, NothingType, Silence, TakenBounded

\* The calls in the outboxes are finitely many.
LEMMA UnsentType ==
  ASSUME TypeOK
  PROVE  /\ IsFiniteSet(Called) /\ Called \subseteq Node /\ Cardinality(Called) \in Nat
         /\ Cardinality(Neigh[Leader]) \in Nat /\ Unsent \in Nat
         /\ \A r \in Node : /\ outbox[r] \in Seq(Message) /\ Cardinality(Begins(outbox[r])) \in Nat
                            /\ Begins(outbox[r]) = {} <=> Cardinality(Begins(outbox[r])) = 0
<1>1. Called \subseteq Node /\ IsFiniteSet(Called)
  BY NodeAssumption, FS_Subset DEF Called
<1>2. Cardinality(Called) \in Nat /\ Cardinality(Neigh[Leader]) \in Nat
  BY <1>1, NodeAssumption, NeighFinite, FS_CardinalityType
<1>3. \A r \in Node : outbox[r] \in Seq(Message)
  BY DEF TypeOK
<1>4. Unsent \in Nat
  BY <1>2 DEF Unsent
<1> QED
  BY <1>1, <1>2, <1>3, <1>4, BeginsFinite, NoBegins

\* The leader's loop calls for no vote and takes no call back.
LEMMA SameBounded ==
  ASSUME TypeOK, Bounded, loop # "elected", loop' # "elected",
         UNCHANGED <<chan, msgOutCounter, aCurrent>>,
         \A r \in Node : Begins(outbox'[r]) = Begins(outbox[r]),
         \A r \in Node : \A i \in DOMAIN outbox'[r] : outbox'[r][i] \in Vote => outbox'[r][i] = VoteBegin
  PROVE  Bounded'
<1>1. Leader \in Node
  BY NodeAssumption
<1>2. Placed'
  BY DEF Bounded, Placed
<1>3. Boxed'
  BY <1>1 DEF Bounded, Boxed, Twice
<1>4. Called' = Called /\ \A r \in Node : Twice(r)' <=> Twice(r)
  BY DEF Called, Twice
<1>5. Unsent' = Unsent
  BY <1>4 DEF Unsent
<1>6. \A n \in Node : Pending(n)' = Pending(n)
  BY DEF Pending
<1>7. LeaderBound' /\ OthersBound'
  BY <1>5, <1>6 DEF Bounded, LeaderBound, OthersBound, Spent, Fan
<1> QED
  BY <1>2, <1>3, <1>7 DEF Bounded

\* The leader decides whom to call, one of them perhaps twice.
LEMMA BeginBounded == ASSUME TypeOK, Bounded, BeginVote PROVE Bounded'
<1>1. /\ loop = "elected" /\ outbox = Nothing /\ loop' = "count"
      /\ UNCHANGED <<chan, msgOutCounter, aCurrent>> /\ Leader \in Node
  BY NodeAssumption DEF BeginVote, At, votes
<1>2. \A p, r \in Node : Begins(chan[p][r]) = {}
  BY <1>1 DEF Bounded, Placed
<1> DEFINE calls(R, x, r) == IF r \in R THEN IF r = x THEN {1, 2} ELSE {1} ELSE {}
<1>3. PICK R \in SUBSET Neigh[Leader], x \in Neigh[Leader] :
        \A r \in Node : /\ DOMAIN outbox'[r] = calls(R, x, r)
                        /\ \A i \in DOMAIN outbox'[r] : outbox'[r][i] = VoteBegin
  <2>1. CASE outbox' = Nothing
    <3>1. PICK x \in Neigh[Leader] : TRUE
      BY <1>1, NeighAssumption
    <3>2. \A r \in Node : DOMAIN outbox'[r] = {}
      BY <2>1, EmptySeq DEF Nothing
    <3>3. {} \in SUBSET Neigh[Leader] /\ \A r : calls({}, x, r) = {}
      OBVIOUS
    <3> HIDE DEF calls
    <3> QED
      BY <3>1, <3>2, <3>3
  <2>2. ASSUME NEW x \in Neigh[Leader],
               outbox' = Then(To(Neigh[Leader], VoteBegin), To({x}, VoteBegin)), NEW r \in Node
        PROVE  /\ DOMAIN outbox'[r] = calls(Neigh[Leader], x, r)
               /\ \A i \in DOMAIN outbox'[r] : outbox'[r][i] = VoteBegin
    <3>1. outbox'[r] = (IF r \in Neigh[Leader] THEN <<VoteBegin>> ELSE <<>>)
                       \o (IF r \in {x} THEN <<VoteBegin>> ELSE <<>>)
      BY <2>2 DEF Then, To
    <3> HIDE DEF VoteBegin
    <3>2. CASE r \in Neigh[Leader] /\ r = x
      <4>1. outbox'[r] = <<VoteBegin>> \o <<VoteBegin>>
        BY <3>1, <3>2
      <4> QED
        BY <3>2, <4>1
    <3>3. CASE r \in Neigh[Leader] /\ r # x
      <4>1. outbox'[r] = <<VoteBegin>> \o <<>>
        BY <3>1, <3>3
      <4> QED
        BY <3>3, <4>1
    <3>4. CASE r \notin Neigh[Leader]
      <4>1. outbox'[r] = <<>> \o <<>>
        BY <3>1, <3>4
      <4> QED
        BY <3>4, <4>1
    <3> QED
      BY <3>2, <3>3, <3>4
  <2>3. Neigh[Leader] \in SUBSET Neigh[Leader]
    OBVIOUS
  <2> HIDE DEF calls
  <2> QED
    BY <2>1, <2>2, <2>3 DEF BeginVote
<1>4. \A r \in Node :
        /\ Begins(outbox'[r]) = calls(R, x, r)
        /\ \A i \in DOMAIN outbox'[r] : outbox'[r][i] = VoteBegin
  <2> HIDE DEF calls
  <2> QED
    BY <1>3 DEF Begins, VoteBegin
<1>5. Cardinality({}) = 0 /\ Cardinality({1}) = 1 /\ Cardinality({1, 2}) = 2
  <2>1. Cardinality({}) = 0 /\ IsFiniteSet({})
    BY FS_EmptySet
  <2>2. Cardinality({} \cup {1}) = Cardinality({}) + 1 /\ IsFiniteSet({} \cup {1})
    BY <2>1, FS_AddElement
  <2>3. Cardinality({1} \cup {2}) = Cardinality({1}) + 1
    <3>1. {} \cup {1} = {1} /\ 2 \notin {1}
      OBVIOUS
    <3> QED
      BY <2>2, <3>1, FS_AddElement
  <2>4. {} \cup {1} = {1} /\ {1} \cup {2} = {1, 2}
    OBVIOUS
  <2> QED
    BY <2>1, <2>2, <2>3, <2>4
<1>6. \A r \in Node : Cardinality(Begins(outbox'[r])) =
                        IF r \in R THEN IF r = x THEN 2 ELSE 1 ELSE 0
  BY <1>4, <1>5
<1>7. Placed'
  BY <1>1, <1>2 DEF Placed
<1>8. Boxed'
  <2>1. Leader \notin R
    BY <1>1, NeighAssumption
  <2>2. Begins(outbox'[Leader]) = {}
    BY <1>1, <1>4, <2>1
  <2>3. \A r \in Node : Cardinality(Begins(outbox'[r])) <= 2 /\ (Twice(r)' => r = x)
    BY <1>6 DEF Twice
  <2> QED
    BY <1>1, <1>4, <2>2, <2>3 DEF Boxed
<1>9. Unsent' \in Nat /\ Unsent' <= Cardinality(Neigh[Leader]) + 1
  <2>1. Called' \subseteq Neigh[Leader]
    BY <1>4 DEF Called
  <2>2. /\ Cardinality(Called') \in Nat /\ Cardinality(Neigh[Leader]) \in Nat
        /\ Cardinality(Called') <= Cardinality(Neigh[Leader])
    BY <1>1, <2>1, NeighFinite, FS_Subset, FS_CardinalityType
  <2>3. Unsent' = Cardinality(Called') + (IF \E r \in Node : Twice(r)' THEN 1 ELSE 0)
    BY <1>1 DEF Unsent
  <2> QED
    BY <2>2, <2>3
<1>10. Unsent = Cardinality(Neigh[Leader]) + 1 /\ Cardinality(Neigh[Leader]) \in Nat
  BY <1>1, NeighFinite DEF Unsent
<1>11. /\ \A n \in Node : msgOutCounter[n] \in Nat /\ Spent(n) \in Nat /\ Spent(n)' = Spent(n)
       /\ \A n \in Node : Fan(n) \in Nat
  BY <1>1, SpentType DEF TypeOK, Spent, Fan
<1>12. LeaderBound'
  <2>1. LeaderBound
    BY DEF Bounded
  <2>2. msgOutCounter[Leader] + Unsent' <= Cardinality(Neigh[Leader]) + 1 + Spent(Leader)
    <3>1. PICK m, u, u2, c, s \in Nat :
            m = msgOutCounter[Leader] /\ u = Unsent /\ u2 = Unsent' /\ c = Cardinality(Neigh[Leader]) /\ s = Spent(Leader)
      BY <1>1, <1>9, <1>10, <1>11
    <3>2. m + u <= c + 1 + s /\ u2 <= u
      BY <1>9, <1>10, <2>1, <3>1 DEF LeaderBound
    <3> QED
      BY <3>1, <3>2
  <2> QED
    BY <1>1, <1>11, <2>2 DEF LeaderBound
<1>13. OthersBound'
  <2> SUFFICES ASSUME NEW n \in Node \ {Leader}
               PROVE  msgOutCounter'[n] + Pending(n)' * Fan(n) <= 2 * Fan(n) + Spent(n)'
    BY DEF OthersBound, Fan
  <2>1. Pending(n) = 2 /\ Pending(n)' = 0 + Cardinality(Begins(outbox'[n]))
    <3>1. Begins(chan'[Leader][n]) = {}
      BY <1>1, <1>2
    <3> QED
      BY <1>1, <1>5, <3>1 DEF Pending
  <2>2. Pending(n)' \in Nat /\ Pending(n)' <= 2
    BY <1>6, <2>1
  <2>3. Pending(n)' * Fan(n) <= 2 * Fan(n) /\ Pending(n)' * Fan(n) \in Nat /\ 2 * Fan(n) \in Nat
    BY <1>11, <2>2, Multiply
  <2>4. msgOutCounter[n] + 2 * Fan(n) <= 2 * Fan(n) + Spent(n)
    BY <2>1 DEF Bounded, OthersBound
  <2>5. PICK m, now, f, s \in Nat :
          m = msgOutCounter[n] /\ now = Pending(n)' * Fan(n) /\ f = 2 * Fan(n) /\ s = Spent(n)
    BY <1>11, <2>3
  <2>6. m + f <= f + s /\ now <= f
    BY <2>3, <2>4, <2>5
  <2>7. m + now <= f + s
    BY <2>6
  <2> QED
    BY <1>1, <1>11, <2>5, <2>7
<1> QED
  BY <1>7, <1>8, <1>12, <1>13 DEF Bounded
\* The loop takes the first message for r from its outbox: one call less, if it is one.
LEMMA OutboxLess ==
  ASSUME TypeOK, Bounded, NEW r \in Node, outbox[r] # <<>>,
         outbox' = [outbox EXCEPT ![r] = Tail(@)], loop' = loop, TypeOK',
         NEW less \in {0, 1}, less = IF Head(outbox[r]) \in Vote THEN 1 ELSE 0
  PROVE  /\ Boxed' /\ loop # "elected" /\ (less = 1 => r # Leader /\ Head(outbox[r]).type = "voteBegin")
         /\ less = 0 => Head(outbox[r]).type # "voteBegin"
         /\ \A k \in Node : Cardinality(Begins(outbox[k])) =
                              Cardinality(Begins(outbox'[k])) + (IF k = r THEN less ELSE 0)
         /\ Unsent = Unsent' + less /\ Unsent' \in Nat
<1> DEFINE m == Head(outbox[r])
<1>1. /\ outbox[r] \in Seq(Message) /\ loop # "elected" /\ loop' # "elected" /\ Boxed
      /\ Leader \in Node
  BY NodeAssumption DEF TypeOK, Bounded, Boxed, Nothing
<1>2. /\ m = outbox[r][1] /\ 1 \in DOMAIN outbox[r] /\ m \in Message
      /\ \A i \in DOMAIN Tail(outbox[r]) :
           i + 1 \in DOMAIN outbox[r] /\ Tail(outbox[r])[i] = outbox[r][i + 1]
  BY <1>1, Uncons
<1>3. /\ less = 1 => m.type = "voteBegin"
      /\ less = 0 => m.type # "voteBegin"
  <2>1. CASE m \in Vote
    <3>1. m = VoteBegin
      BY <1>1, <1>2, <2>1 DEF Boxed
    <3> QED
      BY <2>1, <3>1 DEF VoteBegin
  <2>2. CASE m \notin Vote
    <3>1. m \in Control
      BY <1>2, <2>2 DEF Message
    <3>2. m.type # "voteBegin"
      BY <3>1 DEF Control, CollectRequest
    <3> QED
      BY <2>2, <3>2
  <2> QED
    BY <2>1, <2>2
<1> HIDE DEF m
<1>4. less = 1 => r # Leader
  <2>1. less = 1 => Begins(outbox[r]) # {}
    BY <1>1, <1>3, BeginsTail DEF m
  <2> QED
    BY <1>1, <2>1 DEF Boxed
<1>5. outbox'[r] = Tail(outbox[r]) /\ \A k \in Node : k # r => outbox'[k] = outbox[k]
  BY DEF TypeOK
<1>6. \A k \in Node : /\ Cardinality(Begins(outbox[k])) \in Nat /\ Cardinality(Begins(outbox'[k])) \in Nat
                      /\ Begins(outbox[k]) = {} <=> Cardinality(Begins(outbox[k])) = 0
                      /\ Begins(outbox'[k]) = {} <=> Cardinality(Begins(outbox'[k])) = 0
  <2>1. \A k \in Node : outbox[k] \in Seq(Message) /\ outbox'[k] \in Seq(Message)
    BY DEF TypeOK
  <2> QED
    BY <2>1, BeginsFinite, NoBegins
<1>7. \A k \in Node : Cardinality(Begins(outbox[k])) =
                        Cardinality(Begins(outbox'[k])) + (IF k = r THEN less ELSE 0)
  <2>1. Cardinality(Begins(outbox[r])) = Cardinality(Begins(outbox'[r])) + less
    <3>1. CASE less = 1
      BY <1>1, <1>3, <1>5, <3>1, BeginsTail DEF m
    <3>2. CASE less = 0
      <4>1. Cardinality(Begins(outbox[r])) = Cardinality(Begins(outbox'[r]))
        BY <1>1, <1>3, <1>5, <3>2, BeginsTail DEF m
      <4> QED
        BY <1>6, <3>2, <4>1
    <3> QED
      BY <3>1, <3>2
  <2> QED
    BY <1>5, <1>6, <2>1
<1>8. Boxed'
  <2>1. Begins(outbox'[Leader]) = {}
    <3>1. Cardinality(Begins(outbox[Leader])) = 0
      BY <1>1, <1>6 DEF Boxed
    <3>2. Cardinality(Begins(outbox'[Leader])) = 0
      BY <1>1, <1>6, <1>7, <3>1
    <3> QED
      BY <1>1, <1>6, <3>2
  <2>2. \A k \in Node : \A i \in DOMAIN outbox'[k] : outbox'[k][i] \in Vote => outbox'[k][i] = VoteBegin
    BY <1>1, <1>2, <1>5 DEF Boxed
  <2>3. \A k \in Node : Cardinality(Begins(outbox'[k])) <= 2 /\ (Twice(k)' => Twice(k))
    <3> SUFFICES ASSUME NEW k \in Node PROVE Cardinality(Begins(outbox'[k])) <= 2 /\ (Twice(k)' => Twice(k))
      OBVIOUS
    <3>1. PICK c, c2 \in Nat : c = Cardinality(Begins(outbox[k])) /\ c2 = Cardinality(Begins(outbox'[k]))
      BY <1>6
    <3>2. c <= 2 /\ c2 <= c
      BY <1>1, <1>7, <3>1 DEF Boxed
    <3> QED
      BY <3>1, <3>2 DEF Twice
  <2> QED
    BY <1>1, <2>1, <2>2, <2>3 DEF Boxed
<1>9. Unsent = Unsent' + less /\ Unsent' \in Nat
  <2>1. /\ IsFiniteSet(Called) /\ Cardinality(Called) \in Nat
        /\ IsFiniteSet(Called') /\ Cardinality(Called') \in Nat
    <3>1. Called' \subseteq Node
      BY DEF Called
    <3> QED
      BY <3>1, NodeAssumption, UnsentType, FS_Subset, FS_CardinalityType
  <2>2. PICK c, c2 \in Nat, t, t2 \in {0, 1} :
          /\ c = Cardinality(Called) /\ c2 = Cardinality(Called')
          /\ Unsent = c + t /\ Unsent' = c2 + t2
          /\ t = 1 <=> \E k \in Node : Twice(k)
          /\ t2 = 1 <=> \E k \in Node : Twice(k)'
    <3>1. /\ Unsent = Cardinality(Called) + (IF \E k \in Node : Twice(k) THEN 1 ELSE 0)
          /\ Unsent' = Cardinality(Called') + (IF \E k \in Node : Twice(k)' THEN 1 ELSE 0)
      BY <1>1 DEF Unsent
    <3>2. PICK t, t2 \in {0, 1} :
            /\ t = IF \E k \in Node : Twice(k) THEN 1 ELSE 0
            /\ t2 = IF \E k \in Node : Twice(k)' THEN 1 ELSE 0
      OBVIOUS
    <3> QED
      BY <2>1, <3>1, <3>2
  <2>3. \A k \in Node : k # r => (k \in Called' <=> k \in Called) /\ (Twice(k)' <=> Twice(k))
    BY <1>5 DEF Called, Twice
  <2>4. \A k \in Node : /\ k \in Called' <=> Cardinality(Begins(outbox'[k])) # 0
                        /\ k \in Called <=> Cardinality(Begins(outbox[k])) # 0
    BY <1>6 DEF Called
  <2>5. PICK b, b2 \in Nat : b = Cardinality(Begins(outbox[r])) /\ b2 = Cardinality(Begins(outbox'[r]))
    BY <1>6
  <2>6. b = b2 + less /\ b <= 2 /\ (Twice(r) <=> b > 1) /\ (Twice(r)' <=> b2 > 1)
    BY <1>1, <1>7, <2>5 DEF Boxed, Twice
  <2>7. /\ Called' \subseteq Node /\ Called \subseteq Node
        /\ r \in Called <=> b # 0
        /\ r \in Called' <=> b2 # 0
    <3>1. /\ r \in Called <=> Cardinality(Begins(outbox[r])) # 0
          /\ r \in Called' <=> Cardinality(Begins(outbox'[r])) # 0
      BY <2>4
    <3>2. Called' \subseteq Node /\ Called \subseteq Node
      BY DEF Called
    <3> QED
      BY <2>5, <3>1, <3>2
  <2>8. CASE less = 0
    <3>1. b = b2
      BY <2>6, <2>8
    <3>2. Called' = Called /\ t = t2
      BY <2>2, <2>3, <2>4, <2>5, <2>6, <2>7, <3>1
    <3> QED
      BY <2>2, <2>8, <3>2
  <2>9. CASE less = 1 /\ b > 1
    <3>1. b2 = 1 /\ b # 0
      BY <2>6, <2>9
    <3>2. Called' = Called
      <4>1. r \in Called' /\ r \in Called
        BY <2>7, <3>1
      <4>2. \A k \in Node : k \in Called' <=> k \in Called
        BY <2>3, <4>1
      <4> QED
        BY <2>7, <4>2
    <3>3. t = 1
      BY <2>2, <2>6, <2>9
    <3>4. t2 # 1
      <4>1. ~ Twice(r)'
        BY <2>6, <3>1
      <4>2. \A k \in Node : Twice(k)' => k = r
        BY <1>1, <2>3, <2>6, <2>9 DEF Boxed
      <4> QED
        BY <2>2, <4>1, <4>2
    <3> QED
      BY <2>2, <2>9, <3>2, <3>3, <3>4
  <2>10. CASE less = 1 /\ ~ (b > 1)
    <3>1. b2 = 0 /\ b = 1
      BY <2>6, <2>10
    <3>2. r \in Called /\ r \notin Called'
      BY <2>7, <3>1
    <3>3. Called' = Called \ {r}
      BY <2>3, <2>7, <3>2
    <3>4. c2 = c - 1
      BY <2>1, <2>2, <3>2, <3>3, FS_RemoveElement
    <3>5. t = t2
      BY <2>2, <2>3, <2>6, <3>1
    <3>6. c + t = (c2 + t2) + less /\ c2 + t2 \in Nat
      <4>1. c + t = (c - 1 + t) + 1
        OBVIOUS
      <4> QED
        BY <2>10, <3>4, <3>5, <4>1
    <3>7. Unsent = c + t /\ Unsent' = c2 + t2
      BY <2>2
    <3> QED
      BY <3>6, <3>7
  <2> QED
    BY <2>8, <2>9, <2>10
<1> QED
  BY <1>1, <1>3, <1>4, <1>7, <1>8, <1>9 DEF m

\* The loop sends what is in its outbox, or fails to.
LEMMA LoopBounded ==
  ASSUME TypeOK, TypeOK', Bounded, NEW r \in Node, LoopSend(r) \/ LoopSendFails(r) PROVE Bounded'
<1> DEFINE m == Head(outbox[r])
<1>1. PICK less \in {0, 1} : less = IF m \in Vote THEN 1 ELSE 0
  OBVIOUS
<1>2. /\ outbox[r] # <<>> /\ outbox' = [outbox EXCEPT ![r] = Tail(@)] /\ loop' = loop
      /\ UNCHANGED aCurrent /\ Leader \in Node
  BY NodeAssumption DEF LoopSend, LoopSendFails, votes
<1>3. /\ Boxed' /\ loop # "elected" /\ (less = 1 => r # Leader /\ m.type = "voteBegin")
      /\ less = 0 => m.type # "voteBegin"
      /\ \A k \in Node : Cardinality(Begins(outbox[k])) =
                           Cardinality(Begins(outbox'[k])) + (IF k = r THEN less ELSE 0)
      /\ Unsent = Unsent' + less /\ Unsent' \in Nat
  BY <1>1, <1>2, OutboxLess
<1>4. PICK done \in {0, 1} :
        /\ done <= less
        /\ msgOutCounter' = [msgOutCounter EXCEPT ![Leader] = @ + done]
        /\ \A p, k \in Node :
             Cardinality(Begins(chan'[p][k])) =
               Cardinality(Begins(chan[p][k])) + (IF p = Leader /\ k = r THEN done ELSE 0)
  <2>1. CASE LoopSend(r)
    <3>1. chan' = Sent(chan, Leader, To({r}, m)) /\ Sends(Leader, less)
      BY <1>1, <2>1 DEF LoopSend
    <3>2. m \in Message /\ chan \in Channels(Message) /\ outbox[r] \in Seq(Message)
      <4>1. outbox[r] \in Seq(Message)
        BY DEF TypeOK
      <4> QED
        BY <1>2, <4>1, Uncons DEF TypeOK, Channels, Outgoing
    <3> HIDE DEF m
    <3>3. \A p, k \in Node :
            chan'[p][k] = IF p = Leader THEN chan[Leader][k] \o To({r}, m)[k] ELSE chan[p][k]
      <4>1. To({r}, m) \in Outgoing(Message)
        BY <3>2, ToType
      <4> QED
        BY <1>2, <3>1, <3>2, <4>1, SentAt
    <3>4. ASSUME NEW p \in Node, NEW k \in Node
          PROVE  Cardinality(Begins(chan'[p][k])) =
                   Cardinality(Begins(chan[p][k])) + (IF p = Leader /\ k = r THEN less ELSE 0)
      <4>0. chan[p][k] \in Seq(Message)
        BY DEF TypeOK
      <4>1. chan[p][k] \in Seq(Message) /\ Cardinality(Begins(chan[p][k])) \in Nat
        BY <4>0, BeginsFinite
      <4>2. CASE p # Leader
        BY <3>3, <4>1, <4>2
      <4>3. CASE p = Leader /\ k # r
        <5>1. chan'[p][k] = chan[p][k] \o <<>>
          BY <3>3, <4>3 DEF To
        <5>2. chan[p][k] \o <<>> = chan[p][k]
          BY <4>1
        <5> QED
          BY <4>1, <4>3, <5>1, <5>2
      <4>4. CASE p = Leader /\ k = r
        <5>1. chan'[p][k] = chan[p][k] \o <<m>>
          BY <3>3, <4>4 DEF To
        <5>2. Cardinality(Begins(chan'[p][k])) =
                Cardinality(Begins(chan[p][k])) + (IF m.type = "voteBegin" THEN 1 ELSE 0)
          BY <3>2, <4>1, <5>1, BeginsLast
        <5>3. (IF m.type = "voteBegin" THEN 1 ELSE 0) = less
          BY <1>3 DEF m
        <5> QED
          BY <4>4, <5>2, <5>3
      <4> QED
        BY <4>2, <4>3, <4>4
    <3>5. less <= less /\ msgOutCounter' = [msgOutCounter EXCEPT ![Leader] = @ + less]
      BY <3>1 DEF Sends
    <3> QED
      BY <3>4, <3>5
  <2>2. CASE LoopSendFails(r)
    <3>1. UNCHANGED <<chan, msgOutCounter>>
      BY <2>2 DEF LoopSendFails, votes
    <3>2. 0 <= less /\ msgOutCounter' = [msgOutCounter EXCEPT ![Leader] = @ + 0]
      <4>1. msgOutCounter \in [Node -> Nat]
        BY DEF TypeOK
      <4>2. msgOutCounter[Leader] + 0 = msgOutCounter[Leader]
        BY <1>2, <4>1
      <4>3. 0 <= less
        OBVIOUS
      <4> QED
        BY <3>1, <4>1, <4>2, <4>3
    <3>3. \A p, k \in Node :
            Cardinality(Begins(chan'[p][k])) =
              Cardinality(Begins(chan[p][k])) + (IF p = Leader /\ k = r THEN 0 ELSE 0)
      <4>1. \A p, k \in Node : chan[p][k] \in Seq(Message)
        BY DEF TypeOK
      <4>2. \A p, k \in Node : Cardinality(Begins(chan[p][k])) \in Nat
        BY <4>1, BeginsFinite
      <4> QED
        BY <3>1, <4>2
    <3> QED
      BY <3>2, <3>3
  <2> QED
    BY <2>1, <2>2
<1> HIDE DEF m
<1>5. \A p, k \in Node : /\ Cardinality(Begins(chan[p][k])) \in Nat /\ Cardinality(Begins(chan'[p][k])) \in Nat
                         /\ Begins(chan[p][k]) = {} <=> Cardinality(Begins(chan[p][k])) = 0
                         /\ Begins(chan'[p][k]) = {} <=> Cardinality(Begins(chan'[p][k])) = 0
  <2>1. \A p, k \in Node : chan[p][k] \in Seq(Message) /\ chan'[p][k] \in Seq(Message)
    BY DEF TypeOK
  <2> QED
    BY <2>1, BeginsFinite, NoBegins
<1>6. Placed'
  <2> SUFFICES ASSUME NEW p \in Node, NEW k \in Node, Begins(chan'[p][k]) # {}
               PROVE  p = Leader /\ k # Leader /\ loop' # "elected"
    BY DEF Placed
  <2>1. CASE Begins(chan[p][k]) # {}
    BY <1>2, <2>1 DEF Bounded, Placed
  <2>2. CASE Begins(chan[p][k]) = {}
    <3>1. p = Leader /\ k = r /\ done = 1
      BY <1>4, <1>5, <2>2
    <3> QED
      BY <1>2, <1>3, <1>4, <3>1
  <2> QED
    BY <2>1, <2>2
<1>7. \A n \in Node : msgOutCounter[n] \in Nat /\ Spent(n) \in Nat /\ Spent(n)' = Spent(n) /\ Fan(n) \in Nat
  BY <1>2, SpentType DEF TypeOK, Spent, Fan
<1>8. LeaderBound'
  <2>1. LeaderBound /\ Unsent \in Nat /\ Unsent' \in Nat /\ Cardinality(Neigh[Leader]) \in Nat
    BY <1>3, UnsentType DEF Bounded
  <2>2. PICK mo, u, u2, c, s \in Nat :
          /\ mo = msgOutCounter[Leader] /\ u = Unsent /\ u2 = Unsent'
          /\ c = Cardinality(Neigh[Leader]) /\ s = Spent(Leader)
    BY <1>2, <1>7, <2>1
  <2>3. mo + u <= c + 1 + s /\ u = u2 + less /\ msgOutCounter'[Leader] = mo + done
    BY <1>2, <1>3, <1>4, <2>1, <2>2 DEF LeaderBound, TypeOK
  <2>4. (mo + done) + u2 <= c + 1 + s
    BY <1>1, <1>4, <2>3
  <2> QED
    BY <1>2, <1>7, <2>2, <2>3, <2>4 DEF LeaderBound
<1>9. OthersBound'
  <2> SUFFICES ASSUME NEW n \in Node \ {Leader}
               PROVE  msgOutCounter'[n] + Pending(n)' * Fan(n) <= 2 * Fan(n) + Spent(n)'
    BY DEF OthersBound, Fan
  <2>1. /\ Pending(n) = Cardinality(Begins(chan[Leader][n])) + Cardinality(Begins(outbox[n]))
        /\ Pending(n)' = Cardinality(Begins(chan'[Leader][n])) + Cardinality(Begins(outbox'[n]))
    BY <1>2, <1>3 DEF Pending
  <2>2. PICK b, b2, o, o2 \in Nat :
          /\ b = Cardinality(Begins(chan[Leader][n])) /\ b2 = Cardinality(Begins(chan'[Leader][n]))
          /\ o = Cardinality(Begins(outbox[n])) /\ o2 = Cardinality(Begins(outbox'[n]))
    <3>1. outbox[n] \in Seq(Message) /\ outbox'[n] \in Seq(Message)
      BY DEF TypeOK
    <3> QED
      BY <1>2, <1>5, <3>1, BeginsFinite
  <2>3. b2 = b + (IF n = r THEN done ELSE 0) /\ o = o2 + (IF n = r THEN less ELSE 0)
    BY <1>2, <1>3, <1>4, <2>2
  <2>4. b2 + o2 <= b + o
    BY <1>1, <1>4, <2>3
  <2>5. Pending(n)' \in Nat /\ Pending(n) \in Nat /\ Pending(n)' <= Pending(n)
    BY <2>1, <2>2, <2>4
  <2>6. /\ Pending(n)' * Fan(n) <= Pending(n) * Fan(n)
        /\ Pending(n)' * Fan(n) \in Nat /\ Pending(n) * Fan(n) \in Nat /\ 2 * Fan(n) \in Nat
    BY <1>7, <2>5, Multiply
  <2>7. PICK mo, now, before, f, s \in Nat :
          /\ mo = msgOutCounter[n] /\ now = Pending(n)' * Fan(n) /\ before = Pending(n) * Fan(n)
          /\ f = 2 * Fan(n) /\ s = Spent(n)
    BY <1>7, <2>6
  <2>8. mo + before <= f + s /\ now <= before
    BY <2>6, <2>7 DEF Bounded, OthersBound
  <2>9. mo + now <= f + s
    BY <2>8
  <2>10. msgOutCounter'[n] = mo
    BY <1>4, <2>7 DEF TypeOK
  <2> QED
    BY <1>7, <2>7, <2>9, <2>10
<1> QED
  BY <1>3, <1>6, <1>8, <1>9 DEF Bounded
\* leaderLoop.
LEMMA LeaderLoopBounded == ASSUME TypeOK, TypeOK', Bounded, leaderLoop PROVE Bounded'
<1>1. CASE BeginVote
  BY <1>1, BeginBounded
<1>2. ASSUME NEW r \in Node, LoopSend(r) \/ LoopSendFails(r) PROVE Bounded'
  BY <1>2, LoopBounded
<1>3. CASE NextRound \/ StartCollect
  <2>1. /\ outbox = Nothing /\ loop = "count" /\ loop' # "elected"
        /\ UNCHANGED <<chan, msgOutCounter, aCurrent>>
    BY <1>3 DEF NextRound, StartCollect, At, votes
  <2>2. PICK msg : outbox' = To(Childs(Leader), msg) /\ msg.type # "voteBegin" /\ msg \notin Vote
    <3>1. \A id : StateRequest(id).type # "voteBegin" /\ StateRequest(id) \notin Vote
      <4> SUFFICES ASSUME NEW id PROVE StateRequest(id).type # "voteBegin" /\ StateRequest(id) \notin Vote
        OBVIOUS
      <4>1. StateRequest(id).type = "stateRequest"
        BY DEF StateRequest
      <4> QED
        BY <4>1 DEF Vote, VoteBegin
    <3>2. CollectRequest.type # "voteBegin" /\ CollectRequest \notin Vote
      <4>1. CollectRequest.type = "collectRequest"
        BY DEF CollectRequest
      <4> QED
        BY <4>1 DEF Vote, VoteBegin
    <3> QED
      BY <1>3, <3>1, <3>2 DEF NextRound, StartCollect, PropagateChilds
  <2>3. Silent(outbox) /\ Silent(outbox')
    BY <2>1, <2>2, Silence
  <2>4. \A r \in Node : Begins(outbox'[r]) = Begins(outbox[r])
    BY <2>3 DEF Silent
  <2>5. \A r \in Node : \A i \in DOMAIN outbox'[r] : outbox'[r][i] \notin Vote
    <3>1. \A r \in Node : \A i \in DOMAIN outbox'[r] : outbox'[r][i] = msg
      BY <2>2, EmptySeq DEF To
    <3> QED
      BY <2>2, <3>1
  <2> QED
    BY <2>1, <2>4, <2>5, SameBounded
<1>4. CASE CheckResult
  <2>1. /\ loop = "collect" /\ loop' # "elected"
        /\ UNCHANGED <<chan, msgOutCounter, aCurrent, outbox>>
    BY <1>4 DEF CheckResult, At, votes
  <2>2. \A r \in Node : \A i \in DOMAIN outbox'[r] : outbox'[r][i] \in Vote => outbox'[r][i] = VoteBegin
    BY <2>1 DEF Bounded, Boxed
  <2> QED
    BY <2>1, <2>2, SameBounded
<1> QED
  BY <1>1, <1>2, <1>3, <1>4 DEF leaderLoop

\* The start.
LEMMA BoundedInit == Init => Bounded
<1> SUFFICES ASSUME Init PROVE Bounded
  OBVIOUS
<1>1. /\ chan = EmptyNet /\ outbox = Nothing /\ loop = "elected" /\ Leader \in Node
      /\ \A n \in Node : aCurrent[n] = 0 /\ msgOutCounter[n] = 0
  BY NodeAssumption DEF Init
<1>2. TypeOK
  BY TypesInit
<1>3. \A p, r \in Node : Begins(chan[p][r]) = {}
  BY <1>1, EmptySeq DEF EmptyNet, Begins
<1>4. \A r \in Node : DOMAIN outbox[r] = {} /\ Begins(outbox[r]) = {}
  BY <1>1, EmptySeq DEF Nothing, Begins
<1>5. \A r \in Node : Cardinality(Begins(outbox[r])) = 0
  BY <1>4, FS_EmptySet
<1>6. Placed
  BY <1>3 DEF Placed
<1>7. Boxed
  BY <1>1, <1>4, <1>5 DEF Boxed, Twice
<1>8. \A n \in Node : Fan(n) \in Nat /\ Spent(n) \in Nat
  BY <1>2, SpentType
<1>9. LeaderBound
  <2>1. Unsent = Cardinality(Neigh[Leader]) + 1 /\ Cardinality(Neigh[Leader]) \in Nat
    BY <1>1, NeighFinite DEF Unsent
  <2>2. PICK c, s \in Nat : c = Cardinality(Neigh[Leader]) /\ s = Spent(Leader)
    BY <1>1, <1>8, <2>1
  <2>3. 0 + (c + 1) <= c + 1 + s
    OBVIOUS
  <2> QED
    BY <1>1, <2>1, <2>2, <2>3 DEF LeaderBound
<1>10. OthersBound
  <2> SUFFICES ASSUME NEW n \in Node \ {Leader}
               PROVE  msgOutCounter[n] + Pending(n) * Fan(n) <= 2 * Fan(n) + Spent(n)
    BY DEF OthersBound
  <2>1. Pending(n) = 2 /\ msgOutCounter[n] = 0
    BY <1>1 DEF Pending
  <2>2. PICK f, s \in Nat : f = 2 * Fan(n) /\ s = Spent(n)
    BY <1>8, Multiply
  <2>3. 0 + f <= f + s
    OBVIOUS
  <2> QED
    BY <2>1, <2>2, <2>3
<1> QED
  BY <1>6, <1>7, <1>9, <1>10 DEF Bounded

\* The bound, step by step.
LEMMA BoundedNext == TypeOK /\ TypeOK' /\ Bounded /\ [Next]_vars => Bounded'
<1> SUFFICES ASSUME TypeOK, TypeOK', Bounded, [Next]_vars PROVE Bounded'
  OBVIOUS
<1>1. ASSUME NEW n \in Node, NEW q \in Node, Handle(n, q) PROVE Bounded'
  BY <1>1, HandleBounded
<1>2. CASE leaderLoop
  BY <1>2, LeaderLoopBounded
<1>3. ASSUME NEW p \in Node, NEW q \in Node, SendFails(p, q) PROVE Bounded'
  BY <1>3, LossBounded
<1>4. CASE UNCHANGED vars
  BY <1>4 DEF vars, votes, loopVars, Bounded, Placed, Boxed, LeaderBound, OthersBound, Spent, Fan,
              Pending, Unsent, Called, Twice
<1> QED
  BY <1>1, <1>2, <1>3, <1>4 DEF Next

\* With at most aMax proposals accepted, the bound is the one stated.
LEMMA BoundedVotes == TypeOK /\ Bounded => VotingBounded
<1> SUFFICES ASSUME TypeOK, Bounded, NEW n \in Node
             PROVE  msgOutCounter[n] <= (IF n = Leader THEN Cardinality(Neigh[n]) + 1 ELSE 2 * Fan(n))
                                        + aMax[n] * (1 + Fan(n))
  BY DEF VotingBounded
<1>1. /\ msgOutCounter[n] \in Nat /\ aCurrent[n] \in Nat /\ aMax[n] \in Nat /\ aCurrent[n] <= aMax[n]
      /\ Fan(n) \in Nat /\ Spent(n) \in Nat /\ Spent(n) = aCurrent[n] * (1 + Fan(n))
  BY SpentType, ParameterAssumption DEF TypeOK, Spent
<1>2. Spent(n) <= aMax[n] * (1 + Fan(n)) /\ aMax[n] * (1 + Fan(n)) \in Nat
  <2>1. 1 + Fan(n) \in Nat
    BY <1>1
  <2> QED
    BY <1>1, <2>1, Multiply
<1>3. CASE n = Leader
  <2>1. PICK mo, u, c, s, a \in Nat :
          /\ mo = msgOutCounter[n] /\ u = Unsent /\ c = Cardinality(Neigh[n]) /\ s = Spent(n)
          /\ a = aMax[n] * (1 + Fan(n))
    BY <1>1, <1>2, <1>3, UnsentType
  <2>2. mo + u <= c + 1 + s /\ s <= a
    BY <1>2, <1>3, <2>1 DEF Bounded, LeaderBound
  <2>3. mo <= (c + 1) + a
    BY <2>2
  <2> QED
    BY <1>3, <2>1, <2>3
<1>4. CASE n # Leader
  <2>1. Pending(n) \in Nat
    <3>1. chan[Leader][n] \in Seq(Message) /\ outbox[n] \in Seq(Message)
      BY NodeAssumption DEF TypeOK
    <3> QED
      BY <3>1, BeginsFinite DEF Pending
  <2>2. PICK mo, w, f, s, a \in Nat :
          /\ mo = msgOutCounter[n] /\ w = Pending(n) * Fan(n) /\ f = 2 * Fan(n) /\ s = Spent(n)
          /\ a = aMax[n] * (1 + Fan(n))
    BY <1>1, <1>2, <2>1, Multiply
  <2>3. mo + w <= f + s /\ s <= a
    BY <1>2, <1>4, <2>2 DEF Bounded, OthersBound
  <2>4. mo <= f + a
    BY <2>3
  <2> QED
    BY <1>4, <2>2, <2>4
<1> QED
  BY <1>3, <1>4

\* Voting ends (VotingBounded): on every graph and with any loss a node sends no more
\* votes than one or two calls and aMax accepted proposals make it send.
THEOREM VotingEnds == Spec => []VotingBounded
<1>1. Init => TypeOK /\ Bounded
  BY TypesInit, BoundedInit
<1>2. (TypeOK /\ Bounded) /\ [Next]_vars => (TypeOK /\ Bounded)'
  BY TypesNext, BoundedNext
<1>3. TypeOK /\ Bounded => VotingBounded
  BY BoundedVotes
<1> QED
  BY <1>1, <1>2, <1>3, PTL DEF Spec

-----------------------------------------------------------------------------
(***************************************************************************)
(* What the leader of the consensus knows from its counts: every vote is   *)
(* counted (VotesConserved), every answer is waited for and counted once   *)
(* (AnswersConserved, CollectsAlone), two equal counts mean that the       *)
(* voting is over (FourCounters), and the result is then true              *)
(* (ResultTrue).                                                           *)
(***************************************************************************)

(***************************************************************************)
(* The handlers of the count and of the collection do the same, with a     *)
(* state or with a result: a request is passed on, an answer is counted,   *)
(* and the last answer counted is answered to the parent.                  *)
(***************************************************************************)
\* The request for id, and what n answers to it once it has every answer itself.
Request(id) == IF id = Collect THEN CollectRequest ELSE StateRequest(id)
Answer(n, id) == IF id = Collect THEN CollectResponse(accResult[n])
                 ELSE StateResponse(id, accState[n][id])

Returns(n, q, id, count, forward) ==
  /\ echo' = [echo EXCEPT ![n][id] = count]
  /\ chan' = Exchanged(chan, q, n,
       Then(forward, IF AllAnswered(n, count) THEN ToParent(n, Answer(n, id)') ELSE Nothing))

\* What is added up, s or r with all that has come in, and n's own at the end.
AddsState(n, id, s, count) ==
  /\ accState' = [accState EXCEPT ![n][id] = IF AllAnswered(n, count) THEN AddState(s, OwnState(n)) ELSE s]
  /\ accStateDone' = IF n = Leader /\ AllAnswered(n, count) THEN accStateDone \cup {id} ELSE accStateDone
  /\ UNCHANGED result
AddsResult(n, r, count) ==
  /\ accResult' = [accResult EXCEPT ![n] = IF AllAnswered(n, count) THEN AddResult(r, TRUE, tK[n]) ELSE r]
  /\ accResultDone' = (accResultDone \/ (n = Leader /\ AllAnswered(n, count)))
  /\ UNCHANGED rounds

\* n takes the request id from q, or an answer to it.
Requested(n, q, id) ==
  /\ chan[q][n] # <<>> /\ Head(chan[q][n]) = Request(id)
  /\ echo[n][id] = None
  /\ Returns(n, q, id, 0, PropagateChilds(n, Request(id)))
  /\ \/ id # Collect /\ AddsState(n, id, NoState, 0)
     \/ id = Collect /\ AddsResult(n, [agreement |-> TRUE, timestamp |-> tK[n]], 0)
  /\ UNCHANGED <<votes, loopVars, failed>>

Replied(n, q, id) ==
  LET m == Head(chan[q][n])
  IN /\ chan[q][n] # <<>> /\ m \in AnswerTo(id)
     /\ echo[n][id] # None
     /\ Returns(n, q, id, echo[n][id] + 1, Nothing)
     /\ \/ id # Collect /\ AddsState(n, id, AddState(accState[n][id], m.state), echo[n][id] + 1)
        \/ id = Collect
           /\ AddsResult(n, AddResult(accResult[n], m.result.agreement, m.result.timestamp), echo[n][id] + 1)
     /\ UNCHANGED <<votes, loopVars, failed>>

\* The requests: the collection, and one for each round.
LEMMA AllRequests ==
  /\ MaxRounds \in Nat /\ Collect = 0 /\ Collect \in Requests /\ 1 .. MaxRounds \subseteq Requests
  /\ \A id \in Requests : id \in Nat /\ (id # Collect => id \in 1 .. MaxRounds)
BY ParameterAssumption DEF Requests, Collect

\* A message of the count by its type.
LEMMA ControlForm ==
  ASSUME NEW m \in Message
  PROVE  /\ m.type = "stateRequest" => m.id \in 1 .. MaxRounds /\ m = StateRequest(m.id)
         /\ m.type = "stateResponse" =>
              m.id \in 1 .. MaxRounds /\ m.state \in State /\ m = StateResponse(m.id, m.state)
         /\ m.type = "collectRequest" => m = CollectRequest
         /\ m.type = "collect" => m.result \in Result /\ m = CollectResponse(m.result)
         /\ m.type \in {"stateRequest", "stateResponse", "collectRequest", "collect"} <=> m \in Control
<1>1. \/ m = VoteBegin
      \/ m \in [type : {"proposal", "proposalResponse"}, time : Times]
      \/ m \in [type : {"stateRequest"}, id : 1 .. MaxRounds]
      \/ m \in [type : {"stateResponse"}, id : 1 .. MaxRounds, state : State]
      \/ m = CollectRequest
      \/ m \in [type : {"collect"}, result : Result]
  BY DEF Message, Vote, Control
<1>2. CASE m = VoteBegin
  BY <1>2 DEF VoteBegin, Control, CollectRequest
<1>3. CASE m \in [type : {"proposal", "proposalResponse"}, time : Times]
  BY <1>3 DEF Control, CollectRequest
<1>4. CASE m \in [type : {"stateRequest"}, id : 1 .. MaxRounds]
  BY <1>4 DEF StateRequest, Control
<1>5. CASE m \in [type : {"stateResponse"}, id : 1 .. MaxRounds, state : State]
  BY <1>5 DEF StateResponse, Control
<1>6. CASE m = CollectRequest
  BY <1>6 DEF CollectRequest, Control
<1>7. CASE m \in [type : {"collect"}, result : Result]
  BY <1>7 DEF CollectResponse, Control
<1> QED
  BY <1>1, <1>2, <1>3, <1>4, <1>5, <1>6, <1>7

\* Requests and answers are messages of the count, and of different kinds.
LEMMA RequestForm ==
  ASSUME NEW id \in Requests
  PROVE  /\ Request(id) \in Control /\ RequestOf(id) = {Request(id)}
         /\ Request(id).type = IF id = Collect THEN "collectRequest" ELSE "stateRequest"
         /\ \A id2 \in Requests : Request(id) = Request(id2) => id = id2
         /\ \A m \in AnswerTo(id) :
              /\ m \in Control
              /\ m.type = IF id = Collect THEN "collect" ELSE "stateResponse"
              /\ id # Collect => m = StateResponse(id, m.state)
              /\ id = Collect => m = CollectResponse(m.result)
              /\ \A id2 \in Requests : m # Request(id2) /\ (m \in AnswerTo(id2) => id = id2)
<1>1. \A k \in Requests \ {Collect} : k \in 1 .. MaxRounds
  BY AllRequests
<1>2. CASE id = Collect
  BY <1>1, <1>2 DEF Request, RequestOf, AnswerTo, Control, CollectRequest, StateRequest, CollectResponse
<1>3. CASE id # Collect
  BY <1>1, <1>3 DEF Request, RequestOf, AnswerTo, Control, CollectRequest, StateRequest, StateResponse
<1> QED
  BY <1>2, <1>3

LEMMA AnswerForm ==
  ASSUME TypeOK, NEW n \in Node, NEW id \in Requests
  PROVE  Answer(n, id) \in AnswerTo(id) /\ Answer(n, id) \in Control
<1>1. Answer(n, id) \in AnswerTo(id)
  <2>1. CASE id = Collect
    BY <2>1 DEF Answer, AnswerTo, CollectResponse, TypeOK
  <2>2. CASE id # Collect
    <3>1. accState[n][id] \in State
      BY <2>2, AllRequests DEF TypeOK
    <3> QED
      BY <2>2, <3>1 DEF Answer, AnswerTo, StateResponse
  <2> QED
    BY <2>1, <2>2
<1> QED
  BY <1>1, RequestForm

LEMMA AnswerFormNext ==
  ASSUME TypeOK', NEW n \in Node, NEW id \in Requests
  PROVE  Answer(n, id)' \in AnswerTo(id)
<1>1. CASE id = Collect
  BY <1>1 DEF Answer, AnswerTo, CollectResponse, TypeOK
<1>2. CASE id # Collect
  <2>1. id \in 1 .. MaxRounds
    BY <1>2, AllRequests
  <2>2. accState' \in [Node -> [1 .. MaxRounds -> State]]
    BY DEF TypeOK
  <2>3. accState'[n][id] \in State
    BY <2>1, <2>2
  <2> QED
    BY <1>2, <2>3 DEF Answer, AnswerTo, StateResponse
<1> QED
  BY <1>1, <1>2

\* The handlers.
LEMMA RequestStep ==
  ASSUME TypeOK, NEW n \in Node, NEW q \in Node, handle_stateRequest(n, q) \/ handle_collectRequest(n, q)
  PROVE  \E id \in Requests : Requested(n, q, id)
<1> DEFINE m == Head(chan[q][n])
<1>1. CASE handle_stateRequest(n, q)
  <2>1. /\ Takes(n, q, "stateRequest") /\ echo[n][m.id] = None
        /\ stateReturn(n, q, m.id, NoState, 0, PropagateChilds(n, m)) /\ UNCHANGED <<votes, result, failed>>
    BY <1>1 DEF handle_stateRequest
  <2>2. m \in Message /\ m.type = "stateRequest" /\ chan[q][n] # <<>>
    BY <2>1, TakesType
  <2>3. m.id \in 1 .. MaxRounds /\ m = StateRequest(m.id)
    BY <2>2, ControlForm
  <2> HIDE DEF m
  <2>4. PICK id \in 1 .. MaxRounds : id = m.id
    BY <2>3
  <2>5. id \in Requests /\ id # Collect /\ m = Request(id)
    BY <2>3, <2>4, AllRequests DEF Request
  <2>6. n \in Node /\ accState[n][id] \in State /\ accState \in [Node -> [1 .. MaxRounds -> State]]
    BY DEF TypeOK
  <2> DEFINE total == IF AllAnswered(n, 0) THEN AddState(NoState, OwnState(n)) ELSE NoState
  <2>7. /\ accState' = [accState EXCEPT ![n][id] = total]
        /\ accStateDone' = IF n = Leader /\ AllAnswered(n, 0) THEN accStateDone \cup {id} ELSE accStateDone
        /\ echo' = [echo EXCEPT ![n][id] = 0]
        /\ chan' = Exchanged(chan, q, n, Then(PropagateChilds(n, m),
             IF AllAnswered(n, 0) THEN ToParent(n, StateResponse(id, total)) ELSE Nothing))
    BY <2>1, <2>4 DEF stateReturn
  <2> HIDE DEF total
  <2>8. accState'[n][id] = total
    BY <2>6, <2>7
  <2>9. Answer(n, id)' = StateResponse(id, total)
    BY <2>5, <2>8 DEF Answer
  <2>10. Returns(n, q, id, 0, PropagateChilds(n, Request(id)))
    BY <2>5, <2>7, <2>9 DEF Returns
  <2>11. AddsState(n, id, NoState, 0)
    BY <2>1, <2>7 DEF AddsState, total
  <2>12. UNCHANGED loopVars
    BY <2>1 DEF Takes
  <2> QED
    BY <2>1, <2>2, <2>4, <2>5, <2>10, <2>11, <2>12 DEF Requested, m
<1>2. CASE handle_collectRequest(n, q)
  <2> DEFINE r == [agreement |-> TRUE, timestamp |-> tK[n]]
  <2>1. /\ Takes(n, q, "collectRequest") /\ echo[n][Collect] = None
        /\ resultReturn(n, q, r, 0, PropagateChilds(n, CollectRequest)) /\ UNCHANGED <<votes, rounds, failed>>
    BY <1>2 DEF handle_collectRequest
  <2>2. m \in Message /\ m.type = "collectRequest" /\ chan[q][n] # <<>>
    BY <2>1, TakesType
  <2>3. m = Request(Collect) /\ CollectRequest = Request(Collect)
    BY <2>2, ControlForm DEF Request
  <2> DEFINE total == IF AllAnswered(n, 0) THEN AddResult(r, TRUE, tK[n]) ELSE r
  <2>4. /\ accResult' = [accResult EXCEPT ![n] = total]
        /\ accResultDone' = (accResultDone \/ (n = Leader /\ AllAnswered(n, 0)))
        /\ echo' = [echo EXCEPT ![n][Collect] = 0]
        /\ chan' = Exchanged(chan, q, n, Then(PropagateChilds(n, CollectRequest),
             IF AllAnswered(n, 0) THEN ToParent(n, CollectResponse(total)) ELSE Nothing))
    BY <2>1 DEF resultReturn
  <2>5. AddsResult(n, r, 0)
    BY <2>1, <2>4 DEF AddsResult
  <2> HIDE DEF total
  <2>6. Answer(n, Collect)' = CollectResponse(total)
    BY <2>4 DEF Answer, TypeOK
  <2>7. Returns(n, q, Collect, 0, PropagateChilds(n, Request(Collect)))
    BY <2>3, <2>4, <2>6 DEF Returns
  <2>8. UNCHANGED loopVars
    BY <2>1 DEF Takes
  <2> QED
    BY <2>1, <2>2, <2>3, <2>5, <2>7, <2>8, AllRequests DEF Requested
<1> QED
  BY <1>1, <1>2

LEMMA AnswerStep ==
  ASSUME TypeOK, NEW n \in Node, NEW q \in Node, handle_stateResponse(n, q) \/ handle_collect(n, q)
  PROVE  \E id \in Requests : Replied(n, q, id)
<1> DEFINE m == Head(chan[q][n])
<1>1. CASE handle_stateResponse(n, q)
  <2> DEFINE s == AddState(accState[n][m.id], m.state)
             count == echo[n][m.id] + 1
  <2>1. /\ Takes(n, q, "stateResponse") /\ echo[n][m.id] # None
        /\ stateReturn(n, q, m.id, s, count, Nothing) /\ UNCHANGED <<votes, result, failed>>
    BY <1>1 DEF handle_stateResponse
  <2>2. m \in Message /\ m.type = "stateResponse" /\ chan[q][n] # <<>>
    BY <2>1, TakesType
  <2>3. m.id \in 1 .. MaxRounds /\ m.state \in State /\ m = StateResponse(m.id, m.state)
    BY <2>2, ControlForm
  <2>4. PICK id \in 1 .. MaxRounds : id = m.id
    BY <2>3
  <2>5. id \in Requests /\ id # Collect /\ m \in AnswerTo(id)
    <3>1. id \in Requests /\ id # Collect
      BY AllRequests
    <3> HIDE DEF m
    <3> QED
      BY <2>3, <2>4, <3>1 DEF AnswerTo, StateResponse
  <2>6. n \in Node /\ accState \in [Node -> [1 .. MaxRounds -> State]]
    BY DEF TypeOK
  <2> HIDE DEF s, count
  <2> DEFINE total == IF AllAnswered(n, count) THEN AddState(s, OwnState(n)) ELSE s
  <2>7. /\ accState' = [accState EXCEPT ![n][id] = total]
        /\ accStateDone' = IF n = Leader /\ AllAnswered(n, count) THEN accStateDone \cup {id} ELSE accStateDone
        /\ echo' = [echo EXCEPT ![n][id] = count]
        /\ chan' = Exchanged(chan, q, n, Then(Nothing,
             IF AllAnswered(n, count) THEN ToParent(n, StateResponse(id, total)) ELSE Nothing))
    BY <2>1, <2>4 DEF stateReturn
  <2>8. AddsState(n, id, s, count)
    BY <2>1, <2>7 DEF AddsState
  <2> HIDE DEF total
  <2>9. accState'[n][id] = total
    BY <2>6, <2>7
  <2>10. Answer(n, id)' = StateResponse(id, total)
    BY <2>5, <2>9 DEF Answer
  <2>11. Returns(n, q, id, count, Nothing)
    BY <2>7, <2>10 DEF Returns
  <2>12. UNCHANGED loopVars
    BY <2>1 DEF Takes
  <2>13. s = AddState(accState[n][id], m.state) /\ count = echo[n][id] + 1
    BY <2>4 DEF s, count
  <2> QED
    BY <2>1, <2>2, <2>4, <2>5, <2>8, <2>11, <2>12, <2>13 DEF Replied
<1>2. CASE handle_collect(n, q)
  <2> DEFINE r == AddResult(accResult[n], m.result.agreement, m.result.timestamp)
             count == echo[n][Collect] + 1
  <2>1. /\ Takes(n, q, "collect") /\ echo[n][Collect] # None
        /\ resultReturn(n, q, r, count, Nothing) /\ UNCHANGED <<votes, rounds, failed>>
    BY <1>2 DEF handle_collect
  <2>2. m \in Message /\ m.type = "collect" /\ chan[q][n] # <<>>
    BY <2>1, TakesType
  <2>3. m.result \in Result /\ m = CollectResponse(m.result)
    BY <2>2, ControlForm
  <2>4. m \in AnswerTo(Collect)
    BY <2>3 DEF AnswerTo, CollectResponse
  <2> HIDE DEF r, count
  <2> DEFINE total == IF AllAnswered(n, count) THEN AddResult(r, TRUE, tK[n]) ELSE r
  <2>5. /\ accResult' = [accResult EXCEPT ![n] = total]
        /\ accResultDone' = (accResultDone \/ (n = Leader /\ AllAnswered(n, count)))
        /\ echo' = [echo EXCEPT ![n][Collect] = count]
        /\ chan' = Exchanged(chan, q, n, Then(Nothing,
             IF AllAnswered(n, count) THEN ToParent(n, CollectResponse(total)) ELSE Nothing))
    BY <2>1 DEF resultReturn
  <2>6. AddsResult(n, r, count)
    BY <2>1, <2>5 DEF AddsResult
  <2> HIDE DEF total
  <2>7. Answer(n, Collect)' = CollectResponse(total)
    BY <2>5 DEF Answer, TypeOK
  <2>8. Returns(n, q, Collect, count, Nothing)
    BY <2>5, <2>7 DEF Returns
  <2>9. UNCHANGED loopVars
    BY <2>1 DEF Takes
  <2> QED
    BY <2>1, <2>2, <2>4, <2>6, <2>8, <2>9, AllRequests DEF Replied, r, count
<1> QED
  BY <1>1, <1>2

\* What such a handler sends.
LEMMA ReturnsOut ==
  ASSUME TypeOK, TypeOK', NEW n \in Node, NEW q \in Node, NEW id \in Requests, NEW count,
         NEW forward \in Outgoing(Control), Returns(n, q, id, count, forward)
  PROVE  \E report \in Outgoing(Control) :
           /\ report = IF AllAnswered(n, count) THEN ToParent(n, Answer(n, id)') ELSE Nothing
           /\ Then(forward, report) \in Outgoing(Control) /\ Then(forward, report) \in Outgoing(Message)
           /\ chan' = Exchanged(chan, q, n, Then(forward, report))
<1> DEFINE report == IF AllAnswered(n, count) THEN ToParent(n, Answer(n, id)') ELSE Nothing
<1>1. Answer(n, id)' \in Control
  BY AnswerFormNext, RequestForm
<1>2. report \in Outgoing(Control)
  BY <1>1, ToType, NothingType DEF ToParent
<1>3. chan' = Exchanged(chan, q, n, Then(forward, report))
  BY DEF Returns
<1> HIDE DEF report
<1>4. Then(forward, report) \in Outgoing(Control)
  BY <1>2, ThenType
<1>5. Then(forward, report) \in Outgoing(Message)
  BY <1>4, OutgoingWider DEF Message
<1> QED
  BY <1>2, <1>3, <1>4, <1>5 DEF report

-----------------------------------------------------------------------------
(***************************************************************************)
(* Votes are conserved: a handler counts what it takes, and what com.Send  *)
(* has accepted, and a message of the count is neither.                    *)
(***************************************************************************)
VoteKind == {"voteBegin", "proposal", "proposalResponse"}

\* A vote is told by its type.
LEMMA Votes ==
  ASSUME NEW m \in Message
  PROVE  (m \in Vote <=> m.type \in VoteKind) /\ (m \in Control <=> m \notin Vote)
<1>1. ASSUME m \in Vote PROVE m.type \in VoteKind
  BY <1>1 DEF Vote, VoteBegin, VoteKind
<1>2. ASSUME m \in Control PROVE m.type \notin VoteKind
  BY <1>2 DEF Control, CollectRequest, VoteKind
<1> QED
  BY <1>1, <1>2 DEF Message

LEMMA MakesVotes ==
  /\ VoteBegin \in Vote
  /\ \A t \in Times : Proposal(t) \in Vote /\ ProposalResponse(t) \in Vote
BY DEF Vote, Proposal, ProposalResponse

\* Each vote that is counted as sent is sent.
LEMMA ProposalsLoad ==
  ASSUME NEW n \in Node, failed \in Failures, NEW t \in Times, NEW p \in sendProposals(n, Proposal(t))
  PROVE  Load(p.out, Vote) = p.sent
<1> DEFINE msg == Proposal(t)
<1>1. IsFiniteSet(Node) /\ msg \in Vote /\ msg \in Message
  BY NodeAssumption, MakesVotes, Makes
<1> HIDE DEF msg
<1>2. CASE pNeighs[n] = 0
  <2>1. p.out = Nothing /\ p.sent = 0
    BY <1>2 DEF sendProposals, NoVotes
  <2> QED
    BY <1>1, <2>1, LoadTo
<1>3. CASE pNeighs[n] # 0
  <2>1. PICK x \in Neigh[n], lost \in Lost(n) : p = Proposed(n, msg, x, lost)
    BY <1>3 DEF sendProposals, msg
  <2>2. lost \in SUBSET Neigh[n] /\ Neigh[n] \subseteq Node
    BY NeighAssumption DEF Lost
  <2> DEFINE first == To(Neigh[n] \ lost, msg)
             second == To({x}, msg)
  <2>3. p.out = Then(first, second) /\ p.sent = Cardinality(Neigh[n] \ lost) + 1
    BY <2>1 DEF Proposed
  <2>4. first \in Outgoing(Message) /\ second \in Outgoing(Message)
    BY <1>1, ToType
  <2>5. Load(first, Vote) = Cardinality(Neigh[n] \ lost) /\ Load(second, Vote) = Cardinality({x})
    <3>1. Neigh[n] \ lost \in SUBSET Node /\ {x} \in SUBSET Node
      BY <2>2
    <3> QED
      BY <1>1, <3>1, LoadTo
  <2> HIDE DEF first, second
  <2>6. Load(p.out, Vote) = Load(first, Vote) + Load(second, Vote)
    BY <1>1, <2>3, <2>4, LoadThen
  <2>7. Cardinality({x}) = 1
    BY FS_Singleton
  <2> QED
    BY <2>3, <2>5, <2>6, <2>7
<1> QED
  BY <1>2, <1>3

LEMMA ResponseLoad ==
  ASSUME NEW n \in Node, NEW q \in Node, NEW t \in Times, NEW p \in sendResponse(n, q, ProposalResponse(t))
  PROVE  Load(p.out, Vote) = p.sent
<1> DEFINE msg == ProposalResponse(t)
<1>1. IsFiniteSet(Node) /\ msg \in Vote
  BY NodeAssumption, MakesVotes
<1> HIDE DEF msg
<1>2. CASE p = [out |-> To({q}, msg), sent |-> 1, failed |-> failed]
  <2>1. p.out = To({q}, msg) /\ p.sent = 1
    BY <1>2
  <2>2. Load(To({q}, msg), Vote) = Cardinality({q})
    BY <1>1, LoadTo
  <2> QED
    BY <2>1, <2>2, FS_Singleton
<1>3. CASE p = [NoVotes EXCEPT !.failed = "vote"]
  <2>1. p.out = Nothing /\ p.sent = 0
    BY <1>3 DEF NoVotes
  <2> QED
    BY <1>1, <2>1, LoadTo
<1> QED
  BY <1>2, <1>3 DEF sendResponse, msg

\* And sendProposals and sendResponse send nothing else; a vote that cannot be sent is
\* the first thing that is lost.
LEMMA ProposalsVotes ==
  ASSUME NEW n \in Node, failed \in Failures, NEW t \in Times, NEW p \in sendProposals(n, Proposal(t))
  PROVE  p.out \in Outgoing(Vote) /\ (p.failed = failed \/ (p.failed = "vote" /\ failed = "nothing"))
<1> DEFINE msg == Proposal(t)
<1>1. msg \in Vote /\ msg \in Message
  BY MakesVotes, Makes
<1> HIDE DEF msg
<1>2. p.out \in Outgoing(Vote)
  <2>1. p.out \in Outgoing(Message) /\ \A r \in Node : \A i \in DOMAIN p.out[r] : p.out[r][i] = msg
    BY <1>1, ProposalsType DEF msg
  <2> QED
    BY <1>1, <2>1, OutgoingOf
<1>3. CASE pNeighs[n] = 0
  BY <1>2, <1>3 DEF sendProposals, NoVotes
<1>4. CASE pNeighs[n] # 0
  <2>1. PICK x \in Neigh[n], lost \in Lost(n) : p = Proposed(n, msg, x, lost)
    BY <1>4 DEF sendProposals, msg
  <2>2. p.failed = IF lost = {} THEN failed ELSE "vote"
    BY <2>1 DEF Proposed
  <2>3. lost # {} => failed = "nothing"
    BY DEF Lost, CanFail
  <2> QED
    BY <1>2, <2>2, <2>3
<1> QED
  BY <1>3, <1>4

LEMMA ResponseVotes ==
  ASSUME NEW n \in Node, NEW q \in Node, failed \in Failures, NEW t \in Times,
         NEW p \in sendResponse(n, q, ProposalResponse(t))
  PROVE  p.out \in Outgoing(Vote) /\ (p.failed = failed \/ (p.failed = "vote" /\ failed = "nothing"))
<1> DEFINE msg == ProposalResponse(t)
<1>1. msg \in Vote /\ msg \in Message
  BY MakesVotes, Makes
<1> HIDE DEF msg
<1>2. p.out \in Outgoing(Vote)
  <2>1. p.out \in Outgoing(Message) /\ \A r \in Node : \A i \in DOMAIN p.out[r] : p.out[r][i] = msg
    BY <1>1, ResponseType DEF msg
  <2> QED
    BY <1>1, <2>1, OutgoingOf
<1>3. CASE p = [out |-> To({q}, msg), sent |-> 1, failed |-> failed]
  BY <1>2, <1>3
<1>4. CASE \E x \in {q} \cap {r \in Node : CanFail(n, r)} : p = [NoVotes EXCEPT !.failed = "vote"]
  BY <1>2, <1>4 DEF NoVotes, CanFail
<1> QED
  BY <1>3, <1>4 DEF sendResponse, msg

\* A handler of a vote: what it takes is counted, and what it sends.
LEMMA VoteStep ==
  ASSUME TypeOK, NEW n \in Node, NEW q \in Node,
         handle_voteBegin(n, q) \/ handle_proposal(n, q) \/ handle_proposalResponse(n, q)
  PROVE  /\ Head(chan[q][n]) \in Vote /\ chan[q][n] # <<>>
         /\ \E out \in Outgoing(Vote), sent \in Nat :
              /\ chan' = Exchanged(chan, q, n, out)
              /\ Received(n) /\ Sends(n, sent) /\ Load(out, Vote) = sent
         /\ UNCHANGED <<echo, rounds, result, loopVars>>
         /\ failed' = "control" <=> failed = "control"
<1> DEFINE m == Head(chan[q][n])
<1>1. /\ chan \in Channels(Message) /\ failed \in Failures /\ tK[n] \in Times
      /\ IsFiniteSet(Node)
  BY NodeAssumption DEF TypeOK, Channels, Outgoing, Failures
<1>2. \E kind \in VoteKind : Takes(n, q, kind)
  BY DEF handle_voteBegin, handle_proposal, AcceptProposal, DropProposal, handle_proposalResponse, VoteKind
<1>3. m \in Message /\ m \in Vote /\ chan[q][n] # <<>> /\ UNCHANGED loopVars
  BY <1>2, TakesType, Votes DEF Takes
<1>4. CASE handle_voteBegin(n, q)
  <2>1. PICK p \in sendProposals(n, Proposal(tK[n])) :
          chan' = Exchanged(chan, q, n, p.out) /\ Sends(n, p.sent) /\ failed' = p.failed
    BY <1>4 DEF handle_voteBegin
  <2>2. p.sent \in Nat /\ Load(p.out, Vote) = p.sent
    BY <1>1, Makes, ProposalsType, ProposalsLoad
  <2>3. p.out \in Outgoing(Vote) /\ (p.failed = failed \/ (p.failed = "vote" /\ failed = "nothing"))
    BY <1>1, ProposalsVotes
  <2> QED
    BY <1>3, <1>4, <2>1, <2>2, <2>3 DEF handle_voteBegin
<1>5. CASE AcceptProposal(n, q)
  <2> DEFINE t == MidTime(m.time, tK[n])
  <2>1. Takes(n, q, "proposal") /\ Received(n) /\ UNCHANGED <<echo, rounds, result>>
    BY <1>5 DEF AcceptProposal
  <2>2. t \in Times
    BY <1>1, <2>1, TakesType, MessageFields, MidTimeType
  <2>3. PICK r \in sendResponse(n, q, ProposalResponse(t)), p \in sendProposals(n, Proposal(t)) :
          /\ chan' = Exchanged(chan, q, n, Then(r.out, p.out)) /\ Sends(n, r.sent + p.sent)
          /\ failed' = IF r.failed = failed THEN p.failed ELSE r.failed
    BY <1>5 DEF AcceptProposal
  <2> HIDE DEF t
  <2>4. /\ p.sent \in Nat /\ Load(p.out, Vote) = p.sent /\ p.out \in Outgoing(Vote)
        /\ p.failed = failed \/ (p.failed = "vote" /\ failed = "nothing")
    BY <1>1, <2>2, Makes, ProposalsType, ProposalsLoad, ProposalsVotes
  <2>5. /\ r.sent \in Nat /\ Load(r.out, Vote) = r.sent /\ r.out \in Outgoing(Vote)
        /\ r.failed = failed \/ (r.failed = "vote" /\ failed = "nothing")
    BY <1>1, <2>2, Makes, ResponseType, ResponseLoad, ResponseVotes
  <2>6. Then(r.out, p.out) \in Outgoing(Vote) /\ Load(Then(r.out, p.out), Vote) = r.sent + p.sent
    BY <1>1, <2>4, <2>5, ThenType, LoadThen
  <2>7. r.sent + p.sent \in Nat
    BY <2>4, <2>5
  <2>8. failed' = "control" <=> failed = "control"
    BY <2>3, <2>4, <2>5
  <2> QED
    BY <1>3, <2>1, <2>3, <2>6, <2>7, <2>8
<1>6. CASE DropProposal(n, q) \/ handle_proposalResponse(n, q)
  <2>1. /\ chan' = Taken(chan, q, n) /\ Received(n)
        /\ UNCHANGED <<msgOutCounter, echo, rounds, result, failed>>
    BY <1>6 DEF DropProposal, handle_proposalResponse
  <2>2. Nothing \in Outgoing(Vote) /\ Load(Nothing, Vote) = 0
    BY <1>1, NothingType, LoadTo
  <2>3. chan' = Exchanged(chan, q, n, Nothing)
    BY <1>1, <1>3, <2>1, TakenAt, SentNothing DEF Exchanged
  <2>4. Sends(n, 0)
    <3>1. msgOutCounter \in [Node -> Nat]
      BY DEF TypeOK
    <3>2. msgOutCounter[n] + 0 = msgOutCounter[n]
      BY <3>1
    <3> QED
      BY <2>1, <3>1, <3>2 DEF Sends
  <2> QED
    BY <1>3, <2>1, <2>2, <2>3, <2>4
<1> QED
  BY <1>4, <1>5, <1>6 DEF handle_proposal

\* A handler of the count takes no vote and sends none: every sequence it sends holds
\* requests and answers.
LEMMA ControlStep ==
  ASSUME TypeOK, TypeOK', NEW n \in Node, NEW q \in Node,
         handle_stateRequest(n, q) \/ handle_stateResponse(n, q) \/ handle_collectRequest(n, q)
           \/ handle_collect(n, q)
  PROVE  /\ Head(chan[q][n]) \in Control /\ chan[q][n] # <<>>
         /\ \E out \in Outgoing(Control) : chan' = Exchanged(chan, q, n, out)
         /\ UNCHANGED votes
<1>1. CASE handle_stateRequest(n, q) \/ handle_collectRequest(n, q)
  <2>1. PICK id \in Requests : Requested(n, q, id)
    BY <1>1, RequestStep
  <2>2. /\ chan[q][n] # <<>> /\ Head(chan[q][n]) = Request(id) /\ UNCHANGED votes
        /\ Returns(n, q, id, 0, PropagateChilds(n, Request(id)))
    BY <2>1 DEF Requested
  <2>3. Request(id) \in Control
    BY RequestForm
  <2>4. PropagateChilds(n, Request(id)) \in Outgoing(Control)
    BY <2>3, ToType DEF PropagateChilds
  <2> QED
    BY <2>2, <2>3, <2>4, ReturnsOut
<1>2. CASE handle_stateResponse(n, q) \/ handle_collect(n, q)
  <2>1. PICK id \in Requests : Replied(n, q, id)
    BY <1>2, AnswerStep
  <2>2. /\ chan[q][n] # <<>> /\ Head(chan[q][n]) \in AnswerTo(id) /\ UNCHANGED votes
        /\ Returns(n, q, id, echo[n][id] + 1, Nothing)
    BY <2>1 DEF Replied
  <2>3. Nothing \in Outgoing(Control)
    BY NothingType
  <2> QED
    BY <2>2, <2>3, ReturnsOut, RequestForm
<1> QED
  BY <1>1, <1>2

\* A step that takes b votes, sends a, and counts both.
LEMMA Conserved ==
  ASSUME TypeOK, TypeOK', VotesConserved, NEW n \in Node, NEW a \in Nat, NEW b \in Nat,
         msgOutCounter' = [msgOutCounter EXCEPT ![n] = @ + a],
         msgInCounter' = [msgInCounter EXCEPT ![n] = @ + b],
         Traffic(chan', Vote) + b = Traffic(chan, Vote) + a
  PROVE  VotesConserved'
<1>1. /\ IsFiniteSet(Node) /\ msgOutCounter \in [Node -> Nat] /\ msgOutCounter' \in [Node -> Nat]
      /\ msgInCounter \in [Node -> Nat] /\ msgInCounter' \in [Node -> Nat]
      /\ chan \in Channels(Message) /\ chan' \in Channels(Message)
  BY NodeAssumption DEF TypeOK, Channels, Outgoing
<1>2. Traffic(chan, Vote) \in Nat /\ Traffic(chan', Vote) \in Nat
  BY <1>1, TrafficType
<1>3. Total(msgOutCounter') + msgOutCounter[n] = Total(msgOutCounter) + msgOutCounter'[n]
  <2>1. PICK f, g \in [Node -> Nat] : f = msgOutCounter /\ g = msgOutCounter'
    BY <1>1
  <2>2. \A x \in Node : x # n => g[x] = f[x]
    BY <2>1
  <2>3. Total(g) + f[n] = Total(f) + g[n]
    BY <1>1, <2>2, TotalChange
  <2> QED
    BY <2>1, <2>3
<1>4. Total(msgInCounter') + msgInCounter[n] = Total(msgInCounter) + msgInCounter'[n]
  <2>1. PICK f, g \in [Node -> Nat] : f = msgInCounter /\ g = msgInCounter'
    BY <1>1
  <2>2. \A x \in Node : x # n => g[x] = f[x]
    BY <2>1
  <2>3. Total(g) + f[n] = Total(f) + g[n]
    BY <1>1, <2>2, TotalChange
  <2> QED
    BY <2>1, <2>3
<1>5. msgOutCounter'[n] = msgOutCounter[n] + a /\ msgInCounter'[n] = msgInCounter[n] + b
  BY <1>1
<1>6. /\ Total(msgOutCounter) \in Nat /\ Total(msgOutCounter') \in Nat
      /\ Total(msgInCounter) \in Nat /\ Total(msgInCounter') \in Nat
      /\ msgOutCounter[n] \in Nat /\ msgInCounter[n] \in Nat
  BY <1>1, TotalType
<1>7. Total(msgOutCounter) = Total(msgInCounter) + Traffic(chan, Vote)
  BY DEF VotesConserved, UnderWay, Traffic
<1>8. Total(msgOutCounter') = Total(msgInCounter') + Traffic(chan', Vote)
  BY <1>2, <1>3, <1>4, <1>5, <1>6, <1>7
<1> QED
  BY <1>8 DEF VotesConserved, UnderWay, Traffic

\* Votes are conserved, step by step.
LEMMA ConservedNext == TypeOK /\ TypeOK' /\ VotesConserved /\ [Next]_vars => VotesConserved'
<1> SUFFICES ASSUME TypeOK, TypeOK', VotesConserved, [Next]_vars PROVE VotesConserved'
  OBVIOUS
<1>1. /\ IsFiniteSet(Node) /\ Leader \in Node /\ chan \in Channels(Message) /\ chan' \in Channels(Message)
      /\ msgOutCounter \in [Node -> Nat] /\ msgInCounter \in [Node -> Nat]
  BY NodeAssumption DEF TypeOK, Channels, Outgoing
<1>2. Traffic(chan, Vote) \in Nat /\ Traffic(chan', Vote) \in Nat
  BY <1>1, TrafficType
<1>3. ASSUME UNCHANGED <<msgInCounter, msgOutCounter>>, Traffic(chan', Vote) = Traffic(chan, Vote)
      PROVE  VotesConserved'
  <2>1. Total(msgOutCounter) = Total(msgInCounter) + Traffic(chan, Vote)
    BY DEF VotesConserved, UnderWay, Traffic
  <2>2. Total(msgOutCounter') = Total(msgInCounter') + Traffic(chan', Vote)
    BY <1>3, <2>1
  <2> QED
    BY <2>2 DEF VotesConserved, UnderWay, Traffic
<1>4. ASSUME NEW n \in Node, NEW q \in Node,
             handle_voteBegin(n, q) \/ handle_proposal(n, q) \/ handle_proposalResponse(n, q)
      PROVE  VotesConserved'
  <2>1. /\ Head(chan[q][n]) \in Vote /\ chan[q][n] # <<>>
        /\ \E out \in Outgoing(Vote), sent \in Nat :
             /\ chan' = Exchanged(chan, q, n, out)
             /\ Received(n) /\ Sends(n, sent) /\ Load(out, Vote) = sent
    BY <1>4, VoteStep
  <2>2. PICK out \in Outgoing(Vote), sent \in Nat :
          chan' = Exchanged(chan, q, n, out) /\ Received(n) /\ Sends(n, sent) /\ Load(out, Vote) = sent
    BY <2>1
  <2>3. out \in Outgoing(Message)
    BY <2>2, OutgoingWider DEF Message
  <2>4. Traffic(chan', Vote) + 1 = Traffic(chan, Vote) + sent
    BY <1>1, <2>1, <2>2, <2>3, TrafficExchanged
  <2> QED
    BY <2>2, <2>4, Conserved DEF Received, Sends
<1>5. ASSUME NEW n \in Node, NEW q \in Node,
             handle_stateRequest(n, q) \/ handle_stateResponse(n, q) \/ handle_collectRequest(n, q)
               \/ handle_collect(n, q)
      PROVE  VotesConserved'
  <2>1. /\ Head(chan[q][n]) \in Control /\ chan[q][n] # <<>>
        /\ \E out \in Outgoing(Control) : chan' = Exchanged(chan, q, n, out)
        /\ UNCHANGED votes
    BY <1>5, ControlStep
  <2>2. PICK out \in Outgoing(Control) : chan' = Exchanged(chan, q, n, out)
    BY <2>1
  <2>3. out \in Outgoing(Message)
    BY <2>2, OutgoingWider DEF Message
  <2>4. Load(out, Vote) = 0
    <3>1. \A r \in Node : \A i \in DOMAIN out[r] : out[r][i] \notin Vote
      <4> SUFFICES ASSUME NEW r \in Node, NEW i \in DOMAIN out[r] PROVE out[r][i] \notin Vote
        OBVIOUS
      <4>1. out[r][i] \in Control /\ out[r][i] \in Message
        <5>1. out[r] \in Seq(Control)
          BY <2>2 DEF Outgoing
        <5> QED
          BY <5>1, Elements DEF Message
      <4> QED
        BY <4>1, Votes
    <3> QED
      BY <1>1, <2>3, <3>1, LoadNone
  <2>5. Head(chan[q][n]) \notin Vote
    BY <1>1, <2>1, HeadType, Votes
  <2>6. Traffic(chan', Vote) + 0 = Traffic(chan, Vote) + 0
    BY <1>1, <2>1, <2>2, <2>3, <2>4, <2>5, TrafficExchanged
  <2> QED
    BY <1>2, <1>3, <2>1, <2>6 DEF votes
<1>6. ASSUME NEW r \in Node, LoopSend(r) PROVE VotesConserved'
  <2> DEFINE m == Head(outbox[r])
  <2>1. m \in Message
    BY <1>6, Uncons DEF LoopSend, TypeOK
  <2>2. PICK sent \in {0, 1} : sent = IF m \in Vote THEN 1 ELSE 0
    OBVIOUS
  <2>3. chan' = Sent(chan, Leader, To({r}, m)) /\ Sends(Leader, sent) /\ UNCHANGED msgInCounter
    BY <1>6, <2>2 DEF LoopSend
  <2> HIDE DEF m
  <2>4. To({r}, m) \in Outgoing(Message) /\ Load(To({r}, m), Vote) = sent
    <3>1. Load(To({r}, m), Vote) = IF m \in Vote THEN Cardinality({r}) ELSE 0
      <4>1. {r} \in SUBSET Node
        OBVIOUS
      <4> QED
        BY <1>1, <4>1, LoadTo
    <3> QED
      BY <2>1, <2>2, <3>1, ToType, FS_Singleton
  <2>5. Traffic(chan', Vote) + 0 = Traffic(chan, Vote) + sent
    BY <1>1, <1>2, <2>3, <2>4, TrafficSent
  <2>6. msgInCounter' = [msgInCounter EXCEPT ![Leader] = @ + 0]
    <3>1. msgInCounter[Leader] + 0 = msgInCounter[Leader]
      BY <1>1
    <3> QED
      BY <1>1, <2>3, <3>1
  <2> QED
    BY <1>1, <2>3, <2>5, <2>6, Conserved DEF Sends
<1>7. ASSUME BeginVote \/ NextRound \/ StartCollect \/ CheckResult \/ \E r \in Node : LoopSendFails(r)
      PROVE  VotesConserved'
  <2>1. UNCHANGED <<chan, votes>>
    BY <1>7 DEF BeginVote, NextRound, StartCollect, CheckResult, LoopSendFails
  <2> QED
    BY <1>3, <2>1 DEF votes
<1>8. ASSUME NEW p \in Node, NEW q \in Node, SendFails(p, q) PROVE VotesConserved'
  <2>1. /\ chan[p][q] # <<>> /\ Head(chan[p][q]) \in Control /\ chan' = Taken(chan, p, q)
        /\ UNCHANGED votes
    BY <1>8 DEF SendFails
  <2>2. Head(chan[p][q]) \notin Vote
    BY <1>1, <2>1, HeadType, Votes
  <2>3. Traffic(chan, Vote) = Traffic(chan', Vote) + 0
    BY <1>1, <2>1, <2>2, TrafficTaken
  <2> QED
    BY <1>2, <1>3, <2>1, <2>3 DEF votes
<1>9. CASE UNCHANGED vars
  BY <1>3, <1>9 DEF vars, votes
<1> QED
  BY <1>4, <1>5, <1>6, <1>7, <1>8, <1>9 DEF Next, Handle, leaderLoop

\* Nothing is counted at the start.
LEMMA ConservedInit == Init => VotesConserved
<1> SUFFICES ASSUME Init PROVE VotesConserved
  OBVIOUS
<1>1. IsFiniteSet(Node) /\ TypeOK /\ chan = EmptyNet
  BY NodeAssumption, TypesInit DEF Init
<1>2. Total(msgInCounter) = 0 /\ Total(msgOutCounter) = 0
  <2>1. /\ msgInCounter \in [Node -> Nat] /\ msgOutCounter \in [Node -> Nat]
        /\ \A n \in Node : msgInCounter[n] = 0 /\ msgOutCounter[n] = 0
    BY <1>1 DEF TypeOK, Init
  <2> QED
    BY <1>1, <2>1, TotalZero
<1>3. Traffic(chan, Vote) = 0
  <2> DEFINE f == [e \in Node \X Node |-> InFlight(chan, e[1], e[2], Vote)]
  <2>1. IsFiniteSet(Node \X Node) /\ f \in [Node \X Node -> Nat]
    <3>1. chan \in Channels(Message)
      BY <1>1 DEF TypeOK, Channels, Outgoing
    <3> QED
      BY <1>1, <3>1, TrafficType
  <2>2. \A e \in Node \X Node : f[e] = 0
    <3> SUFFICES ASSUME NEW p \in Node, NEW r \in Node PROVE InFlight(chan, p, r, Vote) = 0
      OBVIOUS
    <3>1. chan[p][r] = <<>>
      BY <1>1 DEF EmptyNet
    <3> QED
      BY <3>1, CopiesFew DEF InFlight
  <2> HIDE DEF f
  <2>3. Total(f) = 0
    BY <2>1, <2>2, TotalZero
  <2> QED
    BY <2>3 DEF f, Traffic
<1> QED
  BY <1>2, <1>3 DEF VotesConserved, UnderWay, Traffic

\* What is counted as sent and not as received is under way (VotesConserved): on every
\* graph, whatever is sent, dropped at a limit or lost, no vote escapes the count.
THEOREM VotesCounted == Spec => []VotesConserved
<1>1. TypeOK /\ VotesConserved /\ [Next]_vars => TypeOK' /\ VotesConserved'
  BY TypesNext, ConservedNext
<1> QED
  BY <1>1, TypesInit, ConservedInit, PTL DEF Spec

-----------------------------------------------------------------------------
(***************************************************************************)
(* The count on the tree.                                                  *)
(***************************************************************************)
Others == Node \ {Leader}

\* n has counted an answer of each of its children.
Complete(n, id) == echo[n][id] = Cardinality(Childs(n))

\* Where a message of the count may be, and what an answer says: what its sender has
\* added up.
Fits(p, r, m) ==
  \/ m \in Vote
  \/ r \in Childs(p) /\ \E id \in Requests : m = Request(id)
  \/ p \in Childs(r) /\ \E id \in Requests : m = Answer(p, id)
Fitting ==
  /\ \A p, r \in Node : \A i \in DOMAIN chan[p][r] : Fits(p, r, chan[p][r][i])
  /\ \A r \in Node : \A i \in DOMAIN outbox[r] :
       outbox[r][i] \in Vote \/ (r \in Childs(Leader) /\ \E id \in Requests : outbox[r][i] = Request(id))

\* The requests on their way to a node, and its answers on their way to the parent.
Asks ==
  [c \in Others |-> [id \in Requests |->
     (IF Parent[c] = Leader THEN Copies(outbox[c], RequestOf(id)) ELSE 0)
     + UnderWay(Parent[c], c, RequestOf(id))]]
Answers == [c \in Others |-> [id \in Requests |-> UnderWay(c, Parent[c], AnswerTo(id))]]

\* A node is asked once, after its parent, and answers once, when it is complete.
Asked ==
  \A c \in Others, id \in Requests :
    /\ echo[Parent[c]][id] = None => echo[c][id] = None /\ Asks[c][id] = 0
    /\ Asks[c][id] <= 1 /\ (echo[c][id] # None => Asks[c][id] = 0)
    /\ Answers[c][id] <= 1 /\ (Answers[c][id] = 1 => Complete(c, id))

\* The children of n that have answered, and whose answer is not under way any more.
Reporting(n, id) == {c \in Childs(n) : Complete(c, id) /\ Answers[c][id] = 0}

\* Nothing of what n waits for is lost.
Whole(n, id) ==
  /\ echo[n][id] = Cardinality(Reporting(n, id))
  /\ \A c \in Childs(n) : echo[c][id] = None => Asks[c][id] = 1
Counting ==
  \A n \in Node, id \in Requests : echo[n][id] # None =>
    /\ echo[n][id] <= Cardinality(Reporting(n, id))
    /\ failed # "control" => Whole(n, id)

\* What the leader has asked for, and has been told.
Begun(id) == IF id = Collect THEN HasConverged ELSE id <= round
Leading ==
  /\ \A id \in Requests : echo[Leader][id] # None <=> Begun(id)
  /\ accStateDone = {id \in 1 .. round : Complete(Leader, id)}
  /\ accResultDone <=> Complete(Leader, Collect)
  /\ \A id \in 1 .. round : id < round => id \in accStateDone
  /\ HasConverged => Converged
  /\ loop = "elected" => round = 0

\* Something of the count is lost: the leader waits for ever.
Broken ==
  failed = "control" /\ ~HasConverged =>
    round > 0 /\ \E n \in Node : echo[n][round] # None /\ ~Whole(n, round)

\* The tree.
LEMMA Family ==
  /\ IsFiniteSet(Node) /\ Leader \in Node /\ Others \subseteq Node /\ Leader \notin Others
  /\ \A n \in Node : /\ Childs(n) \subseteq Others /\ IsFiniteSet(Childs(n))
                     /\ Cardinality(Childs(n)) \in Nat
                     /\ \A c : c \in Childs(n) <=> c \in Others /\ Parent[c] = n
  /\ \A c \in Others : c \in Node /\ c # Leader /\ Parent[c] \in Node /\ Parent[c] # c /\ c \in Childs(Parent[c])
  /\ Cardinality(Childs(Leader)) > 0
<1>1. IsFiniteSet(Node) /\ Leader \in Node /\ Others \subseteq Node /\ Leader \notin Others
  BY NodeAssumption DEF Others
<1>2. \A c \in Others : c \in Node /\ c # Leader /\ Parent[c] \in Node /\ Parent[c] # c /\ c \in Childs(Parent[c])
  BY ParentAssumption, NeighAssumption DEF Others, Childs
<1>3. ASSUME NEW n \in Node
      PROVE  /\ Childs(n) \subseteq Others /\ IsFiniteSet(Childs(n)) /\ Cardinality(Childs(n)) \in Nat
             /\ \A c : c \in Childs(n) <=> c \in Others /\ Parent[c] = n
  <2>1. Childs(n) \subseteq Others /\ \A c : c \in Childs(n) <=> c \in Others /\ Parent[c] = n
    BY DEF Childs, Others
  <2>2. IsFiniteSet(Childs(n))
    <3>1. Childs(n) \subseteq Node
      BY <1>1, <2>1
    <3> QED
      BY <1>1, <3>1, FS_Subset
  <2> QED
    BY <2>1, <2>2, FS_CardinalityType
<1>4. Childs(Leader) # {}
  <2> SUFFICES ASSUME Childs(Leader) = {} PROVE FALSE
    OBVIOUS
  <2>1. Others # {}
    <3>1. Neigh[Leader] \subseteq Node /\ Neigh[Leader] # {} /\ Leader \notin Neigh[Leader]
      BY <1>1, NeighAssumption
    <3> QED
      BY <3>1 DEF Others
  <2>2. \A c \in Others \ {Leader} : Parent[c] \in Others
    <3> SUFFICES ASSUME NEW c \in Others, Parent[c] = Leader PROVE FALSE
      BY <1>2 DEF Others
    <3> QED
      BY <1>2
  <2>3. Leader \in Others
    BY <1>1, <2>1, <2>2, SpanningAssumption
  <2> QED
    BY <1>1, <2>3
<1> QED
  BY <1>1, <1>2, <1>3, <1>4, FS_EmptySet

\* What is true of a node's parent whenever it is true of the node, is true of the leader
\* if it is true of any node.
LEMMA Spread ==
  ASSUME NEW S \in SUBSET Node, \A c \in Others : c \in S => Parent[c] \in S, NEW n \in S
  PROVE  Leader \in S
<1>1. \A c \in S \ {Leader} : Parent[c] \in S
  BY DEF Others
<1> QED
  BY <1>1, SpanningAssumption

LEMMA ObservedType ==
  ASSUME TypeOK
  PROVE  /\ Asks \in [Others -> [Requests -> Nat]] /\ Answers \in [Others -> [Requests -> Nat]]
         /\ echo \in [Node -> [Requests -> Nat \cup {None}]]
<1>1. \A p, r \in Node : \A S : UnderWay(p, r, S) \in Nat /\ Copies(outbox[r], S) \in Nat
  BY CopiesType DEF UnderWay, InFlight, TypeOK
<1>2. ASSUME NEW c \in Others, NEW id \in Requests
      PROVE  /\ (IF Parent[c] = Leader THEN Copies(outbox[c], RequestOf(id)) ELSE 0)
                + UnderWay(Parent[c], c, RequestOf(id)) \in Nat
             /\ UnderWay(c, Parent[c], AnswerTo(id)) \in Nat
  BY <1>1, Family
<1>3. Asks \in [Others -> [Requests -> Nat]]
  BY <1>2 DEF Asks
<1>4. Answers \in [Others -> [Requests -> Nat]]
  BY <1>2 DEF Answers
<1> QED
  BY <1>3, <1>4 DEF TypeOK

\* A message under way is counted.
LEMMA Found ==
  ASSUME TypeOK, NEW p \in Node, NEW r \in Node, NEW i \in DOMAIN chan[p][r], NEW id \in Requests
  PROVE  /\ r \in Childs(p) /\ chan[p][r][i] = Request(id) => r \in Others /\ Asks[r][id] > 0
         /\ p \in Childs(r) /\ chan[p][r][i] \in AnswerTo(id) => p \in Others /\ Answers[p][id] > 0
<1>1. chan[p][r] \in Seq(Message)
  BY DEF TypeOK
<1>2. \A S : chan[p][r][i] \in S => UnderWay(p, r, S) > 0
  <2> SUFFICES ASSUME NEW S, chan[p][r][i] \in S PROVE Copies(chan[p][r], S) > 0
    BY DEF UnderWay, InFlight
  <2>1. Copies(chan[p][r], S) \in Nat /\ Copies(chan[p][r], S) # 0
    BY <1>1, CopiesType
  <2> QED
    BY <2>1
<1>3. ASSUME r \in Childs(p), chan[p][r][i] = Request(id) PROVE r \in Others /\ Asks[r][id] > 0
  <2>1. r \in Others /\ Parent[r] = p
    BY <1>3, Family
  <2>2. UnderWay(p, r, RequestOf(id)) > 0 /\ UnderWay(p, r, RequestOf(id)) \in Nat
    <3>1. UnderWay(p, r, RequestOf(id)) > 0
      BY <1>2, <1>3, RequestForm
    <3> QED
      BY <1>1, <3>1, CopiesType DEF UnderWay, InFlight
  <2>3. Copies(outbox[r], RequestOf(id)) \in Nat
    BY CopiesType DEF TypeOK
  <2> QED
    BY <2>1, <2>2, <2>3 DEF Asks
<1>4. ASSUME p \in Childs(r), chan[p][r][i] \in AnswerTo(id) PROVE p \in Others /\ Answers[p][id] > 0
  <2>1. p \in Others /\ Parent[p] = r
    BY <1>4, Family
  <2> QED
    BY <1>2, <1>4, <2>1 DEF Answers
<1> QED
  BY <1>3, <1>4

\* What a message is by its kind and place.
LEMMA FitsAs ==
  ASSUME TypeOK, NEW p \in Node, NEW r \in Node, NEW m, Fits(p, r, m), NEW id \in Requests
  PROVE  /\ m = Request(id) => r \in Childs(p)
         /\ m \in AnswerTo(id) => p \in Childs(r) /\ m = Answer(p, id)
<1>1. ASSUME m \in Vote PROVE m \notin Control
  BY <1>1, Votes DEF Message
<1>2. Request(id) \in Control /\ AnswerTo(id) \subseteq Control
  BY RequestForm
<1>3. \A k \in Requests : Answer(p, k) \in AnswerTo(k)
  BY AnswerForm
<1>4. ASSUME m = Request(id) PROVE r \in Childs(p)
  BY <1>1, <1>2, <1>3, <1>4, RequestForm DEF Fits
<1>5. ASSUME m \in AnswerTo(id) PROVE p \in Childs(r) /\ m = Answer(p, id)
  <2>1. PICK k \in Requests : p \in Childs(r) /\ m = Answer(p, k)
    BY <1>1, <1>2, <1>5, RequestForm DEF Fits
  <2>2. k = id
    BY <1>3, <1>5, <2>1, RequestForm
  <2> QED
    BY <2>1, <2>2
<1> QED
  BY <1>4, <1>5

\* What such a handler moves.
LEMMA ReturnsMoves ==
  ASSUME TypeOK, TypeOK', NEW n \in Node, NEW q \in Node, chan[q][n] # <<>>, NEW id \in Requests,
         NEW count, NEW F \in SUBSET Node, Returns(n, q, id, count, To(F, Request(id))),
         NEW p \in Node, NEW r \in Node, NEW i \in Requests
  PROVE  /\ InFlight(chan', p, r, RequestOf(i))
              + (IF p = q /\ r = n /\ Head(chan[q][n]) \in RequestOf(i) THEN 1 ELSE 0)
              = InFlight(chan, p, r, RequestOf(i)) + (IF p = n /\ r \in F /\ i = id THEN 1 ELSE 0)
         /\ InFlight(chan', p, r, AnswerTo(i))
              + (IF p = q /\ r = n /\ Head(chan[q][n]) \in AnswerTo(i) THEN 1 ELSE 0)
              = InFlight(chan, p, r, AnswerTo(i))
                + (IF p = n /\ i = id /\ AllAnswered(n, count) /\ n # Leader /\ r = Parent[n] THEN 1 ELSE 0)
<1> DEFINE forward == To(F, Request(id))
<1>1. chan \in Channels(Message)
  BY DEF TypeOK, Channels, Outgoing
<1>2. Request(id) \in Control /\ \A k \in Requests : Request(id) \in RequestOf(k) <=> k = id
  BY RequestForm
<1>3. forward \in Outgoing(Control)
  BY <1>2, ToType
<1>4. PICK report \in Outgoing(Control) :
        /\ report = IF AllAnswered(n, count) THEN ToParent(n, Answer(n, id)') ELSE Nothing
        /\ Then(forward, report) \in Outgoing(Message)
        /\ chan' = Exchanged(chan, q, n, Then(forward, report))
  BY <1>3, ReturnsOut
<1>5. \A k \in Requests : (Answer(n, id)' \in AnswerTo(k) <=> k = id) /\ Answer(n, id)' \notin RequestOf(k)
  BY AnswerFormNext, RequestForm
<1>6. \A k \in Requests : Request(id) \notin AnswerTo(k)
  BY RequestForm
<1>7. Copies(forward[r], RequestOf(i)) = (IF r \in F /\ i = id THEN 1 ELSE 0) /\ Copies(forward[r], AnswerTo(i)) = 0
  BY <1>2, <1>6, CopiesOut
<1>8. /\ Copies(report[r], RequestOf(i)) = 0
      /\ Copies(report[r], AnswerTo(i)) =
           IF i = id /\ AllAnswered(n, count) /\ n # Leader /\ r = Parent[n] THEN 1 ELSE 0
  <2>1. PICK a : a = Answer(n, id)'
    OBVIOUS
  <2>2. report = IF AllAnswered(n, count) /\ n # Leader THEN To({Parent[n]}, a) ELSE Nothing
    BY <1>4, <2>1 DEF ToParent
  <2>3. a \notin RequestOf(i) /\ (a \in AnswerTo(i) <=> i = id)
    BY <1>5, <2>1
  <2>4. /\ \A S : Copies(To({Parent[n]}, a)[r], S) = IF r \in {Parent[n]} /\ a \in S THEN 1 ELSE 0
        /\ \A S : Copies(Nothing[r], S) = 0
    BY CopiesOut
  <2>5. CASE AllAnswered(n, count) /\ n # Leader
    BY <2>2, <2>3, <2>4, <2>5
  <2>6. CASE ~(AllAnswered(n, count) /\ n # Leader)
    BY <2>2, <2>4, <2>6
  <2> QED
    BY <2>5, <2>6
<1> HIDE DEF forward
<1>9. /\ Copies(Then(forward, report)[r], RequestOf(i)) = IF r \in F /\ i = id THEN 1 ELSE 0
      /\ Copies(Then(forward, report)[r], AnswerTo(i)) =
           IF i = id /\ AllAnswered(n, count) /\ n # Leader /\ r = Parent[n] THEN 1 ELSE 0
  <2>1. \A S : /\ Copies(Then(forward, report)[r], S) = Copies(forward[r], S) + Copies(report[r], S)
               /\ Copies(forward[r], S) \in Nat /\ Copies(report[r], S) \in Nat
    <3>1. report \in Outgoing(Control)
      BY <1>4
    <3> QED
      BY <1>3, <3>1, CopiesThen
  <2>2. Copies(Then(forward, report)[r], RequestOf(i)) = IF r \in F /\ i = id THEN 1 ELSE 0
    BY <1>7, <1>8, <2>1
  <2>3. Copies(Then(forward, report)[r], AnswerTo(i)) = 0 + Copies(report[r], AnswerTo(i))
    BY <1>7, <2>1
  <2> QED
    BY <1>8, <2>1, <2>2, <2>3
<1>10. \A S : InFlight(chan', p, r, S) + (IF p = q /\ r = n /\ Head(chan[q][n]) \in S THEN 1 ELSE 0)
                = InFlight(chan, p, r, S) + (IF p = n THEN Copies(Then(forward, report)[r], S) ELSE 0)
  BY <1>1, <1>4, FlightExchanged
<1> QED
  BY <1>9, <1>10

(***************************************************************************)
(* What a step does to the requests and answers.                           *)
(***************************************************************************)
\* n takes the request for id and passes it on, and answers at once if it is a leaf.
Passes(n, id) ==
  /\ n \in Others /\ echo[n][id] = None /\ Asks[n][id] > 0
  /\ \A k \in Node, i \in Requests : echo'[k][i] = IF k = n /\ i = id THEN 0 ELSE echo[k][i]
  /\ \A c \in Others, i \in Requests :
       /\ Asks'[c][i] = IF c = n /\ i = id THEN Asks[c][i] - 1
                        ELSE IF Parent[c] = n /\ i = id THEN Asks[c][i] + 1 ELSE Asks[c][i]
       /\ Answers'[c][i] = IF c = n /\ i = id /\ AllAnswered(n, 0) THEN Answers[c][i] + 1 ELSE Answers[c][i]
  /\ failed' = failed

\* n counts the answer of its child q, and answers its own parent if it is the last.
Hears(n, q, id) ==
  /\ q \in Others /\ Parent[q] = n /\ echo[n][id] # None /\ Answers[q][id] > 0
  /\ \A k \in Node, i \in Requests : echo'[k][i] = IF k = n /\ i = id THEN echo[n][id] + 1 ELSE echo[k][i]
  /\ \A c \in Others, i \in Requests :
       /\ Asks'[c][i] = Asks[c][i]
       /\ Answers'[c][i] = IF c = q /\ i = id THEN Answers[c][i] - 1
                           ELSE IF c = n /\ i = id /\ AllAnswered(n, echo[n][id] + 1) THEN Answers[c][i] + 1
                           ELSE Answers[c][i]
  /\ failed' = failed

\* The leader asks its children for id.
Starts(id) ==
  /\ \A k \in Node, i \in Requests : echo'[k][i] = IF k = Leader /\ i = id THEN 0 ELSE echo[k][i]
  /\ \A c \in Others, i \in Requests :
       /\ Asks'[c][i] = IF Parent[c] = Leader /\ i = id THEN Asks[c][i] + 1 ELSE Asks[c][i]
       /\ Answers'[c][i] = Answers[c][i]
  /\ failed' = failed

\* Nothing of the count moves.
Rests ==
  /\ \A k \in Node, i \in Requests : echo'[k][i] = echo[k][i]
  /\ \A c \in Others, i \in Requests : Asks'[c][i] = Asks[c][i] /\ Answers'[c][i] = Answers[c][i]
  /\ failed' = "control" <=> failed = "control"

\* A request to c, or an answer of c, is lost.
Loses(c, id) ==
  /\ c \in Others /\ failed = "nothing" /\ failed' = "control"
  /\ \A k \in Node, i \in Requests : echo'[k][i] = echo[k][i]
  /\ \/ /\ Asks[c][id] > 0
        /\ \A d \in Others, i \in Requests :
             /\ Asks'[d][i] = IF d = c /\ i = id THEN Asks[d][i] - 1 ELSE Asks[d][i]
             /\ Answers'[d][i] = Answers[d][i]
     \/ /\ Answers[c][id] > 0
        /\ \A d \in Others, i \in Requests :
             /\ Asks'[d][i] = Asks[d][i]
             /\ Answers'[d][i] = IF d = c /\ i = id THEN Answers[d][i] - 1 ELSE Answers[d][i]

\* Asks and Answers, now and after the step.
LEMMA Observed ==
  ASSUME NEW c \in Others, NEW i \in Requests
  PROVE  /\ Asks[c][i] = (IF Parent[c] = Leader THEN Copies(outbox[c], RequestOf(i)) ELSE 0)
                         + InFlight(chan, Parent[c], c, RequestOf(i))
         /\ Asks'[c][i] = (IF Parent[c] = Leader THEN Copies(outbox'[c], RequestOf(i)) ELSE 0)
                          + InFlight(chan', Parent[c], c, RequestOf(i))
         /\ Answers[c][i] = InFlight(chan, c, Parent[c], AnswerTo(i))
         /\ Answers'[c][i] = InFlight(chan', c, Parent[c], AnswerTo(i))
BY DEF Asks, Answers, UnderWay

\* The parts are natural numbers.
LEMMA ObservedParts ==
  ASSUME TypeOK, NEW c \in Others, NEW S
  PROVE  /\ Copies(outbox[c], S) \in Nat
         /\ InFlight(chan, Parent[c], c, S) \in Nat /\ InFlight(chan, c, Parent[c], S) \in Nat
<1>1. c \in Node /\ Parent[c] \in Node
  BY Family
<1>2. outbox[c] \in Seq(Message) /\ chan[Parent[c]][c] \in Seq(Message) /\ chan[c][Parent[c]] \in Seq(Message)
  BY <1>1 DEF TypeOK
<1> QED
  BY <1>2, CopiesType DEF InFlight

LEMMA ObservedPartsNext ==
  ASSUME TypeOK', NEW c \in Others, NEW S
  PROVE  /\ Copies(outbox'[c], S) \in Nat
         /\ InFlight(chan', Parent[c], c, S) \in Nat /\ InFlight(chan', c, Parent[c], S) \in Nat
<1>1. c \in Node /\ Parent[c] \in Node
  BY Family
<1>2. outbox'[c] \in Seq(Message) /\ chan'[Parent[c]][c] \in Seq(Message) /\ chan'[c][Parent[c]] \in Seq(Message)
  BY <1>1 DEF TypeOK
<1> QED
  BY <1>2, CopiesType DEF InFlight

\* The message a handler takes is where it should be.
LEMMA HeadFits ==
  ASSUME TypeOK, Fitting, NEW q \in Node, NEW n \in Node, chan[q][n] # <<>>
  PROVE  /\ Fits(q, n, Head(chan[q][n])) /\ 1 \in DOMAIN chan[q][n] /\ Head(chan[q][n]) = chan[q][n][1]
         /\ Head(chan[q][n]) \in Message
<1>1. chan[q][n] \in Seq(Message)
  BY DEF TypeOK
<1>2. 1 \in DOMAIN chan[q][n] /\ Head(chan[q][n]) = chan[q][n][1] /\ Head(chan[q][n]) \in Message
  BY <1>1, Uncons
<1> QED
  BY <1>2 DEF Fitting

LEMMA RequestedPasses ==
  ASSUME TypeOK, TypeOK', Fitting, NEW n \in Node, NEW q \in Node, NEW id \in Requests, Requested(n, q, id)
  PROVE  n \in Others /\ q = Parent[n] /\ Passes(n, id)
<1> DEFINE F == Childs(n)
<1>1. /\ chan[q][n] # <<>> /\ Head(chan[q][n]) = Request(id) /\ echo[n][id] = None
      /\ Returns(n, q, id, 0, To(F, Request(id))) /\ outbox' = outbox /\ failed' = failed
  BY DEF Requested, PropagateChilds, loopVars
<1>2. n \in Others /\ q = Parent[n] /\ Asks[n][id] > 0
  <2>1. Fits(q, n, Request(id)) /\ 1 \in DOMAIN chan[q][n] /\ chan[q][n][1] = Request(id)
    BY <1>1, HeadFits
  <2>2. n \in Childs(q)
    BY <2>1, FitsAs
  <2> QED
    BY <2>1, <2>2, Found, Family
<1>3. F \in SUBSET Node /\ \A c : c \in F <=> c \in Others /\ Parent[c] = n
  BY Family
<1>4. \A k \in Node, i \in Requests : echo'[k][i] = IF k = n /\ i = id THEN 0 ELSE echo[k][i]
  <2>1. echo' = [echo EXCEPT ![n][id] = 0]
    BY <1>1 DEF Returns
  <2>2. echo \in [Node -> [Requests -> Nat \cup {None}]]
    BY DEF TypeOK
  <2> QED
    BY <2>1, <2>2
<1>5. ASSUME NEW c \in Others, NEW i \in Requests
      PROVE  /\ Asks'[c][i] = IF c = n /\ i = id THEN Asks[c][i] - 1
                              ELSE IF Parent[c] = n /\ i = id THEN Asks[c][i] + 1 ELSE Asks[c][i]
             /\ Answers'[c][i] = IF c = n /\ i = id /\ AllAnswered(n, 0) THEN Answers[c][i] + 1 ELSE Answers[c][i]
  <2>1. c \in Node /\ Parent[c] \in Node /\ Parent[c] # c
    BY Family
  <2>2. (Head(chan[q][n]) \in RequestOf(i) <=> i = id) /\ Head(chan[q][n]) \notin AnswerTo(i)
    BY <1>1, RequestForm
  <2> HIDE DEF F
  <2>3. InFlight(chan', Parent[c], c, RequestOf(i)) + (IF c = n /\ i = id THEN 1 ELSE 0)
          = InFlight(chan, Parent[c], c, RequestOf(i)) + (IF Parent[c] = n /\ i = id THEN 1 ELSE 0)
    <3>1. InFlight(chan', Parent[c], c, RequestOf(i))
            + (IF Parent[c] = q /\ c = n /\ Head(chan[q][n]) \in RequestOf(i) THEN 1 ELSE 0)
            = InFlight(chan, Parent[c], c, RequestOf(i)) + (IF Parent[c] = n /\ c \in F /\ i = id THEN 1 ELSE 0)
      BY <1>1, <1>3, <2>1, ReturnsMoves
    <3>2. Parent[c] = q /\ c = n /\ Head(chan[q][n]) \in RequestOf(i) <=> c = n /\ i = id
      BY <1>2, <2>2
    <3>3. Parent[c] = n /\ c \in F /\ i = id <=> Parent[c] = n /\ i = id
      BY <1>3
    <3> QED
      BY <3>1, <3>2, <3>3
  <2>4. InFlight(chan', c, Parent[c], AnswerTo(i))
          = InFlight(chan, c, Parent[c], AnswerTo(i)) + (IF c = n /\ i = id /\ AllAnswered(n, 0) THEN 1 ELSE 0)
    <3>1. InFlight(chan', c, Parent[c], AnswerTo(i))
            + (IF c = q /\ Parent[c] = n /\ Head(chan[q][n]) \in AnswerTo(i) THEN 1 ELSE 0)
            = InFlight(chan, c, Parent[c], AnswerTo(i))
              + (IF c = n /\ i = id /\ AllAnswered(n, 0) /\ n # Leader /\ Parent[c] = Parent[n] THEN 1 ELSE 0)
      BY <1>1, <1>3, <2>1, ReturnsMoves
    <3>2. /\ InFlight(chan', c, Parent[c], AnswerTo(i)) \in Nat
          /\ InFlight(chan, c, Parent[c], AnswerTo(i)) \in Nat
      BY ObservedParts, ObservedPartsNext
    <3>3. n # Leader
      BY <1>2, Family
    <3> QED
      BY <2>2, <3>1, <3>2, <3>3
  <2>5. /\ InFlight(chan', Parent[c], c, RequestOf(i)) \in Nat /\ InFlight(chan, Parent[c], c, RequestOf(i)) \in Nat
        /\ Copies(outbox[c], RequestOf(i)) \in Nat
    BY ObservedParts, ObservedPartsNext
  <2>6. PICK box \in Nat : box = IF Parent[c] = Leader THEN Copies(outbox[c], RequestOf(i)) ELSE 0
    BY <2>5
  <2>7. /\ Asks[c][i] = box + InFlight(chan, Parent[c], c, RequestOf(i))
        /\ Asks'[c][i] = box + InFlight(chan', Parent[c], c, RequestOf(i))
    BY <1>1, <2>6, Observed
  <2>8. Asks'[c][i] = IF c = n /\ i = id THEN Asks[c][i] - 1
                      ELSE IF Parent[c] = n /\ i = id THEN Asks[c][i] + 1 ELSE Asks[c][i]
    BY <2>1, <2>3, <2>5, <2>6, <2>7
  <2>9. Answers'[c][i] = IF c = n /\ i = id /\ AllAnswered(n, 0) THEN Answers[c][i] + 1 ELSE Answers[c][i]
    <3>1. InFlight(chan, c, Parent[c], AnswerTo(i)) \in Nat
      BY ObservedParts
    <3> QED
      BY <2>4, <3>1, Observed
  <2> QED
    BY <2>8, <2>9
<1> QED
  BY <1>1, <1>2, <1>4, <1>5 DEF Passes

LEMMA RepliedHears ==
  ASSUME TypeOK, TypeOK', Fitting, NEW n \in Node, NEW q \in Node, NEW id \in Requests, Replied(n, q, id)
  PROVE  q \in Others /\ Parent[q] = n /\ Hears(n, q, id) /\ Head(chan[q][n]) = Answer(q, id)
<1> DEFINE count == echo[n][id] + 1
<1>1. /\ chan[q][n] # <<>> /\ Head(chan[q][n]) \in AnswerTo(id) /\ echo[n][id] # None
      /\ Returns(n, q, id, count, Nothing) /\ outbox' = outbox /\ failed' = failed
  BY DEF Replied, loopVars
<1>2. q \in Others /\ Parent[q] = n /\ Answers[q][id] > 0 /\ Head(chan[q][n]) = Answer(q, id)
  <2>1. Fits(q, n, Head(chan[q][n])) /\ 1 \in DOMAIN chan[q][n] /\ chan[q][n][1] = Head(chan[q][n])
    BY <1>1, HeadFits
  <2>2. q \in Childs(n) /\ Head(chan[q][n]) = Answer(q, id)
    BY <1>1, <2>1, FitsAs
  <2> QED
    BY <1>1, <2>1, <2>2, Found, Family
<1> HIDE DEF count
<1>3. Returns(n, q, id, count, To({}, Request(id)))
  BY <1>1 DEF To, Nothing
<1>4. \A k \in Node, i \in Requests : echo'[k][i] = IF k = n /\ i = id THEN count ELSE echo[k][i]
  <2>1. echo' = [echo EXCEPT ![n][id] = count]
    BY <1>1 DEF Returns
  <2>2. echo \in [Node -> [Requests -> Nat \cup {None}]]
    BY DEF TypeOK
  <2> QED
    BY <2>1, <2>2
<1>5. ASSUME NEW c \in Others, NEW i \in Requests
      PROVE  /\ Asks'[c][i] = Asks[c][i]
             /\ Answers'[c][i] = IF c = q /\ i = id THEN Answers[c][i] - 1
                                 ELSE IF c = n /\ i = id /\ AllAnswered(n, count) THEN Answers[c][i] + 1
                                 ELSE Answers[c][i]
  <2>1. c \in Node /\ Parent[c] \in Node /\ Parent[c] # c /\ q # n /\ c # Leader
    BY <1>2, Family
  <2>2. (Head(chan[q][n]) \in AnswerTo(i) <=> i = id) /\ Head(chan[q][n]) \notin RequestOf(i)
    BY <1>1, RequestForm
  <2>3. /\ InFlight(chan', Parent[c], c, RequestOf(i)) \in Nat /\ InFlight(chan, Parent[c], c, RequestOf(i)) \in Nat
        /\ Copies(outbox[c], RequestOf(i)) \in Nat
        /\ InFlight(chan', c, Parent[c], AnswerTo(i)) \in Nat
        /\ InFlight(chan, c, Parent[c], AnswerTo(i)) \in Nat
    BY ObservedParts, ObservedPartsNext
  <2>4. InFlight(chan', Parent[c], c, RequestOf(i)) = InFlight(chan, Parent[c], c, RequestOf(i))
    <3>1. InFlight(chan', Parent[c], c, RequestOf(i))
            + (IF Parent[c] = q /\ c = n /\ Head(chan[q][n]) \in RequestOf(i) THEN 1 ELSE 0)
            = InFlight(chan, Parent[c], c, RequestOf(i)) + (IF Parent[c] = n /\ c \in {} /\ i = id THEN 1 ELSE 0)
      BY <1>1, <1>3, <2>1, ReturnsMoves
    <3> QED
      BY <2>2, <2>3, <3>1
  <2>5. InFlight(chan', c, Parent[c], AnswerTo(i)) + (IF c = q /\ i = id THEN 1 ELSE 0)
          = InFlight(chan, c, Parent[c], AnswerTo(i)) + (IF c = n /\ i = id /\ AllAnswered(n, count) THEN 1 ELSE 0)
    <3>1. InFlight(chan', c, Parent[c], AnswerTo(i))
            + (IF c = q /\ Parent[c] = n /\ Head(chan[q][n]) \in AnswerTo(i) THEN 1 ELSE 0)
            = InFlight(chan, c, Parent[c], AnswerTo(i))
              + (IF c = n /\ i = id /\ AllAnswered(n, count) /\ n # Leader /\ Parent[c] = Parent[n] THEN 1 ELSE 0)
      BY <1>1, <1>3, <2>1, ReturnsMoves
    <3>2. c = q /\ Parent[c] = n /\ Head(chan[q][n]) \in AnswerTo(i) <=> c = q /\ i = id
      BY <1>2, <2>2
    <3>3. c = n /\ i = id /\ AllAnswered(n, count) /\ n # Leader /\ Parent[c] = Parent[n]
            <=> c = n /\ i = id /\ AllAnswered(n, count)
      BY <2>1
    <3> QED
      BY <3>1, <3>2, <3>3
  <2>6. Asks'[c][i] = Asks[c][i]
    BY <1>1, <2>4, Observed
  <2>7. Answers'[c][i] = IF c = q /\ i = id THEN Answers[c][i] - 1
                         ELSE IF c = n /\ i = id /\ AllAnswered(n, count) THEN Answers[c][i] + 1
                         ELSE Answers[c][i]
    <3>1. PICK x, y \in Nat : x = Answers[c][i] /\ y = Answers'[c][i]
      BY <2>3, Observed
    <3>2. y + (IF c = q /\ i = id THEN 1 ELSE 0) = x + (IF c = n /\ i = id /\ AllAnswered(n, count) THEN 1 ELSE 0)
      BY <2>5, <3>1, Observed
    <3> QED
      BY <2>1, <3>1, <3>2
  <2> QED
    BY <2>6, <2>7
<1> QED
  BY <1>1, <1>2, <1>4, <1>5 DEF Hears, count

\* The loop's requests.
LEMMA BoxStarts ==
  ASSUME TypeOK, NEW id \in Requests, outbox = Nothing, outbox' = PropagateChilds(Leader, Request(id)),
         UNCHANGED <<chan, failed>>, echo' = [echo EXCEPT ![Leader][id] = 0]
  PROVE  Starts(id)
<1>1. \A k \in Node, i \in Requests : echo'[k][i] = IF k = Leader /\ i = id THEN 0 ELSE echo[k][i]
  <2>1. echo \in [Node -> [Requests -> Nat \cup {None}]]
    BY DEF TypeOK
  <2> QED
    BY <2>1
<1>2. ASSUME NEW c \in Others, NEW i \in Requests
      PROVE  /\ Asks'[c][i] = IF Parent[c] = Leader /\ i = id THEN Asks[c][i] + 1 ELSE Asks[c][i]
             /\ Answers'[c][i] = Answers[c][i]
  <2>1. c \in Node /\ (c \in Childs(Leader) <=> Parent[c] = Leader)
    BY Family
  <2>2. Copies(outbox[c], RequestOf(i)) = 0
    BY <2>1, CopiesOut
  <2>3. Copies(outbox'[c], RequestOf(i)) = IF c \in Childs(Leader) /\ Request(id) \in RequestOf(i) THEN 1 ELSE 0
    BY <2>1, CopiesOut DEF PropagateChilds
  <2>4. Request(id) \in RequestOf(i) <=> i = id
    BY RequestForm
  <2>5. InFlight(chan, Parent[c], c, RequestOf(i)) \in Nat
    BY ObservedParts
  <2>6. Asks'[c][i] = (IF Parent[c] = Leader /\ i = id THEN 1 ELSE 0) + InFlight(chan, Parent[c], c, RequestOf(i))
    BY <2>1, <2>3, <2>4, Observed
  <2>7. Asks[c][i] = 0 + InFlight(chan, Parent[c], c, RequestOf(i))
    BY <2>2, Observed
  <2>8. Answers'[c][i] = Answers[c][i]
    BY Observed
  <2> QED
    BY <2>5, <2>6, <2>7, <2>8
<1> QED
  BY <1>1, <1>2 DEF Starts

LEMMA StartStep ==
  ASSUME TypeOK, NextRound \/ StartCollect
  PROVE  \E id \in Requests :
           /\ id = IF NextRound THEN round + 1 ELSE Collect
           /\ Starts(id) /\ outbox' = PropagateChilds(Leader, Request(id)) /\ echo' = [echo EXCEPT ![Leader][id] = 0]
<1>1. CASE NextRound
  <2>1. round + 1 \in 1 .. MaxRounds
    BY <1>1, AllRequests DEF NextRound, TypeOK
  <2>2. PICK id \in Requests : id = round + 1 /\ id # Collect
    BY <2>1, AllRequests
  <2>3. /\ outbox = Nothing /\ outbox' = PropagateChilds(Leader, Request(id))
        /\ UNCHANGED <<chan, failed>> /\ echo' = [echo EXCEPT ![Leader][id] = 0]
    BY <1>1, <2>2 DEF NextRound, At, Request
  <2> QED
    BY <1>1, <2>2, <2>3, BoxStarts
<1>2. CASE ~NextRound
  <2>1. /\ outbox = Nothing /\ outbox' = PropagateChilds(Leader, Request(Collect))
        /\ UNCHANGED <<chan, failed>> /\ echo' = [echo EXCEPT ![Leader][Collect] = 0]
    BY <1>2 DEF StartCollect, At, Request
  <2> QED
    BY <1>2, <2>1, BoxStarts, AllRequests
<1> QED
  BY <1>1, <1>2

\* No step of the vote, and nothing else the loop does, moves the count.
LEMMA SameRests ==
  ASSUME UNCHANGED echo, failed' = "control" <=> failed = "control",
         \A c \in Others, i \in Requests :
           /\ (IF Parent[c] = Leader THEN Copies(outbox'[c], RequestOf(i)) ELSE 0)
                + InFlight(chan', Parent[c], c, RequestOf(i))
              = (IF Parent[c] = Leader THEN Copies(outbox[c], RequestOf(i)) ELSE 0)
                + InFlight(chan, Parent[c], c, RequestOf(i))
           /\ InFlight(chan', c, Parent[c], AnswerTo(i)) = InFlight(chan, c, Parent[c], AnswerTo(i))
  PROVE  Rests
BY Observed DEF Rests

LEMMA VoteRests ==
  ASSUME TypeOK, NEW n \in Node, NEW q \in Node,
         handle_voteBegin(n, q) \/ handle_proposal(n, q) \/ handle_proposalResponse(n, q)
  PROVE  Rests
<1>1. /\ Head(chan[q][n]) \in Vote /\ chan[q][n] # <<>> /\ chan \in Channels(Message)
      /\ UNCHANGED <<echo, outbox>> /\ (failed' = "control" <=> failed = "control")
  BY VoteStep DEF loopVars, TypeOK, Channels, Outgoing
<1>2. PICK out \in Outgoing(Vote) : chan' = Exchanged(chan, q, n, out)
  BY VoteStep
<1>3. out \in Outgoing(Message)
  BY OutgoingWider DEF Message
<1>4. ASSUME NEW p \in Node, NEW r \in Node, NEW S \in SUBSET Control
      PROVE  InFlight(chan', p, r, S) = InFlight(chan, p, r, S)
  <2>1. \A m \in Vote : m \notin S
    BY <1>4, Votes DEF Message
  <2>2. Copies(out[r], S) = 0
    <3>1. out[r] \in Seq(Vote)
      BY DEF Outgoing
    <3>2. \A i \in DOMAIN out[r] : out[r][i] \notin S
      BY <2>1, <3>1, Elements
    <3> QED
      BY <3>1, <3>2, CopiesType
  <2>3. /\ InFlight(chan', p, r, S) + (IF p = q /\ r = n /\ Head(chan[q][n]) \in S THEN 1 ELSE 0)
             = InFlight(chan, p, r, S) + (IF p = n THEN Copies(out[r], S) ELSE 0)
        /\ InFlight(chan', p, r, S) \in Nat /\ InFlight(chan, p, r, S) \in Nat
    <3>1. PICK net \in Channels(Message) : net = chan /\ net[q][n] # <<>>
      BY <1>1
    <3>2. /\ InFlight(Exchanged(net, q, n, out), p, r, S)
                + (IF p = q /\ r = n /\ Head(net[q][n]) \in S THEN 1 ELSE 0)
              = InFlight(net, p, r, S) + (IF p = n THEN Copies(out[r], S) ELSE 0)
          /\ InFlight(Exchanged(net, q, n, out), p, r, S) \in Nat /\ InFlight(net, p, r, S) \in Nat
      BY <1>3, <3>1, FlightExchanged
    <3> QED
      BY <1>2, <3>1, <3>2
  <2>4. Head(chan[q][n]) \notin S
    BY <1>1, <2>1
  <2> QED
    BY <2>2, <2>3, <2>4
<1>5. ASSUME NEW c \in Others, NEW i \in Requests
      PROVE  /\ InFlight(chan', Parent[c], c, RequestOf(i)) = InFlight(chan, Parent[c], c, RequestOf(i))
             /\ InFlight(chan', c, Parent[c], AnswerTo(i)) = InFlight(chan, c, Parent[c], AnswerTo(i))
  <2>1. c \in Node /\ Parent[c] \in Node
    BY Family
  <2>2. RequestOf(i) \in SUBSET Control /\ AnswerTo(i) \in SUBSET Control
    BY RequestForm
  <2> QED
    BY <1>4, <2>1, <2>2
<1> QED
  BY <1>1, <1>5, SameRests

LEMMA BeginRests == ASSUME BeginVote PROVE Rests
<1>1. /\ outbox = Nothing /\ UNCHANGED <<chan, echo, failed>>
      /\ \/ outbox' = Nothing
         \/ \E x \in Neigh[Leader] : outbox' = Then(To(Neigh[Leader], VoteBegin), To({x}, VoteBegin))
  BY DEF BeginVote, At
<1>2. ASSUME NEW c \in Node, NEW i \in Requests PROVE Copies(outbox'[c], RequestOf(i)) = 0
  <2>1. VoteBegin \in Message /\ VoteBegin \notin RequestOf(i)
    BY Makes, MakesVotes, Votes, RequestForm
  <2>2. CASE outbox' = Nothing
    BY <2>2, CopiesOut
  <2>3. CASE \E x \in Neigh[Leader] : outbox' = Then(To(Neigh[Leader], VoteBegin), To({x}, VoteBegin))
    <3>1. PICK x \in Neigh[Leader] : outbox' = Then(To(Neigh[Leader], VoteBegin), To({x}, VoteBegin))
      BY <2>3
    <3> DEFINE first == To(Neigh[Leader], VoteBegin)
               second == To({x}, VoteBegin)
    <3>2. first \in Outgoing(Message) /\ second \in Outgoing(Message)
      BY <2>1, ToType
    <3>3. Copies(first[c], RequestOf(i)) = 0 /\ Copies(second[c], RequestOf(i)) = 0
      BY <2>1, CopiesOut
    <3>4. outbox' = Then(first, second)
      BY <3>1
    <3> HIDE DEF first, second
    <3>5. Copies(Then(first, second)[c], RequestOf(i)) = Copies(first[c], RequestOf(i)) + Copies(second[c], RequestOf(i))
      BY <3>2, CopiesThen
    <3> QED
      BY <3>3, <3>4, <3>5
  <2> QED
    BY <1>1, <2>2, <2>3
<1>3. \A c \in Others, i \in Requests :
        c \in Node /\ Copies(outbox'[c], RequestOf(i)) = Copies(outbox[c], RequestOf(i))
  BY <1>1, <1>2, CopiesOut, Family
<1> QED
  BY <1>1, <1>3, SameRests

LEMMA LoopRests ==
  ASSUME TypeOK, NEW r \in Node, LoopSend(r) \/ LoopSendFails(r)
  PROVE  Rests
<1> DEFINE m == Head(outbox[r])
<1>1. /\ outbox[r] # <<>> /\ outbox[r] \in Seq(Message) /\ chan \in Channels(Message)
      /\ outbox' = [outbox EXCEPT ![r] = Tail(@)] /\ UNCHANGED echo
      /\ failed' = "control" <=> failed = "control"
  BY DEF LoopSend, LoopSendFails, TypeOK, Channels, Outgoing, CanFail
<1>2. m \in Message /\ Leader \in Node
  BY <1>1, Uncons, Family
<1>3. \A S : Copies(outbox[r], S) = Copies(Tail(outbox[r]), S) + IF m \in S THEN 1 ELSE 0
  BY <1>1, CopiesTail
<1>4. \A k \in Node : outbox'[k] = IF k = r THEN Tail(outbox[r]) ELSE outbox[k]
  <2>1. outbox \in [Node -> Seq(Message)]
    BY DEF TypeOK
  <2> QED
    BY <1>1, <2>1
<1>5. \A S : Copies(Tail(outbox[r]), S) \in Nat
  <2>1. Tail(outbox[r]) \in Seq(Message)
    BY <1>1, Uncons
  <2> QED
    BY <2>1, CopiesType
<1> HIDE DEF m
<1>6. CASE LoopSend(r)
  <2>1. chan' = Sent(chan, Leader, To({r}, m)) /\ To({r}, m) \in Outgoing(Message)
    BY <1>2, <1>6, ToType DEF LoopSend, m
  <2>2. \A p, k \in Node : \A S :
          /\ InFlight(chan', p, k, S) = InFlight(chan, p, k, S) + IF p = Leader THEN Copies(To({r}, m)[k], S) ELSE 0
          /\ InFlight(chan, p, k, S) \in Nat
    BY <1>1, <1>2, <2>1, FlightSent
  <2>3. ASSUME NEW c \in Others, NEW i \in Requests
        PROVE  /\ (IF Parent[c] = Leader THEN Copies(outbox'[c], RequestOf(i)) ELSE 0)
                    + InFlight(chan', Parent[c], c, RequestOf(i))
                  = (IF Parent[c] = Leader THEN Copies(outbox[c], RequestOf(i)) ELSE 0)
                    + InFlight(chan, Parent[c], c, RequestOf(i))
               /\ InFlight(chan', c, Parent[c], AnswerTo(i)) = InFlight(chan, c, Parent[c], AnswerTo(i))
    <3>1. c \in Node /\ c # Leader /\ Parent[c] \in Node
      BY Family
    <3>2. PICK d \in {0, 1} : d = IF c = r /\ m \in RequestOf(i) THEN 1 ELSE 0
      OBVIOUS
    <3>3. Copies(To({r}, m)[c], RequestOf(i)) = d
      BY <3>1, <3>2, CopiesOut
    <3>4. /\ InFlight(chan', Parent[c], c, RequestOf(i))
               = InFlight(chan, Parent[c], c, RequestOf(i)) + IF Parent[c] = Leader THEN d ELSE 0
          /\ InFlight(chan, Parent[c], c, RequestOf(i)) \in Nat
      BY <2>2, <3>1, <3>3
    <3>5. Copies(outbox[c], RequestOf(i)) = Copies(outbox'[c], RequestOf(i)) + d
          /\ Copies(outbox'[c], RequestOf(i)) \in Nat
      <4>1. CASE c = r
        BY <1>3, <1>4, <1>5, <3>1, <3>2, <4>1
      <4>2. CASE c # r
        <5>1. Copies(outbox[c], RequestOf(i)) \in Nat
          BY ObservedParts
        <5> QED
          BY <1>4, <3>1, <3>2, <4>2, <5>1
      <4> QED
        BY <4>1, <4>2
    <3>6. InFlight(chan', c, Parent[c], AnswerTo(i)) = InFlight(chan, c, Parent[c], AnswerTo(i))
      <4>1. /\ InFlight(chan', c, Parent[c], AnswerTo(i)) = InFlight(chan, c, Parent[c], AnswerTo(i)) + 0
            /\ InFlight(chan, c, Parent[c], AnswerTo(i)) \in Nat
        BY <2>2, <3>1
      <4> QED
        BY <4>1
    <3>7. CASE Parent[c] = Leader
      BY <3>4, <3>5, <3>6, <3>7
    <3>8. CASE Parent[c] # Leader
      BY <3>4, <3>6, <3>8
    <3> QED
      BY <3>7, <3>8
  <2> QED
    BY <1>1, <2>3, SameRests
<1>7. CASE LoopSendFails(r)
  <2>1. m \in Vote /\ UNCHANGED chan
    BY <1>7 DEF LoopSendFails, m
  <2>2. ASSUME NEW c \in Others, NEW i \in Requests
        PROVE  Copies(outbox'[c], RequestOf(i)) = Copies(outbox[c], RequestOf(i))
    <3>1. m \notin RequestOf(i)
      BY <1>2, <2>1, Votes, RequestForm
    <3>2. c \in Node
      BY Family
    <3>3. CASE c = r
      BY <1>3, <1>4, <1>5, <3>1, <3>2, <3>3
    <3>4. CASE c # r
      BY <1>4, <3>2, <3>4
    <3> QED
      BY <3>3, <3>4
  <2> QED
    BY <1>1, <2>1, <2>2, SameRests
<1> QED
  BY <1>6, <1>7

LEMMA OtherRests == ASSUME CheckResult \/ UNCHANGED vars PROVE Rests
<1>1. UNCHANGED <<chan, echo, outbox, failed>>
  BY DEF CheckResult, vars, votes, rounds, result, loopVars
<1> QED
  BY <1>1, SameRests

\* What is lost is a request to a child or an answer to the parent.
LEMMA LossStep ==
  ASSUME TypeOK, Fitting, NEW p \in Node, NEW q \in Node, SendFails(p, q)
  PROVE  \E id \in Requests, c \in Others : Loses(c, id)
<1> DEFINE m == Head(chan[p][q])
<1>1. /\ chan[p][q] # <<>> /\ m \in Control /\ chan' = Taken(chan, p, q) /\ chan \in Channels(Message)
      /\ failed = "nothing" /\ failed' = "control" /\ UNCHANGED <<echo, outbox>>
  BY DEF SendFails, CanFail, TypeOK, Channels, Outgoing, loopVars
<1>2. /\ Fits(p, q, m) /\ m = chan[p][q][1] /\ 1 \in DOMAIN chan[p][q] /\ m \notin Vote
  BY <1>1, HeadFits, Votes
<1> HIDE DEF m
<1>3. \A k, r \in Node : \A S :
        /\ InFlight(chan, k, r, S) = InFlight(chan', k, r, S) + (IF k = p /\ r = q /\ m \in S THEN 1 ELSE 0)
        /\ InFlight(chan, k, r, S) \in Nat /\ InFlight(chan', k, r, S) \in Nat
  <2> SUFFICES ASSUME NEW k \in Node, NEW r \in Node, NEW S
               PROVE  /\ InFlight(chan, k, r, S)
                           = InFlight(chan', k, r, S) + (IF k = p /\ r = q /\ m \in S THEN 1 ELSE 0)
                      /\ InFlight(chan, k, r, S) \in Nat /\ InFlight(chan', k, r, S) \in Nat
    OBVIOUS
  <2>1. PICK net \in Channels(Message) : net = chan /\ net[p][q] # <<>>
    BY <1>1
  <2>2. /\ InFlight(net, k, r, S) = InFlight(Taken(net, p, q), k, r, S)
              + IF k = p /\ r = q /\ Head(net[p][q]) \in S THEN 1 ELSE 0
        /\ InFlight(net, k, r, S) \in Nat /\ InFlight(Taken(net, p, q), k, r, S) \in Nat
    BY <2>1, FlightTaken
  <2> QED
    BY <1>1, <2>1, <2>2 DEF m
<1>4. CASE q \in Childs(p) /\ \E id \in Requests : m = Request(id)
  <2>1. PICK id \in Requests : m = Request(id)
    BY <1>4
  <2>2. q \in Others /\ Parent[q] = p /\ Asks[q][id] > 0
    <3>1. 1 \in DOMAIN chan[p][q] /\ chan[p][q][1] = Request(id)
      BY <1>2, <2>1
    <3>2. q \in Others /\ Asks[q][id] > 0
      BY <1>4, <3>1, Found
    <3> QED
      BY <1>4, <3>2, Family
  <2>3. ASSUME NEW d \in Others, NEW i \in Requests
        PROVE  /\ Asks'[d][i] = IF d = q /\ i = id THEN Asks[d][i] - 1 ELSE Asks[d][i]
               /\ Answers'[d][i] = Answers[d][i]
    <3>1. d \in Node /\ Parent[d] \in Node
      BY Family
    <3>2. (m \in RequestOf(i) <=> i = id) /\ m \notin AnswerTo(i)
      BY <2>1, RequestForm
    <3>3. /\ InFlight(chan, Parent[d], d, RequestOf(i))
               = InFlight(chan', Parent[d], d, RequestOf(i)) + IF d = q /\ i = id THEN 1 ELSE 0
          /\ InFlight(chan, Parent[d], d, RequestOf(i)) \in Nat /\ InFlight(chan', Parent[d], d, RequestOf(i)) \in Nat
      BY <1>3, <2>2, <3>1, <3>2
    <3>4. /\ InFlight(chan, d, Parent[d], AnswerTo(i)) = InFlight(chan', d, Parent[d], AnswerTo(i)) + 0
          /\ InFlight(chan', d, Parent[d], AnswerTo(i)) \in Nat
      BY <1>3, <3>1, <3>2
    <3>5. PICK box \in Nat : box = IF Parent[d] = Leader THEN Copies(outbox[d], RequestOf(i)) ELSE 0
      BY ObservedParts
    <3>6. /\ Asks[d][i] = box + InFlight(chan, Parent[d], d, RequestOf(i))
          /\ Asks'[d][i] = box + InFlight(chan', Parent[d], d, RequestOf(i))
      BY <1>1, <3>5, Observed
    <3>7. Answers'[d][i] = Answers[d][i]
      BY <3>4, Observed
    <3> QED
      BY <3>3, <3>5, <3>6, <3>7
  <2> QED
    BY <1>1, <2>2, <2>3 DEF Loses
<1>5. CASE p \in Childs(q) /\ \E id \in Requests : m = Answer(p, id)
  <2>1. PICK id \in Requests : m = Answer(p, id)
    BY <1>5
  <2>2. m \in AnswerTo(id)
    BY <2>1, AnswerForm
  <2>3. p \in Others /\ Parent[p] = q /\ Answers[p][id] > 0
    BY <1>2, <1>5, <2>2, Found, Family
  <2>4. ASSUME NEW d \in Others, NEW i \in Requests
        PROVE  /\ Asks'[d][i] = Asks[d][i]
               /\ Answers'[d][i] = IF d = p /\ i = id THEN Answers[d][i] - 1 ELSE Answers[d][i]
    <3>1. d \in Node /\ Parent[d] \in Node
      BY Family
    <3>2. (m \in AnswerTo(i) <=> i = id) /\ m \notin RequestOf(i)
      BY <2>2, RequestForm
    <3>3. /\ InFlight(chan, d, Parent[d], AnswerTo(i))
               = InFlight(chan', d, Parent[d], AnswerTo(i)) + IF d = p /\ i = id THEN 1 ELSE 0
          /\ InFlight(chan, d, Parent[d], AnswerTo(i)) \in Nat /\ InFlight(chan', d, Parent[d], AnswerTo(i)) \in Nat
      BY <1>3, <2>3, <3>1, <3>2
    <3>4. InFlight(chan, Parent[d], d, RequestOf(i)) = InFlight(chan', Parent[d], d, RequestOf(i)) + 0
          /\ InFlight(chan', Parent[d], d, RequestOf(i)) \in Nat
      BY <1>3, <3>1, <3>2
    <3>5. Asks'[d][i] = Asks[d][i]
      BY <1>1, <3>4, Observed
    <3>6. PICK x, y \in Nat : x = Answers[d][i] /\ y = Answers'[d][i]
      BY <3>3, Observed
    <3>7. x = y + IF d = p /\ i = id THEN 1 ELSE 0
      BY <3>3, <3>6, Observed
    <3> QED
      BY <3>5, <3>6, <3>7
  <2> QED
    BY <1>1, <2>3, <2>4 DEF Loses
<1> QED
  BY <1>2, <1>4, <1>5 DEF Fits

(***************************************************************************)
(* Whose turn it is, and that messages stay in their places.               *)
(***************************************************************************)
LEMMA ReportingType ==
  ASSUME NEW n \in Node, NEW id \in Requests
  PROVE  /\ Reporting(n, id) \subseteq Childs(n) /\ IsFiniteSet(Reporting(n, id))
         /\ Cardinality(Reporting(n, id)) \in Nat /\ Cardinality(Reporting(n, id)) <= Cardinality(Childs(n))
         /\ Cardinality(Reporting(n, id)) = Cardinality(Childs(n)) => Reporting(n, id) = Childs(n)
<1>1. Reporting(n, id) \in SUBSET Childs(n) /\ IsFiniteSet(Childs(n))
  BY Family DEF Reporting
<1> QED
  BY <1>1, FS_Subset, FS_CardinalityType

\* Completeness comes down from a node to its children.
LEMMA CompleteBelow ==
  ASSUME TypeOK, Counting, NEW n \in Node, NEW id \in Requests, Complete(n, id), NEW c \in Childs(n)
  PROVE  Complete(c, id) /\ Answers[c][id] = 0
<1>1. Cardinality(Childs(n)) \in Nat /\ echo[n][id] = Cardinality(Childs(n))
  BY Family DEF Complete
<1>2. echo[n][id] # None
  BY <1>1 DEF None
<1>3. echo[n][id] <= Cardinality(Reporting(n, id))
  BY <1>2 DEF Counting
<1>4. Reporting(n, id) = Childs(n)
  BY <1>1, <1>3, ReportingType
<1> QED
  BY <1>4 DEF Reporting

\* A node with a child whose answer is under way is not complete.
LEMMA Unfinished ==
  ASSUME TypeOK, Counting, NEW n \in Node, NEW id \in Requests, NEW q \in Childs(n), Answers[q][id] > 0
  PROVE  ~Complete(n, id) /\ (echo[n][id] # None => echo[n][id] < Cardinality(Childs(n)))
<1>1. Answers[q][id] \in Nat
  BY ObservedType, Family
<1>2. ~Complete(n, id)
  BY <1>1, CompleteBelow
<1>3. ASSUME echo[n][id] # None PROVE echo[n][id] < Cardinality(Childs(n))
  <2>1. echo[n][id] <= Cardinality(Reporting(n, id))
    BY <1>3 DEF Counting
  <2>2. echo[n][id] \in Nat /\ Cardinality(Childs(n)) \in Nat
    BY <1>3, ObservedType, Family
  <2> QED
    BY <1>2, <2>1, <2>2, ReportingType DEF Complete
<1> QED
  BY <1>2, <1>3

\* A node that is not complete has not answered.
LEMMA NotAnswered ==
  ASSUME TypeOK, Asked, NEW n \in Others, NEW id \in Requests, ~Complete(n, id)
  PROVE  Answers[n][id] = 0
<1>1. Answers[n][id] \in Nat /\ Answers[n][id] <= 1 /\ Answers[n][id] # 1
  BY ObservedType DEF Asked
<1> QED
  BY <1>1

\* Only what n adds up for id changes.
LEMMA OthersSame ==
  ASSUME TypeOK, NEW n \in Node, NEW q \in Node, NEW id \in Requests, Requested(n, q, id) \/ Replied(n, q, id)
  PROVE  /\ \A p \in Node, i \in Requests : p # n \/ i # id => Answer(p, i)' = Answer(p, i)
         /\ \A p \in Node, i \in 1 .. MaxRounds : p # n \/ i # id => accState'[p][i] = accState[p][i]
         /\ \A p \in Node : p # n \/ id # Collect => accResult'[p] = accResult[p]
<1>1. \/ id # Collect /\ (\E s : accState' = [accState EXCEPT ![n][id] = s]) /\ accResult' = accResult
      \/ id = Collect /\ (\E r : accResult' = [accResult EXCEPT ![n] = r]) /\ accState' = accState
  BY DEF Requested, Replied, AddsState, AddsResult, rounds, result
<1>2. /\ accState \in [Node -> [1 .. MaxRounds -> State]] /\ accResult \in [Node -> Result]
      /\ id # Collect => id \in 1 .. MaxRounds
  BY AllRequests DEF TypeOK
<1>3. \A p \in Node, i \in 1 .. MaxRounds : p # n \/ i # id => accState'[p][i] = accState[p][i]
  BY <1>1, <1>2
<1>4. \A p \in Node : p # n \/ id # Collect => accResult'[p] = accResult[p]
  BY <1>1, <1>2
<1>5. ASSUME NEW p \in Node, NEW i \in Requests, p # n \/ i # id PROVE Answer(p, i)' = Answer(p, i)
  <2>1. CASE i = Collect
    BY <1>4, <1>5, <2>1 DEF Answer
  <2>2. CASE i # Collect
    <3>1. i \in 1 .. MaxRounds
      BY <2>2, AllRequests
    <3> QED
      BY <1>3, <1>5, <2>2, <3>1 DEF Answer
  <2> QED
    BY <2>1, <2>2
<1> QED
  BY <1>3, <1>4, <1>5

\* What was under way still fits.
LEMMA StillFits ==
  ASSUME TypeOK, Fitting, \A p \in Others, i \in Requests : Answers[p][i] > 0 => Answer(p, i)' = Answer(p, i),
         NEW p \in Node, NEW r \in Node, NEW m, \E j \in DOMAIN chan[p][r] : m = chan[p][r][j]
  PROVE  \/ m \in Vote
         \/ r \in Childs(p) /\ \E id \in Requests : m = Request(id)
         \/ p \in Childs(r) /\ \E id \in Requests : m = Answer(p, id)'
<1>1. PICK j \in DOMAIN chan[p][r] : m = chan[p][r][j]
  OBVIOUS
<1>2. Fits(p, r, m)
  BY <1>1 DEF Fitting
<1>3. CASE p \in Childs(r) /\ \E id \in Requests : m = Answer(p, id)
  <2>1. PICK id \in Requests : m = Answer(p, id)
    BY <1>3
  <2>2. chan[p][r][j] \in AnswerTo(id)
    BY <1>1, <2>1, AnswerForm
  <2>3. p \in Others /\ Answers[p][id] > 0
    BY <1>3, <2>2, Found
  <2>4. Answer(p, id)' = Answer(p, id)
    BY <2>3
  <2> QED
    BY <1>3, <2>1, <2>4
<1> QED
  BY <1>2, <1>3 DEF Fits

\* A request or an answer taken, and what is sent for it.
LEMMA ReturnsFit ==
  ASSUME TypeOK, TypeOK', Fitting, Asked, Counting, NEW n \in Node, NEW q \in Node, NEW id \in Requests,
         Requested(n, q, id) \/ Replied(n, q, id)
  PROVE  Fitting'
<1>1. PICK count \in Nat, F \in {Childs(n), {}} :
        Returns(n, q, id, count, To(F, Request(id))) /\ chan[q][n] # <<>> /\ outbox' = outbox
  <2>1. chan[q][n] # <<>> /\ outbox' = outbox
    BY DEF Requested, Replied, loopVars
  <2>2. CASE Requested(n, q, id)
    <3>1. Returns(n, q, id, 0, To(Childs(n), Request(id)))
      BY <2>2 DEF Requested, PropagateChilds
    <3> QED
      BY <2>1, <3>1
  <2>3. CASE Replied(n, q, id)
    <3>1. Nothing = To({}, Request(id))
      BY DEF To, Nothing
    <3>2. Returns(n, q, id, echo[n][id] + 1, Nothing)
      BY <2>3 DEF Replied
    <3>3. Returns(n, q, id, echo[n][id] + 1, To({}, Request(id)))
      BY <3>1, <3>2
    <3>4. echo[n][id] + 1 \in Nat
      BY <2>3, ObservedType DEF Replied
    <3> QED
      BY <2>1, <3>3, <3>4
  <2> QED
    BY <2>2, <2>3
<1>2. \A p \in Others, i \in Requests : Answers[p][i] > 0 => Answer(p, i)' = Answer(p, i)
  <2>1. ~Complete(n, id)
    <3>1. CASE Requested(n, q, id)
      <4>1. Cardinality(Childs(n)) \in Nat /\ echo[n][id] = None
        BY <3>1, Family DEF Requested
      <4> QED
        BY <4>1 DEF Complete, None
    <3>2. CASE Replied(n, q, id)
      <4>1. q \in Childs(n) /\ Answers[q][id] > 0
        BY <3>2, RepliedHears, Family DEF Hears
      <4> QED
        BY <4>1, Unfinished
    <3> QED
      BY <3>1, <3>2
  <2>2. n \in Others => Answers[n][id] = 0
    BY <2>1, NotAnswered
  <2> QED
    BY <2>2, OthersSame, Family
<1>3. chan \in Channels(Message) /\ F \in SUBSET Node /\ F \subseteq Childs(n)
  BY Family DEF TypeOK, Channels, Outgoing
<1>4. Request(id) \in Control
  BY RequestForm
<1> DEFINE forward == To(F, Request(id))
<1>5. forward \in Outgoing(Control)
  BY <1>4, ToType
<1>6. PICK report \in Outgoing(Control) :
        /\ report = IF AllAnswered(n, count) THEN ToParent(n, Answer(n, id)') ELSE Nothing
        /\ Then(forward, report) \in Outgoing(Message)
        /\ chan' = Exchanged(chan, q, n, Then(forward, report))
  BY <1>1, <1>5, ReturnsOut
<1>7. ASSUME NEW p \in Node, NEW r \in Node, NEW i \in DOMAIN chan'[p][r], NEW m, m = chan'[p][r][i]
      PROVE  \/ m \in Vote
             \/ r \in Childs(p) /\ \E k \in Requests : m = Request(k)
             \/ p \in Childs(r) /\ \E k \in Requests : m = Answer(p, k)'
  <2>1. \/ \E j \in DOMAIN chan[p][r] : m = chan[p][r][j]
        \/ p = n /\ \E j \in DOMAIN Then(forward, report)[r] : m = Then(forward, report)[r][j]
    <3>1. PICK out \in Outgoing(Message) : out = Then(forward, report)
      BY <1>6
    <3>2. i \in DOMAIN Exchanged(chan, q, n, out)[p][r] /\ m = Exchanged(chan, q, n, out)[p][r][i]
      BY <1>6, <1>7, <3>1
    <3>3. \/ \E j \in DOMAIN chan[p][r] : m = chan[p][r][j]
          \/ p = n /\ \E j \in DOMAIN out[r] : m = out[r][j]
      BY <1>1, <1>3, <3>2, ExchangedElements
    <3> QED
      BY <3>1, <3>3
  <2>2. CASE \E j \in DOMAIN chan[p][r] : m = chan[p][r][j]
    BY <1>2, <2>2, StillFits
  <2>3. CASE p = n /\ \E j \in DOMAIN Then(forward, report)[r] : m = Then(forward, report)[r][j]
    <3>1. forward[r] \in Seq(Control) /\ report[r] \in Seq(Control)
      BY <1>5, <1>6 DEF Outgoing
    <3>2. \/ \E j \in DOMAIN forward[r] : m = forward[r][j]
          \/ \E j \in DOMAIN report[r] : m = report[r][j]
      <4>1. PICK s, t \in Seq(Control) : s = forward[r] /\ t = report[r]
        BY <3>1
      <4>2. \E j \in DOMAIN (s \o t) : m = (s \o t)[j]
        BY <2>3, <4>1 DEF Then
      <4> HIDE DEF forward
      <4>3. (\E j \in DOMAIN s : m = s[j]) \/ (\E j \in DOMAIN t : m = t[j])
        BY <4>2, Concat
      <4> QED
        BY <4>1, <4>3
    <3>3. CASE \E j \in DOMAIN forward[r] : m = forward[r][j]
      <4>1. m = Request(id) /\ r \in F
        BY <3>3, EmptySeq DEF To
      <4> QED
        BY <1>3, <2>3, <4>1
    <3>4. CASE \E j \in DOMAIN report[r] : m = report[r][j]
      <4>1. PICK a : a = Answer(n, id)'
        OBVIOUS
      <4>2. report = IF AllAnswered(n, count) /\ n # Leader THEN To({Parent[n]}, a) ELSE Nothing
        BY <1>6, <4>1 DEF ToParent
      <4>3. m = a /\ n # Leader /\ r = Parent[n]
        BY <3>4, <4>2, EmptySeq DEF To, Nothing
      <4>4. n \in Childs(r)
        BY <4>3, Family DEF Others
      <4> QED
        BY <2>3, <4>1, <4>3, <4>4
    <3> QED
      BY <3>2, <3>3, <3>4
  <2> QED
    BY <2>1, <2>2, <2>3
<1> HIDE DEF forward
<1>8. \A p, r \in Node : \A i \in DOMAIN chan'[p][r] :
        \/ chan'[p][r][i] \in Vote
        \/ r \in Childs(p) /\ \E k \in Requests : chan'[p][r][i] = Request(k)
        \/ p \in Childs(r) /\ \E k \in Requests : chan'[p][r][i] = Answer(p, k)'
  BY <1>7
<1> QED
  BY <1>1, <1>8 DEF Fitting, Fits

\* Every other step.
LEMMA SameFit ==
  ASSUME TypeOK, Fitting, \A p \in Others, i \in Requests : Answer(p, i)' = Answer(p, i),
         \A p, r \in Node : \A i \in DOMAIN chan'[p][r] :
           \/ chan'[p][r][i] \in Vote
           \/ \E j \in DOMAIN chan[p][r] : chan'[p][r][i] = chan[p][r][j]
           \/ p = Leader /\ \E j \in DOMAIN outbox[r] : chan'[p][r][i] = outbox[r][j],
         \A r \in Node : \A i \in DOMAIN outbox'[r] :
           \/ outbox'[r][i] \in Vote
           \/ \E j \in DOMAIN outbox[r] : outbox'[r][i] = outbox[r][j]
           \/ r \in Childs(Leader) /\ \E id \in Requests : outbox'[r][i] = Request(id)
  PROVE  Fitting'
<1>2. ASSUME NEW p \in Node, NEW r \in Node, NEW i \in DOMAIN chan'[p][r], NEW m, m = chan'[p][r][i]
      PROVE  \/ m \in Vote
             \/ r \in Childs(p) /\ \E k \in Requests : m = Request(k)
             \/ p \in Childs(r) /\ \E k \in Requests : m = Answer(p, k)'
  <2>1. CASE \E j \in DOMAIN chan[p][r] : m = chan[p][r][j]
    BY <2>1, StillFits
  <2>2. CASE p = Leader /\ \E j \in DOMAIN outbox[r] : m = outbox[r][j]
    BY <2>2 DEF Fitting
  <2> QED
    BY <1>2, <2>1, <2>2
<1>3. \A p, r \in Node : \A i \in DOMAIN chan'[p][r] :
        \/ chan'[p][r][i] \in Vote
        \/ r \in Childs(p) /\ \E k \in Requests : chan'[p][r][i] = Request(k)
        \/ p \in Childs(r) /\ \E k \in Requests : chan'[p][r][i] = Answer(p, k)'
  BY <1>2
<1>4. \A r \in Node : \A i \in DOMAIN outbox'[r] :
        outbox'[r][i] \in Vote \/ (r \in Childs(Leader) /\ \E id \in Requests : outbox'[r][i] = Request(id))
  BY DEF Fitting
<1> QED
  BY <1>3, <1>4 DEF Fitting, Fits

LEMMA VoteFits ==
  ASSUME TypeOK, Fitting, NEW n \in Node, NEW q \in Node,
         handle_voteBegin(n, q) \/ handle_proposal(n, q) \/ handle_proposalResponse(n, q)
  PROVE  Fitting'
<1>1. chan[q][n] # <<>> /\ chan \in Channels(Message) /\ UNCHANGED <<accState, accResult, outbox>>
  BY VoteStep DEF rounds, result, loopVars, TypeOK, Channels, Outgoing
<1>2. PICK out \in Outgoing(Vote) : chan' = Exchanged(chan, q, n, out)
  BY VoteStep
<1>3. out \in Outgoing(Message)
  BY OutgoingWider DEF Message
<1>4. ASSUME NEW p \in Node, NEW r \in Node, NEW i \in DOMAIN chan'[p][r]
      PROVE  \/ chan'[p][r][i] \in Vote
             \/ \E j \in DOMAIN chan[p][r] : chan'[p][r][i] = chan[p][r][j]
  <2>1. \/ \E j \in DOMAIN chan[p][r] : Exchanged(chan, q, n, out)[p][r][i] = chan[p][r][j]
        \/ p = n /\ \E j \in DOMAIN out[r] : Exchanged(chan, q, n, out)[p][r][i] = out[r][j]
    <3>1. i \in DOMAIN Exchanged(chan, q, n, out)[p][r]
      BY <1>2
    <3> QED
      BY <1>1, <1>3, <3>1, ExchangedElements
  <2>2. \A j \in DOMAIN out[r] : out[r][j] \in Vote
    <3>1. out[r] \in Seq(Vote)
      BY DEF Outgoing
    <3> QED
      BY <3>1, Elements
  <2> QED
    BY <1>2, <2>1, <2>2
<1>5. \A p \in Others, i \in Requests : Answer(p, i)' = Answer(p, i)
  BY <1>1 DEF Answer
<1> QED
  BY <1>1, <1>4, <1>5, SameFit

LEMMA BeginFits == ASSUME TypeOK, Fitting, BeginVote PROVE Fitting'
<1>1. /\ UNCHANGED <<chan, accState, accResult>>
      /\ \/ outbox' = Nothing
         \/ \E x \in Neigh[Leader] : outbox' = Then(To(Neigh[Leader], VoteBegin), To({x}, VoteBegin))
  BY DEF BeginVote, At, rounds, result
<1>2. outbox' \in Outgoing(Vote)
  <2>1. VoteBegin \in Vote
    BY MakesVotes
  <2>2. \A R : To(R, VoteBegin) \in Outgoing(Vote)
    BY <2>1, ToType
  <2> QED
    BY <1>1, <2>2, ThenType, NothingType
<1>3. \A r \in Node : \A i \in DOMAIN outbox'[r] : outbox'[r][i] \in Vote
  <2> SUFFICES ASSUME NEW r \in Node, NEW i \in DOMAIN outbox'[r] PROVE outbox'[r][i] \in Vote
    OBVIOUS
  <2>1. outbox'[r] \in Seq(Vote)
    BY <1>2 DEF Outgoing
  <2> QED
    BY <2>1, Elements
<1>4. \A p \in Others, i \in Requests : Answer(p, i)' = Answer(p, i)
  BY <1>1 DEF Answer
<1> QED
  BY <1>1, <1>3, <1>4, SameFit

\* What the loop sends was in its outbox.
LEMMA LoopElements ==
  ASSUME TypeOK, NEW k \in Node, LoopSend(k) \/ LoopSendFails(k)
  PROVE  /\ \A r \in Node : \A i \in DOMAIN outbox'[r] : \E j \in DOMAIN outbox[r] : outbox'[r][i] = outbox[r][j]
         /\ \A p, r \in Node : \A i \in DOMAIN chan'[p][r] :
              \/ \E j \in DOMAIN chan[p][r] : chan'[p][r][i] = chan[p][r][j]
              \/ p = Leader /\ \E j \in DOMAIN outbox[r] : chan'[p][r][i] = outbox[r][j]
         /\ Head(outbox[k]) \in Message /\ \E j \in DOMAIN outbox[k] : Head(outbox[k]) = outbox[k][j]
<1> DEFINE m == Head(outbox[k])
<1>1. /\ outbox[k] # <<>> /\ outbox \in [Node -> Seq(Message)] /\ chan \in Channels(Message)
      /\ outbox' = [outbox EXCEPT ![k] = Tail(@)]
      /\ chan' = chan \/ chan' = Sent(chan, Leader, To({k}, m))
  BY DEF LoopSend, LoopSendFails, TypeOK, Channels, Outgoing, rounds, result
<1>2. /\ m \in Message /\ Leader \in Node /\ 1 \in DOMAIN outbox[k] /\ m = outbox[k][1]
      /\ \A i \in DOMAIN Tail(outbox[k]) : i + 1 \in DOMAIN outbox[k] /\ Tail(outbox[k])[i] = outbox[k][i + 1]
  BY <1>1, Uncons, Family
<1>3. \A r \in Node : \A i \in DOMAIN outbox'[r] : \E j \in DOMAIN outbox[r] : outbox'[r][i] = outbox[r][j]
  <2>1. \A r \in Node : outbox'[r] = IF r = k THEN Tail(outbox[k]) ELSE outbox[r]
    BY <1>1
  <2> HIDE DEF m
  <2> QED
    BY <1>2, <2>1
<1> HIDE DEF m
<1>4. ASSUME NEW p \in Node, NEW r \in Node, NEW i \in DOMAIN chan'[p][r]
      PROVE  \/ \E j \in DOMAIN chan[p][r] : chan'[p][r][i] = chan[p][r][j]
             \/ p = Leader /\ \E j \in DOMAIN outbox[r] : chan'[p][r][i] = outbox[r][j]
  <2>1. CASE chan' = chan
    BY <2>1
  <2>2. CASE chan' = Sent(chan, Leader, To({k}, m))
    <3>1. To({k}, m) \in Outgoing(Message)
      BY <1>2, ToType
    <3>2. chan'[p][r] = IF p = Leader THEN chan[Leader][r] \o To({k}, m)[r] ELSE chan[p][r]
      BY <1>1, <1>2, <2>2, <3>1, SentAt
    <3>3. CASE p = Leader
      <4>1. PICK s, t \in Seq(Message) : s = chan[p][r] /\ t = To({k}, m)[r]
        BY <1>1, <3>1 DEF Channels, Outgoing
      <4>2. chan'[p][r] = s \o t
        BY <3>2, <3>3, <4>1
      <4>3. \/ i \in DOMAIN s /\ chan'[p][r][i] = s[i]
            \/ i - Len(s) \in DOMAIN t /\ chan'[p][r][i] = t[i - Len(s)]
        BY <4>2, Concat
      <4>4. \A j \in DOMAIN t : r = k /\ t[j] = m
        BY <4>1, EmptySeq DEF To
      <4> QED
        BY <1>2, <3>3, <4>1, <4>3, <4>4
    <3>4. CASE p # Leader
      BY <3>2, <3>4
    <3> QED
      BY <3>3, <3>4
  <2> QED
    BY <1>1, <2>1, <2>2
<1> QED
  BY <1>2, <1>3, <1>4 DEF m

LEMMA LoopFits ==
  ASSUME TypeOK, Fitting, NEW k \in Node, LoopSend(k) \/ LoopSendFails(k)
  PROVE  Fitting'
<1>1. UNCHANGED <<accState, accResult>>
  BY DEF LoopSend, LoopSendFails, rounds, result
<1>2. \A p \in Others, i \in Requests : Answer(p, i)' = Answer(p, i)
  BY <1>1 DEF Answer
<1> QED
  BY <1>2, LoopElements, SameFit

LEMMA StartFits == ASSUME TypeOK, Fitting, NextRound \/ StartCollect PROVE Fitting'
<1>1. PICK id \in Requests : outbox' = PropagateChilds(Leader, Request(id))
  BY StartStep
<1>2. /\ chan' = chan
      /\ \/ accState' = [accState EXCEPT ![Leader][round + 1] = NoState] /\ accResult' = accResult
         \/ accResult' = [accResult EXCEPT ![Leader] = NoResult] /\ accState' = accState
  BY DEF NextRound, StartCollect, rounds, result
<1>3. \A p \in Others : accState'[p] = accState[p] /\ accResult'[p] = accResult[p]
  <2>1. accState \in [Node -> [1 .. MaxRounds -> State]] /\ accResult \in [Node -> Result]
    BY DEF TypeOK
  <2> QED
    BY <1>2, <2>1, Family
<1>4. \A p \in Others, i \in Requests : Answer(p, i)' = Answer(p, i)
  BY <1>3 DEF Answer
<1>5. \A r \in Node : \A i \in DOMAIN outbox'[r] : r \in Childs(Leader) /\ outbox'[r][i] = Request(id)
  BY <1>1, EmptySeq DEF PropagateChilds, To
<1> QED
  BY <1>2, <1>4, <1>5, SameFit

LEMMA LossElements ==
  ASSUME TypeOK, NEW n \in Node, NEW q \in Node, SendFails(n, q)
  PROVE  \A p, r \in Node : \A i \in DOMAIN chan'[p][r] : \E j \in DOMAIN chan[p][r] : chan'[p][r][i] = chan[p][r][j]
<1>1. chan[n][q] # <<>> /\ chan' = Taken(chan, n, q) /\ chan \in Channels(Message)
  BY DEF SendFails, TypeOK, Channels, Outgoing
<1> SUFFICES ASSUME NEW p \in Node, NEW r \in Node, NEW i \in DOMAIN chan'[p][r]
             PROVE  \E j \in DOMAIN chan[p][r] : chan'[p][r][i] = chan[p][r][j]
  OBVIOUS
<1>2. chan'[p][r] = IF p = n /\ r = q THEN Tail(chan[n][q]) ELSE chan[p][r]
  BY <1>1, TakenAt
<1>3. chan[n][q] \in Seq(Message)
  BY <1>1 DEF Channels, Outgoing
<1> QED
  BY <1>1, <1>2, <1>3, Uncons

LEMMA LossFits == ASSUME TypeOK, Fitting, NEW n \in Node, NEW q \in Node, SendFails(n, q) PROVE Fitting'
<1>1. UNCHANGED <<outbox, accState, accResult>>
  BY DEF SendFails, rounds, result, loopVars
<1>2. \A p \in Others, i \in Requests : Answer(p, i)' = Answer(p, i)
  BY <1>1 DEF Answer
<1> QED
  BY <1>1, <1>2, LossElements, SameFit

LEMMA FittingNext == TypeOK /\ TypeOK' /\ Fitting /\ Asked /\ Counting /\ [Next]_vars => Fitting'
<1> SUFFICES ASSUME TypeOK, TypeOK', Fitting, Asked, Counting, [Next]_vars PROVE Fitting'
  OBVIOUS
<1>1. ASSUME NEW n \in Node, NEW q \in Node, Handle(n, q) PROVE Fitting'
  <2>1. CASE handle_voteBegin(n, q) \/ handle_proposal(n, q) \/ handle_proposalResponse(n, q)
    BY <2>1, VoteFits
  <2>2. CASE handle_stateRequest(n, q) \/ handle_collectRequest(n, q)
    BY <2>2, RequestStep, ReturnsFit
  <2>3. CASE handle_stateResponse(n, q) \/ handle_collect(n, q)
    BY <2>3, AnswerStep, ReturnsFit
  <2> QED
    BY <1>1, <2>1, <2>2, <2>3 DEF Handle
<1>2. CASE CheckResult \/ UNCHANGED vars
  <2>1. UNCHANGED <<chan, outbox, accState, accResult>>
    BY <1>2 DEF CheckResult, vars, votes, rounds, result, loopVars
  <2>2. \A p \in Others, i \in Requests : Answer(p, i)' = Answer(p, i)
    BY <2>1 DEF Answer
  <2> QED
    BY <2>1, <2>2, SameFit
<1> QED
  BY <1>1, <1>2, BeginFits, LoopFits, StartFits, LossFits DEF Next, leaderLoop

(***************************************************************************)
(* No step loses or doubles a turn but one that loses a message.           *)
(***************************************************************************)
\* What the step leaves of n's waiting for id.
Kept(n, id) ==
  /\ echo'[n][id] # None => echo'[n][id] <= Cardinality(Reporting(n, id)')
  /\ echo[n][id] # None => echo'[n][id] # None /\ (Whole(n, id)' <=> Whole(n, id))
  /\ echo[n][id] = None /\ echo'[n][id] # None => Whole(n, id)'

LEMMA AskedParts ==
  ASSUME TypeOK, Asked, NEW c \in Others, NEW id \in Requests
  PROVE  /\ Asks[c][id] \in {0, 1} /\ Answers[c][id] \in {0, 1}
         /\ echo[Parent[c]][id] = None => echo[c][id] = None /\ Asks[c][id] = 0
         /\ echo[c][id] # None => Asks[c][id] = 0
         /\ Answers[c][id] # 0 => Complete(c, id)
         /\ Complete(c, id) => echo[c][id] # None
         /\ echo[c][id] = None => Answers[c][id] = 0
<1>1. Asks[c][id] \in Nat /\ Answers[c][id] \in Nat
  BY ObservedType
<1>2. Complete(c, id) => echo[c][id] # None
  BY Family DEF Complete, None
<1> QED
  BY <1>1, <1>2 DEF Asked

\* Nothing changes for n and its children.
LEMMA SameKept ==
  ASSUME Counting, NEW n \in Node, NEW id \in Requests, echo'[n][id] = echo[n][id],
         \A c \in Childs(n) :
           /\ Complete(c, id)' /\ Answers'[c][id] = 0 <=> Complete(c, id) /\ Answers[c][id] = 0
           /\ echo'[c][id] = None /\ Asks'[c][id] # 1 <=> echo[c][id] = None /\ Asks[c][id] # 1
  PROVE  Kept(n, id)
<1>1. Reporting(n, id)' = Reporting(n, id)
  BY DEF Reporting
<1>2. Whole(n, id)' <=> Whole(n, id)
  BY <1>1 DEF Whole
<1>3. echo[n][id] # None => echo[n][id] <= Cardinality(Reporting(n, id))
  BY DEF Counting
<1> QED
  BY <1>1, <1>2, <1>3 DEF Kept

\* A node that has just asked all its children.
LEMMA FreshKept ==
  ASSUME NEW n \in Node, NEW id \in Requests, echo[n][id] = None, echo'[n][id] = 0,
         \A c \in Childs(n) : ~Complete(c, id)' /\ Asks'[c][id] = 1
  PROVE  Kept(n, id)
<1>1. Reporting(n, id)' = {}
  BY DEF Reporting
<1>2. Cardinality({}) = 0
  BY FS_EmptySet
<1>3. Whole(n, id)'
  BY <1>1, <1>2 DEF Whole
<1> QED
  BY <1>1, <1>2, <1>3 DEF Kept

LEMMA PassesKeeps ==
  ASSUME TypeOK, Asked, Counting, NEW n \in Node, NEW id \in Requests, Passes(n, id)
  PROVE  Asked' /\ \A k \in Node, i \in Requests : Kept(k, i)
<1>1. n \in Others /\ echo[n][id] = None /\ Asks[n][id] = 1 /\ echo[Parent[n]][id] # None /\ Parent[n] # n
  BY AskedParts, Family DEF Passes
<1>2. \A k \in Node, i \in Requests : echo'[k][i] = IF k = n /\ i = id THEN 0 ELSE echo[k][i]
  BY DEF Passes
<1>3. \A c \in Others, i \in Requests :
        /\ Asks'[c][i] = IF c = n /\ i = id THEN Asks[c][i] - 1
                         ELSE IF Parent[c] = n /\ i = id THEN Asks[c][i] + 1 ELSE Asks[c][i]
        /\ Answers'[c][i] = IF c = n /\ i = id /\ AllAnswered(n, 0) THEN Answers[c][i] + 1 ELSE Answers[c][i]
  BY DEF Passes
<1>4. \A k \in Node, i \in Requests :
        Complete(k, i)' <=> IF k = n /\ i = id THEN AllAnswered(n, 0) ELSE Complete(k, i)
  BY <1>2 DEF Complete, AllAnswered
<1>5. Asks'[n][id] = 0 /\ Answers[n][id] = 0 /\ Answers'[n][id] = (IF AllAnswered(n, 0) THEN 1 ELSE 0)
      /\ ~Complete(n, id)
  BY <1>1, <1>3, AskedParts
<1>6. \A c \in Others : Parent[c] = n => /\ c # n /\ echo[c][id] = None /\ Asks[c][id] = 0 /\ Asks'[c][id] = 1
                                        /\ ~Complete(c, id) /\ echo'[c][id] = None
  BY <1>1, <1>2, <1>3, AskedParts, Family
<1>7. ASSUME NEW c \in Others, NEW i \in Requests
      PROVE  /\ echo'[Parent[c]][i] = None => echo'[c][i] = None /\ Asks'[c][i] = 0
             /\ Asks'[c][i] <= 1 /\ (echo'[c][i] # None => Asks'[c][i] = 0)
             /\ Answers'[c][i] <= 1 /\ (Answers'[c][i] = 1 => Complete(c, i)')
  <2>1. c \in Node /\ Parent[c] \in Node /\ Parent[c] # c /\ 0 # None
    BY Family DEF None
  <2>2. CASE c = n /\ i = id
    BY <1>1, <1>2, <1>4, <1>5, <2>1, <2>2
  <2>3. CASE Parent[c] = n /\ i = id
    BY <1>1, <1>2, <1>3, <1>4, <1>6, <2>1, <2>3, AskedParts
  <2>4. CASE i # id \/ (c # n /\ Parent[c] # n)
    <3>1. /\ Asks'[c][i] = Asks[c][i] /\ Answers'[c][i] = Answers[c][i] /\ echo'[c][i] = echo[c][i]
          /\ echo'[Parent[c]][i] = echo[Parent[c]][i] /\ (Complete(c, i)' <=> Complete(c, i))
      BY <1>2, <1>3, <1>4, <2>1, <2>4
    <3> QED
      BY <3>1, AskedParts
  <2> QED
    BY <2>2, <2>3, <2>4
<1>8. ASSUME NEW k \in Node, NEW i \in Requests PROVE Kept(k, i)
  <2>1. CASE k = n /\ i = id
    <3>1. \A c \in Childs(n) : ~Complete(c, id)' /\ Asks'[c][id] = 1
      BY <1>4, <1>6, Family
    <3>2. echo'[n][id] = 0
      BY <1>2
    <3> QED
      BY <1>1, <2>1, <3>1, <3>2, FreshKept
  <2>2. CASE k # n \/ i # id
    <3>1. echo'[k][i] = echo[k][i]
      BY <1>2, <2>2
    <3>2. ASSUME NEW c \in Childs(k)
          PROVE  /\ Complete(c, i)' /\ Answers'[c][i] = 0 <=> Complete(c, i) /\ Answers[c][i] = 0
                 /\ echo'[c][i] = None /\ Asks'[c][i] # 1 <=> echo[c][i] = None /\ Asks[c][i] # 1
      <4>1. c \in Others /\ c \in Node /\ Parent[c] = k /\ 0 # None
        BY Family DEF None
      <4>2. CASE c = n /\ i = id
        BY <1>1, <1>2, <1>4, <1>5, <4>1, <4>2
      <4>3. CASE c # n \/ i # id
        BY <1>2, <1>3, <1>4, <2>2, <4>1, <4>3
      <4> QED
        BY <4>2, <4>3
    <3> QED
      BY <3>1, <3>2, SameKept
  <2> QED
    BY <2>1, <2>2
<1> QED
  BY <1>7, <1>8 DEF Asked

LEMMA HearsKeeps ==
  ASSUME TypeOK, Asked, Counting, NEW n \in Node, NEW q \in Node, NEW id \in Requests, Hears(n, q, id)
  PROVE  Asked' /\ \A k \in Node, i \in Requests : Kept(k, i)
<1> DEFINE count == echo[n][id] + 1
<1>1. /\ q \in Others /\ Parent[q] = n /\ echo[n][id] # None /\ Answers[q][id] = 1 /\ q # n /\ q \in Childs(n)
      /\ Complete(q, id) /\ echo[n][id] \in Nat /\ count # None
  <2>1. q \in Others /\ Parent[q] = n /\ echo[n][id] # None /\ Answers[q][id] > 0
    BY DEF Hears
  <2>2. echo[n][id] \in Nat
    BY <2>1, ObservedType
  <2> QED
    BY <2>1, <2>2, AskedParts, Family DEF None
<1>2. \A k \in Node, i \in Requests : echo'[k][i] = IF k = n /\ i = id THEN count ELSE echo[k][i]
  BY DEF Hears
<1>3. \A c \in Others, i \in Requests :
       /\ Asks'[c][i] = Asks[c][i]
       /\ Answers'[c][i] = IF c = q /\ i = id THEN Answers[c][i] - 1
                           ELSE IF c = n /\ i = id /\ AllAnswered(n, count) THEN Answers[c][i] + 1
                           ELSE Answers[c][i]
  BY DEF Hears
<1>4. ~Complete(n, id) /\ (n \in Others => Answers[n][id] = 0)
  BY <1>1, Unfinished, NotAnswered
<1>5. \A k \in Node, i \in Requests :
        Complete(k, i)' <=> IF k = n /\ i = id THEN AllAnswered(n, count) ELSE Complete(k, i)
  BY <1>2 DEF Complete, AllAnswered
<1> HIDE DEF count
<1>6. ASSUME NEW c \in Others, NEW i \in Requests
      PROVE  /\ echo'[Parent[c]][i] = None => echo'[c][i] = None /\ Asks'[c][i] = 0
             /\ Asks'[c][i] <= 1 /\ (echo'[c][i] # None => Asks'[c][i] = 0)
             /\ Answers'[c][i] <= 1 /\ (Answers'[c][i] = 1 => Complete(c, i)')
  <2>1. c \in Node /\ Parent[c] \in Node /\ Parent[c] # c
    BY Family
  <2>2. /\ Asks[c][i] \in {0, 1} /\ (echo[Parent[c]][i] = None => echo[c][i] = None /\ Asks[c][i] = 0)
        /\ (echo[c][i] # None => Asks[c][i] = 0)
    BY AskedParts
  <2>3. Asks'[c][i] = Asks[c][i] /\ (echo'[c][i] = None <=> echo[c][i] = None)
        /\ (echo'[Parent[c]][i] = None <=> echo[Parent[c]][i] = None)
    BY <1>1, <1>2, <1>3, <2>1
  <2>4. Answers'[c][i] <= 1 /\ (Answers'[c][i] = 1 => Complete(c, i)')
    <3>1. CASE c = q /\ i = id
      BY <1>1, <1>3, <3>1
    <3>2. CASE c = n /\ i = id
      BY <1>1, <1>3, <1>4, <1>5, <3>2
    <3>3. CASE ~(c = q /\ i = id) /\ ~(c = n /\ i = id)
      BY <1>3, <1>5, <2>1, <3>3, AskedParts
    <3> QED
      BY <3>1, <3>2, <3>3
  <2> QED
    BY <2>2, <2>3, <2>4
<1>7. ASSUME NEW k \in Node, NEW i \in Requests PROVE Kept(k, i)
  <2>1. CASE k = n /\ i = id
    <3>1. /\ IsFiniteSet(Reporting(n, id)) /\ Cardinality(Reporting(n, id)) \in Nat
          /\ echo[n][id] <= Cardinality(Reporting(n, id))
      BY <1>1, ReportingType DEF Counting
    <3>2. q \notin Reporting(n, id)
      BY <1>1 DEF Reporting
    <3>3. Reporting(n, id)' = Reporting(n, id) \cup {q}
      <4>1. \A c \in Childs(n) : Complete(c, id)' /\ Answers'[c][id] = 0
                                   <=> c = q \/ (Complete(c, id) /\ Answers[c][id] = 0)
        <5> SUFFICES ASSUME NEW c \in Childs(n)
                     PROVE  Complete(c, id)' /\ Answers'[c][id] = 0
                              <=> c = q \/ (Complete(c, id) /\ Answers[c][id] = 0)
          OBVIOUS
        <5>1. c \in Others /\ c \in Node /\ c # n
          BY Family
        <5>2. (Complete(c, id)' <=> Complete(c, id)) /\ Answers'[c][id] = IF c = q THEN Answers[c][id] - 1 ELSE Answers[c][id]
          BY <1>3, <1>5, <5>1
        <5> QED
          BY <1>1, <5>1, <5>2
      <4> QED
        BY <1>1, <4>1 DEF Reporting
    <3>4. Cardinality(Reporting(n, id) \cup {q}) = Cardinality(Reporting(n, id)) + 1
      BY <3>1, <3>2, FS_AddElement
    <3>5. echo'[n][id] = count /\ count = echo[n][id] + 1
      BY <1>2 DEF count
    <3>6. \A c \in Childs(n) : (echo'[c][id] = None => Asks'[c][id] = 1) <=> (echo[c][id] = None => Asks[c][id] = 1)
      BY <1>2, <1>3, Family
    <3>7. Whole(n, id)' <=> Whole(n, id)
      <4>1. count = Cardinality(Reporting(n, id) \cup {q}) <=> echo[n][id] = Cardinality(Reporting(n, id))
        BY <1>1, <3>1, <3>4, <3>5
      <4> QED
        BY <3>3, <3>5, <3>6, <4>1 DEF Whole
    <3>8. count <= Cardinality(Reporting(n, id) \cup {q})
      BY <1>1, <3>1, <3>4, <3>5
    <3> QED
      BY <1>1, <2>1, <3>3, <3>5, <3>7, <3>8 DEF Kept
  <2>2. CASE k # n \/ i # id
    <3>1. echo'[k][i] = echo[k][i]
      BY <1>2, <2>2
    <3>2. ASSUME NEW c \in Childs(k)
          PROVE  /\ Complete(c, i)' /\ Answers'[c][i] = 0 <=> Complete(c, i) /\ Answers[c][i] = 0
                 /\ echo'[c][i] = None /\ Asks'[c][i] # 1 <=> echo[c][i] = None /\ Asks[c][i] # 1
      <4>1. c \in Others /\ c \in Node /\ Parent[c] = k
        BY Family
      <4>2. CASE c = n /\ i = id
        BY <1>1, <1>2, <1>3, <1>4, <1>5, <4>1, <4>2
      <4>3. CASE c # n \/ i # id
        BY <1>1, <1>2, <1>3, <1>5, <2>2, <4>1, <4>3
      <4> QED
        BY <4>2, <4>3
    <3> QED
      BY <3>1, <3>2, SameKept
  <2> QED
    BY <2>1, <2>2
<1> QED
  BY <1>6, <1>7 DEF Asked

LEMMA StartsKeeps ==
  ASSUME TypeOK, Asked, Counting, NEW id \in Requests, Starts(id), echo[Leader][id] = None
  PROVE  Asked' /\ \A k \in Node, i \in Requests : Kept(k, i)
<1>1. /\ \A k \in Node, i \in Requests : echo'[k][i] = IF k = Leader /\ i = id THEN 0 ELSE echo[k][i]
      /\ \A c \in Others, i \in Requests :
           /\ Asks'[c][i] = IF Parent[c] = Leader /\ i = id THEN Asks[c][i] + 1 ELSE Asks[c][i]
           /\ Answers'[c][i] = Answers[c][i]
  BY DEF Starts
<1>2. \A c \in Others : Parent[c] = Leader => /\ echo[c][id] = None /\ Asks[c][id] = 0 /\ Asks'[c][id] = 1
                                             /\ ~Complete(c, id)
  BY <1>1, AskedParts
<1>3. \A c \in Others, i \in Requests : echo'[c][i] = echo[c][i] /\ (Complete(c, i)' <=> Complete(c, i))
  BY <1>1, Family DEF Complete
<1>4. ASSUME NEW c \in Others, NEW i \in Requests
      PROVE  /\ echo'[Parent[c]][i] = None => echo'[c][i] = None /\ Asks'[c][i] = 0
             /\ Asks'[c][i] <= 1 /\ (echo'[c][i] # None => Asks'[c][i] = 0)
             /\ Answers'[c][i] <= 1 /\ (Answers'[c][i] = 1 => Complete(c, i)')
  <2>1. c \in Node /\ Parent[c] \in Node /\ 0 # None
    BY Family DEF None
  <2>2. CASE Parent[c] = Leader /\ i = id
    BY <1>1, <1>2, <1>3, <2>1, <2>2, AskedParts
  <2>3. CASE ~(Parent[c] = Leader /\ i = id)
    BY <1>1, <1>3, <2>1, <2>3, AskedParts
  <2> QED
    BY <2>2, <2>3
<1>5. ASSUME NEW k \in Node, NEW i \in Requests PROVE Kept(k, i)
  <2>1. CASE k = Leader /\ i = id
    <3>1. \A c \in Childs(Leader) : ~Complete(c, id)' /\ Asks'[c][id] = 1
      BY <1>2, <1>3, Family
    <3>2. echo'[Leader][id] = 0
      BY <1>1, Family
    <3> QED
      BY <2>1, <3>1, <3>2, FreshKept
  <2>2. CASE k # Leader \/ i # id
    <3>1. \A c \in Childs(k) : /\ c \in Others /\ Asks'[c][i] = Asks[c][i] /\ Answers'[c][i] = Answers[c][i]
                              /\ echo'[c][i] = echo[c][i] /\ (Complete(c, i)' <=> Complete(c, i))
      BY <1>1, <1>3, <2>2, Family
    <3>2. echo'[k][i] = echo[k][i]
      BY <1>1, <2>2
    <3> QED
      BY <3>1, <3>2, SameKept
  <2> QED
    BY <2>1, <2>2
<1> QED
  BY <1>4, <1>5 DEF Asked

LEMMA RestsKeeps ==
  ASSUME TypeOK, Asked, Counting, Rests
  PROVE  Asked' /\ \A k \in Node, i \in Requests : Kept(k, i)
<1>1. /\ \A k \in Node, i \in Requests : echo'[k][i] = echo[k][i] /\ (Complete(k, i)' <=> Complete(k, i))
      /\ \A c \in Others, i \in Requests : Asks'[c][i] = Asks[c][i] /\ Answers'[c][i] = Answers[c][i]
  BY DEF Rests, Complete
<1>2. Asked'
  BY <1>1, Family DEF Asked
<1>3. ASSUME NEW k \in Node, NEW i \in Requests PROVE Kept(k, i)
  <2>1. \A c \in Childs(k) : /\ c \in Others /\ Asks'[c][i] = Asks[c][i] /\ Answers'[c][i] = Answers[c][i]
                            /\ echo'[c][i] = echo[c][i] /\ (Complete(c, i)' <=> Complete(c, i))
    BY <1>1, Family
  <2> QED
    BY <1>1, <2>1, SameKept
<1> QED
  BY <1>2, <1>3

\* A loss leaves somebody waiting for ever.
LEMMA LosesBreaks ==
  ASSUME TypeOK, Asked, Counting, NEW c \in Others, NEW id \in Requests, Loses(c, id)
  PROVE  /\ Asked' /\ Counting'
         /\ echo[Parent[c]][id] # None /\ ~Whole(Parent[c], id)'
<1>1. /\ failed = "nothing" /\ failed' = "control"
      /\ \A k \in Node, i \in Requests : echo'[k][i] = echo[k][i] /\ (Complete(k, i)' <=> Complete(k, i))
  BY DEF Loses, Complete
<1>2. PICK a, b \in {0, 1} :
        /\ a + b = 1 /\ a <= Asks[c][id] /\ b <= Answers[c][id]
        /\ \A d \in Others, i \in Requests :
             /\ Asks'[d][i] = IF d = c /\ i = id THEN Asks[d][i] - a ELSE Asks[d][i]
             /\ Answers'[d][i] = IF d = c /\ i = id THEN Answers[d][i] - b ELSE Answers[d][i]
  <2>1. Asks \in [Others -> [Requests -> Nat]] /\ Answers \in [Others -> [Requests -> Nat]]
    BY ObservedType
  <2>2. CASE /\ Asks[c][id] > 0
             /\ \A d \in Others, i \in Requests :
                  /\ Asks'[d][i] = IF d = c /\ i = id THEN Asks[d][i] - 1 ELSE Asks[d][i]
                  /\ Answers'[d][i] = Answers[d][i]
    <3>1. /\ 1 + 0 = 1 /\ 1 <= Asks[c][id] /\ 0 <= Answers[c][id]
          /\ \A d \in Others, i \in Requests :
               /\ Asks'[d][i] = IF d = c /\ i = id THEN Asks[d][i] - 1 ELSE Asks[d][i]
               /\ Answers'[d][i] = IF d = c /\ i = id THEN Answers[d][i] - 0 ELSE Answers[d][i]
      BY <2>1, <2>2
    <3> QED
      BY <3>1
  <2>3. CASE /\ Answers[c][id] > 0
             /\ \A d \in Others, i \in Requests :
                  /\ Asks'[d][i] = Asks[d][i]
                  /\ Answers'[d][i] = IF d = c /\ i = id THEN Answers[d][i] - 1 ELSE Answers[d][i]
    <3>1. /\ 0 + 1 = 1 /\ 0 <= Asks[c][id] /\ 1 <= Answers[c][id]
          /\ \A d \in Others, i \in Requests :
               /\ Asks'[d][i] = IF d = c /\ i = id THEN Asks[d][i] - 0 ELSE Asks[d][i]
               /\ Answers'[d][i] = IF d = c /\ i = id THEN Answers[d][i] - 1 ELSE Answers[d][i]
      BY <2>1, <2>3
    <3> QED
      BY <3>1
  <2> QED
    BY <2>2, <2>3 DEF Loses
<1>3. \A d \in Others, i \in Requests :
        /\ Asks'[d][i] \in {0, 1} /\ Asks'[d][i] <= Asks[d][i]
        /\ Answers'[d][i] \in {0, 1} /\ Answers'[d][i] <= Answers[d][i]
  BY <1>2, AskedParts
<1>4. Asked'
  <2> SUFFICES ASSUME NEW d \in Others, NEW i \in Requests
               PROVE  /\ echo'[Parent[d]][i] = None => echo'[d][i] = None /\ Asks'[d][i] = 0
                      /\ Asks'[d][i] <= 1 /\ (echo'[d][i] # None => Asks'[d][i] = 0)
                      /\ Answers'[d][i] <= 1 /\ (Answers'[d][i] = 1 => Complete(d, i)')
    BY DEF Asked
  <2>1. d \in Node /\ Parent[d] \in Node
    BY Family
  <2>2. echo'[d][i] = echo[d][i] /\ echo'[Parent[d]][i] = echo[Parent[d]][i] /\ (Complete(d, i)' <=> Complete(d, i))
    BY <1>1, <2>1
  <2>3. Asks[d][i] \in {0, 1} /\ Answers[d][i] \in {0, 1}
    BY AskedParts
  <2>4. Asks'[d][i] \in {0, 1} /\ (Asks'[d][i] # 0 => Asks[d][i] # 0)
    BY <1>3, <2>3
  <2>5. Answers'[d][i] \in {0, 1} /\ (Answers'[d][i] # 0 => Answers[d][i] # 0)
    BY <1>3, <2>3
  <2> QED
    BY <2>2, <2>4, <2>5, AskedParts
<1>5. ASSUME NEW k \in Node, NEW i \in Requests
      PROVE  /\ Reporting(k, i) \subseteq Reporting(k, i)' /\ IsFiniteSet(Reporting(k, i)')
             /\ Cardinality(Reporting(k, i)) <= Cardinality(Reporting(k, i)')
             /\ Cardinality(Reporting(k, i)) \in Nat /\ Cardinality(Reporting(k, i)') \in Nat
  <2>1. \A d \in Childs(k) : Answers[d][i] = 0 => Answers'[d][i] = 0
    BY <1>3, Family
  <2>2. Reporting(k, i) \subseteq Reporting(k, i)' /\ Reporting(k, i)' \subseteq Childs(k) /\ IsFiniteSet(Childs(k))
    BY <1>1, <2>1, Family DEF Reporting
  <2>3. IsFiniteSet(Reporting(k, i)')
    BY <2>2, FS_Subset
  <2>4. Cardinality(Reporting(k, i)) <= Cardinality(Reporting(k, i)')
    BY <2>2, <2>3, FS_Subset
  <2> QED
    BY <2>2, <2>3, <2>4, FS_CardinalityType, FS_Subset
<1>6. Counting'
  <2>1. ASSUME NEW k \in Node, NEW i \in Requests, echo'[k][i] # None
        PROVE  echo'[k][i] <= Cardinality(Reporting(k, i)')
    <3>1. echo[k][i] <= Cardinality(Reporting(k, i)) /\ echo'[k][i] = echo[k][i] /\ echo[k][i] \in Nat
      BY <1>1, <2>1, ObservedType DEF Counting
    <3> QED
      BY <1>5, <3>1
  <2> QED
    BY <1>1, <2>1 DEF Counting
<1>7. echo[Parent[c]][id] # None
  BY <1>2, AskedParts
<1>8. Whole(Parent[c], id)
  BY <1>1, <1>7, Family DEF Counting
<1>9. ~Whole(Parent[c], id)'
  <2>1. c \in Node /\ Parent[c] \in Node /\ c \in Childs(Parent[c])
    BY Family
  <2>2. CASE a = 1
    <3>1. Asks[c][id] = 1 /\ Asks'[c][id] = 0 /\ echo'[c][id] = None
      BY <1>1, <1>2, <2>1, <2>2, AskedParts
    <3> QED
      BY <2>1, <3>1 DEF Whole
  <2>3. CASE b = 1
    <3>1. Answers[c][id] = 1 /\ Answers'[c][id] = 0 /\ Complete(c, id)
      BY <1>2, <2>3, AskedParts
    <3>2. c \notin Reporting(Parent[c], id) /\ c \in Reporting(Parent[c], id)'
      BY <1>1, <2>1, <3>1 DEF Reporting
    <3>3. Cardinality(Reporting(Parent[c], id)) # Cardinality(Reporting(Parent[c], id)')
      BY <1>5, <2>1, <3>2, FS_Subset
    <3>4. echo[Parent[c]][id] = Cardinality(Reporting(Parent[c], id)) /\ echo'[Parent[c]][id] = echo[Parent[c]][id]
      BY <1>1, <1>8, <2>1 DEF Whole
    <3>5. Whole(Parent[c], id)' => echo'[Parent[c]][id] = Cardinality(Reporting(Parent[c], id)')
      BY DEF Whole
    <3> QED
      BY <3>3, <3>4, <3>5
  <2> QED
    BY <1>2, <2>2, <2>3
<1> QED
  BY <1>4, <1>6, <1>7, <1>9

(***************************************************************************)
(* What the leader knows.                                                  *)
(***************************************************************************)
\* The invariant of the count.
Accounted == TypeOK /\ Fitting /\ Asked /\ Counting /\ Leading /\ Broken

\* What any node knows of, the leader has asked for.
LEMMA AllKnown ==
  ASSUME Asked, NEW n \in Node, NEW id \in Requests, echo[n][id] # None
  PROVE  echo[Leader][id] # None
<1> DEFINE S == {k \in Node : echo[k][id] # None}
<1>1. S \in SUBSET Node /\ n \in S
  OBVIOUS
<1>2. \A c \in Others : c \in S => Parent[c] \in S
  BY Family DEF Asked
<1>3. Leader \in S
  BY <1>1, <1>2, Spread
<1> QED
  BY <1>3

\* When the leader has all answers, nobody waits for any.
LEMMA AllDone ==
  ASSUME TypeOK, Asked, Counting, NEW id \in Requests, Complete(Leader, id)
  PROVE  /\ \A n \in Node : Complete(n, id) /\ Whole(n, id) /\ echo[n][id] # None
         /\ \A c \in Others : Answers[c][id] = 0 /\ Asks[c][id] = 0
<1> DEFINE S == {k \in Node : ~Complete(k, id)}
<1>1. \A c \in Others : c \in S => Parent[c] \in S
  BY CompleteBelow, Family
<1>2. S \in SUBSET Node /\ Leader \notin S
  OBVIOUS
<1>3. \A n \in Node : Complete(n, id)
  BY <1>1, <1>2, Spread
<1>4. \A c \in Others : c \in Node /\ Answers[c][id] = 0
  BY <1>3, CompleteBelow, Family
<1>5. \A n \in Node : echo[n][id] # None
  BY <1>3, Family DEF Complete, None
<1>6. ASSUME NEW n \in Node PROVE Whole(n, id)
  <2>1. Childs(n) \subseteq Others /\ echo[n][id] = Cardinality(Childs(n))
    BY <1>3, Family DEF Complete
  <2>2. Reporting(n, id) = Childs(n)
    BY <1>3, <1>4, <2>1 DEF Reporting
  <2> QED
    BY <1>4, <1>5, <2>1, <2>2 DEF Whole
<1>7. \A c \in Others : Asks[c][id] = 0
  BY <1>4, <1>5, AskedParts
<1> QED
  BY <1>3, <1>4, <1>5, <1>6, <1>7

\* The parts of Leading that are used.
LEMMA LeadingParts ==
  ASSUME TypeOK, Leading
  PROVE  /\ round \in Nat /\ round \in 0 .. MaxRounds /\ 1 .. round \subseteq Requests
         /\ \A id \in 1 .. round : id # Collect /\ (id \in accStateDone <=> Complete(Leader, id))
         /\ accStateDone \subseteq 1 .. round
         /\ HasConverged => /\ round > 1 /\ {round - 1, round} \subseteq 1 .. round
                            /\ Complete(Leader, round - 1) /\ Complete(Leader, round)
<1>1. /\ round \in Nat /\ round \in 0 .. MaxRounds /\ 1 .. round \subseteq Requests
      /\ \A id \in 1 .. round : id # Collect
  BY AllRequests DEF TypeOK, Requests
<1>2. accStateDone = {id \in 1 .. round : Complete(Leader, id)} /\ (HasConverged => Converged)
  BY DEF Leading
<1>3. HasConverged => {round - 1, round} \subseteq accStateDone
  BY <1>2 DEF Converged
<1>4. ASSUME HasConverged
      PROVE  /\ round > 1 /\ {round - 1, round} \subseteq 1 .. round
             /\ Complete(Leader, round - 1) /\ Complete(Leader, round)
  <2>1. {round - 1, round} \subseteq 1 .. round /\ Complete(Leader, round - 1) /\ Complete(Leader, round)
    BY <1>2, <1>3, <1>4
  <2> QED
    BY <1>1, <2>1
<1> QED
  BY <1>1, <1>2, <1>4

\* The invariants that follow from Kept.
LEMMA KeptCounting ==
  ASSUME \A k \in Node, i \in Requests : Kept(k, i), Counting,
         failed = "control" => failed' = "control"
  PROVE  Counting'
<1> SUFFICES ASSUME NEW n \in Node, NEW id \in Requests, echo'[n][id] # None
             PROVE  /\ echo'[n][id] <= Cardinality(Reporting(n, id)')
                    /\ failed' # "control" => Whole(n, id)'
  BY DEF Counting
<1>1. Kept(n, id)
  OBVIOUS
<1>2. echo[n][id] # None /\ failed # "control" => Whole(n, id)
  BY DEF Counting
<1> QED
  BY <1>1, <1>2 DEF Kept

LEMMA KeptBroken ==
  ASSUME TypeOK, \A k \in Node, i \in Requests : Kept(k, i), Broken, round' = round,
         HasConverged => HasConverged', failed' = "control" => failed = "control"
  PROVE  Broken'
<1> SUFFICES ASSUME failed' = "control", ~HasConverged'
             PROVE  round' > 0 /\ \E n \in Node : echo'[n][round'] # None /\ ~Whole(n, round)'
  BY DEF Broken
<1>1. round > 0 /\ \E n \in Node : echo[n][round] # None /\ ~Whole(n, round)
  BY DEF Broken
<1>2. PICK n \in Node : echo[n][round] # None /\ ~Whole(n, round)
  BY <1>1
<1>3. PICK id \in Requests : id = round
  BY AllRequests DEF TypeOK, Requests
<1>4. Kept(n, id) /\ echo[n][id] # None /\ ~Whole(n, id)
  BY <1>2, <1>3
<1>5. echo'[n][id] # None /\ ~Whole(n, id)'
  BY <1>4 DEF Kept
<1>6. ~Whole(n, round)'
  BY <1>3, <1>5 DEF Whole, Reporting, Complete
<1> QED
  BY <1>1, <1>3, <1>5, <1>6

\* A step that leaves the leader's variables alone.
LEMMA SameLeading ==
  ASSUME Leading, TypeOK, UNCHANGED <<accStateDone, accResultDone, round>>,
         echo'[Leader] = echo[Leader], accState'[Leader] = accState[Leader],
         HasConverged' <=> HasConverged, loop' = "elected" => loop = "elected"
  PROVE  Leading'
<1>1. \A id : Complete(Leader, id)' <=> Complete(Leader, id)
  BY DEF Complete
<1>2. \A id \in Requests : Begun(id)' <=> Begun(id)
  BY DEF Begun
<1>3. Converged' <=> Converged
  BY DEF Converged, Balanced
<1>4. \A id \in Requests : echo'[Leader][id] # None <=> Begun(id)'
  BY <1>2 DEF Leading
<1>5. accStateDone' = {id \in 1 .. round' : Complete(Leader, id)'}
  BY <1>1 DEF Leading
<1>6. accResultDone' <=> Complete(Leader, Collect)'
  BY <1>1 DEF Leading, Collect
<1>7. /\ \A id \in 1 .. round' : id < round' => id \in accStateDone'
      /\ HasConverged' => Converged'
      /\ loop' = "elected" => round' = 0
  BY <1>3 DEF Leading
<1> QED
  BY <1>4, <1>5, <1>6, <1>7 DEF Leading

LEMMA RequestedCounted ==
  ASSUME Accounted, TypeOK', NEW n \in Node, NEW q \in Node, NEW id \in Requests, Requested(n, q, id)
  PROVE  Accounted'
<1>1. n \in Others /\ Passes(n, id) /\ Fitting'
  BY RequestedPasses, ReturnsFit DEF Accounted
<1>2. Asked' /\ \A k \in Node, i \in Requests : Kept(k, i)
  BY <1>1, PassesKeeps DEF Accounted
<1>3. UNCHANGED <<loop, outbox, round, failed>>
  BY DEF Requested, loopVars
<1>4. n # Leader /\ Leader \in Node
  BY <1>1, Family
<1>5. /\ UNCHANGED <<accStateDone, accResultDone>>
      /\ \/ \E s : accState' = [accState EXCEPT ![n][id] = s]
         \/ accState' = accState
  <2>1. CASE id # Collect /\ AddsState(n, id, NoState, 0)
    BY <1>4, <2>1 DEF AddsState, result
  <2>2. CASE id = Collect /\ AddsResult(n, [agreement |-> TRUE, timestamp |-> tK[n]], 0)
    <3>1. accResultDone' = (accResultDone \/ (n = Leader /\ AllAnswered(n, 0)))
      BY <2>2 DEF AddsResult
    <3>2. accResultDone \in BOOLEAN
      BY DEF Accounted, TypeOK
    <3> QED
      BY <1>4, <2>2, <3>1, <3>2 DEF AddsResult, rounds
  <2> QED
    BY <2>1, <2>2 DEF Requested
<1>6. echo'[Leader] = echo[Leader] /\ accState'[Leader] = accState[Leader]
  <2>1. echo' = [echo EXCEPT ![n][id] = 0]
    BY DEF Requested, Returns
  <2>2. echo \in [Node -> [Requests -> Nat \cup {None}]] /\ accState \in [Node -> [1 .. MaxRounds -> State]]
    BY DEF Accounted, TypeOK
  <2> QED
    BY <1>4, <1>5, <2>1, <2>2
<1>7. HasConverged' <=> HasConverged
  BY <1>3 DEF HasConverged
<1>8. Leading'
  BY <1>3, <1>5, <1>6, <1>7, SameLeading DEF Accounted
<1>9. Counting' /\ Broken'
  BY <1>2, <1>3, <1>7, KeptCounting, KeptBroken DEF Accounted
<1> QED
  BY <1>1, <1>2, <1>8, <1>9 DEF Accounted

LEMMA RepliedCounted ==
  ASSUME Accounted, TypeOK', NEW n \in Node, NEW q \in Node, NEW id \in Requests, Replied(n, q, id)
  PROVE  Accounted'
<1> DEFINE count == echo[n][id] + 1
<1>1. Hears(n, q, id) /\ Fitting' /\ q \in Childs(n) /\ Answers[q][id] > 0
  BY RepliedHears, ReturnsFit, Family DEF Accounted, Hears
<1>2. Asked' /\ \A k \in Node, i \in Requests : Kept(k, i)
  BY <1>1, HearsKeeps DEF Accounted
<1>3. UNCHANGED <<loop, outbox, round, failed>> /\ echo[n][id] # None
  BY DEF Replied, loopVars
<1>4. HasConverged' <=> HasConverged
  BY <1>3 DEF HasConverged
<1>5. Counting' /\ Broken'
  BY <1>2, <1>3, <1>4, KeptCounting, KeptBroken DEF Accounted
<1>6. /\ echo \in [Node -> [Requests -> Nat \cup {None}]] /\ accState \in [Node -> [1 .. MaxRounds -> State]]
      /\ accResultDone \in BOOLEAN /\ Leader \in Node /\ echo' = [echo EXCEPT ![n][id] = count]
  BY Family DEF Accounted, TypeOK, Replied, Returns
<1>7. /\ accStateDone' = IF id # Collect /\ n = Leader /\ AllAnswered(n, count) THEN accStateDone \cup {id} ELSE accStateDone
      /\ accResultDone' = (accResultDone \/ (id = Collect /\ n = Leader /\ AllAnswered(n, count)))
      /\ \/ id # Collect /\ \E s : accState' = [accState EXCEPT ![n][id] = s]
         \/ accState' = accState
  <2> DEFINE m == Head(chan[q][n])
  <2>1. CASE id # Collect /\ AddsState(n, id, AddState(accState[n][id], m.state), count)
    BY <2>1, <1>6 DEF AddsState, result
  <2>2. CASE id = Collect /\ AddsResult(n, AddResult(accResult[n], m.result.agreement, m.result.timestamp), count)
    BY <2>2, <1>6 DEF AddsResult, rounds
  <2> QED
    BY <2>1, <2>2 DEF Replied
<1>8. Leading'
  <2>1. CASE n # Leader
    <3>1. echo'[Leader] = echo[Leader] /\ accState'[Leader] = accState[Leader]
      BY <1>6, <1>7, <2>1
    <3>2. UNCHANGED <<accStateDone, accResultDone>>
      BY <1>6, <1>7, <2>1
    <3> QED
      BY <1>3, <1>4, <2>1, <3>1, <3>2, SameLeading DEF Accounted
  <2>2. CASE n = Leader
    <3>1. ~Complete(Leader, id)
      BY <1>1, <2>2, Unfinished DEF Accounted
    <3>2. \A i \in Requests : /\ echo'[Leader][i] # None <=> echo[Leader][i] # None
                              /\ Complete(Leader, i)' <=> IF i = id THEN AllAnswered(Leader, count) ELSE Complete(Leader, i)
      <4>1. echo[Leader][id] \in Nat
        BY <1>3, <1>6, <2>2
      <4> QED
        BY <1>6, <2>2, <4>1 DEF Complete, AllAnswered, None
    <3> HIDE DEF count
    <3>3. Begun(id) /\ \A i \in Requests : Begun(i)' <=> Begun(i)
      BY <1>3, <1>4, <2>2 DEF Accounted, Leading, Begun
    <3>4. /\ round \in Nat /\ 1 .. round \subseteq Requests /\ (id # Collect => id \in 1 .. round)
          /\ \A i \in 1 .. round : i # Collect
      BY <3>3, LeadingParts, AllRequests DEF Accounted, Begun
    <3>5. accStateDone' = {i \in 1 .. round : Complete(Leader, i)'}
      <4>1. accStateDone = {i \in 1 .. round : Complete(Leader, i)}
        BY DEF Accounted, Leading
      <4>2. \A i \in 1 .. round : Complete(Leader, i)' <=> IF i = id THEN AllAnswered(Leader, count) ELSE Complete(Leader, i)
        BY <3>2, <3>4
      <4> QED
        BY <1>7, <2>2, <3>1, <3>4, <4>1, <4>2
    <3>6. accResultDone' <=> Complete(Leader, Collect)'
      <4>1. accResultDone <=> Complete(Leader, Collect)
        BY DEF Accounted, Leading
      <4> QED
        BY <1>7, <2>2, <3>1, <3>2, <4>1, AllRequests
    <3>7. HasConverged => Converged'
      <4> SUFFICES ASSUME HasConverged PROVE Converged'
        OBVIOUS
      <4>1. Complete(Leader, round - 1) /\ Complete(Leader, round) /\ Converged /\ {round - 1, round} \subseteq 1 .. round
        BY LeadingParts DEF Accounted, Leading
      <4>2. id # round - 1 /\ id # round
        BY <3>1, <4>1
      <4>3. accState'[Leader][round - 1] = accState[Leader][round - 1] /\ accState'[Leader][round] = accState[Leader][round]
        <5>1. {round - 1, round} \subseteq 1 .. MaxRounds
          BY <3>4, <4>1, AllRequests DEF Requests
        <5> QED
          BY <1>6, <1>7, <4>2, <5>1
      <4>4. accStateDone \subseteq accStateDone'
        BY <1>7
      <4> QED
        BY <1>3, <4>1, <4>3, <4>4 DEF Converged, Balanced
    <3>8. /\ \A i \in Requests : echo'[Leader][i] # None <=> Begun(i)'
          /\ \A i \in 1 .. round : i < round => i \in accStateDone'
      BY <1>7, <3>2, <3>3 DEF Accounted, Leading
    <3>9. loop' = "elected" => round' = 0
      BY <1>3 DEF Accounted, Leading
    <3> QED
      BY <1>3, <1>4, <3>5, <3>6, <3>7, <3>8, <3>9 DEF Leading
  <2> QED
    BY <2>1, <2>2
<1> QED
  BY <1>1, <1>2, <1>5, <1>8 DEF Accounted

\* A new round, and the collection.
LEMMA NextRoundCounted == ASSUME Accounted, TypeOK', NextRound PROVE Accounted'
<1>1. PICK id \in Requests : id = round + 1 /\ Starts(id) /\ echo' = [echo EXCEPT ![Leader][id] = 0]
  BY StartStep DEF Accounted
<1>2. /\ loop = "count" /\ loop' = "count" /\ round' = round + 1 /\ failed' = failed
      /\ UNCHANGED <<accStateDone, accResultDone>> /\ round \in {0} \cup accStateDone
  BY DEF NextRound, At, result
<1>3. /\ ~HasConverged /\ ~HasConverged' /\ round \in Nat /\ id \in 1 .. round' /\ id # Collect
      /\ 1 .. round \subseteq Requests /\ \A i \in 1 .. round : i # id
  BY <1>1, <1>2, LeadingParts, AllRequests DEF HasConverged, Accounted, Collect
<1>4. echo[Leader][id] = None
  BY <1>1, <1>3 DEF Accounted, Leading, Begun
<1>5. Asked' /\ \A k \in Node, i \in Requests : Kept(k, i)
  BY <1>1, <1>4, StartsKeeps DEF Accounted
<1>6. Fitting'
  BY StartFits DEF Accounted
<1>7. Counting'
  BY <1>2, <1>5, KeptCounting DEF Accounted
<1>8. Broken'
  <2> SUFFICES ASSUME failed = "control" PROVE FALSE
    BY <1>2 DEF Broken
  <2>1. round > 0 /\ \E n \in Node : ~Whole(n, round)
    BY <1>3 DEF Accounted, Broken
  <2>2. round \in 1 .. round /\ round \in accStateDone
    BY <1>2, <1>3, <2>1
  <2>3. Complete(Leader, round) /\ round \in Requests
    BY <1>3, <2>2, LeadingParts DEF Accounted
  <2>4. PICK i \in Requests : i = round
    BY <2>3
  <2>5. \A n \in Node : Whole(n, i)
    BY <2>3, <2>4, AllDone DEF Accounted
  <2> QED
    BY <2>1, <2>4, <2>5
<1>9. Leading'
  <2>1. /\ \A i \in Requests : echo'[Leader][i] = IF i = id THEN 0 ELSE echo[Leader][i]
        /\ Cardinality(Childs(Leader)) \in Nat /\ Cardinality(Childs(Leader)) > 0 /\ 0 # None
    BY <1>1, Family DEF Starts, None
  <2>2. \A i \in Requests : Complete(Leader, i)' <=> i # id /\ Complete(Leader, i)
    BY <2>1 DEF Complete
  <2>3. ~Complete(Leader, id)
    BY <1>4, <2>1 DEF Complete, None
  <2>4. accStateDone' = {i \in 1 .. round' : Complete(Leader, i)'}
    <3>1. accStateDone = {i \in 1 .. round : Complete(Leader, i)}
      BY DEF Accounted, Leading
    <3>2. \A i \in 1 .. round' : i = id \/ i \in 1 .. round
      BY <1>1, <1>2, <1>3
    <3>3. 1 .. round \subseteq 1 .. round'
      BY <1>2, <1>3
    <3>4. \A i \in 1 .. round' : Complete(Leader, i)' <=> i \in 1 .. round /\ Complete(Leader, i)
      BY <1>1, <1>3, <2>2, <2>3, <3>2
    <3> QED
      BY <1>2, <3>1, <3>3, <3>4
  <2>5. accResultDone' <=> Complete(Leader, Collect)'
    BY <1>2, <1>3, <2>2, AllRequests DEF Accounted, Leading
  <2>6. ASSUME NEW i \in Requests PROVE echo'[Leader][i] # None <=> Begun(i)'
    <3>1. Begun(i)' <=> i = id \/ Begun(i)
      <4>1. i \in Nat /\ round \in Nat
        BY <1>3, AllRequests
      <4> QED
        BY <1>1, <1>2, <1>3, <4>1 DEF Begun
    <3>2. echo[Leader][i] # None <=> Begun(i)
      BY DEF Accounted, Leading
    <3> QED
      BY <2>1, <3>1, <3>2
  <2>7. \A i \in 1 .. round' : i < round' => i \in accStateDone'
    <3> SUFFICES ASSUME NEW i \in 1 .. round', i < round' PROVE i \in accStateDone
      BY <1>2
    <3>1. i \in 1 .. round /\ (i = round \/ i < round)
      BY <1>2, <1>3
    <3> QED
      BY <1>2, <3>1 DEF Accounted, Leading
  <2> QED
    BY <1>2, <1>3, <2>4, <2>5, <2>6, <2>7 DEF Leading
<1> QED
  BY <1>5, <1>6, <1>7, <1>8, <1>9 DEF Accounted

LEMMA StartCollectCounted == ASSUME Accounted, TypeOK', StartCollect PROVE Accounted'
<1>1. /\ loop = "count" /\ loop' = "collect" /\ Converged /\ failed' = failed
      /\ UNCHANGED <<accState, accStateDone, accResultDone, round>>
  BY DEF StartCollect, At, rounds
<1>2. ~NextRound
  BY <1>1 DEF NextRound
<1>3. Starts(Collect) /\ Collect \in Requests
  BY <1>2, StartStep DEF Accounted
<1>4. ~HasConverged /\ HasConverged'
  BY <1>1 DEF HasConverged
<1>5. echo[Leader][Collect] = None
  BY <1>3, <1>4 DEF Accounted, Leading, Begun
<1>6. Asked' /\ \A k \in Node, i \in Requests : Kept(k, i)
  BY <1>3, <1>5, StartsKeeps DEF Accounted
<1>7. Fitting' /\ Counting' /\ Broken'
  <2>1. Fitting'
    BY StartFits DEF Accounted
  <2>2. Counting'
    BY <1>1, <1>6, KeptCounting DEF Accounted
  <2>3. Broken'
    BY <1>4 DEF Broken
  <2> QED
    BY <2>1, <2>2, <2>3
<1>8. Leading'
  <2>1. /\ \A i \in Requests : echo'[Leader][i] = IF i = Collect THEN 0 ELSE echo[Leader][i]
        /\ Cardinality(Childs(Leader)) \in Nat /\ Cardinality(Childs(Leader)) > 0 /\ 0 # None
    BY <1>3, Family DEF Starts, None
  <2>2. \A i \in Requests : Complete(Leader, i)' <=> i # Collect /\ Complete(Leader, i)
    BY <2>1 DEF Complete
  <2>3. ~Complete(Leader, Collect)
    BY <1>5, <2>1 DEF Complete, None
  <2>4. accStateDone' = {i \in 1 .. round' : Complete(Leader, i)'}
    <3>1. accStateDone = {i \in 1 .. round : Complete(Leader, i)}
      BY DEF Accounted, Leading
    <3>2. \A i \in 1 .. round : Complete(Leader, i)' <=> Complete(Leader, i)
      BY <2>2, LeadingParts DEF Accounted
    <3> QED
      BY <1>1, <3>1, <3>2
  <2>5. accResultDone' <=> Complete(Leader, Collect)'
    BY <1>1, <1>3, <2>2, <2>3 DEF Accounted, Leading
  <2>6. \A i \in Requests : echo'[Leader][i] # None <=> Begun(i)'
    BY <1>1, <1>4, <2>1 DEF Accounted, Leading, Begun
  <2>7. \A i \in 1 .. round' : i < round' => i \in accStateDone'
    BY <1>1 DEF Accounted, Leading
  <2>8. Converged'
    BY <1>1 DEF Converged, Balanced
  <2> QED
    BY <1>1, <2>4, <2>5, <2>6, <2>7, <2>8 DEF Leading
<1> QED
  BY <1>6, <1>7, <1>8 DEF Accounted

\* A step of the vote, and the others of the loop.
LEMMA RestsCounted ==
  ASSUME Accounted, TypeOK', Rests, [Next]_vars, UNCHANGED <<echo, accStateDone, accResultDone, accState, round>>,
         HasConverged' <=> HasConverged, loop' = "elected" => loop = "elected"
  PROVE  Accounted'
<1>1. Asked' /\ \A k \in Node, i \in Requests : Kept(k, i)
  BY RestsKeeps DEF Accounted
<1>2. failed' = "control" <=> failed = "control"
  BY DEF Rests
<1>3. Counting' /\ Broken'
  BY <1>1, <1>2, KeptCounting, KeptBroken DEF Accounted
<1>4. Leading'
  BY SameLeading DEF Accounted
<1>5. Fitting'
  BY FittingNext DEF Accounted
<1> QED
  BY <1>1, <1>3, <1>4, <1>5 DEF Accounted

LEMMA LossCounted ==
  ASSUME Accounted, TypeOK', NEW p \in Node, NEW q \in Node, SendFails(p, q)
  PROVE  Accounted'
<1>1. PICK id \in Requests, c \in Others : Loses(c, id)
  BY LossStep DEF Accounted
<1>2. Asked' /\ Counting' /\ echo[Parent[c]][id] # None /\ ~Whole(Parent[c], id)'
  BY <1>1, LosesBreaks DEF Accounted
<1>3. UNCHANGED <<echo, accState, accStateDone, accResultDone, loop, round>> /\ failed = "nothing"
  BY DEF SendFails, CanFail, rounds, result, loopVars
<1>4. HasConverged' <=> HasConverged
  BY <1>3 DEF HasConverged
<1>5. Leading'
  BY <1>3, <1>4, SameLeading DEF Accounted
<1>6. Fitting'
  BY LossFits DEF Accounted
<1>7. Broken'
  <2> SUFFICES ASSUME ~HasConverged
               PROVE  round > 0 /\ \E n \in Node : echo[n][round] # None /\ ~Whole(n, round)'
    BY <1>3, <1>4 DEF Broken
  <2>1. c \in Node /\ Parent[c] \in Node
    BY Family
  <2>2. Begun(id)
    BY <1>2, <2>1, AllKnown DEF Accounted, Leading
  <2>3. id # Collect /\ id <= round /\ id \in 1 .. round /\ round \in Nat
    BY <2>2, LeadingParts, AllRequests DEF Begun, Accounted
  <2>4. ~Complete(Leader, id)
    <3> SUFFICES ASSUME Complete(Leader, id) PROVE FALSE
      OBVIOUS
    <3>1. Answers[c][id] = 0 /\ Asks[c][id] = 0
      BY AllDone DEF Accounted
    <3> QED
      BY <1>1, <3>1 DEF Loses
  <2>5. id = round
    BY <2>3, <2>4, LeadingParts DEF Accounted, Leading
  <2>6. ~Whole(Parent[c], round)'
    BY <1>2, <1>3, <2>5
  <2> QED
    BY <1>2, <2>1, <2>3, <2>5, <2>6
<1> QED
  BY <1>2, <1>5, <1>6, <1>7 DEF Accounted

LEMMA CountedNext == TypeOK' /\ Accounted /\ [Next]_vars => Accounted'
<1> SUFFICES ASSUME TypeOK', Accounted, [Next]_vars PROVE Accounted'
  OBVIOUS
<1>0. TypeOK
  BY DEF Accounted
<1>1. ASSUME NEW n \in Node, NEW q \in Node, Handle(n, q) PROVE Accounted'
  <2>1. CASE handle_voteBegin(n, q) \/ handle_proposal(n, q) \/ handle_proposalResponse(n, q)
    <3>1. Rests
      BY <1>0, <2>1, VoteRests
    <3>2. UNCHANGED <<echo, accStateDone, accResultDone, accState, round, loop>>
      BY <1>0, <2>1, VoteStep DEF rounds, result, loopVars
    <3>3. HasConverged' <=> HasConverged
      BY <3>2 DEF HasConverged
    <3> QED
      BY <3>1, <3>2, <3>3, RestsCounted
  <2>2. CASE handle_stateRequest(n, q) \/ handle_collectRequest(n, q)
    BY <1>0, <2>2, RequestStep, RequestedCounted
  <2>3. CASE handle_stateResponse(n, q) \/ handle_collect(n, q)
    BY <1>0, <2>3, AnswerStep, RepliedCounted
  <2> QED
    BY <1>1, <2>1, <2>2, <2>3 DEF Handle
<1>2. CASE BeginVote \/ CheckResult \/ (\E r \in Node : LoopSend(r) \/ LoopSendFails(r)) \/ UNCHANGED vars
  <2>1. Rests
    BY <1>0, <1>2, BeginRests, LoopRests, OtherRests
  <2>2. /\ UNCHANGED <<echo, accStateDone, accResultDone, accState, round>>
        /\ loop' = loop \/ (loop = "elected" /\ loop' = "count") \/ (loop = "collect" /\ loop' \in {"done", "stuck"})
    BY <1>2 DEF BeginVote, At, CheckResult, LoopSend, LoopSendFails, vars, votes, rounds, result, loopVars
  <2>3. (HasConverged' <=> HasConverged) /\ (loop' = "elected" => loop = "elected")
    BY <2>2 DEF HasConverged
  <2> QED
    BY <2>1, <2>2, <2>3, RestsCounted
<1> QED
  BY <1>1, <1>2, NextRoundCounted, StartCollectCounted, LossCounted DEF Next, leaderLoop

LEMMA CountedInit == Init => Accounted
<1> SUFFICES ASSUME Init PROVE Accounted
  OBVIOUS
<1>1. TypeOK
  BY TypesInit
<1>2. /\ \A p, r \in Node : chan[p][r] = <<>> /\ outbox[r] = <<>>
      /\ \A n \in Node, id \in Requests : echo[n][id] = None
      /\ round = 0 /\ accStateDone = {} /\ accResultDone = FALSE /\ loop = "elected" /\ failed = "nothing"
  BY DEF Init, EmptyNet, Nothing
<1>3. ASSUME NEW c \in Others, NEW id \in Requests PROVE Asks[c][id] = 0 /\ Answers[c][id] = 0
  <2>1. c \in Node /\ Parent[c] \in Node
    BY Family
  <2>2. /\ \A S : Copies(outbox[c], S) = 0
        /\ \A S : InFlight(chan, Parent[c], c, S) = 0 /\ InFlight(chan, c, Parent[c], S) = 0
    BY <1>2, <2>1, CopiesFew DEF InFlight
  <2> QED
    BY <2>2, Observed
<1>4. Fitting
  BY <1>2, EmptySeq DEF Fitting
<1>5. Asked
  BY <1>2, <1>3, Family DEF Asked
<1>6. Counting
  BY <1>2 DEF Counting
<1>7. \A id \in Requests : ~Complete(Leader, id)
  BY <1>2, Family DEF Complete, None
<1>8. Leading
  <2>1. \A id \in Requests : ~Begun(id)
    BY <1>2, AllRequests DEF Begun, HasConverged, Requests
  <2>2. 1 .. round = {}
    BY <1>2
  <2>3. ~HasConverged
    BY <1>2 DEF HasConverged
  <2> QED
    BY <1>2, <1>7, <2>1, <2>2, <2>3, Family, AllRequests DEF Leading
<1>9. Broken
  BY <1>2 DEF Broken
<1> QED
  BY <1>1, <1>4, <1>5, <1>6, <1>8, <1>9 DEF Accounted

-----------------------------------------------------------------------------
(***************************************************************************)
(* What follows from it.                                                   *)
(***************************************************************************)
LEMMA CountedAnswers == Accounted => AnswersConserved
<1> SUFFICES ASSUME Accounted, NEW n \in Node, NEW id \in Requests, echo[n][id] # None
             PROVE  LET all == echo[n][id] + Total([c \in Childs(n) |-> Outstanding(n, c, id)])
                    IN /\ all <= Cardinality(Childs(n))
                       /\ failed # "control" => all = Cardinality(Childs(n))
  BY DEF AnswersConserved
<1> DEFINE f == [c \in Childs(n) |-> Outstanding(n, c, id)]
           U == {c \in Childs(n) : f[c] = 1}
           R == Reporting(n, id)
<1>1. /\ IsFiniteSet(Childs(n)) /\ Cardinality(Childs(n)) \in Nat /\ echo[n][id] \in Nat
      /\ echo[n][id] <= Cardinality(R) /\ (failed # "control" => Whole(n, id))
  BY Family, ObservedType DEF Accounted, Counting
<1>2. ASSUME NEW c \in Childs(n)
      PROVE  /\ f[c] \in {0, 1} /\ (c \in R => f[c] = 0)
             /\ (echo[c][id] = None => Asks[c][id] = 1) /\ c \notin R => f[c] = 1
  <2>1. c \in Others /\ Parent[c] = n
    BY Family
  <2>2. f[c] = Asks[c][id] + (IF AtWork(c, id) THEN 1 ELSE 0) + Answers[c][id]
    BY <2>1 DEF Outstanding, Asks, Answers
  <2>3. AtWork(c, id) <=> echo[c][id] # None /\ ~Complete(c, id)
    BY DEF AtWork, AllAnswered, Complete
  <2>4. c \in R <=> Complete(c, id) /\ Answers[c][id] = 0
    BY DEF Reporting
  <2>5. /\ Asks[c][id] \in {0, 1} /\ Answers[c][id] \in {0, 1}
        /\ echo[c][id] # None => Asks[c][id] = 0
        /\ Answers[c][id] # 0 => Complete(c, id)
        /\ Complete(c, id) => echo[c][id] # None
    BY <2>1, AskedParts DEF Accounted
  <2> HIDE DEF f, R
  <2> QED
    BY <2>2, <2>3, <2>4, <2>5
<1>3. f \in [Childs(n) -> Nat] /\ \A c \in Childs(n) : f[c] <= 1
  <2>1. f = [c \in Childs(n) |-> f[c]]
    OBVIOUS
  <2> HIDE DEF f
  <2> QED
    BY <1>2, <2>1
<1> HIDE DEF f
<1>4. Total(f) = Cardinality(U)
  BY <1>1, <1>3, TotalOnes
<1>5. R \in SUBSET Childs(n) /\ U \in SUBSET Childs(n) /\ R \cap U = {}
  BY <1>2, ReportingType
<1>6. IsFiniteSet(R) /\ IsFiniteSet(U)
  BY <1>1, <1>5, FS_Subset
<1>7. /\ IsFiniteSet(R \cup U) /\ Cardinality(R) \in Nat /\ Cardinality(U) \in Nat
      /\ Cardinality(R \cup U) = Cardinality(R) + Cardinality(U)
  BY <1>5, <1>6, DisjointSize
<1>8. Cardinality(R \cup U) <= Cardinality(Childs(n))
  BY <1>1, <1>5, FS_Subset
<1>9. Whole(n, id) => R \cup U = Childs(n) /\ echo[n][id] = Cardinality(R)
  <2>1. Whole(n, id) => \A c \in Childs(n) : c \in R \/ c \in U
    BY <1>2 DEF Whole
  <2> QED
    BY <1>5, <2>1 DEF Whole
<1> HIDE DEF R, U
<1>10. echo[n][id] + Total(f) <= Cardinality(Childs(n))
  BY <1>1, <1>4, <1>7, <1>8
<1>11. failed # "control" => echo[n][id] + Total(f) = Cardinality(Childs(n))
  BY <1>1, <1>4, <1>7, <1>9
<1> QED
  BY <1>10, <1>11 DEF f

LEMMA CountedAlone == Accounted => CollectsAlone
<1> SUFFICES ASSUME Accounted, At("count"), Converged, NEW q \in Node, NEW i \in DOMAIN chan[q][Leader]
             PROVE  chan[q][Leader][i] \in Vote
  BY DEF CollectsAlone
<1>1. Leader \in Node /\ Leader \notin Childs(q)
  BY Family
<1>2. Fits(q, Leader, chan[q][Leader][i])
  BY <1>1 DEF Accounted, Fitting
<1>3. ASSUME q \in Childs(Leader), NEW id \in Requests, chan[q][Leader][i] = Answer(q, id) PROVE FALSE
  <2>1. q \in Others /\ Answers[q][id] > 0
    BY <1>1, <1>3, AnswerForm, Found DEF Accounted
  <2>2. echo[q][id] # None
    BY <2>1, AskedParts DEF Accounted
  <2>3. Begun(id) /\ ~HasConverged
    BY <1>1, <2>2, AllKnown DEF Accounted, Leading, At, HasConverged
  <2>4. id \in 1 .. round /\ round \in Nat
    BY <2>3, LeadingParts, AllRequests DEF Begun, Accounted
  <2>5. id \in accStateDone
    <3>1. round \in accStateDone
      BY DEF Converged
    <3> QED
      BY <2>4, <3>1 DEF Accounted, Leading
  <2>6. Complete(Leader, id)
    BY <2>4, <2>5, LeadingParts DEF Accounted
  <2> QED
    BY <2>1, <2>6, AllDone DEF Accounted
<1> QED
  BY <1>1, <1>2, <1>3 DEF Fits

\* Of every request, each child of a node that knows it is still to be asked, has been
\* asked, is at work, has answered or is counted, and only one of these, unless a message
\* of the count is lost (AnswersConserved): on every graph and tree.
THEOREM AnswersCounted == Spec => []AnswersConserved
<1>1. Spec => []Accounted
  BY TypesInit, TypesNext, CountedInit, CountedNext, PTL DEF Spec, Accounted
<1> QED
  BY <1>1, CountedAnswers, PTL

\* When the loop starts the collection, no handler of the leader has any work left that
\* would use the maps the loop writes without echoLock (CollectsAlone).
THEOREM CollectionAlone == Spec => []CollectsAlone
<1>1. Spec => []Accounted
  BY TypesInit, TypesNext, CountedInit, CountedNext, PTL DEF Spec, Accounted
<1> QED
  BY <1>1, CountedAlone, PTL

-----------------------------------------------------------------------------
(***************************************************************************)
(* Two equal counts.  Sum(id) is what the count id will come to if nothing *)
(* more is counted: what the nodes have added up and not passed on yet,    *)
(* and the own states of those that are still to add theirs.               *)
(***************************************************************************)
\* Sums of states.
AtMost(s, t) == s.in <= t.in /\ s.out <= t.out
SumState(f) == [in |-> Total([n \in DOMAIN f |-> f[n].in]), out |-> Total([n \in DOMAIN f |-> f[n].out])]

Passed(n, id) == n # Leader /\ Complete(n, id) /\ Answers[n][id] = 0
Part(n, id) == IF Passed(n, id) THEN NoState
               ELSE IF Complete(n, id) THEN accState[n][id]
               ELSE AddState(accState[n][id], OwnState(n))
Sum(id) == SumState([n \in Node |-> Part(n, id)])
Now == SumState([n \in Node |-> OwnState(n)])

\* Of an unknown round nothing has been added up; no sum is ahead of the counters; and
\* the sum of a round is not behind the last one, and no vote is left if it is the same.
Unknown == \A n \in Node, id \in 1 .. MaxRounds : echo[n][id] = None => accState[n][id] = NoState
NoneAhead == \A id \in 1 .. MaxRounds : AtMost(Sum(id), Now)
Behind ==
  failed # "control" /\ round > 1 =>
    /\ AtMost(accState[Leader][round - 1], Sum(round))
    /\ accState[Leader][round - 1] = Sum(round) /\ Balanced(round - 1) => Quiet

\* Numbers of votes.
LEMMA SumStateType ==
  ASSUME NEW f \in [Node -> State]
  PROVE  /\ SumState(f) \in State
         /\ SumState(f).in = Total([n \in Node |-> f[n].in]) /\ [n \in Node |-> f[n].in] \in [Node -> Nat]
         /\ SumState(f).out = Total([n \in Node |-> f[n].out]) /\ [n \in Node |-> f[n].out] \in [Node -> Nat]
<1>1. /\ IsFiniteSet(Node)
      /\ [n \in Node |-> f[n].in] \in [Node -> Nat] /\ [n \in Node |-> f[n].out] \in [Node -> Nat]
  BY NodeAssumption DEF State
<1>2. Total([n \in Node |-> f[n].in]) \in Nat /\ Total([n \in Node |-> f[n].out]) \in Nat
  BY <1>1, TotalType
<1>3. SumState(f) = [in |-> Total([n \in Node |-> f[n].in]), out |-> Total([n \in Node |-> f[n].out])]
  BY DEF SumState
<1> QED
  BY <1>1, <1>2, <1>3 DEF State

\* One node changes.
LEMMA SumStateChange ==
  ASSUME NEW f \in [Node -> State], NEW g \in [Node -> State], NEW a \in Node,
         \A n \in Node : n # a => g[n] = f[n]
  PROVE  /\ SumState(g).in + f[a].in = SumState(f).in + g[a].in
         /\ SumState(g).out + f[a].out = SumState(f).out + g[a].out
<1> DEFINE fi == [n \in Node |-> f[n].in]
           gi == [n \in Node |-> g[n].in]
           fo == [n \in Node |-> f[n].out]
           go == [n \in Node |-> g[n].out]
<1>1. /\ IsFiniteSet(Node) /\ fi \in [Node -> Nat] /\ gi \in [Node -> Nat] /\ fo \in [Node -> Nat] /\ go \in [Node -> Nat]
      /\ SumState(f).in = Total(fi) /\ SumState(g).in = Total(gi)
      /\ SumState(f).out = Total(fo) /\ SumState(g).out = Total(go)
  BY NodeAssumption, SumStateType
<1>2. /\ \A n \in Node : n # a => gi[n] = fi[n] /\ go[n] = fo[n]
      /\ fi[a] = f[a].in /\ gi[a] = g[a].in /\ fo[a] = f[a].out /\ go[a] = g[a].out
  OBVIOUS
<1> HIDE DEF fi, gi, fo, go
<1>3. Total(gi) + fi[a] = Total(fi) + gi[a]
  BY <1>1, <1>2, TotalChange
<1>4. Total(go) + fo[a] = Total(fo) + go[a]
  BY <1>1, <1>2, TotalChange
<1> QED
  BY <1>1, <1>2, <1>3, <1>4

\* A state is its two fields.
LEMMA StateFields ==
  /\ NoState \in State /\ NoState.in = 0 /\ NoState.out = 0
  /\ \A s, t \in State : /\ s.in \in Nat /\ s.out \in Nat
                         /\ AddState(s, t) \in State
                         /\ AddState(s, t).in = s.in + t.in /\ AddState(s, t).out = s.out + t.out
                         /\ (s = t <=> s.in = t.in /\ s.out = t.out)
<1>1. NoState \in State /\ NoState.in = 0 /\ NoState.out = 0
  BY DEF NoState, State
<1>2. ASSUME NEW s \in State, NEW t \in State
      PROVE  /\ s.in \in Nat /\ s.out \in Nat
             /\ AddState(s, t) \in State
             /\ AddState(s, t).in = s.in + t.in /\ AddState(s, t).out = s.out + t.out
             /\ (s = t <=> s.in = t.in /\ s.out = t.out)
  BY DEF AddState, State
<1> QED
  BY <1>1, <1>2

\* One passes on what it has to another.
LEMMA SumStateMove ==
  ASSUME NEW f \in [Node -> State], NEW g \in [Node -> State], NEW a \in Node, NEW b \in Node, a # b,
         \A n \in Node : n # a /\ n # b => g[n] = f[n],
         g[a] = AddState(f[a], f[b]), g[b] = NoState
  PROVE  SumState(g) = SumState(f)
<1> DEFINE h == [n \in Node |-> IF n = b THEN NoState ELSE f[n]]
<1>1. /\ h \in [Node -> State] /\ (\A n \in Node : n # b => h[n] = f[n]) /\ h[b] = NoState
      /\ h[a] = f[a] /\ \A n \in Node : n # a => g[n] = h[n]
  BY StateFields
<1> HIDE DEF h
<1>2. /\ SumState(h).in + f[b].in = SumState(f).in + h[b].in
      /\ SumState(h).out + f[b].out = SumState(f).out + h[b].out
  BY <1>1, SumStateChange
<1>3. /\ SumState(g).in + h[a].in = SumState(h).in + g[a].in
      /\ SumState(g).out + h[a].out = SumState(h).out + g[a].out
  BY <1>1, SumStateChange
<1>4. SumState(f) \in State /\ SumState(g) \in State /\ SumState(h) \in State /\ f[a] \in State /\ f[b] \in State
  BY <1>1, SumStateType
<1>5. /\ h[b].in = 0 /\ h[b].out = 0 /\ g[a].in = f[a].in + f[b].in /\ g[a].out = f[a].out + f[b].out
      /\ f[a].in \in Nat /\ f[a].out \in Nat /\ f[b].in \in Nat /\ f[b].out \in Nat
      /\ SumState(f).in \in Nat /\ SumState(f).out \in Nat /\ SumState(g).in \in Nat /\ SumState(g).out \in Nat
      /\ SumState(h).in \in Nat /\ SumState(h).out \in Nat
  <2>1. /\ h[b].in = 0 /\ h[b].out = 0
        /\ AddState(f[a], f[b]).in = f[a].in + f[b].in /\ AddState(f[a], f[b]).out = f[a].out + f[b].out
    BY <1>1, <1>4, StateFields
  <2>2. /\ f[a].in \in Nat /\ f[a].out \in Nat /\ f[b].in \in Nat /\ f[b].out \in Nat
        /\ SumState(f).in \in Nat /\ SumState(f).out \in Nat /\ SumState(g).in \in Nat /\ SumState(g).out \in Nat
        /\ SumState(h).in \in Nat /\ SumState(h).out \in Nat
    BY <1>4, StateFields
  <2> QED
    BY <2>1, <2>2
<1>6. SumState(g).in = SumState(f).in /\ SumState(g).out = SumState(f).out
  BY <1>1, <1>2, <1>3, <1>5
<1> QED
  BY <1>4, <1>6, StateFields

\* One has it all.
LEMMA SumStateOne ==
  ASSUME NEW f \in [Node -> State], NEW a \in Node, \A n \in Node : n # a => f[n] = NoState
  PROVE  SumState(f) = f[a]
<1> DEFINE fi == [n \in Node |-> f[n].in]
           fo == [n \in Node |-> f[n].out]
<1>1. /\ IsFiniteSet(Node) /\ fi \in [Node -> Nat] /\ fo \in [Node -> Nat]
      /\ SumState(f).in = Total(fi) /\ SumState(f).out = Total(fo) /\ SumState(f) \in State /\ f[a] \in State
  BY NodeAssumption, SumStateType
<1>2. fi[a] = f[a].in /\ fo[a] = f[a].out /\ \A n \in Node : n # a => fi[n] = 0 /\ fo[n] = 0
  BY StateFields
<1> HIDE DEF fi, fo
<1>3. Total(fi) = fi[a] /\ Total(fo) = fo[a]
  BY <1>1, <1>2, TotalPoint
<1> QED
  BY <1>1, <1>2, <1>3, StateFields

LEMMA PartType ==
  ASSUME TypeOK, NEW id \in 1 .. MaxRounds
  PROVE  /\ [n \in Node |-> Part(n, id)] \in [Node -> State] /\ Sum(id) \in State
         /\ [n \in Node |-> OwnState(n)] \in [Node -> State] /\ Now \in State
         /\ \A n \in Node : Part(n, id) \in State /\ OwnState(n) \in State /\ accState[n][id] \in State
<1>1. \A n \in Node : OwnState(n) \in State
  BY DEF TypeOK, OwnState, State
<1>2. \A n \in Node : accState[n][id] \in State
  <2>1. accState \in [Node -> [1 .. MaxRounds -> State]]
    BY DEF TypeOK
  <2> QED
    BY <2>1
<1>3. \A n \in Node : Part(n, id) \in State
  BY <1>1, <1>2, StateFields DEF Part
<1>4. [n \in Node |-> Part(n, id)] \in [Node -> State] /\ [n \in Node |-> OwnState(n)] \in [Node -> State]
  BY <1>1, <1>3
<1> QED
  BY <1>1, <1>2, <1>3, <1>4, SumStateType DEF Sum, Now

LEMMA PartTypeNext ==
  ASSUME TypeOK', NEW id \in 1 .. MaxRounds
  PROVE  /\ [n \in Node |-> Part(n, id)'] \in [Node -> State] /\ Sum(id)' \in State
         /\ [n \in Node |-> OwnState(n)'] \in [Node -> State] /\ Now' \in State
         /\ \A n \in Node : Part(n, id)' \in State /\ OwnState(n)' \in State
<1>1. \A n \in Node : OwnState(n)' \in State
  BY DEF TypeOK, OwnState, State
<1>2. \A n \in Node : accState'[n][id] \in State
  <2>1. accState' \in [Node -> [1 .. MaxRounds -> State]]
    BY DEF TypeOK
  <2> QED
    BY <2>1
<1>3. \A n \in Node : Part(n, id)' \in State
  BY <1>1, <1>2, StateFields DEF Part
<1>4. [n \in Node |-> Part(n, id)'] \in [Node -> State] /\ [n \in Node |-> OwnState(n)'] \in [Node -> State]
  BY <1>1, <1>3
<1> QED
  BY <1>1, <1>3, <1>4, SumStateType DEF Sum, Now

\* The sum of a round the leader has all answers of.
LEMMA SumDone ==
  ASSUME Accounted, NEW id \in 1 .. MaxRounds, Complete(Leader, id)
  PROVE  /\ Sum(id) = accState[Leader][id]
         /\ failed = "control" /\ ~HasConverged => id # round
<1>1. id \in Requests /\ Leader \in Node
  BY AllRequests, Family
<1>2. (\A n \in Node : Complete(n, id) /\ Whole(n, id)) /\ \A c \in Others : Answers[c][id] = 0
  BY <1>1, AllDone DEF Accounted
<1>3. \A n \in Node : n # Leader => Part(n, id) = NoState
  BY <1>2 DEF Part, Passed, Others
<1>4. Part(Leader, id) = accState[Leader][id]
  BY <1>1, <1>2 DEF Part, Passed
<1>5. Sum(id) = accState[Leader][id]
  <2> DEFINE f == [n \in Node |-> Part(n, id)]
  <2>1. f \in [Node -> State] /\ (\A n \in Node : n # Leader => f[n] = NoState) /\ f[Leader] = accState[Leader][id]
    BY <1>1, <1>3, <1>4, PartType DEF Accounted
  <2> HIDE DEF f
  <2>2. SumState(f) = f[Leader]
    BY <1>1, <2>1, SumStateOne
  <2> QED
    BY <2>1, <2>2 DEF Sum, f
<1> QED
  BY <1>2, <1>5 DEF Accounted, Broken

\* The sum of a round nobody knows of yet.
LEMMA SumFresh ==
  ASSUME Accounted, Unknown, NEW id \in 1 .. MaxRounds, echo[Leader][id] = None
  PROVE  Sum(id) = Now
<1>1. id \in Requests
  BY AllRequests
<1>2. \A n \in Node : echo[n][id] = None
  BY <1>1, AllKnown DEF Accounted
<1>3. \A n \in Node : ~Complete(n, id) /\ accState[n][id] = NoState
  BY <1>2, Family DEF Complete, None, Unknown
<1>4. ASSUME NEW n \in Node PROVE Part(n, id) = OwnState(n)
  <2>1. OwnState(n) \in State
    BY PartType DEF Accounted
  <2>2. Part(n, id) = AddState(NoState, OwnState(n))
    BY <1>3 DEF Part, Passed
  <2>3. AddState(NoState, OwnState(n)) = OwnState(n)
    <3>1. PICK s \in State : s = OwnState(n)
      BY <2>1
    <3>2. /\ AddState(NoState, s) \in State /\ s.in \in Nat /\ s.out \in Nat
          /\ AddState(NoState, s).in = NoState.in + s.in /\ AddState(NoState, s).out = NoState.out + s.out
          /\ NoState.in = 0 /\ NoState.out = 0
      BY StateFields
    <3>3. AddState(NoState, s) = s
      BY <3>2, StateFields
    <3> QED
      BY <3>1, <3>3
  <2> QED
    BY <2>2, <2>3
<1> QED
  BY <1>4 DEF Sum, Now

(***************************************************************************)
(* What a step does to the sums.                                           *)
(***************************************************************************)
LEMMA SameSum ==
  ASSUME NEW id, \A n \in Node : Part(n, id)' = Part(n, id)
  PROVE  Sum(id)' = Sum(id)
<1> DEFINE f == [n \in Node |-> Part(n, id)]
           g == [n \in Node |-> Part(n, id)']
<1>1. f = g
  OBVIOUS
<1>2. Sum(id) = SumState(f) /\ Sum(id)' = SumState(g)
  BY DEF Sum
<1> QED
  BY <1>1, <1>2

LEMMA SameNow == ASSUME UNCHANGED <<msgInCounter, msgOutCounter>> PROVE Now' = Now /\ \A n : OwnState(n)' = OwnState(n)
BY DEF Now, OwnState

\* What n does not take part in.
LEMMA SamePart ==
  ASSUME NEW n \in Node, NEW id \in 1 .. MaxRounds, echo'[n][id] = echo[n][id],
         n # Leader => (Answers'[n][id] = 0 <=> Answers[n][id] = 0),
         accState'[n][id] = accState[n][id], OwnState(n)' = OwnState(n)
  PROVE  Part(n, id)' = Part(n, id)
<1>1. Passed(n, id)' <=> Passed(n, id)
  BY DEF Passed, Complete
<1>2. Complete(n, id)' <=> Complete(n, id)
  BY DEF Complete
<1> QED
  BY <1>1, <1>2 DEF Part

LEMMA RequestedSums ==
  ASSUME Accounted, TypeOK', Unknown, NEW n \in Node, NEW q \in Node, NEW id \in Requests, Requested(n, q, id)
  PROVE  Unknown' /\ \A i \in 1 .. MaxRounds : Sum(i)' = Sum(i)
<1>1. /\ n \in Others /\ Passes(n, id) /\ n # Leader /\ echo[n][id] = None
      /\ UNCHANGED <<msgInCounter, msgOutCounter>>
  BY RequestedPasses, Family DEF Accounted, Requested, votes
<1>2. /\ \A k \in Node, i \in Requests : echo'[k][i] = IF k = n /\ i = id THEN 0 ELSE echo[k][i]
      /\ \A c \in Others, i \in Requests :
           Answers'[c][i] = IF c = n /\ i = id /\ AllAnswered(n, 0) THEN Answers[c][i] + 1 ELSE Answers[c][i]
  BY <1>1 DEF Passes
<1>3. \A k \in Node, i \in 1 .. MaxRounds : k # n \/ i # id => accState'[k][i] = accState[k][i]
  BY OthersSame DEF Accounted
<1>4. Unknown'
  BY <1>2, <1>3, AllRequests DEF Unknown, None
<1>5. ASSUME NEW k \in Node, NEW i \in 1 .. MaxRounds PROVE Part(k, i)' = Part(k, i)
  <2>1. i \in Requests /\ i # Collect /\ OwnState(k)' = OwnState(k)
    BY <1>1, SameNow, AllRequests
  <2>2. CASE k # n \/ i # id
    <3>1. echo'[k][i] = echo[k][i] /\ accState'[k][i] = accState[k][i]
      BY <1>2, <1>3, <2>1, <2>2
    <3>2. k # Leader => Answers'[k][i] = Answers[k][i]
      BY <1>2, <2>1, <2>2 DEF Others
    <3> QED
      BY <2>1, <3>1, <3>2, SamePart
  <2>3. CASE k = n /\ i = id
    <3>1. Part(n, id) = AddState(NoState, OwnState(n))
      <4>1. ~Complete(n, id) /\ accState[n][id] = NoState
        BY <1>1, <2>3, Family DEF Complete, None, Unknown
      <4> QED
        BY <4>1 DEF Part, Passed
    <3>2. accState' = [accState EXCEPT ![n][id] = IF AllAnswered(n, 0) THEN AddState(NoState, OwnState(n)) ELSE NoState]
      BY <2>1, <2>3 DEF Requested, AddsState
    <3>3. accState'[n][id] = IF AllAnswered(n, 0) THEN AddState(NoState, OwnState(n)) ELSE NoState
      <4>1. accState \in [Node -> [1 .. MaxRounds -> State]]
        BY DEF Accounted, TypeOK
      <4> QED
        BY <2>3, <3>2, <4>1
    <3>4. Complete(n, id)' <=> AllAnswered(n, 0)
      BY <1>2 DEF Complete, AllAnswered
    <3>5. ~Passed(n, id)'
      <4>1. AllAnswered(n, 0) => Answers'[n][id] = 1
        BY <1>1, <1>2, AskedParts DEF Accounted
      <4> QED
        BY <3>4, <4>1 DEF Passed
    <3>6. Part(n, id)' = AddState(NoState, OwnState(n))
      <4>1. OwnState(n)' = OwnState(n)
        BY <2>1, <2>3
      <4>2. CASE AllAnswered(n, 0)
        BY <3>3, <3>4, <3>5, <4>2 DEF Part
      <4>3. CASE ~AllAnswered(n, 0)
        BY <3>3, <3>4, <3>5, <4>1, <4>3 DEF Part
      <4> QED
        BY <4>2, <4>3
    <3> QED
      BY <2>3, <3>1, <3>6
  <2> QED
    BY <2>2, <2>3
<1> QED
  BY <1>4, <1>5, SameSum

LEMMA RepliedSums ==
  ASSUME Accounted, TypeOK', Unknown, NEW n \in Node, NEW q \in Node, NEW id \in Requests, Replied(n, q, id)
  PROVE  /\ Unknown' /\ \A i \in 1 .. MaxRounds : Sum(i)' = Sum(i)
         /\ \A i \in 1 .. MaxRounds : Complete(Leader, i) => accState'[Leader][i] = accState[Leader][i]
<1> DEFINE count == echo[n][id] + 1
           m == Head(chan[q][n])
<1>1. /\ Hears(n, q, id) /\ q \in Others /\ Parent[q] = n /\ q \in Childs(n) /\ q # n /\ q # Leader
      /\ m = Answer(q, id) /\ echo[n][id] # None
      /\ UNCHANGED <<msgInCounter, msgOutCounter>> /\ TypeOK /\ Counting /\ Asked
  BY RepliedHears, Family DEF Accounted, Replied, votes
<1>2. /\ \A k \in Node, i \in Requests : echo'[k][i] = IF k = n /\ i = id THEN count ELSE echo[k][i]
      /\ \A c \in Others, i \in Requests :
           Answers'[c][i] = IF c = q /\ i = id THEN Answers[c][i] - 1
                            ELSE IF c = n /\ i = id /\ AllAnswered(n, count) THEN Answers[c][i] + 1
                            ELSE Answers[c][i]
      /\ Answers[q][id] > 0
  BY <1>1 DEF Hears
<1>3. \A k \in Node, i \in 1 .. MaxRounds : k # n \/ i # id => accState'[k][i] = accState[k][i]
  BY OthersSame DEF Accounted
<1>4. count # None /\ ~Complete(n, id) /\ (n \in Others => Answers[n][id] = 0) /\ Answers[q][id] = 1 /\ Complete(q, id)
  <2>1. echo[n][id] \in Nat
    BY <1>1, ObservedType
  <2> QED
    BY <1>1, <1>2, <2>1, Unfinished, NotAnswered, AskedParts DEF None
<1> HIDE DEF count
<1>5. Unknown'
  BY <1>2, <1>3, <1>4, AllRequests DEF Unknown
<1>6. \A i \in 1 .. MaxRounds : Complete(Leader, i) => accState'[Leader][i] = accState[Leader][i]
  BY <1>3, <1>4, Family
<1>7. ASSUME NEW i \in 1 .. MaxRounds PROVE Sum(i)' = Sum(i)
  <2>1. i \in Requests /\ i # Collect /\ \A k \in Node : OwnState(k)' = OwnState(k)
    BY <1>1, SameNow, AllRequests
  <2>2. ASSUME NEW k \in Node, i # id \/ (k # n /\ k # q) PROVE Part(k, i)' = Part(k, i)
    <3>1. echo'[k][i] = echo[k][i] /\ accState'[k][i] = accState[k][i]
      BY <1>2, <1>3, <2>1, <2>2
    <3>2. k # Leader => Answers'[k][i] = Answers[k][i]
      BY <1>2, <2>1, <2>2 DEF Others
    <3> QED
      BY <2>1, <3>1, <3>2, SamePart
  <2>3. CASE i # id
    BY <2>2, <2>3, SameSum
  <2>4. CASE i = id
    <3>1. accState[n][i] \in State /\ accState[q][i] \in State /\ OwnState(n) \in State
      BY <1>1, PartType
    <3>2. Part(q, i) = accState[q][i] /\ Part(n, i) = AddState(accState[n][i], OwnState(n))
      BY <1>4, <2>4 DEF Part, Passed
    <3>3. Part(q, i)' = NoState
      <4>1. Complete(q, i)' /\ Answers'[q][i] = 0
        BY <1>1, <1>2, <1>4, <2>1, <2>4 DEF Complete
      <4> QED
        BY <1>1, <4>1 DEF Part, Passed
    <3> DEFINE s == AddState(accState[n][i], accState[q][i])
    <3>4. m.state = accState[q][i]
      BY <1>1, <2>1, <2>4 DEF Answer, StateResponse
    <3>5. accState'[n][i] = IF AllAnswered(n, count) THEN AddState(s, OwnState(n)) ELSE s
      <4>1. AddsState(n, id, AddState(accState[n][id], m.state), count)
        BY <2>1, <2>4 DEF Replied, count
      <4>2. accState \in [Node -> [1 .. MaxRounds -> State]]
        BY <1>1 DEF TypeOK
      <4> HIDE DEF m
      <4>3. accState' = [accState EXCEPT ![n][i] = IF AllAnswered(n, count) THEN AddState(s, OwnState(n)) ELSE s]
        BY <2>4, <3>4, <4>1 DEF AddsState
      <4> HIDE DEF s
      <4> QED
        BY <4>2, <4>3
    <3>6. (Complete(n, i)' <=> AllAnswered(n, count)) /\ ~Passed(n, i)'
      <4>1. Complete(n, i)' <=> AllAnswered(n, count)
        BY <1>2, <2>1, <2>4 DEF Complete, AllAnswered
      <4>2. n \in Others /\ AllAnswered(n, count) => Answers'[n][i] = 1
        BY <1>1, <1>2, <1>4, <2>4
      <4> QED
        BY <4>1, <4>2 DEF Passed, Others
    <3> HIDE DEF s
    <3>7. Part(n, i)' = AddState(s, OwnState(n))
      <4>1. OwnState(n)' = OwnState(n)
        BY <2>1
      <4>2. CASE AllAnswered(n, count)
        BY <3>5, <3>6, <4>2 DEF Part
      <4>3. CASE ~AllAnswered(n, count)
        BY <3>5, <3>6, <4>1, <4>3 DEF Part
      <4> QED
        BY <4>2, <4>3
    <3>8. AddState(s, OwnState(n)) = AddState(Part(n, i), Part(q, i))
      <4>1. PICK x, y, o \in State : x = accState[n][i] /\ y = accState[q][i] /\ o = OwnState(n)
        BY <3>1
      <4>2. AddState(AddState(x, y), o) = AddState(AddState(x, o), y)
        <5>1. x.in \in Nat /\ x.out \in Nat /\ y.in \in Nat /\ y.out \in Nat /\ o.in \in Nat /\ o.out \in Nat
          BY StateFields
        <5> QED
          BY <5>1 DEF AddState
      <4> QED
        BY <3>2, <4>1, <4>2 DEF s
    <3>9. PICK f, g \in [Node -> State] : f = [k \in Node |-> Part(k, i)] /\ g = [k \in Node |-> Part(k, i)']
      BY <1>1, PartType, PartTypeNext
    <3>10. /\ \A k \in Node : k # n /\ k # q => g[k] = f[k]
           /\ g[n] = AddState(f[n], f[q]) /\ g[q] = NoState
      BY <2>2, <3>3, <3>7, <3>8, <3>9
    <3>11. SumState(g) = SumState(f)
      BY <1>1, <3>10, SumStateMove
    <3> QED
      BY <3>9, <3>11 DEF Sum
  <2> QED
    BY <2>3, <2>4
<1> QED
  BY <1>5, <1>6, <1>7

\* A new round, or the collection: the leader has added up nothing for it.
LEMMA StartsSums ==
  ASSUME Accounted, TypeOK', Unknown, NextRound \/ StartCollect
  PROVE  /\ Unknown' /\ \A i \in 1 .. MaxRounds : Sum(i)' = Sum(i)
         /\ \A i \in 1 .. round : accState'[Leader][i] = accState[Leader][i]
<1>1. PICK id \in Requests :
        /\ id = IF NextRound THEN round + 1 ELSE Collect
        /\ Starts(id)
  BY StartStep DEF Accounted
<1>2. /\ \A k \in Node, i \in Requests : echo'[k][i] = IF k = Leader /\ i = id THEN 0 ELSE echo[k][i]
      /\ \A c \in Others, i \in Requests : Answers'[c][i] = Answers[c][i]
  BY <1>1 DEF Starts
<1>3. /\ UNCHANGED <<msgInCounter, msgOutCounter>> /\ Leader \in Node /\ round \in Nat
      /\ \A i \in 1 .. round : i # round + 1
  BY Family, LeadingParts DEF NextRound, StartCollect, votes, Accounted
<1>4. \A k \in Node, i \in 1 .. MaxRounds :
        accState'[k][i] = IF k = Leader /\ i = id THEN NoState ELSE accState[k][i]
  <2>1. accState \in [Node -> [1 .. MaxRounds -> State]]
    BY DEF Accounted, TypeOK
  <2>2. CASE NextRound
    BY <1>1, <2>1, <2>2 DEF NextRound
  <2>3. CASE ~NextRound
    BY <1>1, <2>3, AllRequests DEF StartCollect, rounds
  <2> QED
    BY <2>2, <2>3
<1>5. id # Collect => echo[Leader][id] = None
  <2>1. id # Collect => NextRound /\ id = round + 1
    BY <1>1
  <2>2. NextRound => ~Begun(round + 1)
    BY <1>3, AllRequests DEF NextRound, At, Begun, Collect, HasConverged
  <2> QED
    BY <2>1, <2>2 DEF Accounted, Leading
<1>6. Unknown'
  BY <1>2, <1>4, AllRequests DEF Unknown
<1>7. ASSUME NEW k \in Node, NEW i \in 1 .. MaxRounds PROVE Part(k, i)' = Part(k, i)
  <2>1. i \in Requests /\ i # Collect /\ OwnState(k)' = OwnState(k)
    BY <1>3, SameNow, AllRequests
  <2>2. CASE k # Leader \/ i # id
    <3>1. echo'[k][i] = echo[k][i] /\ accState'[k][i] = accState[k][i]
      BY <1>2, <1>4, <2>1, <2>2
    <3>2. k # Leader => Answers'[k][i] = Answers[k][i]
      BY <1>2, <2>1 DEF Others
    <3> QED
      BY <2>1, <3>1, <3>2, SamePart
  <2>3. CASE k = Leader /\ i = id
    <3>1. echo[k][i] = None /\ accState[k][i] = NoState /\ accState'[k][i] = NoState /\ echo'[k][i] = 0
      BY <1>2, <1>4, <1>5, <2>1, <2>3 DEF Unknown
    <3>2. ~Complete(k, i) /\ ~Complete(k, i)'
      BY <2>3, <3>1, Family DEF Complete, None
    <3> QED
      BY <2>1, <3>1, <3>2 DEF Part, Passed
  <2> QED
    BY <2>2, <2>3
<1>8. \A i \in 1 .. round : accState'[Leader][i] = accState[Leader][i]
  <2>1. \A i \in 1 .. round : i \in 1 .. MaxRounds /\ i # id
    BY <1>1, <1>3, LeadingParts, AllRequests DEF Accounted
  <2> QED
    BY <1>3, <1>4, <2>1
<1> QED
  BY <1>6, <1>7, <1>8, SameSum

\* The counters of n grow, and the count does not move: the sums grow, but not more than
\* the counters do.
LEMMA GrownSums ==
  ASSUME TypeOK, TypeOK', Rests, NoneAhead, Unknown, UNCHANGED accState, NEW n \in Node, NEW a \in Nat, NEW b \in Nat,
         msgOutCounter' = [msgOutCounter EXCEPT ![n] = @ + a],
         msgInCounter' = [msgInCounter EXCEPT ![n] = @ + b]
  PROVE  Unknown' /\ NoneAhead' /\ \A i \in 1 .. MaxRounds : AtMost(Sum(i), Sum(i)')
<1>1. /\ \A k \in Node, i \in Requests : echo'[k][i] = echo[k][i]
      /\ \A c \in Others, i \in Requests : Answers'[c][i] = Answers[c][i]
  BY DEF Rests
<1>2. Unknown'
  BY <1>1, AllRequests DEF Unknown
<1>3. /\ \A k \in Node : k # n => OwnState(k)' = OwnState(k)
      /\ OwnState(n)'.in = OwnState(n).in + b /\ OwnState(n)'.out = OwnState(n).out + a
  <2>1. msgInCounter \in [Node -> Nat] /\ msgOutCounter \in [Node -> Nat]
    BY DEF TypeOK
  <2> QED
    BY <2>1 DEF OwnState
<1>4. ASSUME NEW i \in 1 .. MaxRounds
      PROVE  AtMost(Sum(i), Sum(i)') /\ AtMost(Sum(i)', Now')
  <2>1. i \in Requests
    BY AllRequests
  <2>2. \A k \in Node : (Complete(k, i)' <=> Complete(k, i)) /\ (Passed(k, i)' <=> Passed(k, i))
    BY <1>1, <2>1 DEF Complete, Passed, Others
  <2>3. \A k \in Node : k # n => Part(k, i)' = Part(k, i)
    BY <1>3, <2>2 DEF Part
  <2>4. OwnState(n) \in State /\ OwnState(n)' \in State /\ accState[n][i] \in State /\ Part(n, i) \in State /\ Part(n, i)' \in State
    BY PartType, PartTypeNext
  <2>5. \/ Part(n, i)' = Part(n, i)
        \/ Part(n, i)'.in = Part(n, i).in + b /\ Part(n, i)'.out = Part(n, i).out + a
    <3>1. CASE Passed(n, i) \/ Complete(n, i)
      BY <2>2, <3>1 DEF Part
    <3>2. CASE ~Passed(n, i) /\ ~Complete(n, i)
      <4>1. Part(n, i) = AddState(accState[n][i], OwnState(n)) /\ Part(n, i)' = AddState(accState[n][i], OwnState(n)')
        BY <2>2, <3>2 DEF Part
      <4>2. PICK s, o, p \in State : s = accState[n][i] /\ o = OwnState(n) /\ p = OwnState(n)'
        BY <2>4
      <4>3. /\ AddState(s, o).in = s.in + o.in /\ AddState(s, o).out = s.out + o.out
            /\ AddState(s, p).in = s.in + p.in /\ AddState(s, p).out = s.out + p.out
            /\ s.in \in Nat /\ s.out \in Nat /\ o.in \in Nat /\ o.out \in Nat /\ p.in \in Nat /\ p.out \in Nat
        BY StateFields
      <4>4. p.in = o.in + b /\ p.out = o.out + a
        BY <1>3, <4>2
      <4>5. AddState(s, p).in = AddState(s, o).in + b /\ AddState(s, p).out = AddState(s, o).out + a
        BY <4>3, <4>4
      <4> QED
        BY <4>1, <4>2, <4>5
    <3> QED
      BY <3>1, <3>2
  <2>6. PICK f, g, x, y \in [Node -> State] :
          /\ f = [k \in Node |-> Part(k, i)] /\ g = [k \in Node |-> Part(k, i)']
          /\ x = [k \in Node |-> OwnState(k)] /\ y = [k \in Node |-> OwnState(k)']
    BY PartType, PartTypeNext
  <2>7. Sum(i) = SumState(f) /\ Sum(i)' = SumState(g) /\ Now = SumState(x) /\ Now' = SumState(y)
    BY <2>6 DEF Sum, Now
  <2>8. /\ \A k \in Node : k # n => g[k] = f[k] /\ y[k] = x[k]
        /\ f[n] = Part(n, i) /\ g[n] = Part(n, i)' /\ x[n] = OwnState(n) /\ y[n] = OwnState(n)'
    BY <1>3, <2>3, <2>6
  <2>9. /\ SumState(g).in + f[n].in = SumState(f).in + g[n].in
        /\ SumState(g).out + f[n].out = SumState(f).out + g[n].out
    BY <2>8, SumStateChange
  <2>10. /\ SumState(y).in + x[n].in = SumState(x).in + y[n].in
         /\ SumState(y).out + x[n].out = SumState(x).out + y[n].out
    BY <2>8, SumStateChange
  <2>11. SumState(f).in <= SumState(x).in /\ SumState(f).out <= SumState(x).out
    BY <2>7 DEF NoneAhead, AtMost
  <2>12. /\ y[n].in = x[n].in + b /\ y[n].out = x[n].out + a
         /\ \/ g[n].in = f[n].in /\ g[n].out = f[n].out
            \/ g[n].in = f[n].in + b /\ g[n].out = f[n].out + a
    BY <1>3, <2>5, <2>8
  <2>13. \A s \in {f[n], g[n], x[n], y[n], SumState(f), SumState(g), SumState(x), SumState(y)} : s.in \in Nat /\ s.out \in Nat
    <3>1. f[n] \in State /\ g[n] \in State /\ x[n] \in State /\ y[n] \in State
      OBVIOUS
    <3>2. SumState(f) \in State /\ SumState(g) \in State /\ SumState(x) \in State /\ SumState(y) \in State
      BY SumStateType
    <3> QED
      BY <3>1, <3>2, StateFields
  <2>14. SumState(f).in <= SumState(g).in /\ SumState(g).in <= SumState(y).in
    BY <2>9, <2>10, <2>11, <2>12, <2>13
  <2>15. SumState(f).out <= SumState(g).out /\ SumState(g).out <= SumState(y).out
    BY <2>9, <2>10, <2>11, <2>12, <2>13
  <2> QED
    BY <2>7, <2>14, <2>15 DEF AtMost
<1> QED
  BY <1>2, <1>4 DEF NoneAhead

\* The counters stay, and so do the sums.
LEMMA SameSums ==
  ASSUME Rests, Unknown, UNCHANGED <<accState, msgInCounter, msgOutCounter>>
  PROVE  Unknown' /\ \A i \in 1 .. MaxRounds : Sum(i)' = Sum(i)
<1>1. /\ \A k \in Node, i \in Requests : echo'[k][i] = echo[k][i]
      /\ \A c \in Others, i \in Requests : Answers'[c][i] = Answers[c][i]
  BY DEF Rests
<1>2. Unknown'
  BY <1>1, AllRequests DEF Unknown
<1>3. ASSUME NEW k \in Node, NEW i \in 1 .. MaxRounds PROVE Part(k, i)' = Part(k, i)
  <2>1. i \in Requests /\ OwnState(k)' = OwnState(k)
    BY SameNow, AllRequests
  <2>2. k # Leader => Answers'[k][i] = Answers[k][i]
    BY <1>1, <2>1 DEF Others
  <2> QED
    BY <1>1, <2>1, <2>2, SamePart
<1> QED
  BY <1>2, <1>3, SameSum

\* A loss makes no sum larger.
LEMMA LostSums ==
  ASSUME Accounted, TypeOK', Unknown, NoneAhead, NEW c \in Others, NEW id \in Requests, Loses(c, id),
         UNCHANGED <<accState, msgInCounter, msgOutCounter>>
  PROVE  Unknown' /\ NoneAhead'
<1>1. /\ \A k \in Node, i \in Requests : echo'[k][i] = echo[k][i]
      /\ \A d \in Others, i \in Requests : d # c \/ i # id => Answers'[d][i] = Answers[d][i]
      /\ Answers'[c][id] = Answers[c][id] \/ (Answers[c][id] > 0 /\ Answers'[c][id] = Answers[c][id] - 1)
  BY DEF Loses
<1>2. Unknown'
  BY <1>1, AllRequests DEF Unknown
<1>3. c \in Node /\ c # Leader
  BY Family
<1>4. ASSUME NEW i \in 1 .. MaxRounds PROVE AtMost(Sum(i)', Now')
  <2>1. i \in Requests /\ (\A k \in Node : OwnState(k)' = OwnState(k)) /\ Now' = Now
    BY SameNow, AllRequests
  <2>2. \A k \in Node : k # c \/ i # id => Part(k, i)' = Part(k, i)
    <3> SUFFICES ASSUME NEW k \in Node, k # c \/ i # id PROVE Part(k, i)' = Part(k, i)
      OBVIOUS
    <3>1. k # Leader => Answers'[k][i] = Answers[k][i]
      BY <1>1, <2>1 DEF Others
    <3> QED
      BY <1>1, <2>1, <3>1, SamePart
  <2>3. AtMost(Sum(i), Now)
    BY DEF NoneAhead
  <2>4. CASE i # id
    BY <2>1, <2>2, <2>3, <2>4, SameSum
  <2>5. CASE i = id
    <3>1. Part(c, i)' = Part(c, i) \/ Part(c, i)' = NoState
      <4>1. Complete(c, i)' <=> Complete(c, i)
        BY <1>1, <1>3, <2>1 DEF Complete
      <4>2. CASE Complete(c, i)
        <5>1. Passed(c, i) => Passed(c, i)'
          <6>1. Answers[c][i] = 0 => Answers'[c][i] = 0
            BY <1>1, <2>5
          <6> QED
            BY <4>1, <6>1 DEF Passed
        <5> QED
          BY <4>1, <4>2, <5>1 DEF Part
      <4>3. CASE ~Complete(c, i)
        BY <1>3, <2>1, <4>1, <4>3 DEF Part, Passed
      <4> QED
        BY <4>2, <4>3
    <3>2. PICK f, g \in [Node -> State] : f = [k \in Node |-> Part(k, i)] /\ g = [k \in Node |-> Part(k, i)']
      BY PartType, PartTypeNext DEF Accounted
    <3>3. Sum(i) = SumState(f) /\ Sum(i)' = SumState(g)
      BY <3>2 DEF Sum
    <3>4. (\A k \in Node : k # c => g[k] = f[k]) /\ (g[c] = f[c] \/ g[c] = NoState)
      BY <1>3, <2>2, <3>1, <3>2
    <3>5. /\ SumState(g).in + f[c].in = SumState(f).in + g[c].in
          /\ SumState(g).out + f[c].out = SumState(f).out + g[c].out
      BY <1>3, <3>4, SumStateChange
    <3>6. \A s \in {f[c], g[c], SumState(f), SumState(g), Now} : s.in \in Nat /\ s.out \in Nat
      <4>1. f[c] \in State /\ g[c] \in State /\ Now \in State
        BY <1>3, PartType DEF Accounted
      <4>2. SumState(f) \in State /\ SumState(g) \in State
        BY SumStateType
      <4> QED
        BY <4>1, <4>2, StateFields
    <3>7. g[c].in <= f[c].in /\ g[c].out <= f[c].out
      BY <3>4, <3>6, StateFields
    <3>8. SumState(f).in <= Now.in /\ SumState(f).out <= Now.out
      BY <2>3, <3>3 DEF AtMost
    <3>9. SumState(g).in <= Now.in /\ SumState(g).out <= Now.out
      BY <3>5, <3>6, <3>7, <3>8
    <3> QED
      BY <2>1, <3>3, <3>9 DEF AtMost
  <2> QED
    BY <2>4, <2>5
<1> QED
  BY <1>2, <1>4 DEF NoneAhead

\* Once no vote is left, there never is one again.
LEMMA QuietForm ==
  ASSUME TypeOK
  PROVE  Quiet <=> /\ loop # "elected"
                   /\ \A p, r \in Node : \A i \in DOMAIN chan[p][r] : chan[p][r][i] \notin Vote
                   /\ \A r \in Node : \A i \in DOMAIN outbox[r] : outbox[r][i] \notin Vote
<1>1. \A p, r \in Node : Copies(chan[p][r], Vote) = 0 <=> \A i \in DOMAIN chan[p][r] : chan[p][r][i] \notin Vote
  <2> SUFFICES ASSUME NEW p \in Node, NEW r \in Node
               PROVE  Copies(chan[p][r], Vote) = 0 <=> \A i \in DOMAIN chan[p][r] : chan[p][r][i] \notin Vote
    OBVIOUS
  <2>1. chan[p][r] \in Seq(Message)
    BY DEF TypeOK
  <2> QED
    BY <2>1, CopiesType
<1>2. \A r \in Node : Copies(outbox[r], Vote) = 0 <=> \A i \in DOMAIN outbox[r] : outbox[r][i] \notin Vote
  <2> SUFFICES ASSUME NEW r \in Node
               PROVE  Copies(outbox[r], Vote) = 0 <=> \A i \in DOMAIN outbox[r] : outbox[r][i] \notin Vote
    OBVIOUS
  <2>1. outbox[r] \in Seq(Message)
    BY DEF TypeOK
  <2> QED
    BY <2>1, CopiesType
<1> QED
  BY <1>1, <1>2 DEF Quiet, UnderWay, InFlight

\* The same of the next state.
LEMMA QuietFormNext ==
  ASSUME TypeOK', loop' # "elected",
         \A p, r \in Node : \A i \in DOMAIN chan'[p][r] : chan'[p][r][i] \notin Vote,
         \A r \in Node : \A i \in DOMAIN outbox'[r] : outbox'[r][i] \notin Vote
  PROVE  Quiet'
<1>1. \A p, r \in Node : Copies(chan'[p][r], Vote) = 0
  <2> SUFFICES ASSUME NEW p \in Node, NEW r \in Node PROVE Copies(chan'[p][r], Vote) = 0
    OBVIOUS
  <2>1. chan'[p][r] \in Seq(Message)
    BY DEF TypeOK
  <2> QED
    BY <2>1, CopiesType
<1>2. \A r \in Node : Copies(outbox'[r], Vote) = 0
  <2> SUFFICES ASSUME NEW r \in Node PROVE Copies(outbox'[r], Vote) = 0
    OBVIOUS
  <2>1. outbox'[r] \in Seq(Message)
    BY DEF TypeOK
  <2> QED
    BY <2>1, CopiesType
<1> QED
  BY <1>1, <1>2 DEF Quiet, UnderWay, InFlight

\* A vote handled is no quiet.
LEMMA VoteLoud ==
  ASSUME TypeOK, NEW n \in Node, NEW q \in Node, chan[q][n] # <<>>, Head(chan[q][n]) \in Vote
  PROVE  ~Quiet
<1>1. chan[q][n] \in Seq(Message)
  BY DEF TypeOK
<1>2. 1 \in DOMAIN chan[q][n] /\ Head(chan[q][n]) = chan[q][n][1]
  BY <1>1, Uncons
<1> QED
  BY <1>2, QuietForm

LEMMA QuietNext == ASSUME TypeOK, TypeOK', Quiet, [Next]_vars PROVE Quiet'
<1>1. /\ loop # "elected"
      /\ \A p, r \in Node : \A i \in DOMAIN chan[p][r] : chan[p][r][i] \notin Vote
      /\ \A r \in Node : \A i \in DOMAIN outbox[r] : outbox[r][i] \notin Vote
  BY QuietForm
<1>2. ASSUME NEW n \in Node, NEW q \in Node,
             handle_voteBegin(n, q) \/ handle_proposal(n, q) \/ handle_proposalResponse(n, q)
      PROVE  FALSE
  BY <1>2, VoteStep, VoteLoud
<1>3. ASSUME NEW n \in Node, NEW q \in Node,
             handle_stateRequest(n, q) \/ handle_stateResponse(n, q) \/ handle_collectRequest(n, q)
               \/ handle_collect(n, q)
      PROVE  Quiet'
  <2>1. /\ chan[q][n] # <<>> /\ chan \in Channels(Message)
        /\ \E out \in Outgoing(Control) : chan' = Exchanged(chan, q, n, out)
        /\ UNCHANGED <<loop, outbox>>
    BY <1>3, ControlStep DEF TypeOK, Channels, Outgoing, handle_stateRequest, handle_stateResponse,
       handle_collectRequest, handle_collect, Takes, loopVars
  <2>2. PICK out \in Outgoing(Control) : chan' = Exchanged(chan, q, n, out)
    BY <2>1
  <2>3. out \in Outgoing(Message)
    BY OutgoingWider DEF Message
  <2>4. ASSUME NEW p \in Node, NEW r \in Node, NEW i \in DOMAIN chan'[p][r] PROVE chan'[p][r][i] \notin Vote
    <3>1. i \in DOMAIN Exchanged(chan, q, n, out)[p][r]
      BY <2>2
    <3>2. \/ \E j \in DOMAIN chan[p][r] : Exchanged(chan, q, n, out)[p][r][i] = chan[p][r][j]
          \/ p = n /\ \E j \in DOMAIN out[r] : Exchanged(chan, q, n, out)[p][r][i] = out[r][j]
      BY <2>1, <2>3, <3>1, ExchangedElements
    <3>3. \A j \in DOMAIN out[r] : out[r][j] \notin Vote
      <4>1. out[r] \in Seq(Control)
        BY DEF Outgoing
      <4>2. \A j \in DOMAIN out[r] : out[r][j] \in Control /\ out[r][j] \in Message
        BY <4>1, Elements DEF Message
      <4> QED
        BY <4>2, Votes
    <3> QED
      BY <1>1, <2>2, <3>2, <3>3
  <2> QED
    BY <1>1, <2>1, <2>4, QuietFormNext
<1>4. ASSUME NEW k \in Node, LoopSend(k) \/ LoopSendFails(k) PROVE Quiet'
  <2>1. loop' = loop
    BY <1>4 DEF LoopSend, LoopSendFails
  <2> QED
    BY <1>1, <1>4, <2>1, LoopElements, QuietFormNext
<1>5. ASSUME NextRound \/ StartCollect PROVE Quiet'
  <2>1. chan' = chan /\ loop' # "elected"
    BY <1>5 DEF NextRound, StartCollect, At
  <2>2. PICK id \in Requests : outbox' = PropagateChilds(Leader, Request(id))
    BY <1>5, StartStep
  <2>3. Request(id) \notin Vote
    BY RequestForm, Votes DEF Message
  <2>4. \A r \in Node : \A i \in DOMAIN outbox'[r] : outbox'[r][i] = Request(id)
    BY <2>2, EmptySeq DEF PropagateChilds, To
  <2> QED
    BY <1>1, <2>1, <2>3, <2>4, QuietFormNext
<1>6. ASSUME NEW p \in Node, NEW q \in Node, SendFails(p, q) PROVE Quiet'
  <2>1. UNCHANGED <<loop, outbox>>
    BY <1>6 DEF SendFails, loopVars
  <2> QED
    BY <1>1, <1>6, <2>1, LossElements, QuietFormNext
<1>7. ASSUME CheckResult \/ UNCHANGED vars PROVE Quiet'
  <2>1. UNCHANGED <<chan, outbox>> /\ loop' # "elected"
    BY <1>1, <1>7 DEF CheckResult, vars, loopVars
  <2> QED
    BY <1>1, <2>1, QuietFormNext
<1>8. ~BeginVote
  BY <1>1 DEF BeginVote, At
<1> QED
  BY <1>2, <1>3, <1>4, <1>5, <1>6, <1>7, <1>8 DEF Next, Handle, leaderLoop

\* What the count knows of the votes.
Summed == Unknown /\ NoneAhead /\ Behind /\ FourCounters

\* The last two rounds are never touched again.
LEMMA RoundParts ==
  ASSUME Accounted
  PROVE  /\ round > 1 => round - 1 \in 1 .. round /\ round - 1 \in 1 .. MaxRounds /\ Complete(Leader, round - 1)
         /\ HasConverged => round \in 1 .. MaxRounds /\ round > 1 /\ Complete(Leader, round)
         /\ round > 0 => round \in 1 .. MaxRounds
<1>1. round \in Nat /\ round \in 0 .. MaxRounds /\ MaxRounds \in Nat
  BY LeadingParts, AllRequests DEF Accounted
<1>2. ASSUME round > 1
      PROVE  round - 1 \in 1 .. round /\ round - 1 \in 1 .. MaxRounds /\ Complete(Leader, round - 1)
  <2>1. round - 1 \in 1 .. round /\ round - 1 \in 1 .. MaxRounds /\ round - 1 < round
    BY <1>1, <1>2
  <2>2. round - 1 \in accStateDone
    BY <2>1 DEF Accounted, Leading
  <2> QED
    BY <2>1, <2>2, LeadingParts DEF Accounted
<1> QED
  BY <1>1, <1>2, LeadingParts DEF Accounted

\* The sum of the round, after a step that stays in it.
LEMMA SumRound ==
  ASSUME Accounted, round > 0, round' = round
  PROVE  \E id \in 1 .. MaxRounds : id = round /\ Sum(round) = Sum(id) /\ Sum(round)' = Sum(id)'
<1>1. PICK id \in 1 .. MaxRounds : id = round
  BY RoundParts
<1>2. Sum(round)' = Sum(id)'
  BY <1>1 DEF Sum, Part, Passed, Complete
<1> QED
  BY <1>1, <1>2

\* A step that leaves the sums alone.
LEMMA SameBehind ==
  ASSUME Accounted, Behind, round' = round, Quiet => Quiet', failed = "control" => failed' = "control",
         \A i \in 1 .. MaxRounds : Sum(i)' = Sum(i),
         \A i \in 1 .. MaxRounds : Complete(Leader, i) => accState'[Leader][i] = accState[Leader][i]
  PROVE  Behind'
<1> SUFFICES ASSUME failed' # "control", round > 1
             PROVE  /\ AtMost(accState'[Leader][round - 1], Sum(round)')
                    /\ accState'[Leader][round - 1] = Sum(round)' /\ Balanced(round - 1)' => Quiet'
  BY DEF Behind
<1>1. accState'[Leader][round - 1] = accState[Leader][round - 1]
  BY RoundParts
<1>2. Balanced(round - 1)' <=> Balanced(round - 1)
  BY <1>1 DEF Balanced
<1>3. Sum(round)' = Sum(round)
  <2>1. round > 0
    BY DEF Accounted, TypeOK
  <2>2. PICK id \in 1 .. MaxRounds : id = round /\ Sum(round) = Sum(id) /\ Sum(round)' = Sum(id)'
    BY <2>1, SumRound
  <2> QED
    BY <2>2
<1> QED
  BY <1>1, <1>2, <1>3 DEF Behind

LEMMA SameFour ==
  ASSUME Accounted, FourCounters, round' = round, Quiet => Quiet', HasConverged' => HasConverged,
         \A i \in 1 .. MaxRounds : Complete(Leader, i) => accState'[Leader][i] = accState[Leader][i]
  PROVE  FourCounters'
<1> SUFFICES ASSUME HasConverged, SameCounts' PROVE Quiet
  BY DEF FourCounters
<1>1. round > 1
  BY RoundParts
<1>2. accState'[Leader][round - 1] = accState[Leader][round - 1] /\ accState'[Leader][round] = accState[Leader][round]
  BY <1>1, RoundParts
<1> QED
  BY <1>2 DEF FourCounters, SameCounts

LEMMA SameSummed ==
  ASSUME Accounted, TypeOK', [Next]_vars, Summed, Unknown', UNCHANGED <<round, msgInCounter, msgOutCounter>>,
         failed = "control" => failed' = "control", HasConverged' => HasConverged,
         \A i \in 1 .. MaxRounds : Sum(i)' = Sum(i),
         \A i \in 1 .. MaxRounds : Complete(Leader, i) => accState'[Leader][i] = accState[Leader][i]
  PROVE  Summed'
<1>1. Quiet => Quiet'
  BY QuietNext DEF Accounted
<1>2. NoneAhead'
  BY SameNow DEF Summed, NoneAhead
<1> QED
  BY <1>1, <1>2, SameBehind, SameFour DEF Summed

\* A vote counted.
LEMMA GrownSummed ==
  ASSUME Accounted, TypeOK', Summed, ~Quiet, Rests, UNCHANGED <<accState, round>>, HasConverged' => HasConverged,
         NEW n \in Node, NEW a \in Nat, NEW b \in Nat,
         msgOutCounter' = [msgOutCounter EXCEPT ![n] = @ + a],
         msgInCounter' = [msgInCounter EXCEPT ![n] = @ + b]
  PROVE  Summed'
<1>1. Unknown' /\ NoneAhead' /\ \A i \in 1 .. MaxRounds : AtMost(Sum(i), Sum(i)')
  BY GrownSums DEF Accounted, Summed
<1>2. FourCounters'
  BY DEF FourCounters, Summed, SameCounts
<1>3. Behind'
  <2> SUFFICES ASSUME failed # "control", round > 1
               PROVE  /\ AtMost(accState[Leader][round - 1], Sum(round)')
                      /\ accState[Leader][round - 1] = Sum(round)' => ~Balanced(round - 1)
    <3>1. failed' = "control" <=> failed = "control"
      BY DEF Rests
    <3>2. Balanced(round - 1)' <=> Balanced(round - 1)
      BY DEF Balanced
    <3> QED
      BY <3>1, <3>2 DEF Behind
  <2>1. /\ AtMost(accState[Leader][round - 1], Sum(round))
        /\ accState[Leader][round - 1] = Sum(round) => ~Balanced(round - 1)
    BY DEF Summed, Behind
  <2>2. PICK id \in 1 .. MaxRounds : id = round /\ Sum(round) = Sum(id) /\ Sum(round)' = Sum(id)'
    <3>1. round > 0
      BY RoundParts DEF Accounted, TypeOK
    <3> QED
      BY <3>1, SumRound
  <2>3. PICK s, t, u \in State : s = accState[Leader][round - 1] /\ t = Sum(round) /\ u = Sum(round)'
    <3>1. round - 1 \in 1 .. MaxRounds /\ Leader \in Node
      BY RoundParts, Family
    <3>2. accState[Leader][round - 1] \in State
      BY <3>1, PartType DEF Accounted
    <3> QED
      BY <2>2, <3>2, PartType, PartTypeNext DEF Accounted
  <2>4. AtMost(s, t) /\ AtMost(t, u)
    BY <1>1, <2>1, <2>2, <2>3
  <2>5. AtMost(s, u) /\ (s = u => s = t)
    <3>1. s.in \in Nat /\ s.out \in Nat /\ t.in \in Nat /\ t.out \in Nat /\ u.in \in Nat /\ u.out \in Nat
      BY StateFields
    <3>2. AtMost(s, u) /\ (s = u => s.in = t.in /\ s.out = t.out)
      BY <2>4, <3>1 DEF AtMost
    <3> QED
      BY <3>2, StateFields
  <2> QED
    BY <2>1, <2>3, <2>5
<1> QED
  BY <1>1, <1>2, <1>3 DEF Summed

\* Counters that balance leave no vote under way.
LEMMA BalancedQuiet ==
  ASSUME TypeOK, VotesConserved, loop # "elected", outbox = Nothing, Now.in = Now.out
  PROVE  Quiet
<1> DEFINE f == [e \in Node \X Node |-> UnderWay(e[1], e[2], Vote)]
<1>1. /\ IsFiniteSet(Node) /\ msgInCounter \in [Node -> Nat] /\ msgOutCounter \in [Node -> Nat]
      /\ chan \in Channels(Message)
  BY NodeAssumption DEF TypeOK, Channels, Outgoing
<1>2. Now.in = Total(msgInCounter) /\ Now.out = Total(msgOutCounter)
  <2> DEFINE own == [n \in Node |-> OwnState(n)]
  <2>1. Now = SumState(own) /\ DOMAIN own = Node /\ \A n \in Node : own[n].in = msgInCounter[n] /\ own[n].out = msgOutCounter[n]
    BY DEF Now, OwnState
  <2> HIDE DEF own
  <2>2. [n \in DOMAIN own |-> own[n].in] = msgInCounter /\ [n \in DOMAIN own |-> own[n].out] = msgOutCounter
    BY <1>1, <2>1
  <2> QED
    BY <2>1, <2>2 DEF SumState
<1>3. f \in [Node \X Node -> Nat] /\ IsFiniteSet(Node \X Node)
  BY <1>1, TrafficType DEF UnderWay
<1>4. Total(f) \in Nat /\ Total(msgInCounter) \in Nat /\ Total(msgOutCounter) \in Nat
  BY <1>1, <1>3, TotalType
<1>5. Total(f) = 0
  <2>1. Total(msgOutCounter) = Total(msgInCounter) + Total(f)
    BY DEF VotesConserved
  <2>2. Total(msgOutCounter) = Total(msgInCounter)
    BY <1>2
  <2> HIDE DEF f
  <2> QED
    BY <1>4, <2>1, <2>2
<1>6. \A e \in Node \X Node : f[e] = 0
  BY <1>3, <1>5, TotalZero
<1>7. \A p, q \in Node : UnderWay(p, q, Vote) = 0
  <2> SUFFICES ASSUME NEW p \in Node, NEW q \in Node PROVE UnderWay(p, q, Vote) = 0
    OBVIOUS
  <2>1. f[<<p, q>>] = 0
    BY <1>6
  <2> QED
    BY <2>1
<1> QED
  BY <1>7, CopiesOut DEF Quiet

LEMMA NextRoundSummed == ASSUME Accounted, TypeOK', VotesConserved, Summed, NextRound PROVE Summed'
<1>1. /\ loop = "count" /\ outbox = Nothing /\ loop' = "count" /\ round' = round + 1
      /\ round \in {0} \cup accStateDone /\ UNCHANGED <<msgInCounter, msgOutCounter, failed>>
      /\ round + 1 <= MaxRounds /\ round \in Nat /\ MaxRounds \in Nat
  BY LeadingParts, AllRequests DEF NextRound, At, votes, Accounted, TypeOK
<1>2. Unknown' /\ (\A i \in 1 .. MaxRounds : Sum(i)' = Sum(i))
      /\ \A i \in 1 .. round : accState'[Leader][i] = accState[Leader][i]
  BY StartsSums DEF Summed
<1>3. NoneAhead'
  BY <1>1, <1>2, SameNow DEF Summed, NoneAhead
<1>4. FourCounters'
  BY <1>1 DEF FourCounters, HasConverged
<1>5. Behind'
  <2> SUFFICES ASSUME failed # "control", round + 1 > 1
               PROVE  /\ AtMost(accState'[Leader][round], Sum(round)')
                      /\ accState'[Leader][round] = Sum(round)' /\ accState'[Leader][round].in = accState'[Leader][round].out
                           => Quiet'
    <3>1. round' - 1 = round
      BY <1>1
    <3> QED
      BY <1>1, <3>1 DEF Behind, Balanced
  <2>1. PICK id, j \in 1 .. MaxRounds : id = round /\ j = round + 1
    BY <1>1
  <2>2. Complete(Leader, id) /\ id \in 1 .. round
    BY <1>1, <2>1, LeadingParts DEF Accounted
  <2>3. accState'[Leader][round] = Sum(id)
    <3>1. Sum(id) = accState[Leader][id]
      BY <2>2, SumDone
    <3> QED
      BY <1>2, <2>1, <2>2, <3>1
  <2>4. Sum(round)' = Sum(j)'
    BY <1>1, <2>1 DEF Sum, Part, Passed, Complete
  <2>5. echo[Leader][j] = None
    <3>1. j \in Requests /\ j # Collect /\ ~(j <= round)
      BY <1>1, <2>1, AllRequests
    <3> QED
      BY <3>1 DEF Accounted, Leading, Begun
  <2>6. Sum(round)' = Now
    BY <1>2, <2>4, <2>5, SumFresh DEF Summed
  <2>7. AtMost(Sum(id), Now)
    BY DEF Summed, NoneAhead
  <2>8. Now.in = Now.out => Quiet'
    <3>1. Next
      BY DEF Next, leaderLoop
    <3> QED
      BY <1>1, <3>1, BalancedQuiet, QuietNext DEF Accounted
  <2> QED
    BY <2>3, <2>6, <2>7, <2>8
<1> QED
  BY <1>2, <1>3, <1>4, <1>5 DEF Summed

LEMMA StartCollectSummed == ASSUME Accounted, TypeOK', Summed, StartCollect PROVE Summed'
<1>1. /\ loop = "count" /\ Converged /\ UNCHANGED <<accState, round, failed, msgInCounter, msgOutCounter>>
      /\ Next /\ ~HasConverged
  BY DEF StartCollect, At, votes, rounds, HasConverged, Next, leaderLoop
<1>2. Unknown' /\ \A i \in 1 .. MaxRounds : Sum(i)' = Sum(i)
  BY StartsSums DEF Summed
<1>3. NoneAhead'
  BY <1>1, <1>2, SameNow DEF Summed, NoneAhead
<1>4. Quiet => Quiet'
  BY <1>1, QuietNext DEF Accounted
<1>5. Behind'
  BY <1>1, <1>2, <1>4, SameBehind DEF Summed
<1>6. FourCounters'
  <2> SUFFICES ASSUME accState[Leader][round - 1] = accState[Leader][round] PROVE Quiet
    BY <1>1, <1>4 DEF FourCounters, SameCounts
  <2>1. {round - 1, round} \subseteq 1 .. round /\ round \in Nat
    BY <1>1, LeadingParts DEF Converged, Accounted
  <2>2. PICK id \in 1 .. MaxRounds : id = round /\ Sum(round) = Sum(id)
    BY <1>1, <2>1, SumRound
  <2>3. Complete(Leader, id)
    BY <1>1, <2>1, <2>2, LeadingParts DEF Converged, Accounted
  <2>4. Sum(round) = accState[Leader][round] /\ failed # "control"
    <3>1. Sum(id) = accState[Leader][id] /\ (failed = "control" /\ ~HasConverged => id # round)
      BY <2>3, SumDone
    <3> QED
      BY <1>1, <2>2, <3>1
  <2> QED
    BY <1>1, <2>1, <2>4 DEF Summed, Behind, Converged
<1> QED
  BY <1>2, <1>3, <1>5, <1>6 DEF Summed

LEMMA VoteSummed ==
  ASSUME Accounted, TypeOK', Summed, NEW n \in Node, NEW q \in Node,
         handle_voteBegin(n, q) \/ handle_proposal(n, q) \/ handle_proposalResponse(n, q)
  PROVE  Summed'
<1>1. /\ Head(chan[q][n]) \in Vote /\ chan[q][n] # <<>>
      /\ \E sent \in Nat : Received(n) /\ Sends(n, sent)
      /\ UNCHANGED <<accState, round, loop>>
  BY VoteStep DEF Accounted, rounds, loopVars
<1>2. PICK sent \in Nat : Received(n) /\ Sends(n, sent)
  BY <1>1
<1>3. ~Quiet /\ Rests
  BY <1>1, VoteLoud, VoteRests DEF Accounted
<1>4. HasConverged' => HasConverged
  BY <1>1 DEF HasConverged
<1> QED
  BY <1>1, <1>2, <1>3, <1>4, GrownSummed DEF Received, Sends

LEMMA CountSummed ==
  ASSUME Accounted, TypeOK', Summed, [Next]_vars, NEW n \in Node, NEW q \in Node,
         NEW id \in Requests, Requested(n, q, id) \/ Replied(n, q, id)
  PROVE  Summed'
<1>1. UNCHANGED <<round, msgInCounter, msgOutCounter, failed, loop>>
  BY DEF Requested, Replied, votes, loopVars
<1>2. HasConverged' => HasConverged
  BY <1>1 DEF HasConverged
<1>3. ASSUME Requested(n, q, id)
      PROVE  \A i \in 1 .. MaxRounds : accState'[Leader][i] = accState[Leader][i]
  <2>1. n # Leader
    BY <1>3, RequestedPasses, Family DEF Accounted
  <2> QED
    BY <1>3, <2>1, OthersSame, Family DEF Accounted
<1>4. /\ Unknown' /\ \A i \in 1 .. MaxRounds : Sum(i)' = Sum(i)
      /\ \A i \in 1 .. MaxRounds : Complete(Leader, i) => accState'[Leader][i] = accState[Leader][i]
  BY <1>3, RequestedSums, RepliedSums DEF Summed
<1> QED
  BY <1>1, <1>2, <1>4, SameSummed

\* The steps of the loop that neither count nor start a count.
LEMMA LoopSummed ==
  ASSUME Accounted, TypeOK', Summed, [Next]_vars, NEW r \in Node,
         BeginVote \/ LoopSend(r) \/ LoopSendFails(r) \/ CheckResult \/ UNCHANGED vars
  PROVE  Summed'
<1>1. /\ UNCHANGED <<accState, round, msgInCounter>> /\ (failed = "control" => failed' = "control")
      /\ loop' = loop \/ (loop = "elected" /\ loop' = "count") \/ (loop = "collect" /\ loop' \in {"done", "stuck"})
  BY DEF BeginVote, At, CheckResult, LoopSend, LoopSendFails, CanFail, vars, votes, rounds, loopVars
<1>2. HasConverged' => HasConverged
  BY <1>1 DEF HasConverged
<1>3. Rests
  BY BeginRests, LoopRests, OtherRests DEF Accounted
<1>4. msgInCounter \in [Node -> Nat] /\ msgOutCounter \in [Node -> Nat] /\ outbox[r] \in Seq(Message) /\ Leader \in Node
  BY Family DEF Accounted, TypeOK
<1>5. CASE msgOutCounter' = msgOutCounter
  <2>1. Unknown' /\ \A i \in 1 .. MaxRounds : Sum(i)' = Sum(i)
    BY <1>1, <1>3, <1>5, SameSums DEF Summed
  <2> QED
    BY <1>1, <1>2, <1>5, <2>1, SameSummed
<1>6. CASE LoopSend(r) /\ Head(outbox[r]) \in Vote
  <2>1. msgOutCounter' = [msgOutCounter EXCEPT ![Leader] = @ + 1] /\ outbox[r] # <<>>
    BY <1>6 DEF LoopSend, Sends
  <2>2. msgInCounter' = [msgInCounter EXCEPT ![Leader] = @ + 0]
    <3>1. [msgInCounter EXCEPT ![Leader] = @ + 0] = msgInCounter
      BY <1>4
    <3> QED
      BY <1>1, <3>1
  <2>3. ~Quiet
    <3>1. 1 \in DOMAIN outbox[r] /\ Head(outbox[r]) = outbox[r][1]
      BY <1>4, <2>1, Uncons
    <3> QED
      BY <1>6, <3>1, QuietForm DEF Accounted
  <2> QED
    BY <1>1, <1>2, <1>3, <1>4, <2>1, <2>2, <2>3, GrownSummed
<1>7. CASE LoopSend(r) /\ Head(outbox[r]) \notin Vote
  <2>1. msgOutCounter' = [msgOutCounter EXCEPT ![Leader] = @ + 0]
    BY <1>7 DEF LoopSend, Sends
  <2>2. [msgOutCounter EXCEPT ![Leader] = @ + 0] = msgOutCounter
    BY <1>4
  <2> QED
    BY <1>5, <2>1, <2>2
<1>8. CASE BeginVote \/ LoopSendFails(r) \/ CheckResult \/ UNCHANGED vars
  <2>1. msgOutCounter' = msgOutCounter
    BY <1>8 DEF BeginVote, CheckResult, LoopSendFails, vars, votes
  <2> QED
    BY <1>5, <2>1
<1> QED
  BY <1>6, <1>7, <1>8

LEMMA LossSummed ==
  ASSUME Accounted, TypeOK', Summed, NEW p \in Node, NEW q \in Node, SendFails(p, q)
  PROVE  Summed'
<1>1. UNCHANGED <<accState, msgInCounter, msgOutCounter, round, loop>> /\ failed' = "control"
  BY DEF SendFails, votes, rounds, loopVars
<1>2. PICK id \in Requests, c \in Others : Loses(c, id)
  BY LossStep DEF Accounted
<1>3. Unknown' /\ NoneAhead'
  BY <1>1, <1>2, LostSums DEF Summed
<1>4. Behind'
  BY <1>1 DEF Behind
<1>5. Next
  BY DEF Next
<1>6. Quiet => Quiet'
  BY <1>5, QuietNext DEF Accounted
<1>7. HasConverged' => HasConverged
  BY <1>1 DEF HasConverged
<1>8. FourCounters'
  BY <1>1, <1>6, <1>7, SameFour DEF Summed
<1> QED
  BY <1>3, <1>4, <1>8 DEF Summed

LEMMA SummedNext == TypeOK' /\ Accounted /\ VotesConserved /\ Summed /\ [Next]_vars => Summed'
<1> SUFFICES ASSUME TypeOK', Accounted, VotesConserved, Summed, [Next]_vars PROVE Summed'
  OBVIOUS
<1>1. ASSUME NEW n \in Node, NEW q \in Node, Handle(n, q) PROVE Summed'
  <2>1. CASE handle_voteBegin(n, q) \/ handle_proposal(n, q) \/ handle_proposalResponse(n, q)
    BY <2>1, VoteSummed
  <2>2. CASE handle_stateRequest(n, q) \/ handle_collectRequest(n, q)
    BY <2>2, RequestStep, CountSummed DEF Accounted
  <2>3. CASE handle_stateResponse(n, q) \/ handle_collect(n, q)
    BY <2>3, AnswerStep, CountSummed DEF Accounted
  <2> QED
    BY <1>1, <2>1, <2>2, <2>3 DEF Handle
<1>2. CASE BeginVote \/ CheckResult \/ (\E r \in Node : LoopSend(r) \/ LoopSendFails(r)) \/ UNCHANGED vars
  BY <1>2, LoopSummed, Family
<1> QED
  BY <1>1, <1>2, NextRoundSummed, StartCollectSummed, LossSummed DEF Next, leaderLoop

LEMMA SummedInit == Init => Summed
<1> SUFFICES ASSUME Init PROVE Summed
  OBVIOUS
<1>1. Accounted
  BY CountedInit
<1>2. /\ \A n \in Node, id \in 1 .. MaxRounds : echo[n][id] = None /\ accState[n][id] = NoState
      /\ round = 0 /\ loop = "elected"
  BY AllRequests DEF Init
<1>3. Unknown /\ Behind /\ FourCounters
  BY <1>2 DEF Unknown, Behind, FourCounters, HasConverged
<1>4. NoneAhead
  <2> SUFFICES ASSUME NEW id \in 1 .. MaxRounds PROVE AtMost(Sum(id), Now)
    BY DEF NoneAhead
  <2>1. Sum(id) = Now /\ Now \in State
    BY <1>1, <1>2, <1>3, Family, SumFresh, PartType DEF Accounted
  <2> QED
    BY <2>1, StateFields DEF AtMost
<1> QED
  BY <1>3, <1>4 DEF Summed

\* Two consecutive counts of the same numbers of votes, as many received as sent, mean
\* that the voting is over (FourCounters): on every graph and tree, whatever the order in
\* which votes, requests and answers overtake each other, and whatever one send fails.
THEOREM TwoCounts == Spec => []FourCounters
<1>1. Spec => []Accounted
  BY TypesInit, TypesNext, CountedInit, CountedNext, PTL DEF Spec, Accounted
<1>2. Summed => FourCounters
  BY DEF Summed
<1> QED
  BY <1>1, <1>2, VotesCounted, TypesInit, TypesNext, SummedInit, SummedNext, PTL DEF Spec, Accounted

-----------------------------------------------------------------------------
(***************************************************************************)
(* The result.  Once two counts were the same nobody changes its time any  *)
(* more; what a node has gathered is then told from the times of the nodes *)
(* whose answers it has.                                                   *)
(***************************************************************************)
Gathered(n) == accResult[n].agreement =>
  /\ n # Leader \/ Complete(n, Collect) => accResult[n].timestamp = tK[n]
  /\ \A c \in Reporting(n, Collect) :
       accResult[c].agreement /\ accResult[c].timestamp = accResult[n].timestamp
Faithful(n) == echo[n][Collect] # None =>
  /\ echo[n][Collect] = Cardinality(Reporting(n, Collect)) => Gathered(n)
  /\ accResult[n].timestamp # None => \E a \in Node : tK[a] = accResult[n].timestamp
  /\ ~accResult[n].agreement => \E a, b \in Node : tK[a] # tK[b]
Agreeing == HasConverged /\ SameCounts => \A n \in Node : Faithful(n)

Added(r, s) == AddResult(r, s.agreement, s.timestamp)

\* resultState.Add: no agreement is found that was not there, and none is lost for nothing.
LEMMA Adding ==
  ASSUME NEW r \in Result, NEW s \in Result, NEW t, t = Added(r, s)
  PROVE  /\ t \in Result
         /\ t.agreement => r.agreement /\ s.agreement
         /\ t.agreement /\ s.timestamp # None => t.timestamp = s.timestamp /\ (r.timestamp = None \/ r.timestamp = s.timestamp)
         /\ t.timestamp = None \/ t.timestamp = r.timestamp \/ t.timestamp = s.timestamp
         /\ ~t.agreement => \/ ~r.agreement \/ ~s.agreement
                            \/ r.timestamp # None /\ s.timestamp # None /\ r.timestamp # s.timestamp
<1> DEFINE agreed == r.agreement /\ s.agreement
                     /\ ~(None \notin {r.timestamp, s.timestamp} /\ r.timestamp # s.timestamp)
           time == IF ~agreed THEN None ELSE IF r.timestamp = None THEN s.timestamp ELSE r.timestamp
<1>1. t = [agreement |-> agreed, timestamp |-> time]
  BY DEF Added, AddResult
<1>2. /\ r.agreement \in BOOLEAN /\ s.agreement \in BOOLEAN
      /\ r.timestamp \in Times \cup {None} /\ s.timestamp \in Times \cup {None}
  BY DEF Result
<1>3. agreed \in BOOLEAN /\ time \in Times \cup {None}
  BY <1>2
<1>4. t \in Result
  BY <1>1, <1>3 DEF Result
<1>5. t.agreement = agreed /\ t.timestamp = time
  BY <1>1
<1>6. CASE agreed
  <2>1. t.agreement /\ t.timestamp = IF r.timestamp = None THEN s.timestamp ELSE r.timestamp
    BY <1>5, <1>6
  <2> QED
    BY <1>4, <1>6, <2>1
<1>7. CASE ~agreed
  <2>1. ~t.agreement /\ t.timestamp = None
    BY <1>5, <1>7
  <2> QED
    BY <1>4, <1>7, <2>1
<1> QED
  BY <1>6, <1>7

\* What n, and who has reported to it, do not take part in.
LEMMA SameFaithful ==
  ASSUME Accounted, NEW n \in Node, Faithful(n), tK' = tK,
         echo'[n][Collect] = echo[n][Collect], accResult'[n] = accResult[n],
         \A c \in Reporting(n, Collect) : /\ Complete(c, Collect)' /\ Answers'[c][Collect] = 0
                                          /\ accResult'[c] = accResult[c]
  PROVE  Faithful(n)'
<1> DEFINE R == Reporting(n, Collect)
           S == Reporting(n, Collect)'
<1> SUFFICES ASSUME echo[n][Collect] # None, echo[n][Collect] = Cardinality(S) PROVE Gathered(n)'
  BY DEF Faithful
<1>1. R \subseteq S
  BY DEF Reporting
<1>2. S \in SUBSET Childs(n) /\ IsFiniteSet(Childs(n))
  BY Family DEF Reporting
<1>3. Collect \in Requests
  BY AllRequests
<1>4. echo[n][Collect] <= Cardinality(R) /\ echo[n][Collect] \in Nat
  BY <1>3, ObservedType DEF Accounted, Counting
<1> HIDE DEF R, S
<1>5. R = S
  <2>1. IsFiniteSet(S)
    BY <1>2, FS_Subset
  <2>2. IsFiniteSet(R) /\ Cardinality(R) <= Cardinality(S) /\ (Cardinality(R) = Cardinality(S) => R = S)
    BY <1>1, <2>1, FS_Subset
  <2>3. Cardinality(R) \in Nat /\ Cardinality(S) \in Nat
    BY <2>1, <2>2, FS_CardinalityType
  <2> QED
    BY <1>4, <2>2, <2>3
<1>6. Gathered(n)
  BY <1>5 DEF Faithful, R
<1>7. Complete(n, Collect)' <=> Complete(n, Collect)
  BY DEF Complete
<1> QED
  BY <1>5, <1>6, <1>7 DEF Gathered, R, S

LEMMA CollectRequested ==
  ASSUME Accounted, TypeOK', NEW n \in Node, NEW q \in Node, Requested(n, q, Collect), \A k \in Node : Faithful(k)
  PROVE  \A k \in Node : Faithful(k)'
<1>1. /\ Collect \in Requests /\ n \in Others /\ n # Leader /\ Passes(n, Collect) /\ tK' = tK /\ echo[n][Collect] = None
      /\ TypeOK /\ Asked /\ Counting
  BY AllRequests, RequestedPasses, Family DEF Accounted, Requested, votes
<1>2. /\ \A k \in Node : echo'[k][Collect] = IF k = n THEN 0 ELSE echo[k][Collect]
      /\ \A c \in Others : Answers'[c][Collect] = IF c = n /\ AllAnswered(n, 0) THEN Answers[c][Collect] + 1
                                                  ELSE Answers[c][Collect]
  BY <1>1 DEF Passes
<1>3. ~Complete(n, Collect)
  BY <1>1, Family DEF Complete, None
<1>4. \A k \in Node : k # n => accResult'[k] = accResult[k]
  BY <1>1, OthersSame
<1>5. ASSUME NEW k \in Node, k # n PROVE Faithful(k)'
  <2>1. ASSUME NEW c \in Reporting(k, Collect)
        PROVE  Complete(c, Collect)' /\ Answers'[c][Collect] = 0 /\ accResult'[c] = accResult[c]
    <3>1. c \in Others /\ c \in Node /\ c # n /\ Complete(c, Collect) /\ Answers[c][Collect] = 0
      BY <1>3, Family DEF Reporting
    <3> QED
      BY <1>2, <1>4, <3>1 DEF Complete
  <2> QED
    BY <1>1, <1>2, <1>4, <1>5, <2>1, SameFaithful
<1>6. Faithful(n)'
  <2>1. accResult'[n] = [agreement |-> TRUE, timestamp |-> tK[n]]
    <3> DEFINE r == [agreement |-> TRUE, timestamp |-> tK[n]]
    <3>1. tK[n] \in Times /\ accResult \in [Node -> Result] /\ r \in Result
      BY <1>1 DEF TypeOK, Result
    <3>2. r.agreement = TRUE /\ r.timestamp = tK[n]
      OBVIOUS
    <3>3. AddResult(r, TRUE, tK[n]) = r
      BY <3>2 DEF AddResult
    <3>4. accResult' = [accResult EXCEPT ![n] = IF AllAnswered(n, 0) THEN AddResult(r, TRUE, tK[n]) ELSE r]
      BY DEF Requested, AddsResult
    <3> HIDE DEF r
    <3>5. accResult'[n] = r
      BY <3>1, <3>3, <3>4
    <3> QED
      BY <3>5 DEF r
  <2>2. Reporting(n, Collect)' = {}
    <3> SUFFICES ASSUME NEW c \in Childs(n) PROVE ~Complete(c, Collect)'
      BY DEF Reporting
    <3>1. c \in Others /\ c \in Node /\ c # n /\ echo[c][Collect] = None
      BY <1>1, Family, AskedParts
    <3> QED
      BY <1>2, <3>1, Family DEF Complete, None
  <2>3. accResult'[n].agreement = TRUE /\ accResult'[n].timestamp = tK[n]
    BY <2>1
  <2>4. Gathered(n)'
    BY <1>1, <2>2, <2>3 DEF Gathered
  <2> QED
    BY <1>1, <2>3, <2>4 DEF Faithful
<1> QED
  BY <1>5, <1>6

\* A node that is through has heard all its children.
LEMMA ThroughGathered ==
  ASSUME Accounted, NEW n \in Node, Complete(n, Collect), Faithful(n)
  PROVE  Gathered(n) /\ echo[n][Collect] # None
<1>1. Collect \in Requests /\ Cardinality(Childs(n)) \in Nat
  BY AllRequests, Family
<1>2. echo[n][Collect] = Cardinality(Childs(n)) /\ echo[n][Collect] # None
  BY <1>1 DEF Complete, None
<1>3. /\ Cardinality(Reporting(n, Collect)) \in Nat /\ Cardinality(Reporting(n, Collect)) <= Cardinality(Childs(n))
      /\ echo[n][Collect] <= Cardinality(Reporting(n, Collect))
  BY <1>1, <1>2, ReportingType DEF Accounted, Counting
<1> QED
  BY <1>1, <1>2, <1>3 DEF Faithful

LEMMA CollectReplied ==
  ASSUME Accounted, TypeOK', NEW n \in Node, NEW q \in Node, Replied(n, q, Collect), \A k \in Node : Faithful(k)
  PROVE  \A k \in Node : Faithful(k)'
<1> DEFINE count == echo[n][Collect] + 1
           R == Reporting(n, Collect)
<1>1. /\ Collect \in Requests /\ TypeOK /\ Asked /\ Counting /\ tK' = tK /\ echo[n][Collect] # None
      /\ q \in Others /\ q \in Childs(n) /\ q # n /\ q # Leader /\ Hears(n, q, Collect)
      /\ Head(chan[q][n]) = Answer(q, Collect)
  BY AllRequests, RepliedHears, Family DEF Accounted, Replied, votes
<1>2. /\ \A k \in Node : echo'[k][Collect] = IF k = n THEN count ELSE echo[k][Collect]
      /\ \A c \in Others : Answers'[c][Collect] = IF c = q THEN Answers[c][Collect] - 1
                                                  ELSE IF c = n /\ AllAnswered(n, count) THEN Answers[c][Collect] + 1
                                                  ELSE Answers[c][Collect]
      /\ Answers[q][Collect] > 0
  BY <1>1 DEF Hears
<1>3. ~Complete(n, Collect) /\ Answers[q][Collect] = 1 /\ Complete(q, Collect) /\ echo[n][Collect] \in Nat
  BY <1>1, <1>2, Unfinished, AskedParts, ObservedType
<1>4. \A k \in Node : k # n => accResult'[k] = accResult[k]
  BY <1>1, OthersSame
<1>5. ASSUME NEW k \in Node, k # n PROVE Faithful(k)'
  <2>1. ASSUME NEW c \in Reporting(k, Collect)
        PROVE  Complete(c, Collect)' /\ Answers'[c][Collect] = 0 /\ accResult'[c] = accResult[c]
    <3>1. c \in Others /\ c \in Node /\ c # n /\ c # q /\ Complete(c, Collect) /\ Answers[c][Collect] = 0
      BY <1>3, Family DEF Reporting
    <3> QED
      BY <1>2, <1>4, <3>1 DEF Complete
  <2> QED
    BY <1>1, <1>2, <1>4, <1>5, <2>1, SameFaithful
<1>6. /\ q \notin R /\ Reporting(n, Collect)' = R \cup {q}
      /\ count = Cardinality(R \cup {q}) => echo[n][Collect] = Cardinality(R)
  <2>1. q \notin R
    BY <1>3 DEF Reporting
  <2>2. ASSUME NEW c \in Childs(n)
        PROVE  Complete(c, Collect)' /\ Answers'[c][Collect] = 0
                 <=> c = q \/ (Complete(c, Collect) /\ Answers[c][Collect] = 0)
    <3>1. c \in Others /\ c \in Node /\ c # n
      BY Family
    <3>2. /\ Complete(c, Collect)' <=> Complete(c, Collect)
          /\ Answers'[c][Collect] = IF c = q THEN Answers[c][Collect] - 1 ELSE Answers[c][Collect]
      BY <1>2, <3>1 DEF Complete
    <3> QED
      BY <1>3, <3>2
  <2>3. Reporting(n, Collect)' = R \cup {q}
    BY <1>1, <2>2 DEF Reporting
  <2>4. IsFiniteSet(R) /\ Cardinality(R) \in Nat
    BY <1>1, ReportingType
  <2> HIDE DEF R
  <2>5. Cardinality(R \cup {q}) = Cardinality(R) + 1
    BY <2>1, <2>4, FS_AddElement
  <2> QED
    BY <1>3, <2>1, <2>3, <2>4, <2>5
<1>7. PICK x, y, r, own, t \in Result :
        /\ x = accResult[n] /\ y = accResult[q] /\ r = Added(x, y)
        /\ own = [agreement |-> TRUE, timestamp |-> tK[n]] /\ t = Added(r, own)
  <2>1. PICK x, y, own \in Result :
          x = accResult[n] /\ y = accResult[q] /\ own = [agreement |-> TRUE, timestamp |-> tK[n]]
    BY <1>1 DEF TypeOK, Result
  <2>2. PICK r \in Result : r = Added(x, y)
    BY Adding
  <2>3. PICK t \in Result : t = Added(r, own)
    BY Adding
  <2> QED
    BY <2>1, <2>2, <2>3
<1>8. own.agreement = TRUE /\ own.timestamp = tK[n] /\ tK[n] \in Times /\ tK[n] # None /\ q \in Node
  BY <1>1, <1>7 DEF TypeOK, Times, None
<1>9. accResult'[n] = (IF AllAnswered(n, count) THEN t ELSE r) /\ (Complete(n, Collect)' <=> AllAnswered(n, count))
  <2>1. Head(chan[q][n]).result = y
    BY <1>1, <1>7 DEF Answer, CollectResponse
  <2>2. AddsResult(n, AddResult(accResult[n], y.agreement, y.timestamp), count)
    BY <2>1 DEF Replied
  <2>3. accResult' = [accResult EXCEPT ![n] = IF AllAnswered(n, count) THEN AddResult(r, TRUE, tK[n]) ELSE r]
    BY <1>7, <2>2 DEF AddsResult, Added
  <2>4. accResult \in [Node -> Result] /\ t = AddResult(r, TRUE, tK[n])
    BY <1>1, <1>7, <1>8 DEF TypeOK, Added
  <2>5. accResult'[n] = IF AllAnswered(n, count) THEN t ELSE r
    BY <2>3, <2>4
  <2>6. Complete(n, Collect)' <=> AllAnswered(n, count)
    BY <1>2 DEF Complete, AllAnswered
  <2> QED
    BY <2>5, <2>6
<1>10. /\ r.agreement => x.agreement /\ y.agreement
       /\ r.agreement /\ y.timestamp # None => r.timestamp = y.timestamp /\ (x.timestamp = None \/ x.timestamp = y.timestamp)
       /\ r.timestamp = None \/ r.timestamp = x.timestamp \/ r.timestamp = y.timestamp
       /\ ~r.agreement => \/ ~x.agreement \/ ~y.agreement
                          \/ x.timestamp # None /\ y.timestamp # None /\ x.timestamp # y.timestamp
  <2>1. r = Added(x, y)
    BY <1>7
  <2> QED
    BY <2>1, Adding
<1>11. /\ t.agreement => r.agreement /\ t.timestamp = tK[n] /\ (r.timestamp = None \/ r.timestamp = tK[n])
       /\ t.timestamp = None \/ t.timestamp = r.timestamp \/ t.timestamp = tK[n]
       /\ ~t.agreement => ~r.agreement \/ (r.timestamp # None /\ r.timestamp # tK[n])
  <2>1. t = Added(r, own)
    BY <1>7
  <2>2. /\ t.agreement => r.agreement /\ own.agreement
        /\ t.agreement /\ own.timestamp # None
             => t.timestamp = own.timestamp /\ (r.timestamp = None \/ r.timestamp = own.timestamp)
        /\ t.timestamp = None \/ t.timestamp = r.timestamp \/ t.timestamp = own.timestamp
        /\ ~t.agreement => \/ ~r.agreement \/ ~own.agreement
                           \/ r.timestamp # None /\ own.timestamp # None /\ r.timestamp # own.timestamp
    BY <2>1, Adding
  <2> QED
    BY <1>8, <2>2
<1>12. y.agreement => y.timestamp = tK[q] /\ y.timestamp # None
  <2>1. Gathered(q)
    BY <1>3, <1>8, ThroughGathered
  <2>2. tK[q] # None
    BY <1>1, <1>8 DEF TypeOK, Times, None
  <2> QED
    BY <1>1, <1>7, <2>1, <2>2 DEF Gathered
<1>13. /\ x.timestamp # None => \E a \in Node : tK[a] = x.timestamp
       /\ y.timestamp # None => \E a \in Node : tK[a] = y.timestamp
       /\ ~x.agreement \/ ~y.agreement => \E a, b \in Node : tK[a] # tK[b]
  <2>1. Faithful(n) /\ Faithful(q) /\ echo[n][Collect] # None /\ echo[q][Collect] # None
    BY <1>1, <1>3, <1>8, ThroughGathered
  <2> QED
    BY <1>7, <2>1 DEF Faithful
<1>14. /\ r.timestamp # None => \E a \in Node : tK[a] = r.timestamp
       /\ ~r.agreement => \E a, b \in Node : tK[a] # tK[b]
  BY <1>10, <1>13
<1>15. /\ t.timestamp # None => \E a \in Node : tK[a] = t.timestamp
       /\ ~t.agreement => \E a, b \in Node : tK[a] # tK[b]
  BY <1>11, <1>14
<1>16. ASSUME count = Cardinality(R \cup {q}), r.agreement
       PROVE  /\ n # Leader => r.timestamp = tK[n]
              /\ \A c \in R : accResult[c].agreement /\ accResult[c].timestamp = r.timestamp
  <2>1. Gathered(n)
    BY <1>1, <1>6, <1>16 DEF Faithful, R
  <2>2. /\ n # Leader => x.timestamp = tK[n]
        /\ \A c \in R : accResult[c].agreement /\ accResult[c].timestamp = x.timestamp
    BY <1>7, <1>10, <1>16, <2>1 DEF Gathered, R
  <2>3. r.timestamp = y.timestamp /\ x.timestamp \in {None, r.timestamp} /\ r.timestamp # None
    BY <1>10, <1>12, <1>16
  <2>4. \A c \in R : accResult[c].agreement => accResult[c].timestamp # None
    <3> SUFFICES ASSUME NEW c \in R, accResult[c].agreement PROVE accResult[c].timestamp # None
      OBVIOUS
    <3>1. c \in Node /\ c # Leader /\ Complete(c, Collect)
      BY Family DEF Reporting, R
    <3>2. Gathered(c) /\ tK[c] # None
      BY <1>1, <3>1, ThroughGathered DEF TypeOK, Times, None
    <3> QED
      BY <3>1, <3>2 DEF Gathered
  <2> HIDE DEF R
  <2> QED
    BY <1>8, <2>2, <2>3, <2>4
<1>17. Faithful(n)'
  <2> DEFINE u == accResult'[n]
  <2>1. /\ u.timestamp # None => \E a \in Node : tK[a] = u.timestamp
        /\ ~u.agreement => \E a, b \in Node : tK[a] # tK[b]
    BY <1>9, <1>14, <1>15
  <2>2. ASSUME count = Cardinality(R \cup {q}), u.agreement
        PROVE  /\ n # Leader \/ Complete(n, Collect)' => u.timestamp = tK[n]
               /\ \A c \in R \cup {q} : accResult'[c].agreement /\ accResult'[c].timestamp = u.timestamp
    <3>1. r.agreement /\ y.agreement
      BY <1>9, <1>10, <1>11, <2>2
    <3>2. r.timestamp = y.timestamp /\ y.timestamp # None
      BY <1>10, <1>12, <3>1
    <3>3. u.timestamp = r.timestamp /\ (Complete(n, Collect)' => u.timestamp = tK[n])
      <4>1. CASE AllAnswered(n, count)
        <5>1. u = t
          BY <1>9, <4>1
        <5> HIDE DEF u
        <5> QED
          BY <1>11, <2>2, <3>2, <5>1
      <4>2. CASE ~AllAnswered(n, count)
        BY <1>9, <4>2
      <4> QED
        BY <4>1, <4>2
    <3>4. \A c \in R \cup {q} : accResult'[c] = accResult[c]
      <4>1. \A c \in R \cup {q} : c \in Node /\ c # n
        BY <1>1, <1>8, Family DEF Reporting
      <4> QED
        BY <1>4, <4>1
    <3>5. \A c \in R \cup {q} : accResult[c].agreement /\ accResult[c].timestamp = r.timestamp
      BY <1>7, <1>16, <2>2, <3>1, <3>2
    <3>6. n # Leader => r.timestamp = tK[n]
      BY <1>16, <2>2, <3>1
    <3> HIDE DEF u, R
    <3> QED
      BY <3>3, <3>4, <3>5, <3>6
  <2>3. echo'[n][Collect] = count
    BY <1>2
  <2>4. echo'[n][Collect] = Cardinality(Reporting(n, Collect)') => Gathered(n)'
    BY <1>1, <1>6, <2>2, <2>3 DEF Gathered
  <2> QED
    BY <1>1, <2>1, <2>4 DEF Faithful
<1> QED
  BY <1>5, <1>17

\* A step that changes neither what is gathered nor the times.
LEMMA SameAgreeing ==
  ASSUME Accounted, Agreeing, HasConverged' => HasConverged, HasConverged /\ SameCounts' => SameCounts,
         tK' = tK, accResult' = accResult, \A n \in Node : echo'[n][Collect] = echo[n][Collect],
         \A c \in Others : Answers[c][Collect] = 0 => Answers'[c][Collect] = 0
  PROVE  Agreeing'
<1> SUFFICES ASSUME HasConverged, SameCounts, NEW n \in Node PROVE Faithful(n)'
  BY DEF Agreeing
<1>1. Faithful(n)
  BY DEF Agreeing
<1>2. ASSUME NEW c \in Reporting(n, Collect)
      PROVE  Complete(c, Collect)' /\ Answers'[c][Collect] = 0 /\ accResult'[c] = accResult[c]
  <2>1. c \in Others /\ c \in Node /\ Complete(c, Collect) /\ Answers[c][Collect] = 0
    BY Family DEF Reporting
  <2> QED
    BY <2>1 DEF Complete
<1> QED
  BY <1>1, <1>2, SameFaithful

\* The two counts are not touched again.
LEMMA CountsKept ==
  ASSUME Accounted, HasConverged, round' = round,
         \A i \in 1 .. MaxRounds : Complete(Leader, i) => accState'[Leader][i] = accState[Leader][i]
  PROVE  SameCounts' <=> SameCounts
<1>1. round > 1
  BY RoundParts
<1>2. accState'[Leader][round - 1] = accState[Leader][round - 1] /\ accState'[Leader][round] = accState[Leader][round]
  BY <1>1, RoundParts
<1> QED
  BY <1>2 DEF SameCounts

LEMMA VoteAgreeing ==
  ASSUME Accounted, FourCounters, NEW n \in Node, NEW q \in Node,
         handle_voteBegin(n, q) \/ handle_proposal(n, q) \/ handle_proposalResponse(n, q)
  PROVE  Agreeing'
<1>1. Head(chan[q][n]) \in Vote /\ chan[q][n] # <<>> /\ UNCHANGED <<accState, round, loop>>
  BY VoteStep DEF Accounted, rounds, loopVars
<1>2. ~Quiet
  BY <1>1, VoteLoud DEF Accounted
<1>3. ~(HasConverged /\ SameCounts)'
  BY <1>1, <1>2 DEF FourCounters, HasConverged, SameCounts
<1> QED
  BY <1>3 DEF Agreeing

LEMMA CountAgreeing ==
  ASSUME Accounted, TypeOK', Unknown, Agreeing, NEW n \in Node, NEW q \in Node, NEW id \in Requests,
         Requested(n, q, id) \/ Replied(n, q, id)
  PROVE  Agreeing'
<1>1. UNCHANGED <<round, loop, tK>> /\ (HasConverged' => HasConverged) /\ TypeOK
  BY DEF Requested, Replied, votes, loopVars, HasConverged, Accounted
<1>2. ASSUME Requested(n, q, id)
      PROVE  \A i \in 1 .. MaxRounds : accState'[Leader][i] = accState[Leader][i]
  <2>1. n # Leader
    BY <1>2, RequestedPasses, Family DEF Accounted
  <2> QED
    BY <1>1, <1>2, <2>1, OthersSame, Family
<1>3. \A i \in 1 .. MaxRounds : Complete(Leader, i) => accState'[Leader][i] = accState[Leader][i]
  BY <1>2, RepliedSums
<1>4. HasConverged /\ SameCounts' => SameCounts
  BY <1>1, <1>3, CountsKept
<1>5. CASE id = Collect
  <2> SUFFICES ASSUME HasConverged, SameCounts PROVE \A k \in Node : Faithful(k)'
    BY <1>1, <1>4 DEF Agreeing
  <2>1. \A k \in Node : Faithful(k)
    BY DEF Agreeing
  <2> QED
    BY <1>5, <2>1, CollectRequested, CollectReplied
<1>6. CASE id # Collect
  <2>1. accResult' = accResult
    BY <1>6 DEF Requested, Replied, AddsState, result
  <2>2. Passes(n, id) \/ Hears(n, q, id)
    BY RequestedPasses, RepliedHears DEF Accounted
  <2>3. /\ \A k \in Node : echo'[k][Collect] = echo[k][Collect]
        /\ \A c \in Others : Answers'[c][Collect] = Answers[c][Collect]
    BY <1>6, <2>2, AllRequests DEF Passes, Hears
  <2> QED
    BY <1>1, <1>4, <2>1, <2>3, SameAgreeing
<1> QED
  BY <1>5, <1>6

LEMMA StartAgreeing == ASSUME Accounted, StartCollect PROVE Agreeing'
<1>1. /\ ~HasConverged /\ ~NextRound /\ accResult' = [accResult EXCEPT ![Leader] = NoResult]
      /\ accResult \in [Node -> Result] /\ Leader \in Node
  BY Family DEF StartCollect, At, NextRound, HasConverged, Accounted, TypeOK
<1>2. Starts(Collect) /\ Collect \in Requests
  BY <1>1, StartStep, AllRequests DEF Accounted
<1>3. \A n \in Node : echo[n][Collect] = None
  <2>1. echo[Leader][Collect] = None
    BY <1>1, <1>2 DEF Accounted, Leading, Begun
  <2> QED
    BY <1>2, <2>1, AllKnown DEF Accounted
<1>4. \A n \in Node : echo'[n][Collect] = IF n = Leader THEN 0 ELSE None
  BY <1>2, <1>3 DEF Starts
<1>5. accResult'[Leader].agreement = TRUE /\ accResult'[Leader].timestamp = None
  BY <1>1 DEF NoResult
<1>6. Reporting(Leader, Collect)' = {}
  <2>1. \A c \in Childs(Leader) : ~Complete(c, Collect)'
    BY <1>4, Family DEF Complete, None
  <2> QED
    BY <2>1 DEF Reporting
<1>7. ~Complete(Leader, Collect)'
  BY <1>1, <1>4, Family DEF Complete
<1>8. Gathered(Leader)'
  BY <1>6, <1>7 DEF Gathered
<1>9. ASSUME NEW n \in Node PROVE Faithful(n)'
  <2>1. CASE n = Leader
    BY <1>5, <1>8, <2>1 DEF Faithful
  <2>2. CASE n # Leader
    BY <1>4, <2>2 DEF Faithful
  <2> QED
    BY <2>1, <2>2
<1> QED
  BY <1>9 DEF Agreeing

LEMMA LoopAgreeing ==
  ASSUME Accounted, Agreeing, NEW r \in Node,
         NextRound \/ BeginVote \/ LoopSend(r) \/ LoopSendFails(r) \/ CheckResult \/ UNCHANGED vars
  PROVE  Agreeing'
<1>1. CASE NextRound \/ BeginVote
  BY <1>1 DEF NextRound, BeginVote, At, Agreeing, HasConverged
<1>2. CASE LoopSend(r) \/ LoopSendFails(r) \/ CheckResult \/ UNCHANGED vars
  <2>1. /\ UNCHANGED <<accState, round, tK, accResult, echo>>
        /\ loop' = loop \/ (loop = "collect" /\ loop' \in {"done", "stuck"})
    BY <1>2 DEF CheckResult, At, LoopSend, LoopSendFails, vars, votes, rounds, result, loopVars
  <2>2. (HasConverged' => HasConverged) /\ (HasConverged /\ SameCounts' => SameCounts)
    BY <2>1 DEF HasConverged, SameCounts
  <2>3. Rests
    BY <1>2, LoopRests, OtherRests DEF Accounted
  <2> QED
    BY <2>1, <2>2, <2>3, SameAgreeing, AllRequests DEF Rests
<1> QED
  BY <1>1, <1>2

LEMMA LossAgreeing ==
  ASSUME Accounted, Agreeing, NEW p \in Node, NEW q \in Node, SendFails(p, q)
  PROVE  Agreeing'
<1>1. UNCHANGED <<accState, round, tK, accResult, echo, loop>>
  BY DEF SendFails, votes, rounds, result, loopVars
<1>2. PICK id \in Requests, c \in Others : Loses(c, id)
  BY LossStep DEF Accounted
<1>3. \A d \in Others : Answers[d][Collect] = 0 => Answers'[d][Collect] = 0
  BY <1>2, AllRequests DEF Loses
<1> QED
  BY <1>1, <1>3, SameAgreeing DEF HasConverged, SameCounts

LEMMA AgreeingNext == TypeOK' /\ Accounted /\ Summed /\ Agreeing /\ [Next]_vars => Agreeing'
<1> SUFFICES ASSUME TypeOK', Accounted, Summed, Agreeing, [Next]_vars PROVE Agreeing'
  OBVIOUS
<1>1. ASSUME NEW n \in Node, NEW q \in Node, Handle(n, q) PROVE Agreeing'
  <2>1. CASE handle_voteBegin(n, q) \/ handle_proposal(n, q) \/ handle_proposalResponse(n, q)
    BY <2>1, VoteAgreeing DEF Summed
  <2>2. CASE handle_stateRequest(n, q) \/ handle_collectRequest(n, q)
    BY <2>2, RequestStep, CountAgreeing DEF Accounted, Summed
  <2>3. CASE handle_stateResponse(n, q) \/ handle_collect(n, q)
    BY <2>3, AnswerStep, CountAgreeing DEF Accounted, Summed
  <2> QED
    BY <1>1, <2>1, <2>2, <2>3 DEF Handle
<1>2. CASE NextRound \/ BeginVote \/ CheckResult \/ (\E r \in Node : LoopSend(r) \/ LoopSendFails(r)) \/ UNCHANGED vars
  BY <1>2, LoopAgreeing, Family
<1> QED
  BY <1>1, <1>2, StartAgreeing, LossAgreeing DEF Next, leaderLoop

\* All have reported, and nobody has found a disagreement: all times are the leader's.
LEMMA AgreeingTrue == Accounted /\ Agreeing => ResultTrue
<1> SUFFICES ASSUME Accounted, Agreeing, accResultDone, SameCounts
             PROVE  /\ accResult[Leader].agreement <=> \A n \in Node : tK[n] = tK[Leader]
                    /\ accResult[Leader].agreement => accResult[Leader].timestamp = tK[Leader]
  BY DEF ResultTrue
<1>1. Collect \in Requests /\ Leader \in Node /\ accResult \in [Node -> Result]
  BY AllRequests, Family DEF Accounted, TypeOK
<1>2. Complete(Leader, Collect) /\ \A n \in Node : Complete(n, Collect)
  <2>1. Complete(Leader, Collect)
    BY DEF Accounted, Leading
  <2> QED
    BY <1>1, <2>1, AllDone DEF Accounted
<1>3. HasConverged
  <2>1. echo[Leader][Collect] # None
    BY <1>2, Family DEF Complete, None
  <2> QED
    BY <1>1, <2>1 DEF Accounted, Leading, Begun
<1>4. \A n \in Node : Faithful(n) /\ Gathered(n) /\ echo[n][Collect] # None
  <2>1. \A n \in Node : Faithful(n)
    BY <1>3 DEF Agreeing
  <2> QED
    BY <1>2, <2>1, ThroughGathered
<1>5. ASSUME accResult[Leader].agreement
      PROVE  accResult[Leader].timestamp = tK[Leader] /\ \A n \in Node : tK[n] = tK[Leader]
  <2> DEFINE t == accResult[Leader].timestamp
             S == {n \in Node : ~(accResult[n].agreement /\ accResult[n].timestamp = t)}
  <2>1. ASSUME NEW c \in Others, c \in S PROVE Parent[c] \in S
    <3> SUFFICES ASSUME Parent[c] \notin S PROVE FALSE
      OBVIOUS
    <3>1. Parent[c] \in Node /\ c \in Childs(Parent[c])
      BY Family
    <3>2. accResult[Parent[c]].agreement /\ accResult[Parent[c]].timestamp = t
      BY <3>1
    <3>3. c \in Reporting(Parent[c], Collect)
      <4>1. Complete(c, Collect) /\ Answers[c][Collect] = 0
        BY <1>1, <1>2, Family, AllDone DEF Accounted
      <4> QED
        BY <3>1, <4>1 DEF Reporting
    <3>4. accResult[c].agreement /\ accResult[c].timestamp = t
      BY <1>4, <3>1, <3>2, <3>3 DEF Gathered
    <3> QED
      BY <2>1, <3>4
  <2>2. Leader \notin S
    BY <1>5
  <2>3. ASSUME NEW n \in Node PROVE tK[n] = t
    <3>1. n \notin S
      <4>1. S \in SUBSET Node
        OBVIOUS
      <4> HIDE DEF S
      <4> QED
        BY <2>1, <2>2, <4>1, Spread
    <3>2. accResult[n].agreement /\ accResult[n].timestamp = t
      BY <3>1
    <3> QED
      BY <1>2, <1>4, <3>2 DEF Gathered
  <2> QED
    BY <1>1, <2>3
<1>6. ASSUME ~accResult[Leader].agreement
      PROVE  ~(\A n \in Node : tK[n] = tK[Leader])
  BY <1>1, <1>4, <1>6 DEF Faithful
<1> QED
  BY <1>5, <1>6

\* If the two counts were the same, the leader reports agreement exactly if the nodes
\* agree, and the time they agree on (ResultTrue): on every graph and tree.
THEOREM ResultsTrue == Spec => []ResultTrue
<1>1. Spec => []Accounted
  BY TypesInit, TypesNext, CountedInit, CountedNext, PTL DEF Spec, Accounted
<1>2. Spec => []Summed
  BY <1>1, VotesCounted, TypesInit, TypesNext, SummedInit, SummedNext, PTL DEF Spec, Accounted
<1>3. Init => Agreeing
  BY DEF Init, Agreeing, HasConverged
<1>4. Accounted => TypeOK
  BY DEF Accounted
<1> QED
  BY <1>1, <1>2, <1>3, <1>4, AgreeingNext, AgreeingTrue, PTL DEF Spec
=============================================================================
