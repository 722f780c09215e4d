----------------------------- MODULE Consensus -----------------------------
(***************************************************************************)
(* The CONSENSUS extension, internal/node/consensus_ext.go, from the       *)
(* moment its election is over: the nodes vote on a common time, and the   *)
(* leader counts votes sent and received, over the spanning tree, until it *)
(* believes that the voting is over; then it collects the result.          *)
(*                                                                         *)
(* At every node the message handler holds echoLock for as long as it runs *)
(* and is one step.  At the leader, leaderLoop interleaves with it between *)
(* any two of its steps and between any two of its sends.                  *)
(***************************************************************************)
EXTENDS Network, Integers, FiniteSets

CONSTANTS
  Neigh,       \* the neighbours of each node
  Leader,      \* the winner of the election
  Parent,      \* srcUID of every other node
  MaxTime,     \* m: a node starts with a time of 1 .. m
  Initial,     \* the times the nodes start with
  sVote,       \* the leader's command line; the others are
  pNeighs,     \* every node's own
  aMax,
  MaxRounds,   \* bound: the rounds of the double count
  MayFail      \* bound: the channels on which one send, of all, may fail

Times == 1 .. MaxTime

ASSUME NodeAssumption == Node \subseteq Nat \ {0} /\ IsFiniteSet(Node) /\ Leader \in Node
ASSUME NeighAssumption ==
  Neigh \in [Node -> SUBSET Node] /\ \A n \in Node : Neigh[n] # {} /\ n \notin Neigh[n]
ASSUME ParentAssumption ==
  Parent \in [Node \ {Leader} -> Node] /\ \A n \in Node \ {Leader} : Parent[n] \in Neigh[n]
ASSUME SpanningAssumption ==
  \A S \in SUBSET Node : S # {} /\ (\A n \in S \ {Leader} : Parent[n] \in S) => Leader \in S
ASSUME ParameterAssumption ==
  /\ {MaxTime, sVote, MaxRounds} \subseteq Nat
  /\ pNeighs \in [Node -> Nat] /\ aMax \in [Node -> Nat]
  /\ Initial \subseteq [Node -> Times]
  /\ MayFail \subseteq Node \X Node

VARIABLES
  chan,
  tK,               \* the time a node is for
  aCurrent,         \* proposals it has accepted
  msgInCounter,
  msgOutCounter,
  echo,             \* per request, the answers counted; None before the request is known
  accState,         \* per round, what has been added up
  accStateDone,     \* the rounds reported to the leader
  accResult,
  accResultDone,
  loop,             \* where leaderLoop is
  outbox,           \* what leaderLoop has still to send to each node
  round,            \* currStateID; prevStateID is the round before
  failed            \* what could not be sent: nothing yet, a vote or a message of the count

votes == <<tK, aCurrent, msgInCounter, msgOutCounter>>
rounds == <<accState, accStateDone>>
result == <<accResult, accResultDone>>
loopVars == <<loop, outbox, round>>
vars == <<chan, votes, echo, rounds, result, loopVars, failed>>

(***************************************************************************)
(* Requests are told apart by the number of their round; Collect stands    *)
(* for collectID.  The active flag of a state is never set and left out.   *)
(***************************************************************************)
Collect == 0
Requests == Collect .. MaxRounds
None == -1

VoteBegin == [type |-> "voteBegin"]
Proposal(t) == [type |-> "proposal", time |-> t]
ProposalResponse(t) == [type |-> "proposalResponse", time |-> t]
Vote == {VoteBegin} \cup [type : {"proposal", "proposalResponse"}, time : Times]

StateRequest(id) == [type |-> "stateRequest", id |-> id]
StateResponse(id, s) == [type |-> "stateResponse", id |-> id, state |-> s]
CollectRequest == [type |-> "collectRequest"]
CollectResponse(r) == [type |-> "collect", result |-> r]
State == [in : Nat, out : Nat]
Result == [agreement : BOOLEAN, timestamp : Times \cup {None}]
Control == [type : {"stateRequest"}, id : 1 .. MaxRounds]
           \cup [type : {"stateResponse"}, id : 1 .. MaxRounds, state : State]
           \cup {CollectRequest} \cup [type : {"collect"}, result : Result]
Message == Vote \cup Control

Childs(n) == {c \in Node \ {Leader} : Parent[c] = n}

NoState == [in |-> 0, out |-> 0]
NoResult == [agreement |-> TRUE, timestamp |-> None]

Init ==
  /\ chan = EmptyNet
  /\ tK \in Initial
  /\ aCurrent = [n \in Node |-> 0]
  /\ msgInCounter = [n \in Node |-> 0]
  /\ msgOutCounter = [n \in Node |-> 0]
  /\ echo = [n \in Node |-> [id \in Requests |-> None]]
  /\ accState = [n \in Node |-> [id \in 1 .. MaxRounds |-> NoState]]
  /\ accStateDone = {}
  /\ accResult = [n \in Node |-> NoResult]
  /\ accResultDone = FALSE
  /\ loop = "elected"
  /\ outbox = Nothing
  /\ round = 0
  /\ failed = "nothing"

-----------------------------------------------------------------------------
(***************************************************************************)
(* Sending votes.  What a handler sends is drawn from a set of records:    *)
(* the messages, how many they are, and whether a send has failed.  Only   *)
(* what com.Send has accepted is counted.                                  *)
(***************************************************************************)
CanFail(p, q) == failed = "nothing" /\ <<p, q>> \in MayFail

NoVotes == [out |-> Nothing, sent |-> 0, failed |-> failed]

(***************************************************************************)
(* sendProposals and the randNeighsUnique under it, p being clipped to the *)
(* neighbours there are: nobody for p = 0, and otherwise every neighbour   *)
(* and one of them, x, a second time.                                      *)
(***************************************************************************)
Lost(n) == {{}} \cup {{r} : r \in {q \in Neigh[n] : CanFail(n, q)}}
Proposed(n, msg, x, lost) ==
  [out |-> Then(To(Neigh[n] \ lost, msg), To({x}, msg)),
   sent |-> Cardinality(Neigh[n] \ lost) + 1,
   failed |-> IF lost = {} THEN failed ELSE "vote"]
sendProposals(n, msg) ==
  IF pNeighs[n] = 0 THEN {NoVotes}
  ELSE {Proposed(n, msg, x, lost) : x \in Neigh[n], lost \in Lost(n)}

sendResponse(n, q, msg) ==
  {[out |-> To({q}, msg), sent |-> 1, failed |-> failed]}
  \cup {[NoVotes EXCEPT !.failed = "vote"] : x \in {q} \cap {r \in Node : CanFail(n, r)}}

-----------------------------------------------------------------------------
(***************************************************************************)
(* The vote handlers: n takes the first message under way from q.  A       *)
(* leader whose loop keeps echoLock handles nothing any more.              *)
(***************************************************************************)
Takes(n, q, kind) ==
  /\ n = Leader => loop # "stuck"
  /\ chan[q][n] # <<>>
  /\ Head(chan[q][n]).type = kind
  /\ UNCHANGED loopVars

Received(n) == msgInCounter' = [msgInCounter EXCEPT ![n] = @ + 1]
Sends(n, sent) == msgOutCounter' = [msgOutCounter EXCEPT ![n] = @ + sent]

handle_voteBegin(n, q) ==
  /\ Takes(n, q, "voteBegin")
  /\ Received(n)
  /\ \E p \in sendProposals(n, Proposal(tK[n])) :
       /\ chan' = Exchanged(chan, q, n, p.out)
       /\ Sends(n, p.sent)
       /\ failed' = p.failed
  /\ UNCHANGED <<tK, aCurrent, echo, rounds, result>>

\* math.Ceil of half the sum
MidTime(t1, t2) == (t1 + t2 + 1) \div 2

\* Mutants of Counted: accepting a proposal uses nothing up, or is counted twice.
CountedTwice(n) == aCurrent' = [aCurrent EXCEPT ![n] = @ + 2]
CountedNot(n) == aCurrent' = aCurrent
Counted(n) == aCurrent' = [aCurrent EXCEPT ![n] = @ + 1]

AcceptProposal(n, q) ==
  LET t == MidTime(Head(chan[q][n]).time, tK[n])
  IN /\ Takes(n, q, "proposal")
     /\ aCurrent[n] < aMax[n]
     /\ Received(n)
     /\ Counted(n)
     /\ tK' = [tK EXCEPT ![n] = t]
     /\ \E r \in sendResponse(n, q, ProposalResponse(t)),
           p \in sendProposals(n, Proposal(t)) :
          /\ failed \in {r.failed, p.failed}      \* at most one send fails
          /\ chan' = Exchanged(chan, q, n, Then(r.out, p.out))
          /\ Sends(n, r.sent + p.sent)
          /\ failed' = IF r.failed = failed THEN p.failed ELSE r.failed
     /\ UNCHANGED <<echo, rounds, result>>

\* Mutant of DropProposal: the early return comes before the message is counted.
DropUncounted(n, q) ==
  /\ Takes(n, q, "proposal")
  /\ aCurrent[n] >= aMax[n]
  /\ chan' = Taken(chan, q, n)
  /\ UNCHANGED <<votes, echo, rounds, result, failed>>
\* aMax proposals have been accepted: the proposal is counted and dropped.
DropProposal(n, q) ==
  /\ Takes(n, q, "proposal")
  /\ aCurrent[n] >= aMax[n]
  /\ Received(n)
  /\ chan' = Taken(chan, q, n)
  /\ UNCHANGED <<tK, aCurrent, msgOutCounter, echo, rounds, result, failed>>

handle_proposal(n, q) == AcceptProposal(n, q) \/ DropProposal(n, q)

handle_proposalResponse(n, q) ==
  /\ Takes(n, q, "proposalResponse")
  /\ Received(n)
  /\ tK' = [tK EXCEPT ![n] = Head(chan[q][n]).time]
  /\ chan' = Taken(chan, q, n)
  /\ UNCHANGED <<aCurrent, msgOutCounter, echo, rounds, result, failed>>

-----------------------------------------------------------------------------
(***************************************************************************)
(* The count.  A request that is known already and an answer to one that   *)
(* is not are errors of the code; by AnswersConserved there are none.      *)
(***************************************************************************)
\* Mutant of AddState: the sum is not stored.
AddStateLost(s1, s2) == s1
\* consensusState.Add
AddState(s1, s2) == [in |-> s1.in + s2.in, out |-> s1.out + s2.out]
OwnState(n) == [in |-> msgInCounter[n], out |-> msgOutCounter[n]]

\* Mutant of AddResult: the first timestamp wins.
AddResultFirst(r, agreement, timestamp) ==
  [r EXCEPT !.agreement = @ /\ agreement, !.timestamp = IF @ = None THEN timestamp ELSE @]
\* resultState.Add
AddResult(r, agreement, timestamp) ==
  LET conflict == None \notin {r.timestamp, timestamp} /\ r.timestamp # timestamp
      agreed == r.agreement /\ agreement /\ ~conflict
  IN [agreement |-> agreed,
      timestamp |-> IF ~agreed THEN None
                    ELSE IF r.timestamp = None THEN timestamp ELSE r.timestamp]

\* Mutants of AllAnswered: one answer too early, one too late.
AllAnsweredEarly(n, count) == count + 1 >= Cardinality(Childs(n))
AllAnsweredLate(n, count) == count > Cardinality(Childs(n))
AllAnswered(n, count) == count = Cardinality(Childs(n))
\* Mutant of PropagateChilds: to the parent as well.
PropagateNeighbours(n, msg) == To(Neigh[n], msg)
PropagateChilds(n, msg) == To(Childs(n), msg)
ToParent(n, msg) == IF n = Leader THEN Nothing ELSE To({Parent[n]}, msg)

\* stateReturn: with s added up and count answers in, n adds its own state and reports.
stateReturn(n, q, id, s, count, forward) ==
  LET total == IF AllAnswered(n, count) THEN AddState(s, OwnState(n)) ELSE s
  IN /\ echo' = [echo EXCEPT ![n][id] = count]
     /\ accState' = [accState EXCEPT ![n][id] = total]
     /\ accStateDone' = IF n = Leader /\ AllAnswered(n, count)
                        THEN accStateDone \cup {id} ELSE accStateDone
     /\ chan' = Exchanged(chan, q, n,
          Then(forward, IF AllAnswered(n, count) THEN ToParent(n, StateResponse(id, total)) ELSE Nothing))

handle_stateRequest(n, q) ==
  LET m == Head(chan[q][n])
  IN /\ Takes(n, q, "stateRequest")
     /\ echo[n][m.id] = None
     /\ stateReturn(n, q, m.id, NoState, 0, PropagateChilds(n, m))
     /\ UNCHANGED <<votes, result, failed>>

handle_stateResponse(n, q) ==
  LET m == Head(chan[q][n])
  IN /\ Takes(n, q, "stateResponse")
     /\ echo[n][m.id] # None
     /\ stateReturn(n, q, m.id, AddState(accState[n][m.id], m.state), echo[n][m.id] + 1, Nothing)
     /\ UNCHANGED <<votes, result, failed>>

-----------------------------------------------------------------------------
(***************************************************************************)
(* The result.                                                             *)
(***************************************************************************)
resultReturn(n, q, r, count, forward) ==
  LET total == IF AllAnswered(n, count) THEN AddResult(r, TRUE, tK[n]) ELSE r
  IN /\ echo' = [echo EXCEPT ![n][Collect] = count]
     /\ accResult' = [accResult EXCEPT ![n] = total]
     /\ accResultDone' = (accResultDone \/ (n = Leader /\ AllAnswered(n, count)))
     /\ chan' = Exchanged(chan, q, n,
          Then(forward, IF AllAnswered(n, count) THEN ToParent(n, CollectResponse(total)) ELSE Nothing))

handle_collectRequest(n, q) ==
  /\ Takes(n, q, "collectRequest")
  /\ echo[n][Collect] = None
  /\ resultReturn(n, q, [agreement |-> TRUE, timestamp |-> tK[n]], 0, PropagateChilds(n, CollectRequest))
  /\ UNCHANGED <<votes, rounds, failed>>

handle_collect(n, q) ==
  LET r == Head(chan[q][n]).result
  IN /\ Takes(n, q, "collect")
     /\ echo[n][Collect] # None
     /\ resultReturn(n, q, AddResult(accResult[n], r.agreement, r.timestamp),
                     echo[n][Collect] + 1, Nothing)
     /\ UNCHANGED <<votes, rounds, failed>>

Handle(n, q) ==
  \/ handle_voteBegin(n, q)
  \/ handle_proposal(n, q)
  \/ handle_proposalResponse(n, q)
  \/ handle_stateRequest(n, q)
  \/ handle_stateResponse(n, q)
  \/ handle_collectRequest(n, q)
  \/ handle_collect(n, q)

-----------------------------------------------------------------------------
(***************************************************************************)
(* leaderLoop.                                                             *)
(***************************************************************************)
\* The loop is at l and has sent everything.
At(l) == loop = l /\ outbox = Nothing

BeginVote ==
  /\ At("elected")
  /\ outbox' \in IF sVote = 0 THEN {Nothing}
                 ELSE {Then(To(Neigh[Leader], VoteBegin), To({x}, VoteBegin)) : x \in Neigh[Leader]}
  /\ loop' = "count"
  /\ UNCHANGED <<chan, votes, echo, rounds, result, round, failed>>

\* The order of the destinations is that of a Go map.
LoopSend(r) ==
  /\ outbox[r] # <<>>
  /\ LET m == Head(outbox[r])
     IN /\ chan' = Sent(chan, Leader, To({r}, m))
        /\ Sends(Leader, IF m \in Vote THEN 1 ELSE 0)
  /\ outbox' = [outbox EXCEPT ![r] = Tail(@)]
  /\ UNCHANGED <<tK, aCurrent, msgInCounter, echo, rounds, result, loop, round, failed>>

\* A voteBegin that cannot be sent is not counted.
LoopSendFails(r) ==
  /\ outbox[r] # <<>> /\ Head(outbox[r]) \in Vote /\ CanFail(Leader, r)
  /\ outbox' = [outbox EXCEPT ![r] = Tail(@)]
  /\ failed' = "vote"
  /\ UNCHANGED <<chan, votes, echo, rounds, result, loop, round>>

Balanced(id) == accState[Leader][id].in = accState[Leader][id].out

\* The two reports are not compared with each other.
Converged ==
  /\ {round - 1, round} \subseteq accStateDone
  /\ Balanced(round - 1) /\ Balanced(round)

NextRound ==
  /\ At("count")
  /\ round \in {0} \cup accStateDone
  /\ ~Converged
  /\ round < MaxRounds
  /\ round' = round + 1
  /\ echo' = [echo EXCEPT ![Leader][round + 1] = 0]
  /\ accState' = [accState EXCEPT ![Leader][round + 1] = NoState]
  /\ outbox' = PropagateChilds(Leader, StateRequest(round + 1))
  /\ UNCHANGED <<chan, votes, accStateDone, result, loop, failed>>

StartCollect ==
  /\ At("count")
  /\ Converged
  /\ loop' = "collect"
  /\ echo' = [echo EXCEPT ![Leader][Collect] = 0]
  /\ accResult' = [accResult EXCEPT ![Leader] = NoResult]
  /\ outbox' = PropagateChilds(Leader, CollectRequest)
  /\ UNCHANGED <<chan, votes, rounds, accResultDone, round, failed>>

\* A look at the result that comes too early keeps echoLock: the next look, and
\* every handler of this node, waits for it for ever.
CheckResult ==
  /\ At("collect")
  /\ loop' = IF accResultDone THEN "done" ELSE "stuck"
  /\ UNCHANGED <<chan, votes, echo, rounds, result, outbox, round, failed>>

\* A message of the count or of the collection cannot be sent: nobody notices.
SendFails(p, q) ==
  /\ CanFail(p, q)
  /\ chan[p][q] # <<>> /\ Head(chan[p][q]) \in Control
  /\ chan' = Taken(chan, p, q)
  /\ failed' = "control"
  /\ UNCHANGED <<votes, echo, rounds, result, loopVars>>

leaderLoop ==
  \/ BeginVote
  \/ \E r \in Node : LoopSend(r) \/ LoopSendFails(r)
  \/ NextRound
  \/ StartCollect
  \/ CheckResult

Next ==
  \/ \E n, q \in Node : Handle(n, q)
  \/ leaderLoop
  \/ \E p, q \in Node : SendFails(p, q)

Spec == Init /\ [][Next]_vars

\* As long as a handler has something to take, some handler runs; and leaderLoop runs.
Fairness == WF_vars(\E n, q \in Node : Handle(n, q)) /\ WF_vars(leaderLoop)
LiveSpec == Spec /\ Fairness

-----------------------------------------------------------------------------
(***************************************************************************)
(* Properties.                                                             *)
(***************************************************************************)
\* Every variable holds values of its Go type; times stay among the times the
\* nodes started with, and nobody accepts more than aMax proposals.
TypeOK ==
  /\ chan \in [Node -> [Node -> Seq(Message)]]
  /\ tK \in [Node -> Times]
  /\ aCurrent \in [Node -> Nat]
  /\ \A n \in Node : aCurrent[n] <= aMax[n]
  /\ msgInCounter \in [Node -> Nat]
  /\ msgOutCounter \in [Node -> Nat]
  /\ echo \in [Node -> [Requests -> Nat \cup {None}]]
  /\ accState \in [Node -> [1 .. MaxRounds -> State]]
  /\ accStateDone \subseteq 1 .. MaxRounds
  /\ accResult \in [Node -> Result]
  /\ accResultDone \in BOOLEAN
  /\ loop \in {"elected", "count", "collect", "done", "stuck"}
  /\ outbox \in [Node -> Seq(Message)]
  /\ round \in 0 .. MaxRounds
  /\ failed \in {"nothing", "vote", "control"}

UnderWay(p, q, S) == InFlight(chan, p, q, S)

\* No vote is under way or still to be sent by the loop.
Quiet ==
  /\ loop # "elected"
  /\ \A p, q \in Node : UnderWay(p, q, Vote) = 0
  /\ \A r \in Node : Copies(outbox[r], Vote) = 0

HasConverged == loop \in {"collect", "done", "stuck"}

\* Two consecutive counts that report the same numbers, in equal to out, are proof
\* that the voting is over: the double counting README.md:254 relies on, with counts
\* taken at different moments at different nodes and votes that overtake them.
SameCounts == accState[Leader][round - 1] = accState[Leader][round]
FourCounters == HasConverged /\ SameCounts => Quiet

\* What a node counts as sent and nobody has counted as received is under way: a
\* handler counts before and after its early returns and whatever send fails.
VotesConserved ==
  Total(msgOutCounter)
    = Total(msgInCounter) + Total([e \in Node \X Node |-> UnderWay(e[1], e[2], Vote)])

\* Voting ends: a node sends no more than it is asked for once or twice by the leader
\* and by the aMax proposals it accepts, however often proposals come round a cycle.
Fan(n) == IF pNeighs[n] = 0 THEN 0 ELSE Cardinality(Neigh[n]) + 1
VotingBounded ==
  \A n \in Node :
    msgOutCounter[n] <= (IF n = Leader THEN Cardinality(Neigh[n]) + 1 ELSE 2 * Fan(n))
                        + aMax[n] * (1 + Fan(n))

\* Of every request, each child of a node that knows it is to be asked, has been asked,
\* is at work, has answered or is counted, and only one of these, unless a message of
\* the count is lost: no answer is counted twice and none is waited for in vain, although
\* echo only counts and handle_stateRequest refuses a request that comes again.
RequestOf(id) == IF id = Collect THEN {CollectRequest} ELSE {StateRequest(id)}
AnswerTo(id) == IF id = Collect THEN [type : {"collect"}, result : Result]
                ELSE [type : {"stateResponse"}, id : {id}, state : State]
AtWork(c, id) == echo[c][id] # None /\ ~AllAnswered(c, echo[c][id])
Outstanding(n, c, id) ==
  (IF n = Leader THEN Copies(outbox[c], RequestOf(id)) ELSE 0) + UnderWay(n, c, RequestOf(id))
  + (IF AtWork(c, id) THEN 1 ELSE 0) + UnderWay(c, n, AnswerTo(id))
AnswersConserved ==
  \A n \in Node : \A id \in Requests : echo[n][id] # None =>
    LET all == echo[n][id] + Total([c \in Childs(n) |-> Outstanding(n, c, id)])
    IN /\ all <= Cardinality(Childs(n))
       /\ failed # "control" => all = Cardinality(Childs(n))

\* leaderLoop writes echo and accResult without echoLock when it starts the collection:
\* no message is then on its way to the leader whose handler would use those maps.
CollectsAlone ==
  At("count") /\ Converged =>
    \A q \in Node : \A i \in DOMAIN chan[q][Leader] : chan[q][Leader][i] \in Vote

\* README.md:239, the nodes "align on a common value": if the two counts were the same,
\* the leader reports agreement exactly if there is agreement, and the time agreed on.
ResultTrue ==
  accResultDone /\ SameCounts =>
    LET r == accResult[Leader]
    IN /\ r.agreement <=> \A n \in Node : tK[n] = tK[Leader]
       /\ r.agreement => r.timestamp = tK[Leader]

\* Once the voting is over the count comes to an end, and the leader has its result, or
\* has locked itself out by looking for it too early, unless a message of the count is
\* lost; two more rounds are enough.
Reported ==
  Quiet /\ round + 2 <= MaxRounds ~> loop \in {"done", "stuck"} \/ failed = "control"

-----------------------------------------------------------------------------
(***************************************************************************)
(* What the repository says and the code does not do.                      *)
(***************************************************************************)
\* README.md:254: double counting makes sure "all network nodes are in a passive state"
\* before the result is collected.
ConvergedQuiet == HasConverged => Quiet
=============================================================================
