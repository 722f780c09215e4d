# A verification of vaa: elections, rumors, locks, transactions, consensus and the node they run in

The repository is a course project on distributed algorithms in Go. A node is one
process; it knows its neighbours in a connection graph, and everything it does is a
handler for a JSON message that arrives over TCP. This directory holds TLA+ modules
of that program, the TLC configurations that check them on small instances, and
proofs of some of their properties for instances of any size.

Source paths below are relative to the repository (`internal/...`, `pkg/...`,
`cmd/...`), README line numbers are those of the repository's README.

## 1. Inventory

| Part | Source | State | Operations | Talks to |
|---|---|---|---|---|
| Dispatcher | `pkg/com/dispatcher.go`, `message.go`, `client.go` | listener, context | accept, decode, validate, push to the channel; `Send`: dial, write, close | the node loop, through `recvChan` (capacity 1) |
| Node loop and main | `internal/node/node.go`, `cmd/node/main.go` | context, `recvChan`, wait groups | `Run`, `handle`, signal handling, `wg.Wait` | all extensions, by message type |
| Control, discovery | `internal/node/control_ext.go`, `discovery_ext.go` | `neighs.Registered` | STARTUP, SHUTDOWN, DISTRIBUTE; HELLO | main (`exit`), rumors |
| Rumors | `internal/node/rumor.go` | `counter`, `trustedRumors` | count by content, flood once, trust at the threshold the message brings | neighbours |
| Leader election | `internal/node/leader.go` | `m`, `leaderUID`, `srcUID`, `childUIDs`, four counters | `coordinator`, `explore`, `child`, `echo`, `leader` | neighbours; embedded by consensus and banking |
| Lamport mutual exclusion | `internal/node/lamport.go`, locking half of `banking_ext.go` | clock, timestamp queue and map, `lockRequestActive`, `lockAckCounter` | `lockRequest`, `lockAck`, `lockRelease`; `transactionLoop` | parent and children in the election's tree |
| Transactions | `banking_ext.go:274-330`, `544-692` | balance, the UUIDs seen, two flags | `transactGetBalance`, `transactStart`, `transactBalance`, `transactAck`, flooded to all neighbours | the transaction loop, inside the lock |
| Snapshots | `banking_ext.go:336-413`, `694-776` | recorded state, recorded messages, completed snapshots | `marker`, `state`; `leaderLoop` | transactions and lock, whose messages it records; the tree |
| Consensus | `internal/node/consensus_ext.go` | proposed time, accepted proposals, messages in and out, per request the echoes and sums | `voteBegin`, `proposal`, `proposalResponse`; `stateRequest`, `stateResponse`; `collectRequest`, `collect`; `leaderLoop` | neighbours for votes, the tree for counts |
| Configuration, graph | `pkg/neigh/` | none after start | read and generate UIDs and edges | everything, as constants |
| Payload helpers, client, graph generator | `internal/node/helper.go`, `cmd/client`, `cmd/graphgen` | none | parse; send one message; write files | - |

Three concurrency structures make the system hard:

* inside a process the dispatcher, the goroutine that closes its listener, the
  message handler and `main` share a channel and a context; the extensions start a
  loop of their own each (`transactionLoop`, the two `leaderLoop`s), which shares the
  extension's fields with the handler under several mutexes, or under none;
* between processes nothing is acknowledged or retried: `com.Send` may fail and its
  callers log the error and go on as if it had not;
* the protocols count answers instead of attributing them (echoes, acknowledgements,
  copies of a rumor), so that an answer to an earlier question may be taken for one
  to the present question.

What would make each part correct:

* process: FIFO, no loss before shutdown, little work after it, and nothing but what cannot be
  helped holds up a message or the shutdown;
* rumors: no trust before a threshold, none missed where there is only one, flooding ends, a
  rumor reaches everybody;
* election: only a willing node leads, only one does, its tree spans the graph, the
  result visits every node once, an election with one candidate ends;
* lock: one node at a time, acknowledgements later than requests, whoever asks is served;
* transactions: both balances move, once each, whatever floods are still going round; a late
  answer does not count for the next transaction;
* snapshots: a consistent cut, no snapshot runs into the next, what may be added up is marked;
* consensus: voting ends, its end is only detected when nothing is under way, every answer
  is counted once, and what is reported is what the nodes hold.

The hazards behind these are listed with their source lines in `PROJECT.json`.

## 2. Modules

| Module | What it is |
|---|---|
| `Network` | channels between nodes: one FIFO sequence per ordered pair, and the forms in which a handler sends |
| `LeaderElection` | abstract: candidates stand, the largest is elected, the others learn of it |
| `Election` | `leader.go`, one action per handler, with failing sends; refines `LeaderElection` |
| `Runtime` | the goroutines of one process: `dispatcher.go`, `node.go`, `main.go` |
| `Rumor` | `rumor.go` and DISTRIBUTE |
| `LamportMutex` | `lamport.go`, the lock handlers and the locking half of `transactionLoop` |
| `Banking` | transactions and snapshots of `banking_ext.go`: handler, transaction loop and the coordinator's `leaderLoop` |
| `Consensus` | `consensus_ext.go` from the end of its election: voting, double count, collection, `leaderLoop` |
| `MCElection`, `MCRumor`, `MCLamportMutex`, `MCBanking`, `MCConsensus` | graphs, trees, scripts and parameters for TLC |
| `NetworkProofs` | lemmas about channels, and about what is under way in them, cited by the proofs of the modules on top of `Network` |
| `ElectionProofs`, `LamportMutexProofs`, `BankingProofs`, `ConsensusProofs` | theorems and proofs of the modules on top of `Network` |
| `BankingLockProofs` | theorems and proofs about the lock being handed over, and what follows from it for transactions, on top of `BankingProofs` |
| `RuntimeProofs`, `RumorProofs` | theorems and proofs |

`Election`, `LamportMutex`, `Banking` and `Consensus` extend `Network`. How many messages of a
kind a channel holds (`InFlight`) and what such numbers add up to (`Total`) are there
cardinalities of sets of places, so that both can be reasoned about without induction. What `Network`
assumes of a channel (nothing is reordered or duplicated between two nodes) is what
`Runtime` checks of the code that implements it. Three modules start from the tree that
`Election` leaves behind: `LamportMutex` as its constant `Tree`, `Banking` and `Consensus`
as `Parent`. What the two assume of it (`SpanningAssumption`: whoever follows the
parents comes to the leader) is what `LeaderHasTree` says, and what `LeadersTree` proves for an
election with one candidate on a connected graph. `Banking` and
`LamportMutex` are two halves of `banking_ext.go`: the second has the requests, the queue and
the clocks, and shows under which conditions they agree on who is next; the first takes
that for granted (`turn`), has of the lock the release and the acknowledgements, which travel
together with the messages of a transaction, and shows that with these one node at a time
has the lock.

Names are the source's: a field `childUIDs` of every node is a function `childUIDs`
from UIDs; a handler `handle_lockAck` is an action of that name. Where a handler
has several outcomes they are disjuncts or actions of their own: `handle_explore` is
`JoinWave \/ RefuseWave \/ EvictWave`. The operator whose name is another's with a
suffix, under a comment that begins "Mutant of", is a plausible bug in that other
one; no module uses it, and `PROJECT.json` says which property it breaks.

### Abstractions

* *Handlers are one step.* A handler of the election holds the `Leader` mutex from
  its first read to its last send; in every extension one goroutine runs all
  handlers. The one exception is the transaction loop: its steps, and the ticks and
  sends of its `distributeWithLamportClock` calls, interleave with whole handlers.
* *Connections are channels.* A sender's messages arrive in the order it sent them:
  `com.Send` returns once the message is written, and the dispatcher accepts
  connections one after another. `net[p][q]` is the whole way from `p`'s `Send` to
  `q`'s handler. In `LamportMutex` the tick and the send of one hop are one step.
* *A failed send* is a message removed from the head of its channel. For its
  receiver this is the same as never having been sent, and for its sender too, since
  callers only log the error.
* *Payloads* are records of the fields the handler parses. Parsing, formatting,
  UUIDs, time stamps of messages and log output are left out.
* *Rumor* counts the copies of a payload, that is of a content with a threshold, on each edge
  instead of ordering them: no handler looks at anything of a rumor but its content, its
  threshold and its sender. Copies of different payloads may be taken in any order, which
  allows more than the FIFO edges of the code do, and never less.
* *The queue of `lamport.go`* and the map `tsNodeMap` that belongs to it are one sorted
  sequence of (timestamp, node) pairs. They always change together within one call;
  a queue with duplicate timestamps cannot arise because `Add` refuses the second.
* *A transaction* is, in `LamportMutex`, the state `"critical"` of the loop: the loop sends
  and waits in it, but touches neither clock nor queue in a way the lock could see beyond
  the clock moving on.
* *`Banking`.* A handler is one step, with one exception: who records its state on a marker
  sends the markers after that, and the transaction loop of the same node may send in between,
  so each marker is a step (`SendMarker`). `handle_marker` holds `snapshotMutex` until it has
  sent them all, but the transaction loop never takes that mutex; `leaderLoop` releases it first. The
  transaction loop and `leaderLoop` go message by message. A flooded message is known
  by its type and the number of its transaction, for which the code has a UUID each. A
  balance is the sequence of updates it has undergone, from which the amount follows;
  the percentage `randP` is the number of the transaction it was drawn for. Of a
  recorded channel only whether it is open and whether it holds a message that affects
  balances is kept, which is all that `leaderLoop` looks at. A release that nobody waits
  for sets nothing off and is left out.
* *`Consensus`.* Requests of the count are known by the number of their round, for which the
  code has a UUID each. The parameter `p` matters only by being 0 or not:
  `randNeighsUnique` appends to `n` instead of `r` and so returns every neighbour and one of
  them twice, whatever `p` is. `leaderLoop` interleaves with the handler between any two of
  its steps and sends; the handler holds `echoLock` and is one step. A failed send of a
  vote is not counted by its sender, a failed send of a request or of an answer is
  noticed by nobody; at most one send fails in a
  behaviour (`CanFail`), which is a bound on the losses; what several of them do to the count is
  not looked at.

## 3. What is checked

A run marked *fails* checks one sentence of the repository's documentation and comes
with a counterexample; see section 5.

| Run | Instance | Size | Shows |
|---|---|---|---|
| `Election` | triangle with a tail, one or two candidates, one command each, before the first explore; one send of any kind may fail | 147 072 states | `Validity`, `EchoOncePerChild`, `ResultVisitsOnce`, `LeaderHasTree`, `WaveGrows`, the refinement `Elects`, and the liveness `SoleCandidateElected` |
| `ElectionStaleEcho` | path of four with a leaf, three candidates, no loss | - | *fails*: `LargestWins` |
| `Runtime` | `recvChan` of 1, four connections of three kinds, an interrupt at any time; peers may stay silent, `Listen` and `Accept` may fail, handlers may hang | 156 394 states | `HandledInOrder`, `NothingLost`, `CancelIsFinal`, `EveryMessageHandled`, `ExitsUnlessBlocked` |
| `RuntimeShutdown` | the same | - | *fails*: `TerminatesGracefully` |
| `Rumor` | triangle with a tail, two origins, thresholds 2, 2 and 0, one lost copy per edge and payload | 19 834 states | `TrustedAtThreshold`, `CopiesConserved`, `RumorSpreads` |
| `LamportMutex` | tree of three, leaves ask twice and once, loop and handler interleaved | 488 119 states | `AcksLater`, `AcknowledgedAlone`, `ClocksAdvance`, and the liveness `Granted` |
| `LamportMutexRaces` | two nodes, two requests each, loop and handler interleaved | - | *fails*: `MutualExclusion` |
| `LamportMutexDeadlock` | tree of three, six requests in a fixed order | - | *fails*: `NoDeadlock` |
| `Banking` | triangle, its tree a chain: two transactions in a row (two scripts), or one transaction of the coordinator's with a snapshot at any moment | 605 164 states | `FloodOrder`, `UpdatedTogether`, `StraysByShortcut`, `TargetsCounted`, `SnapshotOver`, `EndsWhenDone` |
| `BankingCut` | line of three, another node's transaction | - | *fails*: `CausesRecorded` |
| `Consensus` | triangle, its tree a chain; three rounds, one send of two kinds may fail | 299 860 states | `FourCounters`, `VotesConserved`, `VotingBounded`, `AnswersConserved`, `CollectsAlone`, `ResultTrue`, and the liveness `Reported` |
| `ConsensusConverges` | triangle, two rounds, no loss | - | *fails*: `ConvergedQuiet` |

Deadlock checking is off everywhere because every one of these systems may stop: an
election ends, a process exits, a rumor has reached everybody, requests are used up.
Whether it stops *too early* is what the liveness properties are about, and in `Banking`
`EndsWhenDone`: every behaviour of that module is finite, since each step uses up a message,
a marker or a turn, so that where nothing can happen any more is where it ends.

### Why the bounds are enough to see something

* The graph of `Election` is the smallest with a cycle, a leaf and a cut vertex: tree
  edges and non-tree edges, an echo over two hops, and waves that meet on different
  paths. The candidates are the leaf and a node of the triangle, or the cut vertex and the
  other node of the triangle (`MCPairs`); the client may start one of them only, or both, at
  any moment before the other's wave arrives. Three candidates on a tree of five nodes are
  the smallest instance found where the largest does not win (`ElectionStaleEcho`).
* `Runtime` needs one message in the handler, one in the channel, one in the
  dispatcher's hands and one in the backlog, hence four connections.
* A rumor on the triangle with a tail comes back to its origin and reaches one node
  along two paths, and with two origins two floods meet. One origin starts it with two
  thresholds, 2 and 0, so that a count may be met, stepped over, or never be met.
* `LamportMutex` has three nodes so that a request travels two hops and one node only
  passes messages on; the second request of node 1 meets node 3's first.

* In `Banking` answers take two ways from each node to each other one: along the tree, in
  front of the acknowledgements of the lock, and along the edge from 1 to 3, outside the
  tree, where nothing orders them. `MCTwo` and `MCTwoBack` let two nodes have the lock one
  after the other, in both directions; `MCOne` is the coordinator's own transaction, so
  that handler, transaction loop and `leaderLoop` of one node are all at work.
* In `Consensus` votes between 1 and 3 overtake the count, which travels over 2. Node 1, the
  leader, starts the voting (`sVote` is 1), 2 and 3 pass it on (`pNeighs` is `<<0, 1, 1>>`),
  3 accepts one proposal (`aMax`) and answers it; the loss is on the two edges of the tree.
  Three rounds are one more than a convergence needs.

The election is checked with `PromptStart = TRUE`: the client's command reaches a node
before any explore does, as when an operator starts all candidates at once. Without
it the election can have two winners (section 5), and the proofs that need it say so.
In `LamportMutex` handlers run between any two steps of a loop, also between the `Tick` and the
`Add` of a request and between the `Pop` of a release and its sends. That makes the lock wrong
(run `LamportMutexRaces`), so exclusion is stated as long as what makes it wrong has not
happened: `Patient` says that no node acknowledges a later request than its own inside one of these two
windows, nor queues one with its own timestamp before it has queued its own. Handlers may do anything else
there: take requests, acknowledge earlier ones, pass releases and acknowledgements on.

### Fairness

* Handlers: weak fairness per node, for *some* message being handled. The loop of
  `node.go` never ends while the node runs and takes what is in the channel. Which
  sender is served first is not assumed. Commands of the client need never come, and
  sends need never fail.
* `Runtime`: weak fairness of each goroutine, which the Go scheduler gives; none for
  arrivals and interrupts, none for what peers write, and none for a handler's returning: it
  goes on or hangs. Liveness is therefore stated up to what may hold a process up for ever
  (`PeerSilent`, `HandlerBlocked`, `Deaf`).
* `LamportMutex`: weak fairness of all handlers and loops taken together, including that a
  transaction ends: while some goroutine of some node can go on, some goroutine does. This is
  weaker than what the scheduler gives, and enough because requests are bounded. None for making
  a request.
* `Consensus`: weak fairness of the handlers taken together and of `leaderLoop`, which is
  weaker than what the scheduler gives, every node being a process of its own. None for
  failures.

### Properties worth a second look

* `EchoOncePerChild`, `ResultVisitsOnce`: `checkSendEcho` is called after every message
  and has no memory of having fired; that it fires once per wave is a matter of
  counters. Both are stated over node state and channels together.
* `LeaderHasTree`: when a sole candidate declares itself, every node has joined it,
  `srcUID` is a spanning tree and `childUIDs` its inverse without duplicates. It is
  restricted to a sole candidate for a reason: with several, echoes of an evicted wave
  are counted for the next one (`receivedEcho` is not reset), and a leader may declare
  itself before all have joined, or the election may stall. With two candidates there is
  still only one leader, the larger one, which is `Elects`; with three there may be a
  leader that is not the largest candidate (`ElectionStaleEcho`).
* `Elects`: refinement of `LeaderElection` under the mapping `candidates <- started`,
  `known <- leaderUID`. It says in particular that nobody starts a wave after a
  leader is known, that the elected node is the largest that has started one, and
  that everybody else learns that same node. It holds for up to two candidates.
* `NothingLost` ties the places a message can be in: backlog, dispatcher, channel, handler.
* `EveryMessageHandled`: `Decode` reads a connection before the next one is accepted, and without
  a deadline, so one silent peer holds up everything behind it; so do a handler that does not
  return and an accept loop that has failed. Nothing else does: no malformed message, no full
  channel, no interleaving of the goroutines.
* `ExitsUnlessBlocked`: a cancelled process exits, unless the dispatcher is left reading from a
  silent peer, a handler does not return, or the dispatcher is blocked at the full channel that
  nobody reads any more. `RuntimeShutdown` exhibits the third, with neither of the others.
* `TrustedAtThreshold`: copies are counted by content, and the count is compared, for equality,
  with the threshold of the copy at hand. A trusted rumor has been received as often as one of
  its thresholds says, and one that was only ever started with one threshold is trusted exactly
  from then on. With two the count may step over both (the copy that makes it 2 says 0, the one
  after it 2), which is why no more is said of that case.
* `CopiesConserved` is an equation per directed edge and payload: under way + received + lost =
  commands + (1 if the node has passed that copy on to this neighbour).
* `AcknowledgedAlone`: as long as nobody is let in who has not been acknowledged by every
  other node (`Counted`), one node at a time is in the critical section. `ackedBy` is a
  history variable that records *who* acknowledged; the code only counts. The other condition
  is `Patient`, on the two windows in which the handler sees a request stamped but not queued, or
  a queue popped before the release is sent. Only an acknowledgement of a later request in a
  window, or a tie queued before the own request, is excluded, and both conditions are needed: without
  the first `LamportMutexDeadlock` shows a node let in early, without the second
  `LamportMutexRaces` shows two nodes inside. The lock is thus broken by the counting and
  in these windows, not by the queue, the clocks or any other interleaving. "As
  long as" is needed: it is not true that of any two nodes inside, one was let in wrongly.
  What a node that was let in early releases is no longer the first entry of every queue, so
  others pop entries of their own, and then even two nodes that everybody has acknowledged can
  be inside at once. TLC shows this with three nodes on a line that ask 1, 3 and 2 times,
  after 84 steps, with no handler in either window; the tree and the requests of the run
  `LamportMutex` are too few for it.
* `Granted` is conditional on distinct timestamps (which the repository's README
  assumes too), on nobody being let in by duplicate acknowledgements, and on `Patient`.

* `StraysByShortcut`: `handle_transactBalance` says "Mutex; no need to check neigh IDs" and
  takes every answer for its own while it has the lock. The property says why that is
  almost right: along the tree an answer is always in front of the acknowledgements that
  give the lock on. Only what comes over an edge outside the tree can be another's, and
  TLC shows that this happens: `strayed` does become `"shortcut"`.
* `UpdatedTogether` says of every transaction that is over, as long as no answer has
  strayed, that its two nodes have updated their balance exactly once and nobody else has.
* `TargetsCounted` is what the coordinator's sum rests on: in a snapshot without messages
  "affecting the balance" a target's share comes with its origin's. The converse does
  not hold: `transactGetBalance` does not count as affecting, so a transaction that is
  half done the other way round is added up.
* `FourCounters`: two consecutive counts with the *same* in and out prove that the voting is
  over, although each node is asked at another moment and votes overtake the
  questions. The code compares less than that (`ConsensusConverges`).
* `AnswersConserved` is an equation per request and node: each child is to be asked, is being
  asked, is at work, has an answer under way, or is counted.
* `CollectsAlone` is the reason why `leaderLoop` may write `echo` and `accResult` without
  `echoLock`: no message is then on its way to the leader whose handler uses them.
* `Reported` has two ends, because the collect loop locks itself out if it looks before the
  result is there (section 5): it says that the count and the collection come to an end, not
  that a result is logged.
* `SnapshotOver` in the run is about the one snapshot of a script; that nothing is left for a
  next one is the theorem `SnapshotsEnd`.

## 4. What is proved

The theorems hold for every finite set of UIDs, every symmetric graph, every capacity,
threshold and bound; what is assumed is the named `ASSUME`s of the modules: UIDs are
positive (0 is the code's "none"), the neighbour relation is symmetric and
irreflexive, bounds are naturals, and of the parents in `Banking` and `Consensus` that they are
neighbours and lead to the leader, and of the tree in `LamportMutex` that it is connected and that
each of its edges parts it (both named `SpanningAssumption`).

**Election.** `TypeCorrect` (`[]TypeOK`), `OnlyCandidatesLead` (`[]Validity`) and
`WavesGrow` (`WaveGrows`, assuming `PromptStart`). `Validity` is not inductive without
types and the types alone do not give it; the invariant `Inv` merges the two: it is
the type invariant with the set `started` in place of `Node` wherever the UID of a wave
appears, that is in `m`, `leaderUID` and the messages under way. Since `started` only
grows, and only `handle_coordinator` makes it grow, the step lemma `InvNext` has one
step per action, and the tail `checkSendEcho` that three handlers share is the lemma
`CheckSendEchoWaves`.

**The wave of a sole candidate.** `LeadersTree` (`[]LeaderHasTree`), `EchoesOnce`
(`[]EchoOncePerChild`) and `ResultsOnce` (`ResultVisitsOnce` as long as there is one candidate)
rest on the invariant `Growing`, proved by `TreeGrows` for every behaviour that has had at
most one candidate so far. The code decides by comparing four counters, and the invariant says
what the counters stand for. A node that has not joined has done nothing (`Idle`); every set of
nodes closed under parents has a root in it (`Rooted`), which says without recursion that the
parents have no cycle. Between two nodes each kind of message is under way at most once, and what
a node sends on joining is in front (`Ordered`), so what is under way can be treated as a set of
kinds, and `Placed` says who may send which to whom. `NotAhead` is the heart: the answers a
node has counted are no more than the neighbours that will never answer again (`Heard`), its
echoes no more than the children that are done and whose echo is no longer under way (`Reported`).
With that, equal counters force equal sets (`AllHeard`, `DueFacts`): a node whose echo is due has
heard from every neighbour it asked, has listed every child, its children are due as well, and
nothing but the result can still come to it. Losses only leave the counters further behind. From
there, when the root is due so is everyone that has joined (`AllDue`, since a set of nodes that
are not would have a root in it), and by connectedness everyone has joined. Two hypotheses are
made. `PromptStart`: a start command that comes after an explore makes a second root. For
`LeadersTree`, `Connected`: a set of nodes that contains its members' neighbours is all of
`Node`; a wave does not leave its component, and the graph of the run satisfies it.

**Runtime.** `TypeCorrect`, `HandlesInOrder`, `LosesNothing`, `CancelEndsHandling`.
Order is proved by following ids through the five places of a message: ids ascend
within `backlog`, `recvChan` and `handled` (`Sorted`), and from each place to all
upstream of it (`Staged`). `LosesNothing` adds that what the dispatcher drops as
malformed was never valid (`Malformed`), for which ids must be unique, hence the order
invariant. `CancelEndsHandling` needs `Budget`: after the cancellation, messages taken
up + messages in the channel + (1 if the dispatcher is past its check) never exceeds the
capacity plus one, because no check that comes later lets anything through.

**Rumor.** `TypeCorrect`, `TrustExactlyAtThreshold` (`[]TrustedAtThreshold`),
`CopiesAreConserved`. Conservation is inductive given types; the interesting step is `Handle` of
a first copy, where the sends to all neighbours but one are balanced by `Relayed` turning from 0
to 1 on exactly those edges: a content is new to a node only once, whatever payload brings it.
That copies are under way only between neighbours, so that a node never handles its own copy, is a
consequence of the equation itself. Trust needs to know where thresholds come from (`Origin`):
what is under way or has been passed on is a payload some client has started, and what has been
counted has been started, so that with one threshold every copy that is counted brings that one.

**Lock.** `TypeCorrect`, `AcknowledgesLater` (`[]AcksLater`) and `ClocksNeverGoBack`, for
every tree, any number of requests and every interleaving. That an acknowledgement is
later than its request is inductive only together with where its timestamp comes from:
every message under way is stamped later than the request it is about (`Stamped`), because
every entry of a queue, the loop's own request and everything in its outbox is no later
than the clock of the node that holds it, and a clock is moved past the timestamp of a
message before anything is sent on account of it. Most of the proof is about the
queue: `Add` keeps it sorted without duplicates (`AddType`, by counting the earlier
entries), and so does `Pop`.

**Exclusion.** `AloneIfCounted` (`AcknowledgedAlone`, on every spanning tree) is the argument of
Lamport's algorithm, over a tree: messages of a node reach another one over several hops, and the
nodes between add, pop and acknowledge as they pass them on. The invariant is `Orderly`. A
message is what it is about, whatever clock it is stamped with at each hop (`Core`), and what a
loop has still to send counts as under way (`Carried`, which also says what is ahead of it). An
edge has two sides (`Side`, a set defined without recursion, and the only place where
`SpanningAssumption` is used), so a message has a direction. An entry of a queue is current while
its node has asked and not released, and old from then on. `Fine` says of each kind of message
what it carries: a request goes from nodes that have the entry to nodes that do not
(`GoodRequest`); a release from nodes that are done with it to nodes that have it as an old one,
and releases keep the order of the queue (`GoodRelease`); an acknowledgement comes from a node that has queued the
request, whose own is later and whose clock is (`Grants`), behind that node's releases (`GoodAck`). `Trails` says the same of what is not under way: along every edge, from the
requester on, entries appear in order and old ones go in order, with the release between who
has one still and who has not. `Olds` and `Own` keep old entries behind everybody who
is waiting, and add up to this: if everybody has acknowledged a node, its entry is
the first of its queue, and nobody else has one that is earlier. It is `Pop`, which takes the first entry whosoever it
is, that makes the invariant depend on `Counted`: only a release by a node that all have
acknowledged pops the same entry everywhere. `Patient` is used for the two windows. A node
that has stamped a request and not queued it yet has acknowledged no later one and queued no equal one, so that the request, once
queued, is in order for everybody who waits for an acknowledgement (`AddOrderly`). While a
node sends its releases, it has no old entry, nobody who waits has its acknowledgement, and
none to such a node is under way (`Releasing`, with `Withholds`): what its handler acknowledges
in between is no later than the released request (`AcknowledgesInTime`), and whoever waits has asked
later (`SendingFirst`). With that the releases may leave one by one among the messages of the handler. No step needs the timestamps to be distinct otherwise.

**The lock of the transactions.** `TypeCorrect` holds for every graph and script. `LockAlone`
(`[]Exclusive`), for every spanning tree (`SpanningAssumption`), is what everything else about
transactions rests on. Its invariant `Handover` follows the lock from one node to the next:
while nobody has it, each node but the next holder owes that one an acknowledgement, which has
been counted, is on its way, or is due: the release is still to reach the node, or the node is
the last holder and has not sent its own yet (`Due`, `Owing`). A release or an acknowledgement on
the tree stands for the nodes it is on its way to: `Beyond(p, r)` are those on the far side of
the edge from `p` to `r`, a set defined without recursion from the nodes `Below` one (lemma
`Edges`), and `Heading` counts the messages of a kind that are on their way to a node. `Owing` says
that acknowledgements on their way, the counter, and the nodes that are due come to the number
of the other nodes, so that the counter returns to 0 exactly with the last of them. The
floods and markers that share the channels are dealt with once, by `Aside`, the form all their
handlers have. That the counter is right is thus a theorem for one release at a time; how
requests come to be in the right order is `LamportMutex` (and section 5).

`FloodsInOrder` (`[]FloodOrder`): no node hears of the start of a transaction before the request
for the balance, along whatever paths the two floods come. The invariant `Order` follows an
edge: a node that knows of a request and is not its target has offered it to each neighbour,
which has it already, has it under way, or will get it from the node's outbox (`Passed`,
`Asking`); so whatever carries a start over that edge later, in each channel a start is behind
its request or its receiver knows the request already (`Flow`). As long as the holder is still
asking, no start is under way (`NotYet`); two holders at once would share the number of the
transaction, which is where `LockAlone` comes in.

**Answers.** `StrayShortcuts` (`[]StraysByShortcut`) and `BothUpdated` (`[]UpdatedTogether`). `Swept(X)`
says of a set of messages that travel over the tree that while the lock is passing, each of
them that is on its way to the next holder has an acknowledgement to come after it (`Followed`):
behind it on the same edge, further back, or due from a node it has already passed. It is proved for the release
itself, with which the count above can be carried on, and for the answers (`Pure`: they have
only come along the tree). With the last acknowledgement nothing of `X` is left on the way
(`Granted`), hence nobody who gets the lock is met by an answer over the tree to a transaction
that is over (`OwnOnly`). The condition on `X` (`Trailing`) is that none of it is new while the
lock is passing, and that needs the transactions: a request still unknown to its target belongs
to a transaction that is not over (`Fresh`), because whoever leaves the critical section has both
answers (`Received`, `Finished`) and each answer has had its request (`Requested`). So the two
are one induction, `Dealing`, as long as no answer has strayed; the updates are then counted
along with what a node knows (`TargetOnce`, `StarterOnce`). `BothUpdated` does not say that
nothing strays: TLC shows that it does.

**What a snapshot holds.** `TargetsIncluded` (`[]TargetsCounted`): a complete snapshot that has recorded no
message affecting a balance, with no answer astray, has the update at the node that
started a transaction whenever it has the one at its target. The cut is taken node by node, so this is a
statement about states that never were; the invariant `Accounted` says what leads to it, while
the snapshot is being taken and has recorded nothing affecting (`Clear`). If the target has it
in, or has not been reached (`Counts`), every answer to that transaction that is on an edge whose
marker has been sent is in front of that marker (`Trailed`), so it can reach nobody behind the
cut without being recorded; hence the node that started it, if it has had its answer, has it in as well
(`Mine`). That the answer is somewhere at all is followed along the flood: a node that has seen it
has it under way to each neighbour that has not (`Spread`, `Informed`, `Answered`), and with all
channels closed that leaves none.

**Snapshots.** `SnapshotsEnd` (`[]SnapshotOver`) holds for every graph, script and number of
snapshots, and needs nothing of the lock or of the tree. The coordinator only compares the number of
reports with the number of nodes; the invariant `Cut` says what that number stands for. On
every edge the markers of this round balance (`Marking`): those under way, and one if the
receiver has had its marker, are as many as the sender has sent, so a node never closes a
channel twice, nor one whose marker has not come. Over the whole network they balance too
(`Reporting`): the reports of a node under way, and those in the coordinator's list, are one
if the node is done and none otherwise; counted like this it does not matter which way reports
take, and the parents need not be a tree. As many reports as nodes, each at most once, then
mean one of every node (`AllDone`, by the pigeonhole principle); every node being done, all
markers have been had, and nothing is under way (`Settled`). That is also what a new round
starts from, so the invariant carries over to the next snapshot (`CutNew`).

**Consensus.** `TypeCorrect` and `VotingEnds` (`[]VotingBounded`) for every graph and parameters,
and any one failed send. A bound on what a node has sent is not inductive: what it is still to be asked
for must be counted too. `Bounded` adds the calls under way. `voteBegin`s come from the
leader only (`Placed`), which has at most two of them for any node and two for at most one
node (`Boxed`); what the leader has sent and has still to send stays within its calls and the
proposals it has accepted (`LeaderBound`); and for every other node what it has sent, with
`Fan(n)` for each call that is still to reach it, stays within two calls and the proposals it
has accepted (`OthersBound`).

**The double count.** `ConsensusProofs` proves, for every graph, spanning tree, parameters
and one failed send, what the counting is for. `VotesCounted` (`[]VotesConserved`), `AnswersCounted`
(`[]AnswersConserved`) and `CollectionAlone` (`[]CollectsAlone`) are three conjuncts of the
invariant `Accounted`, that rests on what a channel may hold (`Fitting`: requests down the
tree, answers up it, saying what their sender has added up), that a node is asked once and
after its parent, and answers once, when it is complete (`Asked`), that an echo counted is
a child that has reported (`Counting`), which of its requests the leader has begun and
ended (`Leading`), and that after the loss of a request or an answer the present round never
ends (`Broken`).

`TwoCounts` (`[]FourCounters`) is the argument of the four-counter method, over a tree. `Sum` is
what a round will come to if every node still to be counted is counted now: what has been
reported, and for all others their present counters. A step of the count leaves it alone,
a vote can only make it grow. The invariant `Summed` says that no sum is ahead of the
counters (`NoneAhead`), and that the sum of a round is not behind the result of the last
one; if it is the same, and balanced, no counter has moved since some moment between the
two at which the votes sent equalled those received, so that nothing is under way (`Behind`).
`VotesConserved` is what turns equal counters into empty channels.

`ResultsTrue` (`[]ResultTrue`) follows the collection after two equal counts: nobody changes its
time any more, and what a node has gathered agrees with it and with what each child that
has reported has gathered (`Gathered`, `Faithful`); that the parents form a tree carries this
from the leader to every node.

Only model-checked: everything about liveness (`SoleCandidateElected`,
`EveryMessageHandled`, `ExitsUnlessBlocked`, `RumorSpreads`, `Granted`, `Reported`) and about
ENABLED (`EndsWhenDone`), which are outside the prover's reach; `ResultVisitsOnce`
with two candidates and the refinement `Elects`, which do not hold for every graph: with a third
candidate they are wrong (`ElectionStaleEcho`), and what an invariant for two would need is to tell
the waves apart that one echo counter serves.

## 5. Disagreements between code and documentation

With a counterexample of TLC each:

* `ElectionStaleEcho`: `leader.go:23` says the fields of a wave are reset whenever `m` changes;
  `handle_explore` (196-210) does not reset `receivedEcho` when it joins a larger wave. An echo
  counted for the evicted wave then stands in for one of the new wave, a node echoes while a
  child is still exploring, and a candidate that is not the largest declares itself leader
  (README 207).
* `RuntimeShutdown`: the dispatcher can block for ever on a full channel after the
  handler has left; the process does not exit (README 66), although every peer writes its
  message and every handler returns.
* `LamportMutexRaces`: a request is stamped before it is queued, and the handler may
  acknowledge a later request in between: two nodes in the critical section with
  distinct timestamps (README 270).
* `LamportMutexDeadlock`: with distinct timestamps, FIFO channels and no loss (README
  322-329), all three nodes wait for ever. A node whose request is displaced and
  comes first again is acknowledged twice by the same node; it is let in early, pops
  another node's entry when it releases, and the release that should have popped that
  entry is dropped with "lockRelease invalid state" before the acknowledgement it
  owes is sent. The counterexample has 70 steps; `ScriptSpec` in `MCLamportMutex`
  restricts `Spec` to six requests in a fixed order so that TLC finds it.
* `ConsensusConverges`: the termination test asks whether in equals out in each of two
  counts, never whether the two counts agree (`consensus_ext.go:258`); two counts that are
  balanced by chance end it with votes under way (README 254).
* `BankingCut`: `handle_marker` records the balance (`banking_ext.go:708`) and then sends its
  markers (712-717). It holds `snapshotMutex` meanwhile, but the transaction loop of the same node
  does not take it. In the counterexample, on a line of three with coordinator 1, node 2 has
  recorded itself and floods the request and the start of its transaction with 3 before its
  marker to 3 is sent: 3 records the effect of what 2 has not recorded (README 305, Chandy
  and Lamport's algorithm). `leaderLoop` (400-409) even releases the mutex before it sends.

Met while reading and modelling, without a run of their own:

* A start command that arrives after another wave's explore, or after the election is
  over, starts a second wave; two nodes may call themselves leader (README 206-207).
* Two copies from *one* neighbour are enough for trust with C = 2 (README 192), because the
  origin floods its own rumor again when it comes back.
* `C` comes with each message and copies are counted by content (`rumor.go:66`, `73`, `95`): a rumor
  started with two different `C`s may be received often enough for both and never be trusted, and
  one with `C` below 1 never is.
* A peer that connects and writes nothing stops the dispatcher, and with it the node's shutdown
  (`dispatcher.go:37-44`, `106`); an error of `Accept` other than the closed listener leaves a
  process that accepts nothing and does not say so (`101-102`, `main.go`).
* `handle_transactBalance` (`banking_ext.go:652`) does not look whom an answer is for; an
  answer to the transaction before, still flooding outside the tree, is taken for the
  present one's. `StraysByShortcut` delimits this.
* README 291-297 has both nodes always *increase* their balance; the code decreases it when
  the other's balance is smaller (`banking_ext.go:575-579`, `674-678`).
* `consensus_ext.go:293`: the collect loop goes round again without releasing `echoLock`; the
  second look waits for the first for ever, and the handler with it.
* A `transactGetBalance` recorded in a channel does not make a snapshot unfit for adding
  up (`banking_ext.go:376`), although the transaction it belongs to is half done.

## 6. Not modelled

* The data race inside `lamport.go` (its mutex is never locked while two goroutines
  call `Add` and `Pop`): the module interleaves whole calls. The same goes for the
  unlocked read of `receivedSnapshots` in `leaderLoop`.
* The part of the lock `Banking` takes for granted (which request is next, and that only its
  node gets the lock) is `LamportMutex`, for which `AloneIfCounted` shows it as long as nobody is
  let in on duplicate acknowledgements and no node acknowledges a later request in one of its two
  windows. The real lock does not guarantee either (`LamportMutexRaces`, `LamportMutexDeadlock`), so what
  is checked and proved of transactions is what holds while the lock works. A composition of the two on three nodes is out of TLC's
  reach.
* Amounts: that a balance grows or shrinks by a share in integer arithmetic is a pure
  computation on the two values the messages carry.
* `HELLO` and `STARTUP` only fill `neighs.Registered`, which nothing reads.
* Configuration, graph generation, payload helpers, client: sequential code that runs
  once, or parsing. Known boundaries (an off-by-one in the length checks of
  `helper.go`, a DISTRIBUTE payload with too few parts, UID 0, a graph generator that
  does not end) are listed as hazards.

## 7. What could follow

1. `Lock`, an abstract lock that `LamportMutex` implements as long as `Counted` and `Patient` hold (its
   exclusion is `AloneIfCounted`), and `Banking` on top of it in place of `turn`.
2. A proof of the refinement `Elects` for two candidates: `Growing` for the larger wave, with
   the echoes of the evicted one accounted for.
3. A finer grain for the unlocked queue of `lamport.go`.
