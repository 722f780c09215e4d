------------------------------ MODULE Network ------------------------------
(***************************************************************************)
(* The network every node-to-node module is built on.                      *)
(*                                                                         *)
(* com.Send (pkg/com/client.go) opens a TCP connection per message and     *)
(* returns once the message is written; the receiving dispatcher           *)
(* (pkg/com/dispatcher.go) accepts connections one at a time and hands     *)
(* each message to the node through a Go channel.  Messages from one node  *)
(* to another therefore arrive in the order they were sent, while nothing  *)
(* is promised between different senders: net[p][q] is the sequence of     *)
(* messages p has sent to q and q's handler has not taken yet.             *)
(***************************************************************************)
EXTENDS Naturals, Sequences, FiniteSets

CONSTANT Node        \* the UIDs of the configuration file

\* No message under way.
EmptyNet == [p \in Node |-> [q \in Node |-> <<>>]]

(***************************************************************************)
(* What one handler sends: a function giving, for every destination, the   *)
(* sequence of messages sent there.                                        *)
(***************************************************************************)
Nothing == [r \in Node |-> <<>>]

\* One copy of msg to every node of R.
To(R, msg) == [r \in Node |-> IF r \in R THEN <<msg>> ELSE <<>>]

\* First everything in out1, then everything in out2.
Then(out1, out2) == [r \in Node |-> out1[r] \o out2[r]]

(***************************************************************************)
(* n sends out; n takes the first message q sent it; n takes that message  *)
(* and sends out, all in one handler.  A handler's sends are one step: the *)
(* handler goroutine of n takes no other message meanwhile, and a receiver *)
(* that is quick only finds its message earlier in the same channel.       *)
(***************************************************************************)
Sent(net, n, out) == [net EXCEPT ![n] = [r \in Node |-> net[n][r] \o out[r]]]

Taken(net, q, n) == [net EXCEPT ![q][n] = Tail(net[q][n])]

Exchanged(net, q, n, out) == Sent(Taken(net, q, n), n, out)

(***************************************************************************)
(* Counting.  Copies: how many elements of a sequence are in S.  Total:    *)
(* the sum of a function's values, as the size of their disjoint union.    *)
(***************************************************************************)
Copies(s, S) == Cardinality({i \in DOMAIN s : s[i] \in S})
Total(f) == Cardinality(UNION {{x} \X (1 .. f[x]) : x \in DOMAIN f})

\* The number of messages of S under way from p to q.
InFlight(net, p, q, S) == Copies(net[p][q], S)
=============================================================================
