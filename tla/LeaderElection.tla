--------------------------- MODULE LeaderElection ---------------------------
(***************************************************************************)
(* What an election promises whoever uses it: ElectionComplete, IsLeader   *)
(* and the leader's UID, without waves, echoes or a tree.                  *)
(***************************************************************************)
EXTENDS Naturals

CONSTANT Node

VARIABLES
  candidates,   \* the nodes that have asked to lead
  known         \* the leader each node knows of, 0 for none

avars == <<candidates, known>>

Init ==
  /\ candidates = {}
  /\ known = [n \in Node |-> 0]

NobodyElected == \A n \in Node : known[n] = 0

Stand(c) ==
  /\ NobodyElected
  /\ candidates' = candidates \cup {c}
  /\ UNCHANGED known

\* The largest candidate declares itself leader; there is no other afterwards.
Elect(c) ==
  /\ NobodyElected
  /\ c \in candidates /\ \A d \in candidates : d <= c
  /\ known' = [known EXCEPT ![c] = c]
  /\ UNCHANGED candidates

\* Another node is told.
Learn(n, p) ==
  /\ known[n] = 0 /\ known[p] # 0
  /\ known' = [known EXCEPT ![n] = known[p]]
  /\ UNCHANGED candidates

Next ==
  \/ \E c \in Node : Stand(c) \/ Elect(c)
  \/ \E n, p \in Node : Learn(n, p)

Spec == Init /\ [][Next]_avars
=============================================================================
