--------------------------- MODULE MCLamportMutex ---------------------------
(***************************************************************************)
(* LamportMutex on spanning trees of two and three nodes.                  *)
(***************************************************************************)
EXTENDS LamportMutex

\* The tree 1 - 2 - 3 with the leader 2 as its root.
MCNode3 == 1 .. 3
MCTree3 == <<<<2>>, <<1, 3>>, <<2>>>>
\* The leaves compete, 1 for a second time while 3 may still be waiting.
MCRequests3 == <<2, 0, 1>>

\* Two nodes, two requests each.
MCNode2 == 1 .. 2
MCTree2 == <<<<2>>, <<1>>>>
MCRequests2 == <<2, 2>>

(***************************************************************************)
(* Some behaviours of Spec: the nodes of Script make the requests, in that *)
(* order and with timestamps that differ, and a loop that can go on does   *)
(* so before anything else happens, except that a transaction takes time.  *)
(***************************************************************************)
Script == <<2, 3, 2, 1, 1, 3>>
MCScripted == [n \in Node |-> Cardinality({k \in DOMAIN Script : Script[k] = n})]

Made == requests[1] + requests[2] + requests[3]
AtRest(n) ==
  \/ loop[n] = "critical"
  \/ outbox[n] = <<>> /\ loop[n] = "sleep"
  \/ outbox[n] = <<>> /\ loop[n] = "wait" /\ ~lockRequestActive[n]

ScriptSpec ==
  Init /\ [][/\ Next
             /\ \A n \in Node : requests'[n] # requests[n] => n = Script[Made + 1]
             /\ \A n \in Node : ~AtRest(n) => Advance(n)
             /\ NoTies']_vars
=============================================================================
