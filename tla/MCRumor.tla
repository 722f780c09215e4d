------------------------------ MODULE MCRumor ------------------------------
(***************************************************************************)
(* Rumor on small communication graphs.                                    *)
(***************************************************************************)
EXTENDS Rumor

MCNode == 1 .. 4
Graph(edges) == [n \in Node |-> {q \in Node : {n, q} \in edges}]
\* A triangle 2, 3, 4 and the leaf 1 at 2.
MCLollipop == Graph({{1, 2}, {2, 3}, {2, 4}, {3, 4}})

\* The README's `2;rumor2trust` from two nodes, and `0;rumor2trust` from one of them.
Distribute(n, c) == <<n, [rumor |-> "rumor2trust", c |-> c]>>
MCCommands == {Distribute(1, 2), Distribute(3, 2), Distribute(3, 0)}
=============================================================================
