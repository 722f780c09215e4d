----------------------------- MODULE MCElection -----------------------------
(***************************************************************************)
(* Election on small communication graphs.                                 *)
(***************************************************************************)
EXTENDS Election

MCNode4 == 1 .. 4
MCNode5 == 1 .. 5

Graph(edges) == [n \in Node |-> {q \in Node : {n, q} \in edges}]

\* A triangle 2, 3, 4 and the leaf 1 at 2: a cut vertex, tree and non-tree edges.
MCLollipop == Graph({{1, 2}, {2, 3}, {2, 4}, {3, 4}})

Candidates(C) == [n \in Node |-> n \in C]

\* The leaf and a node of the triangle; the cut vertex and the other one.
MCPairs == {Candidates({1, 4}), Candidates({2, 3})}

\* A path 2 - 1 - 5 - 3 with the leaf 4 at 1.
MCTree == Graph({{1, 2}, {1, 4}, {1, 5}, {3, 5}})
MCThree == {Candidates({1, 2, 3})}
=============================================================================
