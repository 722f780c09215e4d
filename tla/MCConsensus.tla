---------------------------- MODULE MCConsensus ----------------------------
(***************************************************************************)
(* Consensus on a triangle, the tree being the chain 1 - 2 - 3: votes      *)
(* between 1 and 3 take another way than the messages of the count.        *)
(***************************************************************************)
EXTENDS Consensus

MCNode == 1 .. 3
MCNeigh == <<{2, 3}, {1, 3}, {1, 2}>>
MCParent == [n \in {2, 3} |-> n - 1]
MCInitial == {<<2, 2, 1>>}

\* One node accepts a proposal, two pass the voting on, and two sends may fail.
MCpNeighs == <<0, 1, 1>>
MCaMax == <<0, 0, 1>>
MCMayFail == {<<1, 2>>, <<2, 3>>}

\* Nobody accepts a proposal and everybody sends some.
MCpNeighsAll == <<1, 1, 1>>
MCaMaxNone == <<0, 0, 0>>
=============================================================================
