----------------------------- MODULE MCBanking -----------------------------
(***************************************************************************)
(* Banking on a triangle whose tree is the chain 1 - 2 - 3, and on a line. *)
(***************************************************************************)
EXTENDS Banking

MCNode == 1 .. 3
MCNeigh == <<{2, 3}, {1, 3}, {1, 2}>>
MCNeighLine == <<{2}, {1, 3}, {2}>>
MCParent == [n \in {2, 3} |-> n - 1]

Deal(by, with) == [by |-> by, with |-> with]

\* Twice two transactions without a snapshot, and one with a snapshot, of the
\* coordinator's own: its three goroutines are all at work.
MCTwo == <<Deal(2, 1), Deal(3, 2)>>
MCTwoBack == <<Deal(3, 1), Deal(2, 1)>>
MCOne == <<Deal(1, 3)>>
MCScripts == {MCTwo, MCTwoBack, MCOne}
MCMaxSnapshots == [s \in MCScripts |-> IF s = MCOne THEN 1 ELSE 0]

\* Another node starts a transaction while it hands on the marker.
MCScriptsOther == {<<Deal(2, 3)>>}
MCMaxSnapshotsOther == [s \in MCScriptsOther |-> 1]
=============================================================================
