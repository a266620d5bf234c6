----------------------------- MODULE FloorQueue -----------------------------
(***************************************************************************)
(* What a floor-run heap promises its caller: a set of floors to visit,    *)
(* from which a floor is only ever taken when no other floor of the set    *)
(* comes before it in the direction of the run.                            *)
(***************************************************************************)
EXTENDS FloorRunHeap

CONSTANT Run    \* direction of the run, UP or DOWN

VARIABLE waiting

Init == waiting = {}

Add == \E f \in Floor : waiting' = waiting \cup {f}

Take == \E f \in waiting :
           /\ \A g \in waiting : NoLater(Run, f, g)
           /\ waiting' = waiting \ {f}

Next == Add \/ Take

Spec == Init /\ [][Next]_waiting
=============================================================================
