------------------------- MODULE MCGroupDispatcher -------------------------
(* Few elevators and hall calls, all alike. *)
EXTENDS GroupDispatcher, TLC

Alike == Permutations(Elevators) \cup Permutations(Calls)
=============================================================================
