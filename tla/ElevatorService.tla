-------------------------- MODULE ElevatorService --------------------------
(***************************************************************************)
(* What passengers expect of one elevator: a floor that was asked for      *)
(* stays asked for until the car stands at it.                             *)
(***************************************************************************)
EXTENDS Integers

CONSTANT Floors

VARIABLES asked,     \* floors somebody waits for
          standing   \* floor at which the car stands idle, or Nowhere

svars == <<asked, standing>>

Nowhere == -1

Init == asked = {} /\ standing \in Floors

Ask == \E f \in Floors : asked' = asked \cup {f} /\ UNCHANGED standing

Serve == asked' = asked \ {standing} /\ UNCHANGED standing

(* The car sets off, also without a request (the supervisor moves it when  *)
(* the dispatcher is gone), and comes to stand somewhere.                  *)
Depart == standing # Nowhere /\ standing' = Nowhere /\ UNCHANGED asked

Arrive == standing = Nowhere /\ standing' # Nowhere /\ UNCHANGED asked

Next == Ask \/ Serve \/ Depart \/ Arrive

Spec == Init /\ [][Next]_svars
=============================================================================
