------------------------ MODULE MCElevatorController ------------------------
(* Small sets of requests, and sets of races, for the configurations of    *)
(* ElevatorController.  The GUI numbers its floors from 1, the Basement.   *)
EXTENDS ElevatorController

NoCalls == {}
TwoCalls == {<<1, UP>>, <<2, DOWN>>}
OneCall == {<<1, UP>>}

TopOnly == {TopFloor}

NoRaces == {}
TimingRaces == {"overshoot", "lag", "reset"}
LossyRaces == {"vector", "flush", "overshoot", "lag"}
=============================================================================
