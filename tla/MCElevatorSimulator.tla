------------------------ MODULE MCElevatorSimulator ------------------------
(* The timed car in a low building, polled every half second to every      *)
(* second and a half (main.cpp: every second; ElevatorSimulatorTest: every *)
(* second, half second or quarter of a second).                            *)
EXTENDS ElevatorSimulator
=============================================================================
