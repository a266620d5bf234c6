------------------------------- MODULE MCView -------------------------------
(* Buttons in use in a building of three floors, for View: the hall        *)
(* buttons of floor 2, with those at the other end or without, and the     *)
(* floor buttons of the lower or of the outer floors.                      *)
EXTENDS View

Middle == {<<2, UP>>, <<2, DOWN>>}
BothWays == Middle \cup {<<3, DOWN>>}
LowerFloors == {<<1>>, <<2>>}
OuterFloors == {<<1>>, <<3>>}
=============================================================================
