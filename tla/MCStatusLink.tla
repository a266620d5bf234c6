---------------------------- MODULE MCStatusLink ----------------------------
(* An up call from floor 1 and a down call from floor 2, for StatusLink. *)
EXTENDS StatusLink

OneOfEach == {<<1, UP>>, <<2, DOWN>>}
=============================================================================
