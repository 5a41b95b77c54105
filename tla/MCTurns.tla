------------------------------- MODULE MCTurns -------------------------------
(* Instances of Turns. *)
EXTENDS Turns

CONSTANTS c1, c2

MCOne == {c1}
MCTwo == {c1, c2}

=============================================================================
