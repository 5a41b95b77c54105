----------------------------- MODULE MCTurnStream -----------------------------
(* An instance of TurnStream: messages of two pieces.                      *)
EXTENDS TurnStream
=============================================================================
