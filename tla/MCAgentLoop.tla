----------------------------- MODULE MCAgentLoop -----------------------------
(* AgentLoop for TLC: every message is on one channel. *)
EXTENDS AgentLoop

CONSTANT c1

MCChanOf == [m \in Messages |-> c1]

=============================================================================
