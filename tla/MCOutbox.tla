------------------------------- MODULE MCOutbox -------------------------------
(***************************************************************************)
(* Two messages and two Edits of the first.  The messages, and the Edits,  *)
(* are issued in the order of their names; Edits and the second message    *)
(* come in any order.                                                      *)
(***************************************************************************)
EXTENDS Outbox

CONSTANTS a, b, ea1, ea2

MCKindOf == [op \in Ops |-> IF op \in {a, b} THEN "send" ELSE "edit"]
MCTargetOf == [op \in Ops \ {a, b} |-> a]
MCAfter == [op \in Ops |-> IF op = a THEN {} ELSE IF op = ea2 THEN {ea1} ELSE {a}]

=============================================================================
