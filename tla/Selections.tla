------------------------------ MODULE Selections ------------------------------
(***************************************************************************)
(* The elements of a sequence that a loop of the code keeps, in the order  *)
(* of the sequence: Queue.coalesceBatch (internal/queue) and               *)
(* pruneSessionStoreRecords (internal/router) keep some and leave others.  *)
(* A definition by positions can be reasoned about for every sequence.     *)
(***************************************************************************)
EXTENDS Integers, FiniteSets

(* The positions in S from first to last. *)
inOrder(S) ==
    CHOOSE f \in [1..Cardinality(S) -> S] : \A j, k \in 1..Cardinality(S) : j < k => f[j] < f[k]

(* The elements of q at the positions in S. *)
elementsAt(q, S) == [k \in 1..Cardinality(S) |-> q[inOrder(S)[k]]]

===============================================================================
