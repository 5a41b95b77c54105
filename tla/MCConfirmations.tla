--------------------------- MODULE MCConfirmations ---------------------------
(***************************************************************************)
(* Confirmations for TLC.  Both prompts are of the kind that closes the    *)
(* channel, whose handler may do what the others do and more, so that they *)
(* are interchangeable.                                                    *)
(***************************************************************************)
EXTENDS ConfirmationsConsent, TLC

CONSTANTS p1, p2, a1

Interchangeable == Permutations({p1, p2})

=============================================================================
