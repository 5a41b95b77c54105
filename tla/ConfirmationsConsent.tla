------------------------ MODULE ConfirmationsConsent ------------------------
(***************************************************************************)
(* Confirmations implements Consent.  A question is open while it is       *)
(* armed in the runtime state and has not expired.                         *)
(***************************************************************************)
EXTENDS Confirmations

openQuestion == IF pendingAction \in expired THEN None ELSE pendingAction
yesses == [i \in DOMAIN said |-> {p \in Prompts : consents(said[i], p)}]
usedReplies == {x.reply : x \in settled}
settledAs(how) == {x.prompt : x \in {y \in settled : y.how = how}}

Promise == INSTANCE Consent WITH
    question <- openQuestion,
    replies <- yesses,
    used <- usedReplies,
    performed <- settledAs("performed"),
    dropped <- settledAs("dropped"),
    lost <- unclear

(***************************************************************************)
(* Every step of the tool calls, the bridge, the agent and the clock, and  *)
(* every crash and failing write, is one of Consent's or changes nothing   *)
(* Consent speaks of.                                                      *)
(***************************************************************************)
ImplementsConsent == Promise!ConsentSpec
=============================================================================
