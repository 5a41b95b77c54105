------------------------------- MODULE Consent -------------------------------
(***************************************************************************)
(* What tclaw promises about the questions it puts to the user, whatever   *)
(* tool calls, timeouts, restarts and crashes do: one question is open at  *)
(* a time, it makes room only by going away, nothing is done but for a     *)
(* reply that says yes to it, no reply serves twice, and what was decided  *)
(* is not decided again, unless it could not be cleared from the disk.     *)
(***************************************************************************)
EXTENDS Naturals, Sequences

CONSTANTS Prompts, None

VARIABLES
    question,    \* the question that is open
    replies,     \* per message so far: the questions it says yes to
    used,        \* the messages that decided something
    performed,   \* what was done
    dropped,     \* what was refused, or had lapsed
    lost         \* what could not be cleared

consentVars == <<question, replies, used, performed, dropped, lost>>
decided == performed \cup dropped

ConsentInit ==
    /\ question = None
    /\ replies = <<>>
    /\ used = {} /\ performed = {} /\ dropped = {} /\ lost = {}

\* One more message, which says yes to some questions, perhaps to none.
Reply ==
    /\ DOMAIN replies' # DOMAIN replies
    /\ replies' = Append(replies, replies'[Len(replies')])
    /\ replies'[Len(replies')] \subseteq Prompts
    /\ UNCHANGED <<question, used, performed, dropped, lost>>

Ask(p) ==
    /\ question = None /\ p \notin decided
    /\ question' = p
    /\ UNCHANGED <<replies, used, performed, dropped, lost>>

goesAway == question' \in {question, None}

\* It lapses, is rolled back or lost with a file, or has been answered.
Withdraw ==
    /\ question # None /\ question' = None
    /\ UNCHANGED <<replies, used, performed, dropped, lost>>

Stays(p) ==
    /\ lost' = lost \cup {p} /\ p \notin lost
    /\ goesAway
    /\ UNCHANGED <<replies, used, performed, dropped>>

Performs(p, r) ==
    /\ p \in replies[r]
    /\ performed' = performed \cup {p}
    /\ UNCHANGED <<dropped, lost>>

Drops(p) ==
    /\ dropped' = dropped \cup {p}
    /\ lost' \in {lost, lost \cup {p}}
    /\ UNCHANGED performed

Decide(r) ==
    /\ r \notin used /\ used' = used \cup {r}
    /\ \E p \in Prompts :
         /\ p \in decided => p \in lost
         /\ Performs(p, r) \/ Drops(p)
    /\ goesAway
    /\ UNCHANGED replies

ConsentNext ==
    \/ Reply \/ Withdraw
    \/ \E p \in Prompts : Ask(p) \/ Stays(p)
    \/ \E r \in DOMAIN replies : Decide(r)

ConsentSpec == ConsentInit /\ [][ConsentNext]_consentVars
=============================================================================
