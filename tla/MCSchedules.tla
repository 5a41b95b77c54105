----------------------------- MODULE MCSchedules -----------------------------
(***************************************************************************)
(* Schedules for TLC: the process boots with a reminder due at one, whose  *)
(* identifier the tools know, and with or without a recurring schedule.    *)
(***************************************************************************)
EXTENDS Schedules, TLC

CONSTANTS s1, s2, work, c1

reminder == [once |-> TRUE, cron |-> FALSE, active |-> TRUE, next |-> 1, ch |-> work]
recurring == [once |-> FALSE, cron |-> TRUE, active |-> TRUE, next |-> 0, ch |-> work]

MCPersisted == {(s1 :> r) @@ (s2 :> None) : r \in {reminder, [reminder EXCEPT !.active = FALSE], recurring}}

=============================================================================
