--------------------------- MODULE MCNotifications ---------------------------
(***************************************************************************)
(* Notifications for TLC: one subscription from before the boot, and a     *)
(* one-shot that a tool call makes.  Two emails against a page cap and a   *)
(* seen set of one: both limits are met.                                   *)
(***************************************************************************)
EXTENDS Notifications, TLC

CONSTANTS s1, s2

=============================================================================
