--------------------------- MODULE MCMessageQueue ---------------------------
(***************************************************************************)
(* MessageQueue for TLC: one channel with a conversation, one channel that *)
(* the channel set no longer knows, messages a person writes, a stop, and   *)
(* messages from schedules or other channels.                              *)
(***************************************************************************)
EXTENDS MessageQueue, TLC

CONSTANTS c1, c2, u1, u2, s1, o1, o2

MCChannels == {c1, c2}
MCLive == {c1}
MCChanOf == [m \in Messages |-> IF m = o2 THEN c2 ELSE c1]
MCKindOf ==
    [m \in Messages |->
        CASE m \in {u1, u2} -> "user" [] m = s1 -> "stop" [] OTHER -> "other"]

=============================================================================
