------------------------------ MODULE MCChannels ------------------------------
(* One permanent and one ephemeral channel.  With the bridge, the reaper and *)
(* a call that a forced restart cut off, up to four operations overlap.      *)
EXTENDS Channels

CONSTANTS main, side, call

MCNames == {main, side}
MCEphemeral == {side}
MCConfigured == {main}
MCCallers == {call}
MCHidden == {}
=============================================================================
