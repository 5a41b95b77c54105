---------------------------- MODULE MCConnections ----------------------------
(* An instance of Connections: a remote server with two tool calls, a      *)
(* callback and two requests, a package with two credential sets.          *)
EXTENDS Connections, TLC

CONSTANTS c1, c2, t1, t2, h1, r1, r2, k1, k2, v1

MCChannels == {c1, c2}
MCCalls == {t1, t2}
MCHandlers == {h1}
MCRequests == {r1, r2}
MCClerks == {k1, k2}
MCVisits == {v1}
MCSignIns == {3}
\* Long runs of each kind, and shorter ones of both.
MCBudgets ==
    {[remote |-> 4, credential |-> 0], [remote |-> 0, credential |-> 4],
     [remote |-> 2, credential |-> 1], [remote |-> 1, credential |-> 2]}
MCSymmetry ==
    Permutations(MCRequests) \cup Permutations(MCCalls) \cup Permutations(MCChannels)
        \cup Permutations(MCClerks)
=============================================================================
