---------------------------- MODULE CallbackServer ----------------------------
(***************************************************************************)
(* The OAuth callback server of internal/oauth/callback.go: the map from a *)
(* state token to the flow that waits for it, the handler that takes a     *)
(* flow out of it, and the job that reaps the flows nobody answered.  It   *)
(* serves the remote MCP servers (RemoteMCP) and the credential sets       *)
(* (Credentials).  A flow is named by its state token.                     *)
(*                                                                         *)
(* Answering a flow closes its done channel, and closing it twice panics:  *)
(* closed counts.  A panic of the handler is recovered by net/http and     *)
(* ends that request; a panic of the reaper's goroutine ends the process,  *)
(* see Reaped.                                                             *)
(***************************************************************************)
EXTENDS Integers, FiniteSets

CONSTANTS
    MaxFlows,     \* bound on the flows registered
    Budgets,      \* bounds on the calls, callbacks and requests begun, of each kind
    MaxFaults     \* bound on failed writes and crashes

ASSUME FlowsAssumption ==
    /\ {MaxFlows, MaxFaults} \subseteq Nat \ {0}
    /\ Budgets \subseteq [remote : Nat, credential : Nat]

VARIABLES
    pending,    \* the flows of the map
    aged,       \* the flows older than pendingFlowTTL
    reaping,    \* the entry the reaper's Range has loaded, 0 when none
    closed,     \* per flow: how often its done channel was closed
    budget,     \* the calls, callbacks and requests that may still begin
    faults      \* history: failed writes and crashes

callbackVars == <<pending, aged, reaping, closed>>

Flows == 1..MaxFlows
spends(kind) == budget[kind] > 0 /\ budget' = [budget EXCEPT ![kind] = @ - 1]
lapses == faults < MaxFaults /\ faults' = faults + 1

CallbackTypeOK ==
    /\ pending \subseteq Flows
    /\ aged \subseteq Flows
    /\ reaping \in {0} \cup Flows
    /\ closed \in [Flows -> 0..2]

CallbackInit ==
    /\ pending = {}
    /\ aged = {}
    /\ reaping = 0
    /\ closed = [f \in Flows |-> 0]
    /\ budget \in Budgets /\ faults = 0

\* Only the map is lost with the process; closed and aged are about the past.
CallbackLost ==
    /\ pending' = {}
    /\ reaping' = 0
    /\ UNCHANGED <<aged, closed>>

RegisterFlow(f) ==
    /\ pending' = pending \cup {f}
    /\ UNCHANGED <<aged, reaping, closed>>

\* The fault of a Load that leaves the entry in the map.
LooksUp(f) ==
    /\ f \in pending
    /\ UNCHANGED pending

\* The handler's LoadAndDelete: the flow is its own from here on.
TakesOut(f) ==
    /\ f \in pending
    /\ pending' = pending \ {f}

Closes(f) == closed' = [closed EXCEPT ![f] = IF @ = 2 THEN 2 ELSE @ + 1]

FlowAges(f) ==
    /\ f \in pending \ aged
    /\ aged' = aged \cup {f}
    /\ UNCHANGED <<pending, reaping, closed>>

\* Range hands an entry to its callback, which then deletes it by its key:
\* a handler may have taken the entry in between.
ReaperSees(f) ==
    /\ reaping = 0
    /\ f \in pending \cap aged
    /\ reaping' = f
    /\ UNCHANGED <<pending, aged, closed>>

\* Fail closes the channel; Reaped says whether the goroutine survives it.
Reaped == reaping # 0 /\ closed[reaping] = 0

ReaperFails ==
    /\ Reaped
    /\ pending' = pending \ {reaping}
    /\ Closes(reaping)
    /\ reaping' = 0
    /\ UNCHANGED aged

ReaperPanics ==
    /\ reaping # 0
    /\ ~ Reaped
    /\ pending' = {}
    /\ Closes(reaping)
    /\ reaping' = 0
    /\ UNCHANGED aged

(* A flow is answered once.  LoadAndDelete decides between two callbacks   *)
(* with the same state; only a flow older than its TTL can be answered     *)
(* twice, by a late callback and by the reaper that had already loaded it. *)
AnsweredOnce == \A f \in Flows : closed[f] = 2 => f \in aged
=============================================================================
