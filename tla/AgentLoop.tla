------------------------------ MODULE AgentLoop ------------------------------
(***************************************************************************)
(* One user's restart loop: waitAndStart of internal/router/router.go with *)
(* the goroutines it starts in every iteration, and the main loop of       *)
(* internal/agent/agent.go that one of them runs.                          *)
(*                                                                         *)
(*   static, dynamic --merge goroutines--> mergedMsgs --bridge-->          *)
(*     bridgeCh --Queue.Next goroutine--> nextCh --> the agent's turn      *)
(*                                                                         *)
(* The router waits for the agent, for the bridge, and for nothing else:   *)
(* the merge goroutines and the goroutine that runs Next may outlive their *)
(* iteration.  What the loop does at its ends (idle timeout, channel       *)
(* change, forced cancel, crash) decides which messages survive it.        *)
(*                                                                         *)
(* The queue is modelled in detail by MessageQueue; here Push, dequeue and *)
(* the interrupted marker are atomic, and whether the activity tracker     *)
(* holds a non-user message back is left open.  A resume message is        *)
(* represented by the channel it resumes.                                  *)
(***************************************************************************)
EXTENDS Integers, FiniteSets, SequencesExt

CONSTANTS
    Channels,
    UserMsgs,        \* messages typed by a person: the dynamic stream
    OtherMsgs,       \* schedules, notifications, sends: the static stream
    ChanOf,          \* the channel of a message
    None,
    MaxIterations,   \* bound on iterations of the loop
    MaxCrashes,      \* bound on crashes of the process
    MaxChanges,      \* bound on calls of onChannelChange
    MaxOAuth         \* bound on OAuth completions

Messages == UserMsgs \cup OtherMsgs
Items == Messages \cup Channels
Iterations == 1..MaxIterations
QueueStates == [msgs: Seq(Items), intr: Channels \cup {None}]

ASSUME LoopAssumption ==
    /\ ChanOf \in [Messages -> Channels]
    /\ UserMsgs \cap OtherMsgs = {} /\ Messages \cap Channels = {}
    /\ None \notin Items \cup QueueStates /\ "off" \notin Items \cup {None}
    /\ MaxIterations \in Nat \ {0}
    /\ MaxCrashes \in Nat /\ MaxChanges \in Nat /\ MaxOAuth \in Nat

VARIABLES
    rpc,       \* the router goroutine
    iter,      \* the iteration of its loop
    change,    \* the one-slot channelChangeCh holds a signal
    stale,     \* the configuration changed since this iteration loaded it
    notified,  \* channelChangeNotify is closed
    agentCtx,  \* agentCtx is live
    loaded,    \* what LoadPersisted read
    hand,      \* per iteration: the static merge goroutine: "off", None or what it holds
    userHand,  \* the same for the live user stream
    bridge,    \* the bridge: "off", "read", "send"
    held,      \* the message the bridge holds
    buf,       \* per iteration: bridgeCh, of capacity one
    nx,        \* per iteration: the latest goroutine that runs Next
    apc,       \* the agent goroutine
    cur,       \* the message of its turn
    q, disk,   \* the queue in memory and on disk (None: never written)
    fresh,     \* messages nobody has read from their stream
    handled,   \* history: the turns the agent started
    cuts,      \* history: channels of turns that were cut short, in order
    crashes, changes, oauth

routerVars == <<rpc, iter, change, stale, notified, agentCtx, loaded>>
mergeVars == <<hand, userHand>>
bridgeVars == <<bridge, held>>
agentVars == <<apc, cur>>
queueVars == <<q, disk>>
histVars == <<handled, cuts>>
bounds == <<crashes, changes, oauth>>

vars == <<rpc, iter, change, stale, notified, agentCtx, loaded, hand, userHand, bridge, held,
          buf, nx, apc, cur, q, disk, fresh, handled, cuts, crashes, changes, oauth>>

EmptyQueue == [msgs |-> <<>>, intr |-> None]
NoNext == [st |-> "none", msg |-> None, cancelled |-> FALSE]

(* Every method of the queue that changes it persists the result. *)
saveQueue(s) == q' = s /\ disk' = s
Push(m) == saveQueue([q EXCEPT !.msgs = Append(@, m)])

(* User and resume messages are processable at once. *)
priority(m) == m \notin OtherMsgs

-----------------------------------------------------------------------------
(* The goroutines of mergeAgentInputs, one pair for each iteration. *)

(* dynamicCtx of iteration i is live: cancelDynamic ends the iteration. *)
dynamicLive(i) == i = iter /\ rpc \notin {"drain", "reload"}

(***************************************************************************)
(* The static goroutine takes a message.  The select is random, so it may  *)
(* still do so after its context was cancelled.                            *)
(***************************************************************************)
MergeTakes(i, m) ==
    /\ hand[i] = None
    /\ m \in fresh \cap OtherMsgs
    /\ hand' = [hand EXCEPT ![i] = m]
    /\ fresh' = fresh \ {m}
    /\ UNCHANGED <<routerVars, userHand, bridgeVars, buf, nx, agentVars, queueVars, histVars,
                   bounds>>

(* Seeded fault: a plain fan-in. *)
mergeRequeuesNot(m) == UNCHANGED queueVars

(* The iteration ends with a message in hand: it goes to the queue. *)
mergeRequeues(m) == Push(m)

MergeRequeues(i) ==
    /\ hand[i] \in Messages /\ ~dynamicLive(i)
    /\ mergeRequeues(hand[i])
    /\ hand' = [hand EXCEPT ![i] = "off"]
    /\ UNCHANGED <<routerVars, userHand, bridgeVars, buf, nx, agentVars, fresh, histVars,
                   bounds>>

MergeEnds(i) ==
    /\ hand[i] = None /\ ~dynamicLive(i)
    /\ hand' = [hand EXCEPT ![i] = "off"]
    /\ UNCHANGED <<routerVars, userHand, bridgeVars, buf, nx, agentVars, queueVars, fresh,
                   histVars, bounds>>

(* The live user stream; its message is dropped when the iteration ends. *)
UserMergeTakes(m) ==
    /\ userHand = None /\ dynamicLive(iter)
    /\ m \in fresh \cap UserMsgs
    /\ userHand' = m
    /\ fresh' = fresh \ {m}
    /\ UNCHANGED <<routerVars, hand, bridgeVars, buf, nx, agentVars, queueVars, histVars, bounds>>

(* A receive from mergedMsgs: from whichever goroutine offers m. *)
receiveMerged(m) ==
    \/ /\ hand[iter] = m /\ m \in Messages
       /\ hand' = [hand EXCEPT ![iter] = None]
       /\ UNCHANGED userHand
    \/ /\ userHand = m /\ m \in Messages
       /\ userHand' = None
       /\ UNCHANGED hand

-----------------------------------------------------------------------------
(* The bridge. *)

BridgeReads(m) ==
    /\ bridge = "read"
    /\ receiveMerged(m)
    /\ bridge' = "send" /\ held' = m
    /\ UNCHANGED <<routerVars, buf, nx, agentVars, queueVars, fresh, histVars, bounds>>

(* A reply that answers an open prompt goes no further. *)
BridgeIntercepts ==
    /\ bridge = "send" /\ held \in UserMsgs
    /\ bridge' = "read" /\ held' = None
    /\ handled' = Append(handled, held)
    /\ UNCHANGED <<routerVars, mergeVars, buf, nx, agentVars, queueVars, fresh, cuts, bounds>>

BridgeSends ==
    /\ bridge = "send" /\ buf[iter] = <<>>
    /\ buf' = [buf EXCEPT ![iter] = <<held>>]
    /\ bridge' = "read" /\ held' = None
    /\ UNCHANGED <<routerVars, mergeVars, nx, agentVars, queueVars, fresh, histVars, bounds>>

(* The agent is gone: a non-user message in hand goes to the queue. *)
BridgeEnds ==
    /\ bridge # "off" /\ ~agentCtx
    /\ IF held \in OtherMsgs THEN Push(held) ELSE UNCHANGED queueVars
    /\ bridge' = "off" /\ held' = None
    /\ UNCHANGED <<routerVars, mergeVars, buf, nx, agentVars, fresh, histVars, bounds>>

-----------------------------------------------------------------------------
(* The goroutine that runs Queue.Next for the agent of iteration i. *)

running(i) == nx[i].st = "run"

(* nextCh takes the result; with the agent gone nobody reads it. *)
nextReturns(i, m) ==
    nx' = [nx EXCEPT ![i] = IF i = iter /\ apc \in {"select", "await"}
                            THEN [st |-> "done", msg |-> m, cancelled |-> FALSE] ELSE NoNext]

(* Next reads the input and queues what it gets. *)
NextReads(i) ==
    /\ running(i) /\ buf[i] # <<>>
    /\ buf' = [buf EXCEPT ![i] = <<>>]
    /\ Push(Head(buf[i]))
    /\ UNCHANGED <<routerVars, mergeVars, bridgeVars, nx, agentVars, fresh, histVars, bounds>>

(* What tryDequeue leaves. *)
removed(s, k) == RemoveAt(s, k)

(* User and resume messages first; a non-user message if nothing holds it back. *)
isNext(k) ==
    IF \E j \in DOMAIN q.msgs : priority(q.msgs[j])
    THEN priority(q.msgs[k]) /\ \A j \in 1..(k - 1) : ~priority(q.msgs[j])
    ELSE k = 1

NextDequeues(i) ==
    \E k \in DOMAIN q.msgs :
        /\ running(i) /\ isNext(k)
        /\ nextReturns(i, q.msgs[k])
        /\ saveQueue([q EXCEPT !.msgs = removed(@, k)])
        /\ UNCHANGED <<routerVars, mergeVars, bridgeVars, buf, agentVars, fresh, histVars,
                       bounds>>

(* Next notices that its context was cancelled. *)
NextCancelled(i) ==
    /\ running(i) /\ nx[i].cancelled
    /\ nextReturns(i, None)
    /\ UNCHANGED <<routerVars, mergeVars, bridgeVars, buf, agentVars, queueVars, fresh,
                   histVars, bounds>>

-----------------------------------------------------------------------------
(* The agent. *)

cancelled(n) == IF n.st = "run" THEN [n EXCEPT !.cancelled = TRUE] ELSE n

AgentCallsNext ==
    /\ apc = "loop"
    /\ nx' = [nx EXCEPT ![iter] = [st |-> "run", msg |-> None, cancelled |-> FALSE]]
    /\ apc' = "select"
    /\ UNCHANGED <<routerVars, mergeVars, bridgeVars, buf, cur, queueVars, fresh, histVars,
                   bounds>>

(* Channel change or idle timeout: the agent returns without waiting for Next. *)
AgentExits(reason) ==
    /\ apc = "select"
    /\ reason = "changed" => notified
    /\ nx' = [nx EXCEPT ![iter] = IF running(iter) THEN cancelled(@) ELSE NoNext]
    /\ apc' = reason
    /\ UNCHANGED <<routerVars, mergeVars, bridgeVars, buf, cur, queueVars, fresh, histVars,
                   bounds>>

(* An OAuth sign-in completed: Next is cancelled and waited for. *)
AgentOAuth ==
    /\ apc = "select"
    /\ oauth < MaxOAuth /\ oauth' = oauth + 1
    /\ nx' = [nx EXCEPT ![iter] = cancelled(@)]
    /\ apc' = "await"
    /\ UNCHANGED <<routerVars, mergeVars, bridgeVars, buf, cur, queueVars, fresh, histVars,
                   crashes, changes>>

(* The result is discarded, whatever it is; then the sign-in flow goes on. *)
AgentOAuthGoesOn ==
    /\ apc = "await" /\ nx[iter].st = "done"
    /\ nx' = [nx EXCEPT ![iter] = NoNext]
    /\ apc' = "loop"
    /\ UNCHANGED <<routerVars, mergeVars, bridgeVars, buf, cur, queueVars, fresh, histVars,
                   bounds>>

channelOf(m) == IF m \in Channels THEN m ELSE ChanOf[m]

(***************************************************************************)
(* Next returned a message: the agent handles it itself (a command, a      *)
(* sign-in step, a stale button) or marks the channel and starts a turn.   *)
(***************************************************************************)
AgentReceives ==
    /\ apc = "select" /\ nx[iter].st = "done" /\ nx[iter].msg # None
    /\ LET m == nx[iter].msg
       IN  /\ handled' = Append(handled, m)
           /\ \/ /\ m \in UserMsgs
                 /\ apc' = "loop"
                 /\ UNCHANGED <<cur, queueVars>>
              \/ /\ apc' = "turn" /\ cur' = m
                 /\ saveQueue([q EXCEPT !.intr = channelOf(m)])
    /\ nx' = [nx EXCEPT ![iter] = NoNext]
    /\ UNCHANGED <<routerVars, mergeVars, bridgeVars, buf, fresh, cuts, bounds>>

(* What arrives during the turn is queued; a stop or a stale press is not. *)
TurnReads ==
    /\ apc = "turn" /\ buf[iter] # <<>>
    /\ buf' = [buf EXCEPT ![iter] = <<>>]
    /\ \/ Push(Head(buf[iter])) /\ UNCHANGED handled
       \/ /\ Head(buf[iter]) \in UserMsgs
          /\ handled' = Append(handled, Head(buf[iter]))
          /\ UNCHANGED queueVars
    /\ UNCHANGED <<routerVars, mergeVars, bridgeVars, nx, agentVars, fresh, cuts, bounds>>

(* Seeded fault: the marker survives the turn. *)
keepsMarker == UNCHANGED queueVars

(* The turn completed: the marker goes. *)
clearsMarker == saveQueue([q EXCEPT !.intr = None])

afterTurn == IF notified THEN "changed" ELSE "loop"

TurnEnds ==
    /\ apc = "turn" /\ agentCtx
    /\ clearsMarker
    /\ apc' = afterTurn /\ cur' = None
    /\ UNCHANGED <<routerVars, mergeVars, bridgeVars, buf, nx, fresh, histVars, bounds>>

(* A turn whose context was cancelled leaves its marker. *)
TurnIsCut ==
    /\ apc = "turn" /\ ~agentCtx
    /\ apc' = afterTurn /\ cur' = None
    /\ cuts' = Append(cuts, channelOf(cur))
    /\ UNCHANGED <<routerVars, mergeVars, bridgeVars, buf, nx, queueVars, fresh, handled,
                   bounds>>

-----------------------------------------------------------------------------
(* The router. *)

(* onChannelChange, called by tools, cleanup jobs and confirmations. *)
OnChannelChange ==
    /\ changes < MaxChanges /\ changes' = changes + 1
    /\ change' = TRUE /\ stale' = TRUE
    /\ UNCHANGED <<rpc, iter, notified, agentCtx, loaded, mergeVars, bridgeVars, buf, nx,
                   agentVars, queueVars, fresh, histVars, crashes, oauth>>

(* Top of the loop: signals of the previous iteration are drained first. *)
Drain ==
    /\ rpc = "drain"
    /\ change' = FALSE
    /\ rpc' = "reload"
    /\ UNCHANGED <<iter, stale, notified, agentCtx, loaded, mergeVars, bridgeVars, buf, nx,
                   agentVars, queueVars, fresh, histVars, bounds>>

(* ReloadConfig, reconcile, and new merge goroutines. *)
Reload ==
    /\ rpc = "reload"
    /\ stale' = FALSE
    /\ rpc' = "load"
    /\ hand' = [hand EXCEPT ![iter] = None]
    /\ UNCHANGED <<iter, change, notified, agentCtx, loaded, userHand, bridgeVars, buf, nx,
                   agentVars, queueVars, fresh, histVars, bounds>>

(* LoadPersisted reads the file, *)
LoadRead ==
    /\ rpc = "load"
    /\ loaded' = disk
    /\ rpc' = "set"
    /\ UNCHANGED <<iter, change, stale, notified, agentCtx, mergeVars, bridgeVars, buf, nx,
                   agentVars, queueVars, fresh, histVars, bounds>>

(* and replaces what is in memory, unless there was none. *)
LoadSet ==
    /\ rpc = "set"
    /\ q' = IF loaded = None THEN q ELSE loaded
    /\ loaded' = None
    /\ rpc' = "decide"
    /\ UNCHANGED <<iter, change, stale, notified, agentCtx, mergeVars, bridgeVars, buf, nx,
                   agentVars, disk, fresh, histVars, bounds>>

(* A signal that came since the configuration was loaded is kept. *)
signalKept == change

(* The agent and the bridge start; m is the first message, or None. *)
startAgent(m) ==
    /\ rpc' = "running" /\ change' = signalKept
    /\ agentCtx' = TRUE /\ notified' = FALSE
    /\ buf' = [buf EXCEPT ![iter] = IF m = None THEN <<>> ELSE <<m>>]
    /\ bridge' = "read" /\ held' = None
    /\ apc' = "loop" /\ cur' = None

(* checkAutoResume finds no marker, or the one of a channel that was deleted. *)
nothingToResume == q.intr = None \/ changes > 0

(***************************************************************************)
(* determineStartupSignal: resume, drain the queue, or wait for a message. *)
(* A marker is cleared in each case.                                       *)
(***************************************************************************)
Decide ==
    /\ rpc = "decide"
    /\ IF q.intr = None THEN UNCHANGED queueVars ELSE saveQueue([q EXCEPT !.intr = None])
    /\ \/ q.intr # None /\ startAgent(q.intr)
       \/ nothingToResume /\ q.msgs # <<>> /\ startAgent(None)
       \/ /\ nothingToResume /\ q.msgs = <<>>
          /\ rpc' = "wait"
          /\ UNCHANGED <<change, agentCtx, notified, buf, bridgeVars, agentVars>>
    /\ UNCHANGED <<iter, stale, loaded, mergeVars, nx, fresh, histVars, bounds>>

FirstMessage(m) ==
    /\ rpc = "wait"
    /\ receiveMerged(m)
    /\ startAgent(m)
    /\ UNCHANGED <<iter, stale, loaded, nx, queueVars, fresh, histVars, bounds>>

(* The channel change signal reaches the agent. *)
ChangeSeen ==
    /\ rpc = "running" /\ change
    /\ change' = FALSE /\ notified' = TRUE
    /\ rpc' = "changing"
    /\ UNCHANGED <<iter, stale, agentCtx, loaded, mergeVars, bridgeVars, buf, nx, agentVars,
                   queueVars, fresh, histVars, bounds>>

(* Seeded fault: the safety timeout only logs. *)
forcesNothing == agentCtx

(* The safety timeout cancels the agent's context. *)
forced == FALSE

(* The turn did not end within two minutes. *)
ForceCancel ==
    /\ rpc = "changing" /\ agentCtx /\ apc = "turn"
    /\ agentCtx' = forced
    /\ UNCHANGED <<rpc, iter, change, stale, notified, loaded, mergeVars, bridgeVars, buf, nx,
                   agentVars, queueVars, fresh, histVars, bounds>>

(* The agent returned: its context is cancelled and the bridge waited for. *)
AgentReturned ==
    /\ rpc \in {"running", "changing"} /\ apc \in {"idle", "changed"}
    /\ agentCtx' = FALSE
    /\ rpc' = "join"
    /\ UNCHANGED <<iter, change, stale, notified, loaded, mergeVars, bridgeVars, buf, nx,
                   agentVars, queueVars, fresh, histVars, bounds>>

(* The end of an iteration; after an idle timeout there is nothing to resume. *)
IterationEnds ==
    /\ rpc = "join" /\ bridge = "off"
    /\ iter < MaxIterations /\ iter' = iter + 1
    /\ IF apc = "idle" THEN saveQueue([q EXCEPT !.intr = None]) ELSE UNCHANGED queueVars
    /\ rpc' = "drain" /\ apc' = "off"
    /\ userHand' = None
    /\ UNCHANGED <<change, stale, notified, agentCtx, loaded, hand, bridgeVars, buf, nx, cur,
                   fresh, histVars, bounds>>

(* The process dies and another one starts. *)
Crash ==
    /\ crashes < MaxCrashes /\ crashes' = crashes + 1
    /\ iter < MaxIterations /\ iter' = iter + 1
    /\ rpc' = "drain" /\ change' = FALSE /\ stale' = FALSE /\ notified' = FALSE
    /\ agentCtx' = FALSE /\ loaded' = None
    /\ hand' = [i \in Iterations |-> "off"]
    /\ userHand' = None
    /\ bridge' = "off" /\ held' = None
    /\ buf' = [i \in Iterations |-> <<>>]
    /\ nx' = [i \in Iterations |-> NoNext]
    /\ apc' = "off" /\ cur' = None
    /\ q' = EmptyQueue
    /\ cuts' = IF apc = "turn" THEN Append(cuts, channelOf(cur)) ELSE cuts
    /\ UNCHANGED <<disk, fresh, handled, changes, oauth>>

-----------------------------------------------------------------------------
Init ==
    /\ rpc = "drain" /\ iter = 1 /\ change = FALSE /\ stale = FALSE /\ notified = FALSE
    /\ agentCtx = FALSE /\ loaded = None
    /\ hand = [i \in Iterations |-> "off"] /\ userHand = None
    /\ bridge = "off" /\ held = None
    /\ buf = [i \in Iterations |-> <<>>] /\ nx = [i \in Iterations |-> NoNext]
    /\ apc = "off" /\ cur = None
    /\ q = EmptyQueue /\ disk = None
    /\ fresh = Messages /\ handled = <<>> /\ cuts = <<>>
    /\ crashes = 0 /\ changes = 0 /\ oauth = 0

RouterStep ==
    \/ Drain \/ Reload \/ LoadRead \/ LoadSet \/ Decide \/ ChangeSeen \/ ForceCancel
    \/ AgentReturned \/ IterationEnds

BridgeStep == (\E m \in Messages : BridgeReads(m)) \/ BridgeIntercepts \/ BridgeSends \/ BridgeEnds
MergeStep(i) == (\E m \in Messages : MergeTakes(i, m)) \/ MergeRequeues(i) \/ MergeEnds(i)
NextStep(i) == NextReads(i) \/ NextDequeues(i) \/ NextCancelled(i)
AgentStep == AgentCallsNext \/ AgentExits("changed") \/ AgentOAuthGoesOn \/ AgentReceives \/ TurnIsCut

Next ==
    \/ RouterStep \/ BridgeStep \/ AgentStep
    \/ \E m \in Messages : FirstMessage(m) \/ UserMergeTakes(m)
    \/ \E i \in Iterations : MergeStep(i) \/ NextStep(i)
    \/ TurnReads \/ TurnEnds \/ AgentExits("idle") \/ AgentOAuth
    \/ OnChannelChange \/ Crash

Spec == Init /\ [][Next]_vars

(***************************************************************************)
(* Fairness: goroutines are scheduled and the two-minute timer runs out.   *)
(* Nothing is assumed of arrivals, of the end of a turn, of idle timeouts, *)
(* of sign-ins, changes and crashes.                                       *)
(***************************************************************************)
Fairness ==
    /\ WF_vars(RouterStep) /\ WF_vars(BridgeStep) /\ WF_vars(AgentStep)
    /\ \A i \in Iterations : WF_vars(MergeStep(i)) /\ WF_vars(NextStep(i))

FairSpec == Spec /\ Fairness

-----------------------------------------------------------------------------
(* Properties. *)

(* Every variable keeps its type. *)
TypeOK ==
    /\ rpc \in {"drain", "reload", "load", "set", "decide", "wait", "running", "changing",
                "join"}
    /\ iter \in Iterations
    /\ change \in BOOLEAN /\ stale \in BOOLEAN /\ notified \in BOOLEAN /\ agentCtx \in BOOLEAN
    /\ hand \in [Iterations -> OtherMsgs \cup {None, "off"}]
    /\ userHand \in UserMsgs \cup {None}
    /\ bridge \in {"off", "read", "send"} /\ held \in Messages \cup {None}
    /\ buf \in [Iterations -> Seq(Items)] /\ \A i \in Iterations : Len(buf[i]) <= 1
    /\ nx \in [Iterations -> [st: {"none", "run", "done"}, msg: Items \cup {None},
                              cancelled: BOOLEAN]]
    /\ apc \in {"off", "loop", "select", "await", "turn", "idle", "changed"}
    /\ cur \in Items \cup {None}
    /\ q \in QueueStates
    /\ disk \in QueueStates \cup {None} /\ loaded \in QueueStates \cup {None}
    /\ fresh \subseteq Messages
    /\ handled \in Seq(Items) /\ cuts \in Seq(Channels)
    /\ crashes \in 0..MaxCrashes /\ changes \in 0..MaxChanges /\ oauth \in 0..MaxOAuth

Occurrences(s, x) == Cardinality({i \in DOMAIN s : s[i] = x})

(***************************************************************************)
(* No message is handled twice, whatever goroutine of an earlier iteration *)
(* is still around, and whatever is reloaded from disk after a crash.      *)
(***************************************************************************)
HandledOnce == \A m \in Messages : Occurrences(handled, m) <= 1

(***************************************************************************)
(* A channel is resumed only if a turn on it was cut short, and once for   *)
(* each: not after a turn that ended, nor after an idle timeout.           *)
(***************************************************************************)
ResumeIsOwed == \A c \in Channels : Occurrences(handled, c) <= Occurrences(cuts, c)

(***************************************************************************)
(* A configuration change is never forgotten: while the running iteration  *)
(* works with an old configuration, a restart is under way or signalled.   *)
(* The drain at the top of the loop only drops signals that the reload     *)
(* after it makes good.                                                    *)
(***************************************************************************)
StaleIsSignalled ==
    stale => change \/ rpc \in {"drain", "reload", "changing", "join"}

(***************************************************************************)
(* The two requeue guards: a non-user message in the hands of a merge      *)
(* goroutine or of the bridge is handed on or queued when the iteration or *)
(* the agent ends, never dropped.                                          *)
(***************************************************************************)
HopsKeepNonUser ==
    [][crashes' = crashes =>
         LET handedOn(m) == m \in ToSet(q'.msgs) \/ held' = m \/ m \in ToSet(buf'[iter])
         IN  \A m \in OtherMsgs :
               /\ \A i \in Iterations : hand[i] = m /\ hand'[i] # m => handedOn(m)
               /\ held = m /\ held' # m => handedOn(m)]_vars

(***************************************************************************)
(* A channel change that the router sees ends the iteration, even if the   *)
(* turn that is running never ends by itself.                              *)
(***************************************************************************)
ChangeEndsIteration == rpc = "changing" ~> rpc \in {"join", "drain"}

(***************************************************************************)
(* Over restarts, crashes and changes of the configuration: messages are   *)
(* handled once, only cut turns are resumed, and a change stays signalled  *)
(* until it is applied.                                                    *)
(***************************************************************************)
LoopOK == TypeOK /\ HandledOnce /\ ResumeIsOwed /\ StaleIsSignalled

=============================================================================
