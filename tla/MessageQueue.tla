----------------------------- MODULE MessageQueue -----------------------------
(***************************************************************************)
(* The persistent priority queue, internal/queue/queue.go, with the file   *)
(* store under it (internal/libraries/store/fs.go), the activity tracker   *)
(* it consults and the goroutines that call it:                            *)
(*                                                                         *)
(*  - the agent goroutine calls Next, runs a turn with what it returns and *)
(*    brackets the turn with SetInterrupted and ClearInterrupted;          *)
(*  - Pushers are the goroutines that call Push on their own: the restart  *)
(*    requeue of mergeAgentInputs and the bridge, the ephemeral cleanup;   *)
(*  - the router's bridge feeds the input channel Next reads from.         *)
(*                                                                         *)
(* The grain is the code's locking: a method's critical section is one     *)
(* step, persist is a snapshot under the lock, then a marshal and a        *)
(* truncate, then a write, none of them under the lock.                    *)
(***************************************************************************)
EXTENDS ActivityTracker, Selections, Integers, FiniteSets, SequencesExt

CONSTANTS
    Messages,       \* the messages that may arrive, each at most once
    ChanOf,         \* ChannelID of a message
    KindOf,         \* what the queue and the agent tell apart, see Kinds
    Live,           \* the channels the channel set resolves to a name
    Agent,          \* the goroutine of agent.RunWithMessages
    Pushers,        \* the other goroutines that call Push
    Debounce,       \* TRUE iff DebounceWindow > 0
    NoChannel,      \* the empty ChannelID
    NoMessage,
    MaxRestarts,    \* bound on crashes and agent restarts
    MaxFailures,    \* bound on failing store writes
    MaxIntercepts   \* bound on messages the router answers itself

(* What a person typed, a press of a prompt's button, the commands, the rest. *)
Kinds == {"user", "press", "stop", "builtin", "resume", "other"}

ASSUME QueueAssumption ==
    /\ ChanOf \in [Messages -> Channels]
    /\ KindOf \in [Messages -> Kinds]
    /\ Live \subseteq Channels
    /\ Agent \notin Pushers
    /\ NoChannel \notin Channels
    /\ NoMessage \notin Messages
    /\ Debounce \in BOOLEAN
    /\ MaxRestarts \in Nat /\ MaxFailures \in Nat /\ MaxIntercepts \in Nat

Threads == Pushers \cup {Agent}

VARIABLES
    messages,     \* q.messages
    interrupted,  \* q.interruptedChannel
    notify,       \* the one-slot q.notify holds a signal
    file,         \* the store's message_queue file
    io,           \* per goroutine: where it is inside persist
    snap,         \* per goroutine: what persist captured
    pc,           \* the agent goroutine
    batchChan,    \* chID of debounceAndCoalesce
    waitOn,       \* channels whose idle waiter feeds the current idleCh
    idleCh,       \* idleCh is ready to receive from
    input,        \* bridgeCh, a buffered channel of capacity one
    cur,          \* the messages merged into the one Next returns
    loaded,       \* what LoadPersisted read, before it takes the lock
    fresh,        \* messages that have not arrived yet
    order,        \* history: messages in the order they arrived
    handled,      \* history: messages in the order Next returned them
    acked,        \* history: messages whose Push returned nil
    restarts, failures, intercepts

queueVars == <<messages, interrupted, notify>>
ioVars == <<io, snap, file>>
nextVars == <<pc, batchChan, waitOn, idleCh, cur, loaded>>
histVars == <<fresh, order, handled, acked>>
bounds == <<restarts, failures, intercepts>>

vars == <<act, saved, messages, interrupted, notify, io, snap, file, pc,
          batchChan, waitOn, idleCh, cur, loaded, input, fresh, order,
          handled, acked, restarts, failures, intercepts>>

-----------------------------------------------------------------------------
(* The dequeue rules. *)

isUserMessage(m) == KindOf[m] \in {"user", "press", "stop", "builtin"}

isControlMessage(m) == KindOf[m] \in {"press", "stop", "builtin"}

isBatchable(m) == isUserMessage(m) /\ ~isControlMessage(m)

(* The target channel does not hold back a non-user message. *)
notHeldBack(m) == ChanOf[m] \in Live => ~IsBusy(ChanOf[m])

dequeueIndex(q) ==
    LET user == SelectInSeq(q, isUserMessage)
        resume == SelectInSeq(q, LAMBDA m : KindOf[m] = "resume")
        idle == SelectInSeq(q, notHeldBack)
    IN  IF user # 0 THEN user ELSE IF resume # 0 THEN resume ELSE idle

(* The busy channels that idleNotifyForQueued asks to be told about. *)
busyChannels(q) ==
    {c \in Live : IsBusy(c) /\ \E i \in DOMAIN q : ~isUserMessage(q[i]) /\ ChanOf[q[i]] = c}

-----------------------------------------------------------------------------
(* The store: the content of a file is a state, or what is left of one. *)

EmptyFile == [msgs |-> <<>>, intr |-> NoChannel, is |-> "empty"]
CorruptFile == [msgs |-> <<>>, intr |-> NoChannel, is |-> "corrupt"]

persistedState(q, c) == [msgs |-> q, intr |-> c, is |-> "state"]

(***************************************************************************)
(* persist copies the slice header, not the elements.  Until the marshal,  *)
(* tryDequeue on another goroutine shifts the elements of the shared array *)
(* in place.  "reads" is the set of sequences the marshal may see; "alias" *)
(* says that the array is still the one q.messages uses.                   *)
(***************************************************************************)
begun(m) == [reads |-> {}, alias |-> FALSE, intr |-> NoChannel, msg |-> m]
NoSnap == begun(NoMessage)

(* Calls persist; m is the message of the Push that does, or NoMessage. *)
beginPersist(t, m) ==
    /\ io' = [io EXCEPT ![t] = "lock"]
    /\ snap' = [snap EXCEPT ![t] = begun(m)]
    /\ UNCHANGED file

persistSnapshot(t) ==
    /\ io[t] = "lock"
    /\ io' = [io EXCEPT ![t] = "marshal"]
    /\ snap' = [snap EXCEPT ![t].reads = {messages}, ![t].alias = TRUE,
                            ![t].intr = interrupted]
    /\ UNCHANGED <<file, queueVars, nextVars, input, histVars, bounds, activityVars>>

(* os.WriteFile opens with O_TRUNC and only then writes. *)
persistTruncate(t) ==
    /\ io[t] = "marshal"
    /\ io' = [io EXCEPT ![t] = "write"]
    /\ \E s \in snap[t].reads : snap' = [snap EXCEPT ![t].reads = {s}, ![t].alias = FALSE]
    /\ file' = EmptyFile
    /\ UNCHANGED <<queueVars, nextVars, input, histVars, bounds, activityVars>>

(***************************************************************************)
(* A write over bytes another goroutine wrote since the truncation leaves  *)
(* the tail of the longer text behind.                                     *)
(***************************************************************************)
persistWrite(t) ==
    /\ io[t] = "write"
    /\ \E s \in snap[t].reads :
         LET state == persistedState(s, snap[t].intr)
         IN  file' \in IF file \in {EmptyFile, state} THEN {state}
                       ELSE {state, CorruptFile}
    /\ io' = [io EXCEPT ![t] = "none"]
    /\ snap' = [snap EXCEPT ![t] = NoSnap]
    \* the end of Push: the caller gets nil and Next is woken
    /\ acked' = IF snap[t].msg = NoMessage THEN acked ELSE acked \cup {snap[t].msg}
    /\ notify' = (notify \/ snap[t].msg # NoMessage)
    /\ UNCHANGED <<messages, interrupted, nextVars, input, fresh, order, handled,
                   bounds, activityVars>>

(* The store returns an error: Push returns it and wakes nobody. *)
persistFails(t) ==
    /\ io[t] = "write"
    /\ failures < MaxFailures
    /\ failures' = failures + 1
    /\ io' = [io EXCEPT ![t] = "none"]
    /\ snap' = [snap EXCEPT ![t] = NoSnap]
    /\ UNCHANGED <<file, queueVars, nextVars, input, histVars, restarts, intercepts,
                   activityVars>>

Persist(t) ==
    persistSnapshot(t) \/ persistTruncate(t) \/ persistWrite(t) \/ persistFails(t)

-----------------------------------------------------------------------------
(* Push: the append is one critical section, then persist. *)

Push(t, m) ==
    /\ messages' = Append(messages, m)
    /\ beginPersist(t, m)
    /\ UNCHANGED <<interrupted, notify>>

(* A goroutine of its own pushes a non-user message. *)
PushExternal(p, m) ==
    /\ io[p] = "none"
    /\ m \in fresh /\ KindOf[m] = "other"
    /\ Push(p, m)
    /\ fresh' = fresh \ {m}
    /\ order' = Append(order, m)
    /\ UNCHANGED <<handled, acked, nextVars, input, bounds, activityVars>>

(***************************************************************************)
(* The bridge records the arrival of user and resume messages before it    *)
(* hands a message on.                                                     *)
(***************************************************************************)
trackArrival(c, tracked) ==
    IF tracked /\ c \in Live THEN MessageReceivedFrom(c) ELSE UNCHANGED activityVars

BridgeForward(m) ==
    /\ m \in fresh /\ input = <<>>
    /\ trackArrival(ChanOf[m], KindOf[m] # "other")
    /\ input' = <<m>>
    /\ fresh' = fresh \ {m}
    /\ order' = Append(order, m)
    /\ UNCHANGED <<handled, acked, queueVars, ioVars, nextVars, bounds>>

(* A reply that answers a prompt goes no further than the bridge. *)
BridgeIntercept(c) ==
    /\ intercepts < MaxIntercepts
    /\ intercepts' = intercepts + 1
    /\ trackArrival(c, TRUE)
    /\ UNCHANGED <<queueVars, ioVars, nextVars, input, histVars, restarts, failures>>

-----------------------------------------------------------------------------
(* Next, on the agent goroutine. *)

AgentAt(label) == pc = label /\ io[Agent] = "none"

(* peekBatchableChannel: the message at index i opens a debounce window. *)
opensDebounce(i) == Debounce /\ i # 0 /\ isBatchable(messages[i])

NextPeek ==
    LET i == dequeueIndex(messages)
    IN  /\ AgentAt("peek")
        /\ IF opensDebounce(i)
           THEN pc' = "debounce" /\ batchChan' = ChanOf[messages[i]]
           ELSE pc' = "try" /\ UNCHANGED batchChan
        /\ UNCHANGED <<waitOn, idleCh, cur, loaded, queueVars, ioVars, input, histVars,
                       bounds, activityVars>>

(* Seeded fault: nothing is persisted after a removal. *)
persistRemovalSkipped == UNCHANGED io

(* The removal of a message is followed by a persist. *)
persistRemoval == io' = [io EXCEPT ![Agent] = "lock"]

(* What in-place removal at i does to a slice s of the same array. *)
shifted(s, q, i) ==
    [k \in DOMAIN s |-> IF k >= i /\ k < Len(q) THEN q[k + 1] ELSE s[k]]

(***************************************************************************)
(* tryDequeue.  After the removal, a snapshot of another goroutine that    *)
(* still aliases the array may read either version, as an append in        *)
(* between may or may not have moved q.messages to a larger array.         *)
(***************************************************************************)
tryDequeue ==
    LET i == dequeueIndex(messages)
        torn(t) == [snap[t] EXCEPT !.reads = @ \cup {shifted(s, messages, i) : s \in @}]
    IN  /\ AgentAt("try")
        /\ IF i = 0
           THEN /\ pc' = "idle"
                /\ UNCHANGED <<messages, cur, io, snap>>
           ELSE /\ messages' = RemoveAt(messages, i)
                /\ cur' = <<messages[i]>>
                /\ pc' = "return"
                /\ persistRemoval
                /\ snap' = [t \in Threads |-> IF snap[t].alias THEN torn(t) ELSE snap[t]]
        /\ UNCHANGED <<interrupted, notify, file, batchChan, waitOn, idleCh, loaded, input,
                       histVars, bounds, activityVars>>

(***************************************************************************)
(* idleNotifyForQueued.  With nothing held back by a busy channel it       *)
(* returns a channel that is already closed.                               *)
(***************************************************************************)
idleNotifyForQueued ==
    /\ AgentAt("idle")
    /\ waitOn' = busyChannels(messages)
    /\ idleCh' = (busyChannels(messages) = {})
    /\ NotifyIdle(busyChannels(messages))
    /\ pc' = "select"
    /\ UNCHANGED <<batchChan, cur, loaded, queueVars, ioVars, input, histVars, bounds>>

(* Leaving the select abandons its idle channel. *)
leaveSelect == waitOn' = {} /\ idleCh' = FALSE

SelectIdle ==
    /\ AgentAt("select") /\ idleCh
    /\ pc' = "peek" /\ leaveSelect
    /\ UNCHANGED <<batchChan, cur, loaded, queueVars, ioVars, input, histVars, bounds,
                   activityVars>>

SelectNotify ==
    /\ AgentAt("select") \/ AgentAt("debounce")
    /\ notify /\ notify' = FALSE
    /\ pc' = IF pc = "select" THEN "peek" ELSE pc
    /\ leaveSelect
    /\ UNCHANGED <<messages, interrupted, batchChan, cur, loaded, ioVars, input, histVars,
                   bounds, activityVars>>

(* Both selects, and the one that runs during a turn, read the input. *)
SelectInput ==
    /\ AgentAt("select") \/ AgentAt("debounce")
    /\ input # <<>> /\ input' = Tail(input)
    /\ Push(Agent, Head(input))
    /\ pc' = IF pc = "select" THEN "peek" ELSE pc
    /\ leaveSelect
    /\ UNCHANGED <<batchChan, cur, loaded, histVars, bounds, activityVars>>

(* The positions of the messages that coalesceBatch takes. *)
batched(q, c) == {i \in DOMAIN q : ChanOf[q[i]] = c /\ isBatchable(q[i])}

(* Seeded faults: the batch is built back to front; the rest is dropped. *)
batchReversed(q, c) == Reverse(elementsAt(q, batched(q, c)))
keptNothing(q, c) == <<>>

(* What coalesceBatch takes from the queue and what it leaves there. *)
batchOf(q, c) == elementsAt(q, batched(q, c))
keptAfter(q, c) == elementsAt(q, DOMAIN q \ batched(q, c))

(* The debounce timer, or maxBatchWindow, runs out. *)
coalesceBatch ==
    /\ AgentAt("debounce")
    /\ batchOf(messages, batchChan) # <<>>
    /\ cur' = batchOf(messages, batchChan)
    /\ messages' = keptAfter(messages, batchChan)
    /\ persistRemoval
    \* the kept messages are copied to a new array
    /\ snap' = [t \in Threads |-> [snap[t] EXCEPT !.alias = FALSE]]
    /\ pc' = "return"
    /\ UNCHANGED <<interrupted, notify, file, batchChan, waitOn, idleCh, loaded, input,
                   histVars, bounds, activityVars>>

(***************************************************************************)
(* The agent has the message.  A person's may be a command, a stale press  *)
(* or the answer to a sign-in or approval, which takes no turn.            *)
(***************************************************************************)
NextReturns ==
    /\ AgentAt("return")
    /\ handled' = handled \o cur
    /\ \/ pc' = "peek" /\ isUserMessage(cur[1])
       \/ pc' = "start" /\ KindOf[cur[1]] # "stop"
    /\ UNCHANGED <<fresh, order, acked, batchChan, waitOn, idleCh, cur, loaded, queueVars,
                   ioVars, input, bounds, activityVars>>

-----------------------------------------------------------------------------
(* The agent's turn, as far as the queue and the tracker see it. *)

(* The channel a turn is charged to. *)
turnChannel == ChanOf[cur[1]]

(* What SetInterrupted is called with. *)
turnMarker == turnChannel

(* OnTurnStart, then SetInterrupted. *)
TurnStarts ==
    LET c == turnChannel
    IN  /\ AgentAt("start")
        /\ IF c \in Live THEN ReceivedAndStarted(c) ELSE UNCHANGED activityVars
        /\ interrupted' = turnMarker
        /\ beginPersist(Agent, NoMessage)
        /\ pc' = "turn"
        /\ UNCHANGED <<messages, notify, batchChan, waitOn, idleCh, cur, loaded, input,
                       histVars, bounds>>

(***************************************************************************)
(* Mid-turn arrivals are queued; "stop" is consumed and cancels the turn   *)
(* (which then ends like any other), a stale press is consumed.            *)
(***************************************************************************)
TurnReadsInput ==
    /\ AgentAt("turn") /\ input # <<>> /\ input' = Tail(input)
    /\ \/ /\ KindOf[Head(input)] \in {"stop", "press"}
          /\ handled' = Append(handled, Head(input))
          /\ UNCHANGED <<queueVars, ioVars>>
       \/ /\ KindOf[Head(input)] # "stop"
          /\ Push(Agent, Head(input))
          /\ UNCHANGED handled
    /\ UNCHANGED <<pc, fresh, order, acked, batchChan, waitOn, idleCh, cur, loaded, bounds,
                   activityVars>>

TurnFinishes ==
    /\ AgentAt("turn")
    /\ pc' = "clear"
    /\ UNCHANGED <<batchChan, waitOn, idleCh, cur, loaded, queueVars, ioVars, input,
                   histVars, bounds, activityVars>>

ClearInterrupted ==
    /\ AgentAt("clear")
    /\ interrupted' = NoChannel
    /\ beginPersist(Agent, NoMessage)
    /\ pc' = "ended"
    /\ UNCHANGED <<messages, notify, batchChan, waitOn, idleCh, cur, loaded, input, histVars,
                   bounds, activityVars>>

(* OnTurnEnd *)
TurnEnds ==
    LET c == turnChannel
    IN  /\ AgentAt("ended")
        /\ IF c \in Live THEN TurnEnded(c) ELSE UNCHANGED activityVars
        /\ pc' = "peek"
        /\ cur' = <<>>
        /\ UNCHANGED <<batchChan, waitOn, idleCh, loaded, queueVars, ioVars, input, histVars,
                       bounds>>

-----------------------------------------------------------------------------
(* Restarts. *)

(***************************************************************************)
(* The tracker closes the waiters of a channel: the goroutine that         *)
(* forwards them to the current idleCh is part of the step.                *)
(***************************************************************************)
wakesNext ==
    idleCh' = (idleCh \/ \E c \in waitOn : act[c].idleWaiters /\ ~act'[c].idleWaiters)

TimePasses(c) ==
    /\ CooldownElapses(c) \/ IdleTimerExpires(c)
    /\ UNCHANGED <<queueVars, ioVars, nextVars, input, histVars, bounds>>

TrackerCallback(c) ==
    /\ IdleTimerCallback(c)
    /\ wakesNext
    /\ UNCHANGED <<pc, batchChan, waitOn, cur, loaded, queueVars, ioVars, input, histVars,
                   bounds>>

(* Next's context is cancelled while it waits; the router loops. *)
NextCancelled ==
    /\ AgentAt("select") \/ AgentAt("debounce")
    /\ restarts < MaxRestarts
    /\ restarts' = restarts + 1
    /\ pc' = "boot" /\ leaveSelect
    /\ UNCHANGED <<batchChan, cur, loaded, queueVars, ioVars, input, histVars, failures,
                   intercepts, activityVars>>

(* The process dies and is started again. *)
Crash ==
    /\ restarts < MaxRestarts
    /\ restarts' = restarts + 1
    /\ pc' = "boot" /\ leaveSelect
    /\ messages' = <<>> /\ interrupted' = NoChannel /\ notify' = FALSE
    /\ io' = [t \in Threads |-> "none"]
    /\ snap' = [t \in Threads |-> NoSnap]
    /\ input' = <<>> /\ cur' = <<>>
    /\ NewPersistedActivityTracker
    /\ UNCHANGED <<file, batchChan, loaded, histVars, failures, intercepts>>

(* LoadPersisted reads the file, *)
LoadRead ==
    /\ AgentAt("boot")
    /\ loaded' = file
    /\ pc' = "load"
    /\ UNCHANGED <<batchChan, waitOn, idleCh, cur, queueVars, ioVars, input, histVars,
                   bounds, activityVars>>

(* and then replaces the queue in memory, if there was anything to read. *)
LoadSet ==
    /\ AgentAt("load")
    /\ IF loaded.is = "state"
       THEN /\ messages' = loaded.msgs /\ interrupted' = loaded.intr
            /\ snap' = [t \in Threads |-> [snap[t] EXCEPT !.alias = FALSE]]
       ELSE UNCHANGED <<messages, interrupted, snap>>
    /\ loaded' = EmptyFile
    /\ pc' = "resume"
    /\ UNCHANGED <<notify, io, file, batchChan, waitOn, idleCh, cur, input, histVars, bounds,
                   activityVars>>

(* checkAutoResume clears a marker it finds before the agent starts. *)
AutoResume ==
    /\ AgentAt("resume")
    /\ pc' = "peek"
    /\ IF interrupted = NoChannel THEN UNCHANGED <<interrupted, ioVars>>
       ELSE interrupted' = NoChannel /\ beginPersist(Agent, NoMessage)
    /\ UNCHANGED <<messages, notify, batchChan, waitOn, idleCh, cur, loaded, input, histVars,
                   bounds, activityVars>>

-----------------------------------------------------------------------------
Init ==
    /\ ActivityInit
    /\ messages = <<>> /\ interrupted = NoChannel /\ notify = FALSE
    /\ file = EmptyFile
    /\ io = [t \in Threads |-> "none"]
    /\ snap = [t \in Threads |-> NoSnap]
    /\ pc = "boot" /\ batchChan = NoChannel /\ waitOn = {} /\ idleCh = FALSE
    /\ cur = <<>> /\ loaded = EmptyFile /\ input = <<>>
    /\ fresh = Messages /\ order = <<>> /\ handled = <<>> /\ acked = {}
    /\ restarts = 0 /\ failures = 0 /\ intercepts = 0

AgentStep ==
    \/ LoadRead \/ LoadSet \/ AutoResume
    \/ NextPeek \/ tryDequeue \/ idleNotifyForQueued
    \/ SelectIdle \/ SelectNotify \/ coalesceBatch
    \/ NextReturns \/ TurnStarts \/ TurnFinishes \/ ClearInterrupted \/ TurnEnds

ReadInput == SelectInput \/ TurnReadsInput

Next ==
    \/ AgentStep
    \/ ReadInput
    \/ \E t \in Threads : Persist(t)
    \/ \E p \in Pushers, m \in Messages : PushExternal(p, m)
    \/ \E m \in Messages : BridgeForward(m)
    \/ \E c \in Channels : BridgeIntercept(c)
    \/ \E c \in Channels : TimePasses(c) \/ TrackerCallback(c)
    \/ NextCancelled \/ Crash

Spec == Init /\ [][Next]_vars

(***************************************************************************)
(* Fairness.  Goroutines are scheduled, timers run out and a turn ends; a  *)
(* select that finds the input ready again and again picks it eventually   *)
(* (Go chooses at random among the ready cases).  Nothing is assumed of    *)
(* the bridge, the pushers, crashes or restarts.                           *)
(***************************************************************************)
Fairness ==
    /\ WF_vars(AgentStep)
    /\ SF_vars(ReadInput)
    /\ \A t \in Threads : WF_vars(Persist(t))
    /\ \A c \in Channels : WF_vars(TimePasses(c)) /\ WF_vars(TrackerCallback(c))

FairSpec == Spec /\ Fairness

-----------------------------------------------------------------------------
(* Properties. *)

FileStates == [msgs: Seq(Messages), intr: Channels \cup {NoChannel},
               is: {"empty", "corrupt", "state"}]

Labels == {"boot", "load", "resume", "peek", "try", "idle", "select", "debounce",
           "return", "start", "turn", "clear", "ended"}

(* Every variable keeps its type. *)
TypeOK ==
    /\ ActivityTypeOK
    /\ messages \in Seq(Messages) /\ order \in Seq(Messages) /\ handled \in Seq(Messages)
    /\ input \in Seq(Messages) /\ cur \in Seq(Messages)
    /\ interrupted \in Channels \cup {NoChannel}
    /\ batchChan \in Channels \cup {NoChannel}
    /\ notify \in BOOLEAN /\ idleCh \in BOOLEAN
    /\ file \in FileStates /\ loaded \in FileStates
    /\ io \in [Threads -> {"none", "lock", "marshal", "write"}]
    /\ snap \in [Threads -> [reads: SUBSET Seq(Messages), alias: BOOLEAN,
                             intr: Channels \cup {NoChannel},
                             msg: Messages \cup {NoMessage}]]
    /\ pc \in Labels
    /\ waitOn \subseteq Channels /\ fresh \subseteq Messages /\ acked \subseteq Messages
    /\ restarts \in 0..MaxRestarts /\ failures \in 0..MaxFailures
    /\ intercepts \in 0..MaxIntercepts

Occurrences(s, m) == Cardinality({i \in DOMAIN s : s[i] = m})

(***************************************************************************)
(* While the process lives, a message that entered the pipeline is in      *)
(* exactly one place: buffered for the agent, queued, taken by Next, or    *)
(* handed to the agent.  Dequeue, coalescing, mid-turn requeueing and      *)
(* pushes from other goroutines neither lose nor duplicate one.            *)
(***************************************************************************)
ExactlyOnce ==
    \A m \in Messages :
        Occurrences(input, m) + Occurrences(messages, m) + Occurrences(handled, m)
          + (IF pc = "return" THEN Occurrences(cur, m) ELSE 0)
          = IF m \in fresh THEN 0 ELSE 1

(***************************************************************************)
(* What a person writes on one channel reaches the agent in the order it   *)
(* was written, whatever coalescing, mid-turn queueing, crashes and        *)
(* restarts do in between.                                                 *)
(***************************************************************************)
UserOrder ==
    \A i, j \in DOMAIN order, a, b \in DOMAIN handled :
        /\ order[i] = handled[a] /\ order[j] = handled[b]
        /\ KindOf[order[i]] = "user" /\ KindOf[order[j]] = "user"
        /\ ChanOf[order[i]] = ChanOf[order[j]]
        /\ i < j
        => a < b

(***************************************************************************)
(* The message that opened a debounce window is still there when the       *)
(* window closes, so coalesceBatch never finds an empty batch (which would *)
(* end the agent with an error).                                           *)
(***************************************************************************)
DebounceHasBatch ==
    pc = "debounce" =>
        \E i \in DOMAIN messages : ChanOf[messages[i]] = batchChan /\ isBatchable(messages[i])

(***************************************************************************)
(* NotifyIdle arms a timer only when idleTimer is nil, and a timer that    *)
(* ran out is never set back to nil.  That is sound because a channel      *)
(* whose timer ran out is idle, and its waiters are about to be closed.    *)
(***************************************************************************)
FiredTimerMeansIdle ==
    \A c \in Channels :
        act[c].idleTimer = "fired" =>
            /\ ~isBusy(act[c])
            /\ act[c].idleWaiters => act[c].callback

(***************************************************************************)
(* Only the arrival of a message can leave a waiter with neither a running *)
(* turn nor a timer to wake it.                                            *)
(***************************************************************************)
StrandedOnlyByArrival ==
    [][\A c \in Channels :
          Stranded(act'[c]) /\ ~Stranded(act[c]) => act'[c] = Received(act[c])]_vars

(***************************************************************************)
(* Every message that arrives is eventually handed to the agent: a         *)
(* non-user message held back by a busy channel is not forgotten.          *)
(***************************************************************************)
AllHandled ==
    \A m \in Messages : (m \notin fresh) ~> (\E i \in DOMAIN handled : handled[i] = m)

-----------------------------------------------------------------------------
(* Durability. *)

AtRest == (\A t \in Threads : io[t] = "none") /\ pc \notin {"boot", "load"}

(* Whenever no persist is under way, the file holds what memory holds. *)
FileMatchesMemory ==
    AtRest => file.is # "corrupt" /\ file.msgs = messages /\ file.intr = interrupted

(***************************************************************************)
(* Next persists the removal before it returns a message, so no crash or   *)
(* restart makes the agent run a message twice.                            *)
(***************************************************************************)
NoSecondTurn ==
    \A i, j \in DOMAIN handled : handled[i] = handled[j] => i = j

(***************************************************************************)
(* A turn that is under way is marked on disk, with its own channel, so a  *)
(* process that dies in it resumes that channel.                           *)
(***************************************************************************)
TurnIsMarked ==
    pc = "turn" /\ AtRest => file.intr = turnChannel

(***************************************************************************)
(* What the file is for: while no other goroutine pushes, it holds what    *)
(* memory holds whenever nothing is being written, the turn under way is   *)
(* marked in it, and no crash or restart makes the agent run a message     *)
(* twice.                                                                  *)
(***************************************************************************)
FileIsSound == FileMatchesMemory /\ NoSecondTurn /\ TurnIsMarked

(***************************************************************************)
(* While the process lives every message is in one place, and no debounce  *)
(* window closes on nothing.                                               *)
(***************************************************************************)
QueueOK == TypeOK /\ ExactlyOnce /\ DebounceHasBatch

=============================================================================
