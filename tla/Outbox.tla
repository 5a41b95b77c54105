-------------------------------- MODULE Outbox --------------------------------
(***************************************************************************)
(* The persistent outbound queue, internal/channel/outbox/outbox.go, for   *)
(* one channel: queues of different channels share only the sequence       *)
(* counter.  Enqueuers are the goroutines that call Send, Edit and Done;   *)
(* one delivery goroutine takes operations from the head of the queue and  *)
(* runs them against the chat, retrying; the router cancels the context    *)
(* and calls Start again on every agent restart.  Flush and Stop, which    *)
(* only the tests call, are left out.                                      *)
(*                                                                         *)
(* The chat is what the user sees: one entry per message the transport     *)
(* accepted, with the text it shows.  A call that reports an error may     *)
(* still have taken effect at the other end.                               *)
(***************************************************************************)
EXTENDS Integers, FiniteSets, SequencesExt

CONSTANTS
    Ops,            \* the operations that may be enqueued, each at most once
    KindOf,         \* OpSend, OpEdit or OpDone
    TargetOf,       \* the Send whose proxy id an Edit carries
    After,          \* the operations their callers issue before a given one
    Enqueuers,      \* goroutines of the agent, stopped before a restart
    Background,     \* those of the Enqueuers that a restart does not stop
    Worker,         \* the delivery goroutine
    NoOp,
    MaxFaults,      \* bound on failing transport calls, failing writes and crashes together
    MaxRetries,     \* maxRetries of deliver
    MaxRestarts     \* bound on calls of Start after the first

Sends == {op \in Ops : KindOf[op] = "send"}

ASSUME OutboxAssumption ==
    /\ KindOf \in [Ops -> {"send", "edit", "done"}]
    /\ TargetOf \in [{op \in Ops : KindOf[op] = "edit"} -> Sends]
    /\ After \in [Ops -> SUBSET Ops]
    /\ Background \subseteq Enqueuers
    /\ Worker \notin Enqueuers
    /\ NoOp \notin Ops
    /\ MaxFaults \in Nat /\ MaxRetries \in Nat /\ MaxRestarts \in Nat

Threads == Enqueuers \cup {Worker}

VARIABLES
    ops,         \* cq.ops
    proxyMap,    \* cq.proxyMap: a Send to its entry of the chat, 0 if unresolved
    dirty,       \* cq.dirty
    wake,        \* the one-slot cq.wake holds a signal
    ctx,         \* o.ctx is "live" or "cancelled"
    pc,          \* the delivery goroutine
    inflight,    \* the operation it took from the queue
    attempt,     \* attempts of deliver that failed
    io, snap,    \* per goroutine: inside persistChannel, and what it captured
    file,        \* the outbox/<channel> file
    chat,        \* the messages the user sees
    enqueued,    \* history: operations in the order they were enqueued
    acked,       \* operations whose call returned nil to the running agent
    dropped,     \* history: operations given up on
    errors, writeErrors, restarts, crashes

queueVars == <<ops, proxyMap, dirty, wake>>
workerVars == <<pc, inflight, attempt>>
ioVars == <<io, snap, file>>
histVars == <<enqueued, acked, dropped>>
bounds == <<errors, writeErrors, restarts, crashes>>

vars == <<ops, proxyMap, dirty, wake, ctx, pc, inflight, attempt, io, snap, file,
          chat, enqueued, acked, dropped, errors, writeErrors, restarts, crashes>>

Unresolved == [s \in Sends |-> 0]
persistedState == [ops |-> ops, proxyMap |-> proxyMap]
NoState == [ops |-> <<>>, proxyMap |-> Unresolved]
NoSnap == [state |-> NoState, op |-> NoOp]

(* Another fault may happen. *)
faultsLeft == errors + writeErrors + crashes < MaxFaults

-----------------------------------------------------------------------------
(* Send, Edit and Done. *)

(***************************************************************************)
(* The first critical section of enqueue.  Edit names a message by the     *)
(* proxy id that Send returned.  Send and Done go on to persist; Edit      *)
(* returns at once.                                                        *)
(***************************************************************************)
enqueue(e, op) ==
    /\ io[e] = "none"
    /\ op \notin ToSet(enqueued) /\ After[op] \subseteq ToSet(enqueued)
    /\ KindOf[op] = "edit" => TargetOf[op] \in acked
    /\ e \in Background \/ ctx = "live"
    /\ e \in Background => KindOf[op] = "send"
    /\ ops' = Append(ops, op)
    /\ dirty' = TRUE
    /\ enqueued' = Append(enqueued, op)
    /\ IF KindOf[op] = "edit"
       THEN /\ wake' = TRUE
            /\ acked' = acked \cup {op}
            /\ UNCHANGED <<io, snap>>
       ELSE /\ io' = [io EXCEPT ![e] = "lock"]
            /\ snap' = [snap EXCEPT ![e].op = op]
            /\ UNCHANGED <<wake, acked>>
    /\ UNCHANGED <<proxyMap, ctx, workerVars, file, chat, dropped, bounds>>

(* persistChannel copies the queue under the lock, *)
persistSnapshot(t) ==
    /\ io[t] = "lock"
    /\ io' = [io EXCEPT ![t] = "open"]
    /\ snap' = [snap EXCEPT ![t].state = persistedState]
    /\ dirty' = FALSE
    /\ UNCHANGED <<ops, proxyMap, wake, ctx, workerVars, file, chat, histVars, bounds>>

(* and rewrites the file without the lock: WriteFile empties it first, *)
persistTruncate(t) ==
    /\ io[t] = "open"
    /\ io' = [io EXCEPT ![t] = "write"]
    /\ file' = NoState
    /\ UNCHANGED <<queueVars, ctx, workerVars, snap, chat, histVars, bounds>>

(* What a write leaves: unreadable if another writer got in since the truncation. *)
written(s) == IF file = NoState THEN {s} ELSE {s, NoState}

(* then writes; an enqueuer returns and wakes the worker. *)
persistWrite(t) ==
    /\ io[t] = "write"
    /\ file' \in written(snap[t].state)
    /\ io' = [io EXCEPT ![t] = "none"]
    /\ snap' = [snap EXCEPT ![t] = NoSnap]
    /\ acked' = IF t = Worker THEN acked ELSE acked \cup {snap[t].op}
    /\ wake' = (wake \/ t # Worker)
    /\ UNCHANGED <<ops, proxyMap, dirty, ctx, workerVars, chat, enqueued, dropped, bounds>>

(* The store refuses: the caller gets an error, the operation stays queued. *)
persistFails(t) ==
    /\ io[t] \in {"open", "write"}
    /\ faultsLeft /\ writeErrors' = writeErrors + 1
    /\ io' = [io EXCEPT ![t] = "none"]
    /\ snap' = [snap EXCEPT ![t] = NoSnap]
    /\ UNCHANGED <<queueVars, ctx, workerVars, file, chat, histVars, errors, restarts, crashes>>

-----------------------------------------------------------------------------
(* The delivery goroutine. *)

WorkerAt(label) == pc = label /\ io[Worker] = "none"

(* A seeded fault: the shutdown path does not write. *)
shutdownWritesNothing == {file}

(* What persistChannelLocked leaves: it holds the lock, a writer of persistChannel does not. *)
shutdownWrites ==
    IF \E e \in Enqueuers : io[e] = "write" THEN {persistedState, NoState} ELSE {persistedState}

(* Shutdown is noticed at the top of the loop and in its select. *)
WorkerExits ==
    /\ WorkerAt("top") \/ WorkerAt("wait")
    /\ ctx = "cancelled"
    /\ \/ file' \in shutdownWrites /\ UNCHANGED writeErrors
       \/ /\ faultsLeft /\ writeErrors' = writeErrors + 1
          /\ file' \in {file, NoState}
    /\ pc' = "off"
    /\ UNCHANGED <<queueVars, ctx, inflight, attempt, io, snap, chat, histVars, errors,
                   restarts, crashes>>

(* Edit coalescing: a later Edit of the same message supersedes this one. *)
superseded(q, i) ==
    /\ KindOf[q[i]] = "edit"
    /\ \E j \in (i + 1)..Len(q) : KindOf[q[j]] = "edit" /\ TargetOf[q[j]] = TargetOf[q[i]]

(* dequeue skips superseded Edits and takes the first operation that is not. *)
dequeue ==
    /\ WorkerAt("top") /\ ctx = "live"
    /\ \E i \in DOMAIN ops :
          /\ ~superseded(ops, i) /\ \A k \in 1..(i - 1) : superseded(ops, k)
          /\ inflight' = ops[i] /\ ops' = SubSeq(ops, i + 1, Len(ops))
    /\ dirty' = TRUE
    /\ pc' = "deliver"
    /\ UNCHANGED <<proxyMap, wake, ctx, attempt, ioVars, chat, histVars, bounds>>

(* What the operation does to the chat when the transport accepts it. *)
applied(op, c, p) ==
    CASE KindOf[op] = "send" -> Append(c, [msg |-> op, text |-> op])
      [] KindOf[op] = "edit" -> [c EXCEPT ![p[TargetOf[op]]].text = op]
      [] OTHER -> c

(* The transport is called at all: the target of an Edit is resolved. *)
callable(op) == KindOf[op] = "edit" => proxyMap[TargetOf[op]] # 0

(* Back to the top of the loop. *)
deliverReturns == pc' = "top" /\ inflight' = NoOp /\ attempt' = 0

DeliverySucceeds ==
    /\ WorkerAt("deliver") /\ callable(inflight)
    /\ chat' = applied(inflight, chat, proxyMap)
    /\ IF KindOf[inflight] = "send"
       THEN proxyMap' = [proxyMap EXCEPT ![inflight] = Len(chat) + 1] /\ dirty' = TRUE
       ELSE UNCHANGED <<proxyMap, dirty>>
    /\ deliverReturns
    /\ UNCHANGED <<ops, wake, ctx, ioVars, histVars, bounds>>

(* Seeded faults: the operation is forgotten, or goes to the tail. *)
requeuedNot == ops
requeuedLast == Append(ops, inflight)

(* The operation goes back to the head of the queue. *)
requeued == <<inflight>> \o ops

(* Giving up: the operation is discarded. *)
discardInflight ==
    /\ dropped' = dropped \cup {inflight}
    /\ deliverReturns
    /\ UNCHANGED <<ops, dirty>>

(* Cancelled: the operation is kept for the next Start. *)
requeueInflight ==
    /\ ops' = requeued /\ dirty' = TRUE
    /\ deliverReturns
    /\ UNCHANGED dropped

(***************************************************************************)
(* The call fails, possibly after it took effect.  On a cancelled context, *)
(* on which a call may always fail, the operation is requeued; a permanent *)
(* or a skippable error discards it; any other is retried until the        *)
(* attempts run out.                                                       *)
(***************************************************************************)
DeliveryFails ==
    /\ WorkerAt("deliver") /\ callable(inflight)
    /\ ctx = "live" => faultsLeft
    /\ errors' = errors + 1
    /\ chat' \in {chat, applied(inflight, chat, proxyMap)}
    /\ \/ ctx = "cancelled" /\ requeueInflight
       \/ ctx = "live" /\ discardInflight
       \/ /\ ctx = "live" /\ pc' = "backoff"
          /\ attempt' = attempt + 1
          /\ UNCHANGED <<ops, dirty, dropped, inflight>>
    /\ UNCHANGED <<proxyMap, wake, ctx, ioVars, enqueued,
                   acked, writeErrors, restarts, crashes>>

(***************************************************************************)
(* No transport call: the channel left the channel set, or the Edit's Send *)
(* was never delivered.                                                    *)
(***************************************************************************)
DeliverySkipped ==
    /\ WorkerAt("deliver")
    /\ \/ ~callable(inflight) /\ UNCHANGED errors
       \/ attempt = 0 /\ faultsLeft /\ errors' = errors + 1
    /\ discardInflight
    /\ UNCHANGED <<proxyMap, wake, ctx, ioVars, chat,
                   enqueued, acked, writeErrors, restarts, crashes>>

(* The wait before the next attempt, or the last attempt was used up. *)
Backoff ==
    /\ WorkerAt("backoff")
    /\ \/ ctx = "cancelled" /\ requeueInflight
       \/ attempt > MaxRetries /\ discardInflight
       \/ /\ attempt <= MaxRetries /\ pc' = "deliver"
          /\ UNCHANGED <<ops, dirty, attempt, dropped, inflight>>
    /\ UNCHANGED <<proxyMap, wake, ctx, ioVars, chat,
                   enqueued, acked, bounds>>

(* Nothing to take. *)
WorkerWaits ==
    /\ WorkerAt("top") /\ ctx = "live" /\ ops = <<>>
    /\ pc' = "wait"
    /\ UNCHANGED <<queueVars, ctx, inflight, attempt, ioVars, chat, histVars, bounds>>

WorkerWakes ==
    /\ WorkerAt("wait") /\ wake
    /\ wake' = FALSE
    /\ pc' = "top"
    /\ UNCHANGED <<ops, proxyMap, dirty, ctx, inflight, attempt, ioVars,
                   chat, histVars, bounds>>

(* maybePersist on the 500 ms ticker. *)
WorkerTicks ==
    /\ WorkerAt("wait")
    /\ dirty \/ ops # <<>>
    /\ pc' = "top"
    /\ io' = IF dirty THEN [io EXCEPT ![Worker] = "lock"] ELSE io
    /\ UNCHANGED <<queueVars, ctx, inflight, attempt, snap, file, chat, histVars, bounds>>

-----------------------------------------------------------------------------
(* Restarts. *)

(* The router ends an iteration once the agent's goroutines are done. *)
CancelIteration ==
    /\ ctx = "live"
    /\ restarts < MaxRestarts /\ restarts' = restarts + 1
    /\ \A e \in Enqueuers \ Background : io[e] = "none"
    /\ ctx' = "cancelled"
    /\ acked' = {}
    /\ UNCHANGED <<queueVars, workerVars, ioVars, chat, enqueued, dropped, errors, writeErrors, crashes>>

(* loadPersisted takes over the file's queue if it holds any operation. *)
restored(s) == s.ops # <<>>

(* A seeded fault: only restored queues get a delivery goroutine. *)
launchedIfRestored == IF restored(file) THEN "top" ELSE "off"

(* Every known queue gets one. *)
launched == "top"

(* Start waits for the old goroutine, loads and launches a new one. *)
Start ==
    /\ ctx = "cancelled" /\ pc = "off"
    /\ ctx' = "live" /\ pc' = launched
    /\ IF restored(file)
       THEN /\ ops' = file.ops /\ proxyMap' = file.proxyMap
            /\ dirty' = FALSE /\ wake' = FALSE
       ELSE UNCHANGED queueVars
    /\ UNCHANGED <<inflight, attempt, ioVars, chat, histVars, bounds>>

(***************************************************************************)
(* The process dies, perhaps inside persistChannelLocked; the next one     *)
(* starts with what the file holds.                                        *)
(***************************************************************************)
Crash ==
    /\ faultsLeft /\ crashes' = crashes + 1
    /\ file' \in IF pc # "off" /\ ctx = "cancelled" THEN {file, NoState} ELSE {file}
    /\ ops' = file'.ops
    /\ proxyMap' = IF restored(file') THEN file'.proxyMap ELSE Unresolved
    /\ dirty' = FALSE /\ wake' = FALSE
    /\ ctx' = "live" /\ pc' = "top" /\ inflight' = NoOp /\ attempt' = 0
    /\ io' = [t \in Threads |-> "none"]
    /\ snap' = [t \in Threads |-> NoSnap]
    /\ acked' = {}
    /\ UNCHANGED <<chat, enqueued, dropped, errors, writeErrors, restarts>>

-----------------------------------------------------------------------------
Init ==
    /\ ops = <<>> /\ proxyMap = Unresolved /\ dirty = FALSE /\ wake = FALSE
    /\ ctx = "live" /\ pc = "top" /\ inflight = NoOp /\ attempt = 0
    /\ io = [t \in Threads |-> "none"] /\ snap = [t \in Threads |-> NoSnap]
    /\ file = NoState
    /\ chat = <<>> /\ enqueued = <<>> /\ acked = {} /\ dropped = {}
    /\ errors = 0 /\ writeErrors = 0 /\ restarts = 0 /\ crashes = 0

WorkerStep ==
    \/ WorkerExits \/ dequeue \/ DeliverySucceeds \/ DeliveryFails
    \/ DeliverySkipped \/ Backoff \/ WorkerWaits \/ WorkerWakes
    \/ WorkerTicks

Persist(t) ==
    persistSnapshot(t) \/ persistTruncate(t) \/ persistWrite(t) \/ persistFails(t)

Next ==
    \/ \E e \in Enqueuers, op \in Ops : enqueue(e, op)
    \/ \E t \in Threads : Persist(t)
    \/ WorkerStep
    \/ CancelIteration \/ Start
    \/ Crash

Spec == Init /\ [][Next]_vars

(* Goroutines run; a cancelled iteration is followed by another Start. *)
Fairness ==
    /\ WF_vars(WorkerStep) /\ WF_vars(Start)
    /\ \A t \in Threads : WF_vars(Persist(t))

FairSpec == Spec /\ Fairness

-----------------------------------------------------------------------------
(* Properties. *)

persistedType ==
    [ops : Seq(Ops), proxyMap : [Sends -> 0..Len(chat)]]

(* Every variable holds a value of its type, and no operation is tried too often. *)
TypeOK ==
    /\ ops \in Seq(Ops) /\ proxyMap \in [Sends -> 0..Len(chat)]
    /\ dirty \in BOOLEAN /\ wake \in BOOLEAN
    /\ ctx \in {"live", "cancelled"}
    /\ pc \in {"top", "wait", "deliver", "backoff", "off"}
    /\ inflight \in Ops \cup {NoOp}
    /\ attempt \in 0..(MaxRetries + 1)
    /\ io \in [Threads -> {"none", "lock", "open", "write"}]
    /\ snap \in [Threads -> [state : persistedType, op : Ops \cup {NoOp}]]
    /\ file \in persistedType
    /\ chat \in Seq([msg : Sends, text : Ops])
    /\ enqueued \in Seq(Ops) /\ acked \subseteq Ops /\ dropped \subseteq Ops
    /\ errors \in Nat /\ writeErrors \in 0..MaxFaults
    /\ restarts \in 0..MaxRestarts /\ crashes \in 0..MaxFaults

diskTrusted == crashes = 0 /\ writeErrors = 0
copies(s) == {i \in DOMAIN chat : chat[i].msg = s}
pending == ToSet(ops) \cup {inflight}
position(op) == CHOOSE i \in DOMAIN enqueued : enqueued[i] = op

(***************************************************************************)
(* While the process lives and its store works, a Send is never lost, over *)
(* any number of retries and of Starts that reload the queue from disk: it *)
(* is pending, on the user's screen or was given up with a log line.       *)
(***************************************************************************)
SendNotLost ==
    diskTrusted => \A s \in Sends \cap ToSet(enqueued) :
        s \in pending \/ copies(s) # {} \/ s \in dropped

(***************************************************************************)
(* Messages first appear on the user's screen in the order in which they   *)
(* were sent, whatever is retried, requeued, reloaded or redelivered after *)
(* a crash.  One that was given up before a crash may still come back.     *)
(***************************************************************************)
ChatInOrder ==
    \A s, t \in Sends \ dropped :
        /\ copies(s) # {} /\ copies(t) # {}
        /\ position(s) < position(t)
        => Min(copies(s)) < Min(copies(t))

(***************************************************************************)
(* Delivered at least once, and more often only for a reason: each further *)
(* copy of a message is paid for by a failed call, a failed write or a     *)
(* crash.  A Start by itself never repeats a message.                      *)
(***************************************************************************)
CopiesArePaidFor ==
    \A s \in Sends : Cardinality(copies(s)) <= 1 + errors + writeErrors + crashes

(***************************************************************************)
(* Coalescing and requeueing keep the last word: once nothing is pending,  *)
(* a message shows the last Edit enqueued for it, unless that Edit was     *)
(* given up.                                                               *)
(***************************************************************************)
LatestEditShown ==
    diskTrusted /\ ops = <<>> /\ inflight = NoOp =>
        \A s \in Sends :
            LET edits == {op \in ToSet(enqueued) : KindOf[op] = "edit" /\ TargetOf[op] = s}
                last == CHOOSE op \in edits : \A o \in edits : position(o) <= position(op)
            IN  proxyMap[s] # 0 /\ edits # {} /\ last \notin dropped
                => chat[proxyMap[s]].text = last

(***************************************************************************)
(* Nothing stays in the queue for ever: no wake-up is lost, no Start       *)
(* forgets to launch the delivery goroutine, and a failing head does not   *)
(* block the queue.  Assumes that the router calls Start again.            *)
(***************************************************************************)
QueueDrains == <>[](ops = <<>> /\ inflight = NoOp)

(***************************************************************************)
(* The user's screen agrees with the queue: messages in their order, and   *)
(* the last Edit shown.                                                    *)
(***************************************************************************)
OutboxOK == TypeOK /\ ChatInOrder /\ LatestEditShown

=============================================================================
