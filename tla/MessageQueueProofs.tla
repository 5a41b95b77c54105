-------------------------- MODULE MessageQueueProofs --------------------------
(***************************************************************************)
(* Proofs about MessageQueue, for every set of channels and messages, any  *)
(* number of pushing goroutines and any bounds.                            *)
(***************************************************************************)
EXTENDS MessageQueue, SequenceLemmas, TLAPS

(* The action relation on the tracker alone that every step of Next is. *)
TrackerStep ==
    \/ UNCHANGED activityVars
    \/ \E c \in Channels : MessageReceivedFrom(c) \/ ReceivedAndStarted(c) \/ TurnEnded(c)
    \/ \E cs \in SUBSET Channels : NotifyIdle(cs)
    \/ \E c \in Channels : CooldownElapses(c) \/ IdleTimerExpires(c) \/ IdleTimerCallback(c)
    \/ NewPersistedActivityTracker

(***************************************************************************)
(* Every step of the composed system moves the tracker by one of the       *)
(* tracker's own methods.                                                  *)
(***************************************************************************)
LEMMA NextIsTrackerStep ==
    ASSUME [Next]_vars, Live \subseteq Channels
    PROVE  TrackerStep
<1>1. CASE UNCHANGED vars
  BY <1>1 DEF vars, TrackerStep, activityVars
<1>2. CASE AgentStep
  <2>1. CASE UNCHANGED activityVars
    BY <2>1 DEF TrackerStep
  <2>2. CASE idleNotifyForQueued
    <3>1. busyChannels(messages) \in SUBSET Channels
      BY DEF busyChannels
    <3>2. NotifyIdle(busyChannels(messages))
      BY <2>2 DEF idleNotifyForQueued
    <3> QED BY <3>1, <3>2 DEF TrackerStep
  <2>3. CASE TurnStarts
    BY <2>3 DEF TurnStarts, TrackerStep, activityVars
  <2>4. CASE TurnEnds
    BY <2>4 DEF TurnEnds, TrackerStep, activityVars
  <2> QED
    BY <1>2, <2>1, <2>2, <2>3, <2>4
       DEF AgentStep, LoadRead, LoadSet, AutoResume, NextPeek, tryDequeue, SelectIdle,
           SelectNotify, coalesceBatch, NextReturns, TurnFinishes, ClearInterrupted,
           activityVars
<1>3. CASE ReadInput
  BY <1>3 DEF ReadInput, SelectInput, TurnReadsInput, activityVars, TrackerStep
<1>4. CASE \E t \in Threads : Persist(t)
  BY <1>4 DEF Persist, persistSnapshot, persistTruncate, persistWrite, persistFails,
              activityVars, TrackerStep
<1>5. CASE \E p \in Pushers, m \in Messages : PushExternal(p, m)
  BY <1>5 DEF PushExternal, activityVars, TrackerStep
<1>6. CASE \E m \in Messages : BridgeForward(m)
  BY <1>6 DEF BridgeForward, trackArrival, activityVars, TrackerStep
<1>7. CASE \E c \in Channels : BridgeIntercept(c)
  BY <1>7 DEF BridgeIntercept, trackArrival, activityVars, TrackerStep
<1>8. CASE \E c \in Channels : TimePasses(c) \/ TrackerCallback(c)
  BY <1>8 DEF TimePasses, TrackerCallback, TrackerStep
<1>9. CASE NextCancelled \/ Crash
  BY <1>9 DEF NextCancelled, Crash, activityVars, TrackerStep
<1> QED BY <1>1, <1>2, <1>3, <1>4, <1>5, <1>6, <1>7, <1>8, <1>9 DEF Next

-----------------------------------------------------------------------------
(* The methods, and time, keep the type of an entry. *)
LEMMA EntryType ==
    ASSUME NEW e \in ChannelActivity
    PROVE  /\ Received(e) \in ChannelActivity
           /\ Started(e) \in ChannelActivity
           /\ Ended(e) \in ChannelActivity
           /\ Awaited(e) \in ChannelActivity
           /\ TimerCallback(e) \in ChannelActivity
           /\ Cooled(e) \in ChannelActivity
           /\ Fired(e) \in ChannelActivity
           /\ NoEntry \in ChannelActivity
  BY DEF ChannelActivity, Received, Started, Ended, Awaited, TimerCallback, isBusy,
         scheduleIdleCheck, cancelIdleTimer, signalWaiters, Cooled, Fired, NoEntry

(***************************************************************************)
(* The strengthening that makes FiredTimerMeansIdle inductive: a timer is  *)
(* only pending between turns, so that it cannot run out during one.       *)
(***************************************************************************)
EntryInv(e) ==
    /\ e.idleTimer = "fired" => ~isBusy(e) /\ (e.idleWaiters => e.callback)
    /\ e.idleTimer = "pending" => ~e.processing

ActivityInv == ActivityTypeOK /\ \A c \in Channels : EntryInv(act[c])

(***************************************************************************)
(* The methods that move lastMessageAt or start a turn cancel the timer,   *)
(* and those that do not leave a timer that ran out as they found it.      *)
(***************************************************************************)
LEMMA EntryKeepsInv ==
    ASSUME NEW e \in ChannelActivity, EntryInv(e)
    PROVE  /\ EntryInv(Received(e))
           /\ EntryInv(Started(Received(e)))
           /\ EntryInv(Ended(e))
           /\ EntryInv(Awaited(e))
           /\ EntryInv(TimerCallback(e))
           /\ EntryInv(Cooled(e))
           /\ e.idleTimer = "pending" /\ ~e.recent => EntryInv(Fired(e))
  BY DEF ChannelActivity, Received, Started, Ended, Awaited, TimerCallback, isBusy,
         scheduleIdleCheck, cancelIdleTimer, signalWaiters, Cooled, Fired, EntryInv

(* Of the methods, only an arrival leaves a waiter with nothing to wake it. *)
LEMMA EntryStranded ==
    ASSUME NEW e \in ChannelActivity, ~Stranded(e), EntryInv(e)
    PROVE  /\ ~Stranded(Started(Received(e)))
           /\ ~Stranded(Ended(e))
           /\ ~Stranded(Awaited(e))
           /\ ~Stranded(TimerCallback(e))
           /\ ~Stranded(Cooled(e))
           /\ ~Stranded(Fired(e))
  BY DEF ChannelActivity, Received, Started, Ended, Awaited, TimerCallback, isBusy, Cooled,
         Fired, scheduleIdleCheck, cancelIdleTimer, signalWaiters, Stranded, EntryInv

(***************************************************************************)
(* Seen from one channel, a step leaves its entry alone, applies one       *)
(* method to it, lets time pass for it, or is a restart.                   *)
(***************************************************************************)
EntryStep(e, f) ==
    \/ f \in {e, Received(e), Started(Received(e)), Ended(e), Awaited(e),
              TimerCallback(e), Cooled(e)}
    \/ e.idleTimer = "pending" /\ ~e.recent /\ f = Fired(e)
    \/ f = NoEntry
    \/ \E r \in BOOLEAN : f = [NoEntry EXCEPT !.known = TRUE, !.recent = r]

LEMMA StepOfOneEntry ==
    ASSUME ActivityTypeOK, TrackerStep, NEW c \in Channels
    PROVE  EntryStep(act[c], act'[c])
<1>1. CASE UNCHANGED activityVars
  BY <1>1 DEF ActivityTypeOK, EntryStep, activityVars
<1>2. CASE \E d \in Channels : MessageReceivedFrom(d) \/ ReceivedAndStarted(d) \/ TurnEnded(d)
  BY <1>2 DEF ActivityTypeOK, MessageReceivedFrom, ReceivedAndStarted, TurnEnded, EntryStep
<1>3. CASE \E cs \in SUBSET Channels : NotifyIdle(cs)
  BY <1>3 DEF ActivityTypeOK, NotifyIdle, EntryStep
<1>4. CASE \E d \in Channels : CooldownElapses(d)
  BY <1>4 DEF ActivityTypeOK, CooldownElapses, EntryStep
<1>5. CASE \E d \in Channels : IdleTimerExpires(d)
  BY <1>5 DEF ActivityTypeOK, IdleTimerExpires, EntryStep
<1>6. CASE \E d \in Channels : IdleTimerCallback(d)
  BY <1>6 DEF ActivityTypeOK, IdleTimerCallback, EntryStep
<1>7. CASE NewPersistedActivityTracker
  BY <1>7 DEF ActivityTypeOK, NewPersistedActivityTracker, EntryStep
<1> QED BY <1>1, <1>2, <1>3, <1>4, <1>5, <1>6, <1>7 DEF TrackerStep

(* The tracker stays a function of the channels. *)
LEMMA TrackerDomain ==
    ASSUME ActivityTypeOK, TrackerStep
    PROVE  act' = [d \in Channels |-> act'[d]]
  BY DEF ActivityTypeOK, TrackerStep, activityVars, MessageReceivedFrom, ReceivedAndStarted,
         TurnEnded, NotifyIdle, CooldownElapses, IdleTimerExpires, IdleTimerCallback,
         NewPersistedActivityTracker

(* A step keeps the type and the invariant of the entry it moves. *)
LEMMA EntryStepKeepsInv ==
    ASSUME NEW e \in ChannelActivity, EntryInv(e), NEW f, EntryStep(e, f)
    PROVE  f \in ChannelActivity /\ EntryInv(f)
<1>1. CASE f \in {e, Received(e), Started(Received(e)), Ended(e), Awaited(e),
                 TimerCallback(e), Cooled(e)}
  BY <1>1, EntryType, EntryKeepsInv
<1>2. CASE e.idleTimer = "pending" /\ ~e.recent /\ f = Fired(e)
  BY <1>2, EntryType, EntryKeepsInv
<1>3. CASE f = NoEntry
  BY <1>3 DEF NoEntry, ChannelActivity, EntryInv
<1>4. CASE \E r \in BOOLEAN : f = [NoEntry EXCEPT !.known = TRUE, !.recent = r]
  BY <1>4 DEF NoEntry, ChannelActivity, EntryInv
<1> QED BY <1>1, <1>2, <1>3, <1>4 DEF EntryStep

(* The disk copy of a timestamp keeps its type. *)
LEMMA SavedType ==
    ASSUME ActivityTypeOK, TrackerStep
    PROVE  saved' \in [Channels -> SavedActivity]
  BY DEF ActivityTypeOK, TrackerStep, activityVars, SavedActivity, MessageReceivedFrom, ReceivedAndStarted,
         TurnEnded, NotifyIdle, CooldownElapses, IdleTimerExpires, IdleTimerCallback,
         NewPersistedActivityTracker, persistActivity

-----------------------------------------------------------------------------
(* The tracker's invariant holds in every state of the composed system. *)
LEMMA ActivityInvariant == Spec => []ActivityInv
<1>1. Init => ActivityInv
  BY DEF Init, ActivityInit, ActivityInv, ActivityTypeOK, EntryInv, NoEntry, ChannelActivity,
         SavedActivity
<1>2. ActivityInv /\ [Next]_vars => ActivityInv'
  <2> SUFFICES ASSUME ActivityInv, [Next]_vars
               PROVE  ActivityInv'
    OBVIOUS
  <2>1. TrackerStep
    BY NextIsTrackerStep, QueueAssumption
  <2>2. ActivityTypeOK
    BY DEF ActivityInv
  <2>3. \A c \in Channels : act'[c] \in ChannelActivity /\ EntryInv(act'[c])
    <3> TAKE c \in Channels
    <3>1. act[c] \in ChannelActivity /\ EntryInv(act[c])
      BY DEF ActivityInv, ActivityTypeOK
    <3>2. EntryStep(act[c], act'[c])
      BY <2>1, <2>2, StepOfOneEntry
    <3> QED BY <3>1, <3>2, EntryStepKeepsInv
  <2>4. act' = [d \in Channels |-> act'[d]] /\ saved' \in [Channels -> SavedActivity]
    BY <2>1, <2>2, TrackerDomain, SavedType
  <2>5. act' \in [Channels -> ChannelActivity]
    BY <2>3, <2>4
  <2> QED BY <2>3, <2>4, <2>5 DEF ActivityInv, ActivityTypeOK
<1> QED BY <1>1, <1>2, PTL DEF Spec

(***************************************************************************)
(* A timer of the tracker that ran out and was left in place never hides a *)
(* busy channel from NotifyIdle, in any run of the queue, the agent, the   *)
(* bridge and the pushers.                                                 *)
(***************************************************************************)
THEOREM FiredTimerTheorem == Spec => []FiredTimerMeansIdle
<1>1. ActivityInv => FiredTimerMeansIdle
  BY DEF ActivityInv, EntryInv, FiredTimerMeansIdle
<1> QED BY <1>1, ActivityInvariant, PTL

(***************************************************************************)
(* Of all the steps of the system only the arrival of a message takes the  *)
(* last wake-up away from a waiter of NotifyIdle.                          *)
(***************************************************************************)
THEOREM StrandedTheorem == Spec => StrandedOnlyByArrival
<1>1. ActivityInv /\ [Next]_vars =>
        [\A c \in Channels :
            Stranded(act'[c]) /\ ~Stranded(act[c]) => act'[c] = Received(act[c])]_vars
  <2> SUFFICES ASSUME ActivityInv, [Next]_vars, NEW c \in Channels,
                      Stranded(act'[c]), ~Stranded(act[c])
               PROVE  act'[c] = Received(act[c])
    OBVIOUS
  <2>1. act[c] \in ChannelActivity /\ EntryInv(act[c])
    BY DEF ActivityInv, ActivityTypeOK
  <2>2. EntryStep(act[c], act'[c])
    BY StepOfOneEntry, NextIsTrackerStep, QueueAssumption DEF ActivityInv
  <2>3. \A r \in BOOLEAN : /\ ~Stranded(NoEntry)
                          /\ ~Stranded([NoEntry EXCEPT !.known = TRUE, !.recent = r])
    BY DEF Stranded, NoEntry
  <2> QED BY <2>1, <2>2, <2>3, EntryStranded DEF EntryStep
<1> QED BY <1>1, ActivityInvariant, PTL DEF Spec, StrandedOnlyByArrival

-----------------------------------------------------------------------------
(* The queue, the file and the order of what a person writes, while the    *)
(* agent is the only goroutine that persists and its writes succeed.       *)

Solo == Pushers = {} /\ MaxFailures = 0

(* What the agent's persist has done so far, and what a restart reads. *)
Disk ==
    /\ file.is \in {"empty", "state"} /\ (file.is = "empty" => file = EmptyFile)
    /\ io[Agent] = "write" => file = EmptyFile
    /\ io[Agent] \in {"marshal", "write"} =>
         snap[Agent].reads = {messages} /\ snap[Agent].intr = interrupted
    /\ io[Agent] = "none" /\ pc \notin {"boot", "load"} =>
         file.msgs = messages /\ file.intr = interrupted
    /\ pc \in {"boot", "load"} =>
         io[Agent] = "none" /\ (file.is = "empty" => messages = <<>> /\ interrupted = NoChannel)
    /\ pc = "load" => loaded = file
    /\ pc = "turn" => interrupted = turnChannel

(* x and y are two messages, and in one conversation x was written first. *)
clear(h, x, y) ==
    /\ x # y
    /\ KindOf[x] = "user" /\ KindOf[y] = "user" /\ ChanOf[x] = ChanOf[y] => follows(h, x, y)

chain(h, q) == \A i, j \in DOMAIN q : i < j => clear(h, q[i], q[j])
ahead(h, A, B) == \A x \in A, y \in B : clear(h, x, y)

(* What is still to be handed to the agent, on disk or in memory. *)
waiting == ToSet(messages) \cup ToSet(file.msgs) \cup (IF pc = "return" THEN ToSet(cur) ELSE {})

(* Messages move in line: the agent's are ahead of those that wait, and    *)
(* these ahead of the one the bridge has just forwarded. *)
Line ==
    /\ \A i, j \in DOMAIN order : order[i] = order[j] => i = j
    /\ fresh \cap ToSet(order) = {}
    /\ ToSet(handled) \cup waiting \cup ToSet(input) \subseteq ToSet(order)
    /\ Len(input) <= 1
    /\ chain(order, handled) /\ chain(order, messages) /\ chain(order, file.msgs)
    /\ ahead(order, ToSet(handled), waiting \cup ToSet(input))
    /\ ahead(order, waiting, ToSet(input))
    /\ pc = "return" => chain(order, cur) /\ ahead(order, ToSet(cur), ToSet(messages))

-----------------------------------------------------------------------------
(* Type correctness. *)

AfterReturn == {"return", "start", "turn", "clear", "ended"}

Typed == TypeOK /\ (pc \in AfterReturn => cur # <<>>)

SnapType == [reads : SUBSET Seq(Messages), alias : BOOLEAN, intr : Channels \cup {NoChannel},
             msg : Messages \cup {NoMessage}]
IoType == [Threads -> {"none", "lock", "marshal", "write"}]

LEMMA ActivityTyped ==
    ASSUME ActivityTypeOK, TrackerStep
    PROVE  ActivityTypeOK'
<1>1. \A c \in Channels : act'[c] \in ChannelActivity
  <2> TAKE c \in Channels
  <2>1. EntryStep(act[c], act'[c]) /\ act[c] \in ChannelActivity
    BY StepOfOneEntry DEF ActivityTypeOK
  <2>2. Started(Received(act[c])) \in ChannelActivity
    BY <2>1, EntryType
  <2>3. \A r \in BOOLEAN : [NoEntry EXCEPT !.known = TRUE, !.recent = r] \in ChannelActivity
    BY DEF NoEntry, ChannelActivity
  <2> QED BY <2>1, <2>2, <2>3, EntryType DEF EntryStep
<1>2. act' = [d \in Channels |-> act'[d]] /\ saved' \in [Channels -> SavedActivity]
  BY TrackerDomain, SavedType
<1>3. act' \in [Channels -> ChannelActivity]
  BY <1>1, <1>2
<1> QED BY <1>2, <1>3 DEF ActivityTypeOK

(* The position that the dequeue rules choose, if any. *)
LEMMA DequeueIndex ==
    ASSUME NEW q \in Seq(Messages)
    PROVE  LET i == dequeueIndex(q)
           IN  /\ i # 0 => i \in DOMAIN q
               /\ i # 0 => \/ \A k \in DOMAIN q : ~isUserMessage(q[k])
                           \/ isUserMessage(q[i])
                              /\ \A k \in DOMAIN q : k < i => ~isUserMessage(q[k])
<1> DEFINE U == {i \in 1..Len(q) : isUserMessage(q[i])}
           R == {i \in 1..Len(q) : KindOf[q[i]] = "resume"}
           H == {i \in 1..Len(q) : notHeldBack(q[i])}
           least(S) == IF S # {} THEN Min(S) ELSE 0
<1>1. dequeueIndex(q) = IF least(U) # 0 THEN least(U) ELSE IF least(R) # 0 THEN least(R) ELSE least(H)
  BY DEF dequeueIndex, SelectInSeq
<1>2. Len(q) \in Nat /\ DOMAIN q = 1..Len(q) /\ U \subseteq 1..Len(q) /\ R \subseteq 1..Len(q) /\ H \subseteq 1..Len(q)
  OBVIOUS
<1> DEFINE i == dequeueIndex(q)
<1>3. \A S \in SUBSET (1..Len(q)) :
        /\ S = {} => least(S) = 0
        /\ S # {} => least(S) \in S /\ least(S) # 0 /\ \A k \in S : least(S) <= k
  <2> SUFFICES ASSUME NEW S \in SUBSET (1..Len(q)), S # {}
               PROVE  least(S) \in S /\ least(S) # 0 /\ \A k \in S : least(S) <= k
    OBVIOUS
  <2>1. S \subseteq Nat /\ 0 \notin S
    BY <1>2
  <2>2. Min(S) \in S /\ \A k \in S : Min(S) <= k
    BY <2>1, MinIs
  <2> QED BY <2>1, <2>2
<1> HIDE DEF least
<1>4. CASE U # {}
  <2>1. i = least(U) /\ i \in U /\ \A k \in U : i <= k
    BY <1>1, <1>2, <1>3, <1>4
  <2>2. \A k \in DOMAIN q : k < i => k \notin U
    BY <1>2, <2>1
  <2> QED BY <1>2, <2>1, <2>2
<1>5. CASE U = {}
  <2>1. \A k \in DOMAIN q : ~isUserMessage(q[k])
    BY <1>2, <1>5
  <2>2. i # 0 => i \in R \cup H
    BY <1>1, <1>2, <1>3, <1>5
  <2>3. i # 0 => i \in DOMAIN q
    BY <1>2, <2>2
  <2> HIDE DEF i
  <2> QED BY <2>1, <2>3 DEF i
<1> QED BY <1>4, <1>5

(* A persist begins, for a Push or for a removal or the marker. *)
LEMMA BeginTyped ==
    ASSUME io \in IoType, snap \in [Threads -> SnapType], NEW t \in Threads,
           NEW m \in Messages \cup {NoMessage}, beginPersist(t, m)
    PROVE  io' \in IoType /\ snap' \in [Threads -> SnapType] /\ file' = file
<1>1. begun(m) \in SnapType
  <2>1. {} \in SUBSET Seq(Messages)
    OBVIOUS
  <2> QED BY <2>1 DEF SnapType, begun
<1> QED BY <1>1 DEF beginPersist, IoType

(* A record of what a persist captured, with one or two fields replaced. *)
LEMMA SnapIs ==
    ASSUME NEW s \in SnapType, NEW R \in SUBSET Seq(Messages), NEW a \in BOOLEAN,
           NEW c \in Channels \cup {NoChannel}
    PROVE  /\ [s EXCEPT !.reads = R] \in SnapType
           /\ [s EXCEPT !.alias = a] \in SnapType
           /\ [s EXCEPT !.reads = R, !.alias = a] \in SnapType
           /\ [s EXCEPT !.reads = R, !.alias = a, !.intr = c] \in SnapType
           /\ [s EXCEPT !.reads = R, !.alias = a].reads = R
           /\ [s EXCEPT !.reads = R, !.alias = a].intr = s.intr
           /\ [s EXCEPT !.reads = R, !.alias = a, !.intr = c].reads = R
           /\ [s EXCEPT !.reads = R, !.alias = a, !.intr = c].intr = c
           /\ NoSnap \in SnapType
  BY DEF SnapType, NoSnap, begun

LEMMA FileStatesIs ==
    ASSUME NEW q \in Seq(Messages), NEW c \in Channels \cup {NoChannel}
    PROVE  EmptyFile \in FileStates /\ CorruptFile \in FileStates /\ persistedState(q, c) \in FileStates
  BY DEF FileStates, EmptyFile, CorruptFile, persistedState

-----------------------------------------------------------------------------
(* The types of the queue's own variables, apart from the tracker's. *)
QueueTyped ==
    /\ messages \in Seq(Messages) /\ order \in Seq(Messages) /\ handled \in Seq(Messages)
    /\ input \in Seq(Messages) /\ cur \in Seq(Messages)
    /\ interrupted \in Channels \cup {NoChannel}
    /\ batchChan \in Channels \cup {NoChannel}
    /\ notify \in BOOLEAN /\ idleCh \in BOOLEAN
    /\ file \in FileStates /\ loaded \in FileStates
    /\ io \in IoType /\ snap \in [Threads -> SnapType]
    /\ pc \in Labels
    /\ waitOn \subseteq Channels /\ fresh \subseteq Messages /\ acked \subseteq Messages
    /\ restarts \in 0..MaxRestarts /\ failures \in 0..MaxFailures
    /\ intercepts \in 0..MaxIntercepts
    /\ pc \in AfterReturn => cur # <<>>

LEMMA TypedIs == Typed <=> ActivityTypeOK /\ QueueTyped
  BY DEF Typed, TypeOK, QueueTyped, IoType, SnapType

(* The four stages of persist. *)
LEMMA PersistTyped ==
    ASSUME QueueTyped, NEW t \in Threads, Persist(t)
    PROVE  QueueTyped'
<1>0. snap[t] \in SnapType /\ io \in IoType /\ snap \in [Threads -> SnapType] /\ NoSnap \in SnapType
  BY SnapIs DEF QueueTyped
<1>1. CASE persistSnapshot(t)
  <2> DEFINE r == [snap[t] EXCEPT !.reads = {messages}, !.alias = TRUE, !.intr = interrupted]
  <2>1. r \in SnapType
    <3>1. {messages} \in SUBSET Seq(Messages) /\ interrupted \in Channels \cup {NoChannel}
      BY DEF QueueTyped
    <3> QED BY <1>0, <3>1 DEF SnapType
  <2>2. snap' = [snap EXCEPT ![t] = r]
    BY <1>0, <1>1 DEF persistSnapshot, SnapType
  <2> HIDE DEF r
  <2>3. snap' \in [Threads -> SnapType] /\ io' \in IoType
    BY <1>0, <1>1, <2>1, <2>2 DEF persistSnapshot, IoType
  <2> QED BY <1>1, <2>3 DEF persistSnapshot, QueueTyped, queueVars, nextVars, histVars, bounds
<1>2. CASE persistTruncate(t)
  <2>1. PICK s \in snap[t].reads : snap' = [snap EXCEPT ![t].reads = {s}, ![t].alias = FALSE]
    BY <1>2 DEF persistTruncate
  <2> DEFINE r == [snap[t] EXCEPT !.reads = {s}, !.alias = FALSE]
  <2>2. r \in SnapType
    <3>1. {s} \in SUBSET Seq(Messages)
      BY <1>0 DEF SnapType
    <3> QED BY <1>0, <3>1 DEF SnapType
  <2>3. snap' = [snap EXCEPT ![t] = r]
    BY <1>0, <2>1 DEF SnapType
  <2> HIDE DEF r
  <2>4. snap' \in [Threads -> SnapType] /\ io' \in IoType
    BY <1>0, <1>2, <2>2, <2>3 DEF persistTruncate, IoType
  <2>5. EmptyFile \in FileStates
    BY DEF EmptyFile, FileStates
  <2> QED BY <1>2, <2>4, <2>5 DEF persistTruncate, QueueTyped, queueVars, nextVars, histVars, bounds
<1>3. CASE persistWrite(t)
  <2>1. snap' \in [Threads -> SnapType] /\ io' \in IoType
    BY <1>0, <1>3 DEF persistWrite, IoType
  <2>2. file' \in FileStates
    <3>1. PICK s \in snap[t].reads :
            file' \in {persistedState(s, snap[t].intr), CorruptFile}
      BY <1>3 DEF persistWrite
    <3>2. s \in Seq(Messages) /\ snap[t].intr \in Channels \cup {NoChannel}
      BY <1>0 DEF SnapType
    <3> QED BY <3>1, <3>2, FileStatesIs
  <2>3. acked' \subseteq Messages /\ notify' \in BOOLEAN
    BY <1>0, <1>3 DEF persistWrite, SnapType, QueueTyped
  <2> QED BY <1>3, <2>1, <2>2, <2>3 DEF persistWrite, QueueTyped, queueVars, nextVars, histVars, bounds
<1>4. CASE persistFails(t)
  <2>1. snap' \in [Threads -> SnapType] /\ io' \in IoType
    BY <1>0, <1>4 DEF persistFails, IoType
  <2>2. failures' \in 0..MaxFailures
    BY <1>4, QueueAssumption DEF persistFails, QueueTyped
  <2> QED BY <1>4, <2>1, <2>2 DEF persistFails, QueueTyped, queueVars, nextVars, histVars, bounds
<1> QED BY <1>1, <1>2, <1>3, <1>4 DEF Persist

(* A Push by t. *)
LEMMA PushTyped ==
    ASSUME QueueTyped, NEW t \in Threads, NEW m \in Messages, Push(t, m)
    PROVE  /\ messages' \in Seq(Messages) /\ io' \in IoType /\ snap' \in [Threads -> SnapType]
           /\ file' = file /\ interrupted' = interrupted /\ notify' = notify
<1>1. /\ beginPersist(t, m) /\ messages' = Append(messages, m) /\ messages \in Seq(Messages)
      /\ io \in IoType /\ snap \in [Threads -> SnapType]
  BY DEF Push, QueueTyped
<1>2. io' \in IoType /\ snap' \in [Threads -> SnapType] /\ file' = file
  BY <1>1, BeginTyped
<1> QED BY <1>1, <1>2 DEF Push

(* Arrivals, and the bridge. *)
LEMMA ArrivalTyped ==
    ASSUME QueueTyped,
           \/ \E p \in Pushers, m \in Messages : PushExternal(p, m)
           \/ \E m \in Messages : BridgeForward(m)
           \/ \E c \in Channels : BridgeIntercept(c)
           \/ \E c \in Channels : TimePasses(c) \/ TrackerCallback(c)
    PROVE  QueueTyped'
<1>1. CASE \E p \in Pushers, m \in Messages : PushExternal(p, m)
  <2>1. PICK p \in Pushers, m \in Messages : PushExternal(p, m)
    BY <1>1
  <2>2. p \in Threads
    BY DEF Threads
  <2>3. Push(p, m)
    BY <2>1 DEF PushExternal
  <2>4. /\ messages' \in Seq(Messages) /\ io' \in IoType /\ snap' \in [Threads -> SnapType]
        /\ file' = file /\ interrupted' = interrupted /\ notify' = notify
    BY <2>2, <2>3, PushTyped
  <2>5. order' \in Seq(Messages) /\ fresh' \subseteq Messages
    BY <2>1 DEF PushExternal, QueueTyped
  <2> QED BY <2>1, <2>4, <2>5 DEF PushExternal, QueueTyped, nextVars, bounds
<1>2. CASE \E m \in Messages : BridgeForward(m)
  <2>1. PICK m \in Messages : BridgeForward(m)
    BY <1>2
  <2>2. order' \in Seq(Messages) /\ fresh' \subseteq Messages /\ input' \in Seq(Messages)
    BY <2>1 DEF BridgeForward, QueueTyped
  <2> QED BY <2>1, <2>2 DEF BridgeForward, QueueTyped, queueVars, ioVars, nextVars, bounds
<1>3. CASE \E c \in Channels : BridgeIntercept(c)
  <2>1. intercepts' \in 0..MaxIntercepts
    BY <1>3, QueueAssumption DEF BridgeIntercept, QueueTyped
  <2> QED BY <1>3, <2>1 DEF BridgeIntercept, QueueTyped, queueVars, ioVars, nextVars, histVars
<1>4. CASE \E c \in Channels : TimePasses(c)
  BY <1>4 DEF TimePasses, QueueTyped, queueVars, ioVars, nextVars, histVars, bounds
<1>5. CASE \E c \in Channels : TrackerCallback(c)
  <2>1. idleCh' \in BOOLEAN
    BY <1>5 DEF TrackerCallback, wakesNext, QueueTyped
  <2> QED BY <1>5, <2>1 DEF TrackerCallback, QueueTyped, queueVars, ioVars, histVars, bounds
<1> QED BY <1>1, <1>2, <1>3, <1>4, <1>5

(* What an in-place removal does to the slice of another goroutine. *)
LEMMA ShiftedTyped ==
    ASSUME NEW s \in Seq(Messages), NEW q \in Seq(Messages), NEW i \in DOMAIN q
    PROVE  shifted(s, q, i) \in Seq(Messages)
<1>1. Len(s) \in Nat /\ DOMAIN s = 1..Len(s) /\ Len(q) \in Nat /\ DOMAIN q = 1..Len(q)
  OBVIOUS
<1>2. \A k \in 1..Len(s) : (IF k >= i /\ k < Len(q) THEN q[k + 1] ELSE s[k]) \in Messages
  <2> TAKE k \in 1..Len(s)
  <2>1. s[k] \in Messages
    BY <1>1
  <2>2. ASSUME k >= i, k < Len(q) PROVE q[k + 1] \in Messages
    <3>1. k + 1 \in DOMAIN q
      BY <1>1, <2>2
    <3> QED BY <3>1
  <2> QED BY <2>1, <2>2
<1>3. [k \in 1..Len(s) |-> IF k >= i /\ k < Len(q) THEN q[k + 1] ELSE s[k]] \in Seq(Messages)
  BY <1>1, <1>2
<1> QED BY <1>1, <1>3 DEF shifted

(* What coalesceBatch takes and what it keeps are sequences of messages. *)
LEMMA BatchTyped ==
    ASSUME NEW q \in Seq(Messages), NEW c
    PROVE  batchOf(q, c) \in Seq(Messages) /\ keptAfter(q, c) \in Seq(Messages)
<1>1. batched(q, c) \in SUBSET (DOMAIN q) /\ DOMAIN q \ batched(q, c) \in SUBSET (DOMAIN q)
  BY DEF batched
<1> QED BY <1>1, ElementsAt DEF batchOf, keptAfter

(* The array is a new one. *)
LEMMA UnaliasTyped ==
    ASSUME snap \in [Threads -> SnapType],
           snap' = [t \in Threads |-> [snap[t] EXCEPT !.alias = FALSE]]
    PROVE  snap' \in [Threads -> SnapType]
<1>1. \A t \in Threads : [snap[t] EXCEPT !.alias = FALSE] \in SnapType
  BY DEF SnapType
<1> QED BY <1>1

LEMMA DequeueTyped ==
    ASSUME QueueTyped, tryDequeue
    PROVE  QueueTyped'
<1> DEFINE i == dequeueIndex(messages)
<1>0. messages \in Seq(Messages) /\ snap \in [Threads -> SnapType] /\ io \in IoType
  BY DEF QueueTyped
<1>1. CASE i = 0
  BY <1>1 DEF tryDequeue, QueueTyped, Labels, AfterReturn, queueVars, histVars, bounds
<1>2. CASE i # 0
  <2> DEFINE torn(t) == [snap[t] EXCEPT !.reads = @ \cup {shifted(s, messages, i) : s \in @}]
  <2>1. i \in DOMAIN messages
    BY <1>0, <1>2, DequeueIndex
  <2>2. /\ messages' = RemoveAt(messages, i) /\ cur' = <<messages[i]>> /\ pc' = "return"
        /\ snap' = [t \in Threads |-> IF snap[t].alias THEN torn(t) ELSE snap[t]]
        /\ io' = [io EXCEPT ![Agent] = "lock"]
    BY <1>2 DEF tryDequeue, persistRemoval
  <2> HIDE DEF i
  <2>3. messages' \in Seq(Messages) /\ cur' \in Seq(Messages) /\ cur' # <<>>
    BY <1>0, <2>1, <2>2, Removed
  <2>4. \A t \in Threads : torn(t) \in SnapType
    <3> TAKE t \in Threads
    <3> DEFINE R == snap[t].reads
               N == R \cup {shifted(s, messages, i) : s \in R}
    <3>1. snap[t] \in SnapType
      BY <1>0
    <3>2. R \in SUBSET Seq(Messages)
      BY <3>1 DEF SnapType
    <3>3. \A s \in R : shifted(s, messages, i) \in Seq(Messages)
      BY <1>0, <2>1, <3>2, ShiftedTyped
    <3>4. N \in SUBSET Seq(Messages)
      BY <3>2, <3>3
    <3>5. torn(t) = [snap[t] EXCEPT !.reads = N]
      OBVIOUS
    <3> HIDE DEF N, torn
    <3> QED BY <3>1, <3>4, <3>5 DEF SnapType
  <2> HIDE DEF torn
  <2>5. snap' \in [Threads -> SnapType] /\ io' \in IoType
    BY <1>0, <2>2, <2>4 DEF IoType
  <2> QED BY <2>2, <2>3, <2>5 DEF tryDequeue, QueueTyped, Labels, histVars, bounds
<1> QED BY <1>1, <1>2

LEMMA CoalesceTyped ==
    ASSUME QueueTyped, coalesceBatch
    PROVE  QueueTyped'
<1>1. messages' \in Seq(Messages) /\ cur' \in Seq(Messages) /\ cur' # <<>>
  BY BatchTyped DEF coalesceBatch, QueueTyped
<1>2. snap' \in [Threads -> SnapType]
  BY UnaliasTyped DEF coalesceBatch, QueueTyped
<1>3. io' \in IoType
  BY DEF coalesceBatch, persistRemoval, IoType, QueueTyped
<1> QED BY <1>1, <1>2, <1>3 DEF coalesceBatch, QueueTyped, Labels, histVars, bounds

(* The select and a turn read the input. *)
LEMMA ReadTyped ==
    ASSUME QueueTyped, ReadInput
    PROVE  QueueTyped'
<1>0. input \in Seq(Messages) /\ Agent \in Threads
  BY DEF QueueTyped, Threads
<1>1. ASSUME input # <<>> PROVE Head(input) \in Messages /\ Tail(input) \in Seq(Messages)
  BY <1>0, <1>1
<1>2. CASE SelectInput
  <2>1. Push(Agent, Head(input)) /\ input' = Tail(input) /\ input # <<>>
    BY <1>2 DEF SelectInput
  <2>2. /\ messages' \in Seq(Messages) /\ io' \in IoType /\ snap' \in [Threads -> SnapType]
        /\ file' = file /\ interrupted' = interrupted /\ notify' = notify
    BY <1>0, <1>1, <2>1, PushTyped
  <2>3. pc' \in {"peek", pc} /\ (pc' \notin AfterReturn)
    BY <1>2 DEF SelectInput, AgentAt, AfterReturn
  <2> QED BY <1>1, <1>2, <2>1, <2>2, <2>3 DEF SelectInput, leaveSelect, QueueTyped, Labels, histVars, bounds
<1>3. CASE TurnReadsInput
  <2>1. input' = Tail(input) /\ input # <<>>
    BY <1>3 DEF TurnReadsInput
  <2>2. CASE Push(Agent, Head(input)) /\ UNCHANGED handled
    <3>1. /\ messages' \in Seq(Messages) /\ io' \in IoType /\ snap' \in [Threads -> SnapType]
          /\ file' = file /\ interrupted' = interrupted /\ notify' = notify
      BY <1>0, <1>1, <2>1, <2>2, PushTyped
    <3> QED BY <1>1, <1>3, <2>1, <2>2, <3>1 DEF TurnReadsInput, QueueTyped, bounds
  <2>3. CASE handled' = Append(handled, Head(input)) /\ UNCHANGED <<queueVars, ioVars>>
    <3>1. handled' \in Seq(Messages)
      BY <1>1, <2>1, <2>3 DEF QueueTyped
    <3> QED BY <1>1, <1>3, <2>1, <2>3, <3>1 DEF TurnReadsInput, QueueTyped, queueVars, ioVars, bounds
  <2> QED BY <1>3, <2>2, <2>3 DEF TurnReadsInput
<1> QED BY <1>2, <1>3 DEF ReadInput

(* The steps that leave the queue in memory and on disk alone. *)
LEMMA QuietTyped ==
    ASSUME QueueTyped,
           LoadRead \/ NextPeek \/ idleNotifyForQueued \/ SelectIdle \/ SelectNotify
             \/ NextReturns \/ TurnFinishes \/ TurnEnds \/ NextCancelled
    PROVE  QueueTyped'
<1>1. CASE LoadRead
  BY <1>1 DEF LoadRead, QueueTyped, Labels, AfterReturn, queueVars, ioVars, histVars, bounds
<1>2. CASE NextPeek
  <2>1. batchChan' \in Channels \cup {NoChannel}
    <3>1. CASE opensDebounce(dequeueIndex(messages))
      <4>1. dequeueIndex(messages) \in DOMAIN messages
        BY <3>1, DequeueIndex DEF opensDebounce, QueueTyped
      <4>2. messages[dequeueIndex(messages)] \in Messages
        BY <4>1 DEF QueueTyped
      <4> QED BY <1>2, <3>1, <4>2, QueueAssumption DEF NextPeek
    <3>2. CASE ~opensDebounce(dequeueIndex(messages))
      BY <1>2, <3>2 DEF NextPeek, QueueTyped
    <3> QED BY <3>1, <3>2
  <2>2. pc' \in {"debounce", "try"}
    BY <1>2 DEF NextPeek
  <2> QED BY <1>2, <2>1, <2>2 DEF NextPeek, QueueTyped, Labels, AfterReturn, queueVars, ioVars, histVars, bounds
<1>3. CASE idleNotifyForQueued
  <2>1. waitOn' \subseteq Channels /\ idleCh' \in BOOLEAN
    BY <1>3, QueueAssumption DEF idleNotifyForQueued, busyChannels
  <2> QED BY <1>3, <2>1 DEF idleNotifyForQueued, QueueTyped, Labels, AfterReturn, queueVars, ioVars, histVars, bounds
<1>4. CASE SelectIdle
  BY <1>4 DEF SelectIdle, leaveSelect, QueueTyped, Labels, AfterReturn, queueVars, ioVars, histVars, bounds
<1>5. CASE SelectNotify
  <2>1. pc' \in {"peek", "debounce"}
    BY <1>5 DEF SelectNotify, AgentAt
  <2> QED BY <1>5, <2>1 DEF SelectNotify, leaveSelect, QueueTyped, Labels, AfterReturn, ioVars, histVars, bounds
<1>6. CASE NextReturns
  <2>1. handled' \in Seq(Messages) /\ cur # <<>>
    BY <1>6 DEF NextReturns, QueueTyped, AgentAt, AfterReturn
  <2>2. pc' \in {"peek", "start"}
    BY <1>6 DEF NextReturns
  <2> QED BY <1>6, <2>1, <2>2 DEF NextReturns, QueueTyped, Labels, queueVars, ioVars, bounds
<1>7. CASE TurnFinishes
  BY <1>7 DEF TurnFinishes, AgentAt, QueueTyped, Labels, AfterReturn, queueVars, ioVars, histVars, bounds
<1>8. CASE TurnEnds
  <2>1. cur' \in Seq(Messages)
    BY <1>8 DEF TurnEnds
  <2> QED BY <1>8, <2>1 DEF TurnEnds, QueueTyped, Labels, AfterReturn, queueVars, ioVars, histVars, bounds
<1>9. CASE NextCancelled
  <2>1. restarts' \in 0..MaxRestarts
    BY <1>9, QueueAssumption DEF NextCancelled, QueueTyped
  <2> QED BY <1>9, <2>1 DEF NextCancelled, leaveSelect, QueueTyped, Labels, AfterReturn, queueVars, ioVars, histVars
<1> QED BY <1>1, <1>2, <1>3, <1>4, <1>5, <1>6, <1>7, <1>8, <1>9

(* The steps that set or clear the marker, and a restart. *)
LEMMA MarkerTyped ==
    ASSUME QueueTyped, TurnStarts \/ ClearInterrupted \/ AutoResume \/ LoadSet \/ Crash
    PROVE  QueueTyped'
<1>0. /\ Agent \in Threads /\ io \in IoType /\ snap \in [Threads -> SnapType]
      /\ NoMessage \in Messages \cup {NoMessage}
  BY DEF QueueTyped, Threads
<1>1. ASSUME beginPersist(Agent, NoMessage)
      PROVE  io' \in IoType /\ snap' \in [Threads -> SnapType] /\ file' = file
  BY <1>0, <1>1, BeginTyped
<1>2. CASE TurnStarts
  <2>1. io' \in IoType /\ snap' \in [Threads -> SnapType] /\ file' = file
    BY <1>1, <1>2 DEF TurnStarts
  <2>2. interrupted' \in Channels \cup {NoChannel} /\ cur # <<>>
    <3>1. cur # <<>> /\ cur \in Seq(Messages)
      BY <1>2 DEF TurnStarts, AgentAt, QueueTyped, AfterReturn
    <3>2. cur[1] \in Messages
      BY <3>1
    <3> QED BY <1>2, <3>1, <3>2, QueueAssumption DEF TurnStarts, turnMarker, turnChannel
  <2> QED BY <1>2, <2>1, <2>2 DEF TurnStarts, QueueTyped, Labels, histVars, bounds
<1>3. CASE ClearInterrupted
  <2>1. io' \in IoType /\ snap' \in [Threads -> SnapType] /\ file' = file
    BY <1>1, <1>3 DEF ClearInterrupted
  <2> QED BY <1>3, <2>1 DEF ClearInterrupted, AgentAt, QueueTyped, Labels, AfterReturn, histVars, bounds
<1>4. CASE AutoResume
  <2>1. io' \in IoType /\ snap' \in [Threads -> SnapType] /\ file' = file
    <3>1. CASE beginPersist(Agent, NoMessage)
      BY <1>1, <3>1
    <3>2. CASE UNCHANGED ioVars
      BY <1>0, <3>2 DEF ioVars
    <3> QED BY <1>4, <3>1, <3>2 DEF AutoResume
  <2>2. interrupted' \in Channels \cup {NoChannel}
    BY <1>4 DEF AutoResume, QueueTyped
  <2> QED BY <1>4, <2>1, <2>2 DEF AutoResume, QueueTyped, Labels, AfterReturn, histVars, bounds
<1>5. CASE LoadSet
  <2>1. snap' \in [Threads -> SnapType]
    <3>1. CASE snap' = [t \in Threads |-> [snap[t] EXCEPT !.alias = FALSE]]
      BY <1>0, <3>1, UnaliasTyped
    <3>2. CASE UNCHANGED snap
      BY <1>0, <3>2
    <3> QED BY <1>5, <3>1, <3>2 DEF LoadSet
  <2>2. messages' \in Seq(Messages) /\ interrupted' \in Channels \cup {NoChannel}
    <3>1. loaded.msgs \in Seq(Messages) /\ loaded.intr \in Channels \cup {NoChannel}
      BY DEF QueueTyped, FileStates
    <3> QED BY <1>5, <3>1 DEF LoadSet, QueueTyped
  <2>3. EmptyFile \in FileStates
    BY DEF EmptyFile, FileStates
  <2> QED BY <1>5, <2>1, <2>2, <2>3 DEF LoadSet, QueueTyped, Labels, AfterReturn, histVars, bounds
<1>6. CASE Crash
  <2>1. snap' \in [Threads -> SnapType] /\ io' \in IoType
    <3>1. NoSnap \in SnapType
      <4>1. {} \in SUBSET Seq(Messages)
        OBVIOUS
      <4> QED BY <4>1 DEF NoSnap, begun, SnapType
    <3> QED BY <1>6, <3>1 DEF Crash, IoType
  <2>2. restarts' \in 0..MaxRestarts
    BY <1>6, QueueAssumption DEF Crash, QueueTyped
  <2>3. messages' \in Seq(Messages) /\ input' \in Seq(Messages) /\ cur' \in Seq(Messages)
    BY <1>6 DEF Crash
  <2> QED BY <1>6, <2>1, <2>2, <2>3 DEF Crash, leaveSelect, QueueTyped, Labels, AfterReturn, histVars
<1> QED BY <1>2, <1>3, <1>4, <1>5, <1>6

LEMMA TypedStep ==
    ASSUME Typed, [Next]_vars
    PROVE  Typed'
<1>1. ActivityTypeOK /\ QueueTyped
  BY TypedIs
<1>2. ActivityTypeOK'
  BY <1>1, NextIsTrackerStep, ActivityTyped, QueueAssumption
<1>3. QueueTyped'
  <2>1. CASE UNCHANGED vars
    BY <1>1, <2>1 DEF vars, QueueTyped
  <2>2. CASE Next
    BY <1>1, <2>2, PersistTyped, ArrivalTyped, DequeueTyped, CoalesceTyped, ReadTyped,
       QuietTyped, MarkerTyped DEF Next, AgentStep
  <2> QED BY <2>1, <2>2
<1>4. (ActivityTypeOK /\ QueueTyped)' <=> Typed'
  BY DEF Typed, TypeOK, QueueTyped, IoType, SnapType
<1> QED BY <1>2, <1>3, <1>4

LEMMA TypedInvariant == Spec => []Typed
<1>1. Init => Typed
  <2> SUFFICES ASSUME Init PROVE Typed
    OBVIOUS
  <2>1. ActivityTypeOK
    BY DEF Init, ActivityInit, ActivityTypeOK, NoEntry, ChannelActivity, SavedActivity
  <2>2. NoSnap \in SnapType
    <3>1. {} \in SUBSET Seq(Messages)
      OBVIOUS
    <3> QED BY <3>1 DEF NoSnap, begun, SnapType
  <2>3. EmptyFile \in FileStates
    BY DEF EmptyFile, FileStates
  <2>4. <<>> \in Seq(Messages) /\ 0 \in 0..MaxRestarts /\ 0 \in 0..MaxFailures /\ 0 \in 0..MaxIntercepts
    BY QueueAssumption
  <2>5. QueueTyped
    BY <2>2, <2>3, <2>4 DEF Init, QueueTyped, IoType, Labels, AfterReturn
  <2> QED BY <2>1, <2>5, TypedIs
<1> QED BY <1>1, TypedStep, PTL DEF Spec

-----------------------------------------------------------------------------
(* The file. *)

(* The agent is alone: the others do not push, and its writes succeed. *)
LEMMA SoloStep ==
    ASSUME Solo, Typed, [Next]_vars
    PROVE  \/ UNCHANGED <<file, io, snap, messages, interrupted, pc, loaded, cur, handled,
                          input, order, fresh>>
           \/ AgentStep \/ ReadInput \/ NextCancelled \/ Crash
           \/ persistSnapshot(Agent) \/ persistTruncate(Agent) \/ persistWrite(Agent)
           \/ \E m \in Messages : BridgeForward(m)
<1>1. Threads = {Agent}
  BY DEF Solo, Threads
<1>2. ~persistFails(Agent)
  BY QueueAssumption DEF Solo, Typed, TypeOK, persistFails
<1>3. CASE UNCHANGED vars
  BY <1>3 DEF vars
<1>4. CASE \E c \in Channels : BridgeIntercept(c) \/ TimePasses(c) \/ TrackerCallback(c)
  BY <1>4 DEF BridgeIntercept, TimePasses, TrackerCallback, queueVars, ioVars, nextVars, histVars
<1>5. CASE \E t \in Threads : Persist(t)
  BY <1>1, <1>2, <1>5 DEF Persist
<1> QED BY <1>3, <1>4, <1>5 DEF Next, Solo

(* The stages of persist. *)
LEMMA PersistDisk ==
    ASSUME Solo, Typed, Disk, persistSnapshot(Agent) \/ persistTruncate(Agent) \/ persistWrite(Agent)
    PROVE  Disk'
<1>0. /\ Agent \in Threads /\ io \in IoType /\ snap \in [Threads -> SnapType] /\ snap[Agent] \in SnapType
      /\ pc \notin {"boot", "load"} /\ turnChannel' = turnChannel /\ pc' = pc
  <2>1. Agent \in Threads /\ io \in IoType /\ snap \in [Threads -> SnapType]
    BY TypedIs DEF QueueTyped, Threads
  <2>2. io[Agent] # "none"
    BY DEF persistSnapshot, persistTruncate, persistWrite
  <2>3. pc' = pc /\ cur' = cur
    BY DEF persistSnapshot, persistTruncate, persistWrite, nextVars
  <2> QED BY <2>1, <2>2, <2>3 DEF Disk, turnChannel
<1>1. CASE persistSnapshot(Agent)
  <2>1. snap'[Agent].reads = {messages} /\ snap'[Agent].intr = interrupted /\ io'[Agent] = "marshal"
    BY <1>0, <1>1 DEF persistSnapshot, SnapType, IoType
  <2> QED BY <1>0, <1>1, <2>1 DEF persistSnapshot, Disk, queueVars
<1>2. CASE persistTruncate(Agent)
  <2>1. snap[Agent].reads = {messages} /\ snap[Agent].intr = interrupted
    BY <1>2 DEF persistTruncate, Disk
  <2>2. snap'[Agent].reads = {messages} /\ snap'[Agent].intr = interrupted /\ io'[Agent] = "write"
    <3>1. PICK s \in snap[Agent].reads :
            snap' = [snap EXCEPT ![Agent].reads = {s}, ![Agent].alias = FALSE]
      BY <1>2 DEF persistTruncate
    <3>2. s = messages
      BY <2>1, <3>1
    <3>3. snap'[Agent].reads = {s} /\ snap'[Agent].intr = snap[Agent].intr
      BY <1>0, <3>1 DEF SnapType
    <3> QED BY <1>0, <1>2, <2>1, <3>2, <3>3 DEF persistTruncate, IoType
  <2> QED BY <1>0, <1>2, <2>2 DEF persistTruncate, Disk, queueVars, EmptyFile
<1>3. CASE persistWrite(Agent)
  <2>1. file = EmptyFile /\ snap[Agent].reads = {messages} /\ snap[Agent].intr = interrupted
    BY <1>3 DEF persistWrite, Disk
  <2>2. file' = persistedState(messages, interrupted)
    BY <1>3, <2>1 DEF persistWrite
  <2>3. io'[Agent] = "none"
    BY <1>0, <1>3 DEF persistWrite, IoType
  <2> QED BY <1>0, <1>3, <2>2, <2>3 DEF persistWrite, Disk, persistedState
<1> QED BY <1>1, <1>2, <1>3

(* What else writes to memory begins a persist. *)
LEMMA AgentDisk ==
    ASSUME Solo, Typed, Disk, AgentStep \/ ReadInput \/ NextCancelled \/ Crash
    PROVE  Disk'
<1>0. Agent \in Threads /\ io \in IoType
  BY TypedIs DEF QueueTyped, Threads
<1>1. CASE LoadRead
  BY <1>1 DEF LoadRead, AgentAt, Disk, queueVars, ioVars
<1>2. CASE LoadSet
  <2>1. loaded = file /\ pc' = "resume" /\ file' = file /\ io' = io
    BY <1>2 DEF LoadSet, AgentAt, Disk
  <2>2. file.msgs = messages' /\ file.intr = interrupted'
    BY <1>2, <2>1 DEF LoadSet, AgentAt, Disk, EmptyFile
  <2> QED BY <1>2, <2>1, <2>2 DEF LoadSet, AgentAt, Disk
<1>3. CASE AutoResume \/ TurnStarts \/ ClearInterrupted
  <2>1. CASE beginPersist(Agent, NoMessage)
    <3>1. io'[Agent] = "lock" /\ file' = file
      BY <1>0, <2>1 DEF beginPersist, IoType
    <3>2. pc' \in {"peek", "turn", "ended"} /\ (pc' = "turn" => interrupted' = turnChannel')
      BY <1>3 DEF AutoResume, TurnStarts, ClearInterrupted, turnChannel, turnMarker
    <3> QED BY <3>1, <3>2 DEF Disk
  <2>2. CASE ~beginPersist(Agent, NoMessage)
    <3>1. AutoResume /\ UNCHANGED <<interrupted, ioVars>>
      BY <1>3, <2>2 DEF AutoResume, TurnStarts, ClearInterrupted
    <3> QED BY <3>1 DEF AutoResume, AgentAt, Disk, ioVars
  <2> QED BY <2>1, <2>2
<1>4. CASE NextPeek \/ SelectIdle \/ idleNotifyForQueued \/ NextReturns \/ TurnFinishes \/ TurnEnds
  BY <1>4 DEF NextPeek, SelectIdle, idleNotifyForQueued, NextReturns, TurnFinishes, TurnEnds,
              AgentAt, Disk, queueVars, ioVars
<1>5. CASE SelectNotify
  BY <1>5 DEF SelectNotify, AgentAt, Disk, ioVars
<1>6. CASE tryDequeue
  <2>1. CASE dequeueIndex(messages) = 0
    BY <1>6, <2>1 DEF tryDequeue, AgentAt, Disk
  <2>2. CASE dequeueIndex(messages) # 0
    <3>1. io'[Agent] = "lock" /\ file' = file /\ pc' = "return"
      BY <1>0, <1>6, <2>2 DEF tryDequeue, persistRemoval, IoType
    <3> QED BY <3>1 DEF Disk
  <2> QED BY <2>1, <2>2
<1>7. CASE coalesceBatch
  <2>1. io'[Agent] = "lock" /\ file' = file /\ pc' = "return"
    BY <1>0, <1>7 DEF coalesceBatch, persistRemoval, IoType
  <2> QED BY <2>1 DEF Disk
<1>8. CASE SelectInput
  <2>1. io'[Agent] = "lock" /\ file' = file /\ pc' \notin {"boot", "load", "turn"}
    BY <1>0, <1>8 DEF SelectInput, AgentAt, Push, beginPersist, IoType
  <2> QED BY <2>1 DEF Disk
<1>9. CASE TurnReadsInput
  <2>1. pc = "turn" /\ pc' = "turn" /\ cur' = cur
    BY <1>9 DEF TurnReadsInput, AgentAt
  <2>2. CASE UNCHANGED <<queueVars, ioVars>>
    BY <2>1, <2>2 DEF Disk, queueVars, ioVars, turnChannel
  <2>3. CASE Push(Agent, Head(input))
    <3>1. io'[Agent] = "lock" /\ file' = file /\ interrupted' = interrupted
      BY <1>0, <2>3 DEF Push, beginPersist, IoType
    <3> QED BY <2>1, <3>1 DEF Disk, turnChannel
  <2> QED BY <1>9, <2>2, <2>3 DEF TurnReadsInput
<1>10. CASE NextCancelled
  BY <1>10 DEF NextCancelled, AgentAt, Disk, EmptyFile, queueVars, ioVars
<1>11. CASE Crash
  <2>1. io'[Agent] = "none" /\ messages' = <<>> /\ interrupted' = NoChannel /\ pc' = "boot" /\ file' = file
    BY <1>0, <1>11 DEF Crash
  <2> QED BY <2>1 DEF Disk
<1> QED BY <1>1, <1>2, <1>3, <1>4, <1>5, <1>6, <1>7, <1>8, <1>9, <1>10, <1>11 DEF AgentStep, ReadInput

LEMMA DiskStep ==
    ASSUME Solo, Typed, Disk, [Next]_vars
    PROVE  Disk'
<1>1. CASE UNCHANGED <<file, io, snap, messages, interrupted, pc, loaded, cur, handled,
                       input, order, fresh>>
  BY <1>1 DEF Disk, turnChannel
<1>2. CASE \E m \in Messages : BridgeForward(m)
  BY <1>2 DEF BridgeForward, Disk, turnChannel, queueVars, ioVars, nextVars
<1> QED BY <1>1, <1>2, SoloStep, PersistDisk, AgentDisk

LEMMA DiskInvariant == Solo => (Spec => [](Typed /\ Disk))
<1> SUFFICES ASSUME Solo PROVE Spec => [](Typed /\ Disk)
  OBVIOUS
<1>1. Init => Disk
  <2>1. Agent \in Threads
    BY DEF Threads
  <2> QED BY <2>1 DEF Init, Disk, EmptyFile
<1>2. Typed /\ Disk /\ [Next]_vars => Disk'
  BY DiskStep
<1> QED BY <1>1, <1>2, TypedInvariant, PTL DEF Spec

-----------------------------------------------------------------------------
(* The line of messages. *)

LEMMA ClearGrows ==
    ASSUME NEW h \in Seq(Messages), NEW m \in Messages, NEW x, NEW y, clear(h, x, y)
    PROVE  clear(Append(h, m), x, y)
  BY FollowsGrows DEF clear

LEMMA ClearNew ==
    ASSUME NEW h \in Seq(Messages), NEW m \in Messages, NEW x \in ToSet(h), m \notin ToSet(h)
    PROVE  clear(Append(h, m), x, m)
  BY FollowsNew DEF clear

LEMMA ChainAppend ==
    ASSUME NEW h, NEW q \in Seq(Messages), NEW m \in Messages, chain(h, q),
           ahead(h, ToSet(q), {m})
    PROVE  chain(h, Append(q, m))
<1>1. /\ Len(q) \in Nat /\ DOMAIN q = 1..Len(q) /\ DOMAIN Append(q, m) = 1..Len(q) + 1
      /\ Append(q, m)[Len(q) + 1] = m /\ \A k \in 1..Len(q) : Append(q, m)[k] = q[k]
  OBVIOUS
<1> DEFINE r == Append(q, m)
<1> HIDE DEF r
<1>2. SUFFICES ASSUME NEW i \in DOMAIN r, NEW j \in DOMAIN r, i < j
               PROVE  clear(h, r[i], r[j])
  BY DEF chain, r
<1>3. i \in DOMAIN q /\ r[i] = q[i]
  BY <1>1, <1>2 DEF r
<1>4. CASE j \in DOMAIN q
  <2>1. r[j] = q[j]
    BY <1>1, <1>4 DEF r
  <2> QED BY <1>2, <1>3, <1>4, <2>1 DEF chain
<1>5. CASE j \notin DOMAIN q
  <2>1. r[j] = m
    BY <1>1, <1>5 DEF r
  <2>2. q[i] \in ToSet(q)
    BY <1>3, InToSet
  <2> QED BY <1>3, <2>1, <2>2 DEF ahead
<1> QED BY <1>4, <1>5

LEMMA ChainConcat ==
    ASSUME NEW h, NEW p \in Seq(Messages), NEW q \in Seq(Messages), chain(h, p), chain(h, q),
           ahead(h, ToSet(p), ToSet(q))
    PROVE  chain(h, p \o q)
<1> DEFINE r == p \o q
<1>1. /\ Len(p) \in Nat /\ Len(q) \in Nat /\ DOMAIN p = 1..Len(p) /\ DOMAIN q = 1..Len(q)
      /\ DOMAIN r = 1..Len(p) + Len(q)
      /\ \A k \in 1..Len(p) : r[k] = p[k]
      /\ \A k \in 1..Len(q) : r[Len(p) + k] = q[k]
  OBVIOUS
<1> HIDE DEF r
<1>2. \A k \in DOMAIN r :
        \/ k \in DOMAIN p /\ r[k] = p[k]
        \/ k - Len(p) \in DOMAIN q /\ r[k] = q[k - Len(p)]
  <2> TAKE k \in DOMAIN r
  <2>1. CASE k <= Len(p)
    BY <1>1, <2>1
  <2>2. CASE k > Len(p)
    <3>1. k - Len(p) \in 1..Len(q) /\ Len(p) + (k - Len(p)) = k
      BY <1>1, <2>2
    <3> QED BY <1>1, <3>1
  <2> QED BY <1>1, <2>1, <2>2
<1>3. SUFFICES ASSUME NEW i \in DOMAIN r, NEW j \in DOMAIN r, i < j
               PROVE  clear(h, r[i], r[j])
  BY DEF chain, r
<1>4. CASE i \in DOMAIN p /\ j \in DOMAIN p
  BY <1>1, <1>3, <1>4 DEF chain
<1>5. CASE i \in DOMAIN p /\ r[i] = p[i] /\ j \notin DOMAIN p
  <2>1. r[j] = q[j - Len(p)] /\ j - Len(p) \in DOMAIN q
    BY <1>2, <1>5
  <2>2. r[i] \in ToSet(p) /\ r[j] \in ToSet(q)
    BY <1>5, <2>1, InToSet
  <2> QED BY <2>2 DEF ahead
<1>6. CASE i \notin DOMAIN p
  <2>1. i - Len(p) \in DOMAIN q /\ r[i] = q[i - Len(p)]
    BY <1>2, <1>6
  <2>2. j - Len(p) \in DOMAIN q /\ r[j] = q[j - Len(p)]
    <3>1. j \notin DOMAIN p
      BY <1>1, <1>3, <1>6
    <3> QED BY <1>2, <3>1
  <2>3. i - Len(p) < j - Len(p)
    BY <1>1, <1>3
  <2> QED BY <2>1, <2>2, <2>3 DEF chain
<1> QED BY <1>2, <1>4, <1>5, <1>6

(* A queue in line stays in line when one position or more are taken out. *)
LEMMA ChainRemove ==
    ASSUME NEW h, NEW q \in Seq(Messages), NEW i \in DOMAIN q, chain(h, q)
    PROVE  /\ chain(h, RemoveAt(q, i))
           /\ \A y \in ToSet(RemoveAt(q, i)) : \E k \in DOMAIN q : k # i /\ q[k] = y
<1> DEFINE r == RemoveAt(q, i)
<1>1. /\ Len(q) \in Nat /\ DOMAIN q = 1..Len(q) /\ i \in 1..Len(q)
      /\ DOMAIN r = 1..Len(q) - 1
      /\ \A k \in 1..Len(q) - 1 : r[k] = IF k < i THEN q[k] ELSE q[k + 1]
  BY Removed
<1> HIDE DEF r
<1> DEFINE at(k) == IF k < i THEN k ELSE k + 1
<1>2. \A k \in DOMAIN r : at(k) \in DOMAIN q /\ at(k) # i /\ r[k] = q[at(k)]
  BY <1>1
<1>3. \A k, l \in DOMAIN r : k < l => at(k) < at(l)
  BY <1>1
<1> HIDE DEF at
<1>4. chain(h, r)
  BY <1>2, <1>3 DEF chain
<1>5. \A y \in ToSet(r) : \E k \in DOMAIN q : k # i /\ q[k] = y
  BY <1>2, InToSet
<1> QED BY <1>4, <1>5 DEF r

LEMMA ChainSelect ==
    ASSUME NEW h, NEW q \in Seq(Messages), NEW P \in SUBSET (DOMAIN q), chain(h, q)
    PROVE  /\ chain(h, elementsAt(q, P))
           /\ \A y \in ToSet(elementsAt(q, P)) : \E k \in P : q[k] = y
<1> DEFINE r == elementsAt(q, P)
           f == inOrder(P)
           n == Cardinality(P)
<1>1. /\ DOMAIN r = 1..n /\ f \in [1..n -> P]
      /\ \A j, k \in 1..n : j < k => f[j] < f[k]
      /\ \A k \in 1..n : r[k] = q[f[k]]
  BY ElementsAt
<1> HIDE DEF r, f, n
<1>2. \A k \in 1..n : f[k] \in P
  BY <1>1
<1>3. chain(h, r)
  BY <1>1, <1>2 DEF chain
<1>4. \A y \in ToSet(r) : \E k \in P : q[k] = y
  <2> TAKE y \in ToSet(r)
  <2>1. PICK k \in DOMAIN r : r[k] = y
    BY InToSet
  <2>2. f[k] \in P /\ q[f[k]] = y
    BY <1>1, <1>2, <2>1
  <2> QED BY <2>2
<1> QED BY <1>3, <1>4 DEF r

(* What Next takes is ahead of what it leaves. *)
LEMMA TakenAhead ==
    ASSUME NEW h, NEW q \in Seq(Messages), chain(h, q), NEW i \in DOMAIN q, i = dequeueIndex(q)
    PROVE  ahead(h, {q[i]}, ToSet(RemoveAt(q, i)))
<1>1. Len(q) \in Nat /\ DOMAIN q = 1..Len(q) /\ i # 0
  OBVIOUS
<1>2. SUFFICES ASSUME NEW y \in ToSet(RemoveAt(q, i)) PROVE clear(h, q[i], y)
  BY DEF ahead
<1>3. PICK k \in DOMAIN q : k # i /\ q[k] = y
  BY ChainRemove
<1>4. q[i] # y
  BY <1>1, <1>3 DEF chain, clear
<1>5. \/ \A l \in DOMAIN q : ~isUserMessage(q[l])
      \/ \A l \in DOMAIN q : l < i => ~isUserMessage(q[l])
  BY <1>1, DequeueIndex
<1>6. CASE i < k
  BY <1>3, <1>6 DEF chain
<1>7. CASE k < i
  <2>1. ~isUserMessage(q[k])
    BY <1>5, <1>7
  <2> QED BY <1>3, <1>4, <2>1 DEF clear, isUserMessage
<1> QED BY <1>1, <1>3, <1>6, <1>7

LEMMA BatchAhead ==
    ASSUME NEW h, NEW q \in Seq(Messages), chain(h, q), NEW c
    PROVE  /\ chain(h, batchOf(q, c)) /\ chain(h, keptAfter(q, c))
           /\ ToSet(batchOf(q, c)) \cup ToSet(keptAfter(q, c)) \subseteq ToSet(q)
           /\ ahead(h, ToSet(batchOf(q, c)), ToSet(keptAfter(q, c)))
<1> DEFINE P == batched(q, c)
           R == DOMAIN q \ P
<1>1. P \in SUBSET (DOMAIN q) /\ R \in SUBSET (DOMAIN q)
  BY DEF batched
<1>2. /\ chain(h, batchOf(q, c)) /\ chain(h, keptAfter(q, c))
      /\ \A y \in ToSet(batchOf(q, c)) : \E k \in P : q[k] = y
      /\ \A y \in ToSet(keptAfter(q, c)) : \E k \in R : q[k] = y
  BY <1>1, ChainSelect DEF batchOf, keptAfter
<1>3. ToSet(batchOf(q, c)) \cup ToSet(keptAfter(q, c)) \subseteq ToSet(q)
  BY <1>1, <1>2, InToSet
<1>4. ASSUME NEW x \in ToSet(batchOf(q, c)), NEW y \in ToSet(keptAfter(q, c))
      PROVE  clear(h, x, y)
  <2>1. PICK k \in P, l \in R : q[k] = x /\ q[l] = y
    BY <1>2
  <2>2. k \in DOMAIN q /\ l \in DOMAIN q /\ k # l /\ k \in Nat /\ l \in Nat
    BY <1>1, <2>1
  <2>3. x # y
    BY <2>1, <2>2 DEF chain, clear
  <2>4. KindOf[y] = "user" => ChanOf[x] # ChanOf[y]
    BY <2>1, <2>2 DEF batched, isBatchable, isUserMessage, isControlMessage
  <2> QED BY <2>3, <2>4 DEF clear
<1> QED BY <1>2, <1>3, <1>4 DEF ahead

LEMMA AheadSubset ==
    ASSUME NEW h, NEW A, NEW B, ahead(h, A, B), NEW C \in SUBSET A, NEW D \in SUBSET B
    PROVE  ahead(h, C, D)
  BY DEF ahead

-----------------------------------------------------------------------------
(* The parts of Line that a step which only moves messages must show. *)
LEMMA LineMoves ==
    ASSUME Line, UNCHANGED <<order, fresh, handled>>, waiting' \subseteq waiting,
           ToSet(input') \subseteq ToSet(input), Len(input') <= 1,
           chain(order, messages'), chain(order, file.msgs'),
           pc' = "return" => chain(order, cur') /\ ahead(order, ToSet(cur'), ToSet(messages'))
    PROVE  Line'
<1> DEFINE W == waiting'
           I == ToSet(input')
<1>1. W \subseteq waiting /\ I \subseteq ToSet(input)
  OBVIOUS
<1> HIDE DEF W, I
<1>2. ahead(order, ToSet(handled), W \cup I) /\ ahead(order, W, I)
  BY <1>1 DEF ahead, Line
<1>3. ToSet(handled) \cup W \cup I \subseteq ToSet(order)
  BY <1>1 DEF Line
<1> USE DEF W, I
<1> QED BY <1>2, <1>3 DEF Line

(* The bridge forwards a message that is new. *)
LEMMA ForwardLine ==
    ASSUME Typed, Line, NEW m \in Messages, BridgeForward(m)
    PROVE  Line'
<1> DEFINE h == order
           g == Append(order, m)
           W == waiting
<1>1. /\ order \in Seq(Messages) /\ m \in fresh /\ input = <<>>
      /\ input' = <<m>> /\ order' = g /\ fresh' = fresh \ {m}
      /\ UNCHANGED <<handled, messages, file, pc, cur>>
  BY TypedIs DEF QueueTyped, BridgeForward, queueVars, ioVars, nextVars
<1>2. m \notin ToSet(h) /\ ToSet(g) = ToSet(h) \cup {m} /\ waiting' = W
      /\ ToSet(input') = {m}
  <2>1. ToSet(<<m>>) = {m}
    BY DEF ToSet
  <2> QED BY <1>1, <2>1, ToSetAppend DEF Line, waiting
<1>3. /\ \A i, j \in DOMAIN h : h[i] = h[j] => i = j
      /\ fresh \cap ToSet(h) = {} /\ ToSet(handled) \cup W \subseteq ToSet(h)
      /\ chain(h, handled) /\ chain(h, messages) /\ chain(h, file.msgs)
      /\ ahead(h, ToSet(handled), W)
      /\ pc = "return" => chain(h, cur) /\ ahead(h, ToSet(cur), ToSet(messages))
  BY DEF Line, ahead
<1>4. \A i, j \in DOMAIN g : g[i] = g[j] => i = j
  <2>1. /\ Len(h) \in Nat /\ DOMAIN h = 1..Len(h) /\ DOMAIN g = 1..Len(h) + 1
        /\ g[Len(h) + 1] = m /\ \A k \in 1..Len(h) : g[k] = h[k]
    BY <1>1
  <2>2. \A k \in DOMAIN h : h[k] # m
    BY <1>2, InToSet
  <2> HIDE DEF g, h
  <2> QED BY <1>3, <2>1, <2>2
<1>5. \A x, y : clear(h, x, y) => clear(g, x, y)
  BY <1>1, ClearGrows
<1>6. \A x \in ToSet(h) : clear(g, x, m)
  BY <1>1, <1>2, ClearNew
<1> HIDE DEF h, g, W
<1>7. chain(g, handled) /\ chain(g, messages) /\ chain(g, file.msgs)
      /\ (pc = "return" => chain(g, cur) /\ ahead(g, ToSet(cur), ToSet(messages)))
  BY <1>3, <1>5 DEF chain, ahead
<1>8. ahead(g, ToSet(handled), W \cup {m}) /\ ahead(g, W, {m})
  BY <1>3, <1>5, <1>6 DEF ahead
<1>9. Len(input') <= 1
  BY <1>1
<1>10. fresh' \cap ToSet(g) = {} /\ ToSet(handled) \cup W \cup {m} \subseteq ToSet(g)
  BY <1>1, <1>2, <1>3
<1>11. /\ order' = g /\ handled' = handled /\ messages' = messages /\ file' = file /\ pc' = pc
       /\ cur' = cur /\ waiting' = W /\ ToSet(input') = {m}
  BY <1>1, <1>2
<1> QED BY <1>4, <1>7, <1>8, <1>9, <1>10, <1>11 DEF Line

(* The input's message is queued, or consumed by the turn. *)
LEMMA InputIs ==
    ASSUME Typed, Line, input # <<>>
    PROVE  /\ Head(input) \in Messages /\ ToSet(input) = {Head(input)}
           /\ ToSet(Tail(input)) = {} /\ Len(Tail(input)) <= 1
<1>1. input \in Seq(Messages) /\ Len(input) \in Nat /\ Len(input) <= 1
  BY TypedIs DEF QueueTyped, Line
<1>2. Len(input) # 0 /\ Head(input) = input[1] /\ DOMAIN input = 1..Len(input)
  BY <1>1
<1>3. Len(input) = 1
  BY <1>1, <1>2
<1>4. 1 \in DOMAIN input /\ \A k \in DOMAIN input : k = 1
  BY <1>2, <1>3
<1>5. ToSet(input) = {Head(input)} /\ Head(input) \in Messages
  BY <1>1, <1>2, <1>4 DEF ToSet
<1>6. Tail(input) \in Seq(Messages) /\ Len(Tail(input)) = 0
  BY <1>1, <1>3
<1>7. \A t \in Seq(Messages) : Len(t) = 0 => DOMAIN t = 1..0
  OBVIOUS
<1>8. ToSet(Tail(input)) = {}
  <2>1. DOMAIN Tail(input) = 1..0
    BY <1>6, <1>7
  <2> QED BY <2>1 DEF ToSet
<1> QED BY <1>5, <1>6, <1>8

LEMMA PushLine ==
    ASSUME Typed, Line, input # <<>>, input' = Tail(input), Push(Agent, Head(input)),
           UNCHANGED <<order, fresh, handled, cur>>, pc # "return", pc' # "return"
    PROVE  Line'
<1> DEFINE m == Head(input)
<1>1. m \in Messages /\ ToSet(input) = {m} /\ ToSet(input') = {} /\ Len(input') <= 1
  BY InputIs
<1>2. messages \in Seq(Messages) /\ messages' = Append(messages, m) /\ file' = file
  BY TypedIs DEF Push, beginPersist, QueueTyped
<1> HIDE DEF m
<1>3. waiting' = waiting \cup {m}
  <2>1. ToSet(messages') = ToSet(messages) \cup {m}
    BY <1>1, <1>2, ToSetAppend
  <2> QED BY <1>2, <2>1 DEF waiting
<1>4. ahead(order, ToSet(messages), {m})
  <2>1. ToSet(messages) \subseteq waiting
    BY DEF waiting
  <2> QED BY <1>1, <2>1 DEF Line, ahead
<1>5. chain(order, messages')
  BY <1>1, <1>2, <1>4, ChainAppend DEF Line
<1>6. ahead(order, ToSet(handled), waiting' \cup {}) /\ ahead(order, waiting', {})
  BY <1>1, <1>3 DEF Line, ahead
<1>7. ToSet(handled) \cup waiting' \cup {} \subseteq ToSet(order)
  BY <1>1, <1>3 DEF Line
<1>8. Len(input') <= 1
  BY <1>1
<1> QED BY <1>1, <1>2, <1>5, <1>6, <1>7, <1>8 DEF Line

LEMMA ReadLine ==
    ASSUME Typed, Line, ReadInput
    PROVE  Line'
<1>1. CASE SelectInput
  BY <1>1, PushLine DEF SelectInput, AgentAt, histVars
<1>2. CASE TurnReadsInput /\ Push(Agent, Head(input)) /\ UNCHANGED handled
  BY <1>2, PushLine DEF TurnReadsInput, AgentAt
<1>3. CASE /\ TurnReadsInput /\ KindOf[Head(input)] \in {"stop", "press"}
           /\ handled' = Append(handled, Head(input)) /\ UNCHANGED <<queueVars, ioVars>>
  <2> DEFINE m == Head(input)
  <2>1. m \in Messages /\ ToSet(input) = {m} /\ ToSet(input') = {} /\ Len(input') <= 1
    BY <1>3, InputIs DEF TurnReadsInput
  <2>2. /\ handled \in Seq(Messages) /\ handled' = Append(handled, m) /\ KindOf[m] # "user"
        /\ UNCHANGED <<messages, file, order, fresh, pc, cur>> /\ pc # "return"
    BY <1>3, TypedIs DEF TurnReadsInput, AgentAt, QueueTyped, queueVars, ioVars
  <2> HIDE DEF m
  <2>3. waiting' = waiting /\ ToSet(handled') = ToSet(handled) \cup {m}
    BY <2>1, <2>2, ToSetAppend DEF waiting
  <2>4. chain(order, handled')
    <3>1. ahead(order, ToSet(handled), {m})
      BY <2>1 DEF Line, ahead
    <3> QED BY <2>1, <2>2, <3>1, ChainAppend DEF Line
  <2>5. \A y \in waiting : clear(order, m, y)
    BY <2>1, <2>2 DEF Line, ahead, clear
  <2>6. ahead(order, ToSet(handled'), waiting' \cup {}) /\ ahead(order, waiting', {})
    BY <2>3, <2>5 DEF Line, ahead
  <2>7. ToSet(handled') \cup waiting' \cup {} \subseteq ToSet(order)
    BY <2>1, <2>3 DEF Line
  <2>8. Len(input') <= 1
    BY <2>1
  <2> QED BY <2>1, <2>2, <2>4, <2>6, <2>7, <2>8 DEF Line
<1> QED BY <1>1, <1>2, <1>3 DEF ReadInput, TurnReadsInput

(* Next takes a message or a batch from the queue. *)
LEMMA DequeueLine ==
    ASSUME Typed, Line, tryDequeue \/ coalesceBatch
    PROVE  Line'
<1>1. CASE tryDequeue /\ dequeueIndex(messages) = 0
  <2>1. /\ UNCHANGED <<order, fresh, handled, input, messages, file, cur>>
        /\ pc # "return" /\ pc' # "return"
    BY <1>1 DEF tryDequeue, AgentAt, histVars
  <2> QED BY <2>1, LineMoves DEF Line, waiting
<1>2. CASE tryDequeue /\ dequeueIndex(messages) # 0
  <2> DEFINE i == dequeueIndex(messages)
  <2>1. messages \in Seq(Messages) /\ i \in DOMAIN messages /\ messages[i] \in Messages
    <3>1. messages \in Seq(Messages)
      BY TypedIs DEF QueueTyped
    <3>2. i \in DOMAIN messages
      BY <1>2, <3>1, DequeueIndex
    <3> QED BY <3>1, <3>2
  <2>2. /\ UNCHANGED <<order, fresh, handled, input, file>>
        /\ messages' = RemoveAt(messages, i) /\ cur' = <<messages[i]>>
        /\ pc # "return" /\ pc' = "return"
    BY <1>2 DEF tryDequeue, AgentAt, histVars
  <2>3. chain(order, messages)
    BY DEF Line
  <2>4. ahead(order, {messages[i]}, ToSet(RemoveAt(messages, i)))
    BY <2>1, <2>3, TakenAhead
  <2> HIDE DEF i
  <2>5. ToSet(cur') = {messages[i]} /\ chain(order, cur')
    <3>1. DOMAIN <<messages[i]>> = {1} /\ <<messages[i]>>[1] = messages[i]
      OBVIOUS
    <3> QED BY <2>2, <3>1 DEF ToSet, chain
  <2>6. waiting' \subseteq waiting
    <3>1. ToSet(messages) = ToSet(messages') \cup {messages[i]}
      BY <2>1, <2>2, Removed
    <3> QED BY <2>2, <2>5, <3>1 DEF waiting
  <2>7. chain(order, messages')
    BY <2>1, <2>2, <2>3, ChainRemove
  <2> QED BY <2>2, <2>4, <2>5, <2>6, <2>7, LineMoves DEF Line
<1>3. CASE coalesceBatch
  <2>1. /\ UNCHANGED <<order, fresh, handled, input, file>>
        /\ messages' = keptAfter(messages, batchChan) /\ cur' = batchOf(messages, batchChan)
        /\ pc # "return" /\ pc' = "return"
    BY <1>3 DEF coalesceBatch, AgentAt, histVars
  <2>2. messages \in Seq(Messages) /\ chain(order, messages)
    BY TypedIs DEF QueueTyped, Line
  <2>3. /\ chain(order, cur') /\ chain(order, messages')
        /\ ToSet(cur') \cup ToSet(messages') \subseteq ToSet(messages)
        /\ ahead(order, ToSet(cur'), ToSet(messages'))
    BY <2>1, <2>2, BatchAhead
  <2>4. waiting' \subseteq waiting
    BY <2>1, <2>3 DEF waiting
  <2> QED BY <2>1, <2>3, <2>4, LineMoves DEF Line
<1> QED BY <1>1, <1>2, <1>3

(* The agent gets what Next took, which is no longer on disk by then. *)
LEMMA ReturnLine ==
    ASSUME Typed, Disk, Line, NextReturns
    PROVE  Line'
<1>1. /\ cur \in Seq(Messages) /\ handled \in Seq(Messages)
      /\ handled' = handled \o cur /\ pc = "return" /\ pc' # "return"
      /\ UNCHANGED <<order, fresh, messages, file, input>>
  BY TypedIs DEF NextReturns, AgentAt, QueueTyped, queueVars, ioVars
<1>2. file.msgs = messages
  BY DEF NextReturns, AgentAt, Disk
<1>3. waiting = ToSet(messages) \cup ToSet(cur) /\ waiting' = ToSet(messages)
  BY <1>1, <1>2 DEF waiting
<1>4. ToSet(handled') = ToSet(handled) \cup ToSet(cur)
  BY <1>1, ToSetConcat
<1>5. ahead(order, ToSet(handled), ToSet(cur))
  BY <1>3 DEF Line, ahead
<1>6. chain(order, handled')
  BY <1>1, <1>5, ChainConcat DEF Line
<1>7. ahead(order, ToSet(handled'), waiting' \cup ToSet(input)) /\ ahead(order, waiting', ToSet(input))
  BY <1>1, <1>3, <1>4 DEF Line, ahead
<1>8. ToSet(handled') \cup waiting' \cup ToSet(input) \subseteq ToSet(order)
  BY <1>3, <1>4 DEF Line
<1> QED BY <1>1, <1>6, <1>7, <1>8 DEF Line

(* The other steps drop messages, or copy them between memory and disk. *)
LEMMA OtherLine ==
    ASSUME Typed, Disk, Line,
           \/ LoadRead \/ LoadSet \/ AutoResume \/ NextPeek \/ idleNotifyForQueued \/ SelectIdle
           \/ SelectNotify \/ TurnStarts \/ TurnFinishes \/ ClearInterrupted \/ TurnEnds
           \/ NextCancelled \/ Crash
           \/ persistSnapshot(Agent) \/ persistTruncate(Agent) \/ persistWrite(Agent)
    PROVE  Line'
<1>0. Agent \in Threads /\ ToSet(<<>>) = {} /\ Len(<<>>) = 0 /\ chain(order, <<>>)
  BY ToSetEmpty DEF Threads, chain
<1>1. CASE LoadRead \/ NextPeek \/ idleNotifyForQueued \/ SelectIdle \/ SelectNotify \/ TurnFinishes
             \/ NextCancelled
  <2>1. /\ UNCHANGED <<order, fresh, handled, input, messages, file, cur>>
        /\ pc # "return" /\ pc' # "return"
    BY <1>1 DEF LoadRead, NextPeek, idleNotifyForQueued, SelectIdle, SelectNotify, TurnFinishes,
                NextCancelled, AgentAt, queueVars, ioVars, histVars
  <2> QED BY <2>1, LineMoves DEF Line, waiting
<1>2. CASE AutoResume \/ TurnStarts \/ ClearInterrupted \/ TurnEnds
  <2>1. /\ UNCHANGED <<order, fresh, handled, input, messages, file>>
        /\ pc # "return" /\ pc' # "return"
    BY <1>2 DEF AutoResume, TurnStarts, ClearInterrupted, TurnEnds, beginPersist,
                AgentAt, queueVars, ioVars, histVars
  <2> QED BY <2>1, LineMoves DEF Line, waiting
<1>3. CASE LoadSet
  <2>1. /\ UNCHANGED <<order, fresh, handled, input, file>>
        /\ messages' \in {messages, file.msgs} /\ pc # "return" /\ pc' # "return"
    BY <1>3 DEF LoadSet, AgentAt, histVars, Disk
  <2>2. waiting' \subseteq waiting /\ chain(order, messages')
    BY <2>1 DEF waiting, Line
  <2> QED BY <2>1, <2>2, LineMoves DEF Line
<1>4. CASE Crash
  <2>1. /\ UNCHANGED <<order, fresh, handled, file>>
        /\ messages' = <<>> /\ input' = <<>> /\ pc' # "return"
    BY <1>4 DEF Crash, histVars
  <2>2. waiting' \subseteq waiting
    BY <1>0, <2>1 DEF waiting
  <2>3. chain(order, messages') /\ chain(order, file'.msgs)
    BY <1>0, <2>1 DEF Line
  <2> QED BY <1>0, <2>1, <2>2, <2>3, LineMoves
<1>5. CASE persistSnapshot(Agent)
  <2>1. UNCHANGED <<order, fresh, handled, input, messages, file, cur, pc>>
    BY <1>5 DEF persistSnapshot, queueVars, nextVars, histVars
  <2> QED BY <2>1, LineMoves DEF Line, waiting
<1>6. CASE persistTruncate(Agent)
  <2>1. UNCHANGED <<order, fresh, handled, input, messages, cur, pc>> /\ file'.msgs = <<>>
    BY <1>6 DEF persistTruncate, EmptyFile, queueVars, nextVars, histVars
  <2>2. waiting' \subseteq waiting
    BY <1>0, <2>1 DEF waiting
  <2>3. chain(order, messages') /\ chain(order, file'.msgs)
    BY <1>0, <2>1 DEF Line
  <2> QED BY <2>1, <2>2, <2>3, LineMoves DEF Line
<1>7. CASE persistWrite(Agent)
  <2>1. UNCHANGED <<order, fresh, handled, input, messages, cur, pc>>
    BY <1>7 DEF persistWrite, nextVars
  <2>2. file' = persistedState(messages, interrupted)
    BY <1>7 DEF persistWrite, Disk
  <2>3. file'.msgs = messages
    BY <2>2 DEF persistedState
  <2>4. waiting' \subseteq waiting /\ chain(order, messages') /\ chain(order, file'.msgs)
    BY <2>1, <2>3 DEF waiting, Line
  <2> QED BY <2>1, <2>4, LineMoves DEF Line
<1> QED BY <1>1, <1>2, <1>3, <1>4, <1>5, <1>6, <1>7

LEMMA LineStep ==
    ASSUME Solo, Typed, Disk, Line, [Next]_vars
    PROVE  Line'
<1>1. CASE UNCHANGED <<file, io, snap, messages, interrupted, pc, loaded, cur, handled,
                       input, order, fresh>>
  BY <1>1 DEF Line, waiting
<1> QED BY <1>1, SoloStep, ForwardLine, ReadLine, DequeueLine, ReturnLine, OtherLine
        DEF AgentStep

LEMMA LineInvariant == Solo => (Spec => [](Typed /\ Disk /\ Line))
<1> SUFFICES ASSUME Solo PROVE Spec => [](Typed /\ Disk /\ Line)
  OBVIOUS
<1>1. Init => Line
  <2> SUFFICES ASSUME Init PROVE Line
    OBVIOUS
  <2>1. /\ messages = <<>> /\ file.msgs = <<>> /\ handled = <<>> /\ order = <<>> /\ input = <<>>
        /\ pc # "return"
    BY DEF Init, EmptyFile
  <2>2. ToSet(<<>>) = {} /\ DOMAIN <<>> = {} /\ Len(<<>>) = 0
    BY ToSetEmpty
  <2> QED BY <2>1, <2>2 DEF Line, waiting, chain, ahead
<1>2. Typed /\ Disk /\ Line /\ [Next]_vars => Line'
  BY LineStep
<1> QED BY <1>1, <1>2, DiskInvariant, PTL DEF Spec

(***************************************************************************)
(* While the agent alone persists and its writes succeed, whatever crashes *)
(* and restarts do, the file at rest holds the queue and the marker of the *)
(* turn, and no message is given to the agent twice.                       *)
(***************************************************************************)
THEOREM TheFileIsSound == Solo => (Spec => []FileIsSound)
<1> SUFFICES ASSUME Solo PROVE Spec => []FileIsSound
  OBVIOUS
<1>1. Typed /\ Disk /\ Line => FileIsSound
  <2> SUFFICES ASSUME Typed, Disk, Line PROVE FileIsSound
    OBVIOUS
  <2>1. FileMatchesMemory /\ TurnIsMarked
    BY DEF FileMatchesMemory, TurnIsMarked, AtRest, Disk, Threads
  <2>2. NoSecondTurn
    <3>1. DOMAIN handled \subseteq Nat
      BY TypedIs DEF QueueTyped
    <3>2. \A i, j \in DOMAIN handled : i < j => handled[i] # handled[j]
      BY DEF Line, chain, clear
    <3> QED BY <3>1, <3>2 DEF NoSecondTurn
  <2> QED BY <2>1, <2>2 DEF FileIsSound
<1> QED BY <1>1, LineInvariant, PTL

(***************************************************************************)
(* Under the same conditions the agent gets what a person writes on one    *)
(* channel in the order it was written.                                    *)
(***************************************************************************)
THEOREM UserOrderIsKept == Solo => (Spec => []UserOrder)
<1> SUFFICES ASSUME Solo PROVE Spec => []UserOrder
  OBVIOUS
<1>1. Typed /\ Line => UserOrder
  <2> SUFFICES ASSUME Typed, Line,
                      NEW i \in DOMAIN order, NEW j \in DOMAIN order,
                      NEW a \in DOMAIN handled, NEW b \in DOMAIN handled,
                      order[i] = handled[a], order[j] = handled[b],
                      KindOf[order[i]] = "user", KindOf[order[j]] = "user",
                      ChanOf[order[i]] = ChanOf[order[j]], i < j
               PROVE  a < b
    BY DEF UserOrder
  <2>1. order \in Seq(Messages) /\ DOMAIN order \subseteq Nat /\ DOMAIN handled \subseteq Nat
    BY TypedIs DEF QueueTyped
  <2>2. follows(order, handled[a], handled[b])
    BY DEF follows
  <2>3. ~follows(order, handled[b], handled[a]) /\ handled[a] # handled[b]
    BY <2>1, <2>2, FollowsStrict DEF Line
  <2>4. ~(b < a)
    BY <2>3 DEF Line, chain, clear
  <2> QED BY <2>1, <2>3, <2>4
<1> QED BY <1>1, LineInvariant, PTL

-----------------------------------------------------------------------------
(* Where the messages are, while the process lives. *)

(* No other goroutine writes the file before LoadPersisted has read it. *)
LoadsFirst == pc = "boot" => \A p \in Pushers : io[p] # "write"

taken == IF pc = "return" THEN cur ELSE <<>>

(* Four sets share out those messages that have arrived. *)
apart(A, B, C, D, F) ==
    /\ A \cap B = {} /\ A \cap C = {} /\ A \cap D = {}
    /\ B \cap C = {} /\ B \cap D = {} /\ C \cap D = {}
    /\ A \cup B \cup C \cup D = Messages \ F

(* With no restart the queue is loaded once, from an empty file. *)
Loading == loaded = EmptyFile /\ (pc = "boot" => file = EmptyFile /\ io[Agent] = "none")

Places ==
    /\ unrepeated(input) /\ unrepeated(messages) /\ unrepeated(taken) /\ unrepeated(handled)
    /\ apart(ToSet(input), ToSet(messages), ToSet(taken), ToSet(handled), fresh)

Placed == Loading /\ Places /\ DebounceHasBatch

LEMMA OneMessage ==
    ASSUME NEW m \in Messages
    PROVE  unrepeated(<<m>>) /\ ToSet(<<m>>) = {m} /\ unrepeated(<<>>) /\ ToSet(<<>>) = {}
           /\ <<m>> \in Seq(Messages) /\ <<>> \in Seq(Messages)
<1>1. DOMAIN <<m>> = {1} /\ <<m>>[1] = m /\ DOMAIN <<>> = {}
  OBVIOUS
<1> QED BY <1>1, ToSetEmpty DEF unrepeated, ToSet

LEMMA LoadingStep ==
    ASSUME MaxRestarts = 0, Typed, Loading, LoadsFirst, [Next]_vars
    PROVE  Loading' /\ ~NextCancelled /\ ~Crash
<1>1. ~NextCancelled /\ ~Crash
  BY DEF Typed, TypeOK, NextCancelled, Crash
<1>2. Agent \in Threads /\ io \in IoType
  BY TypedIs DEF Threads, QueueTyped
<1>0. SUFFICES Loading'
  BY <1>1
<1>3. CASE UNCHANGED vars
  BY <1>3 DEF vars, Loading, EmptyFile
<1>4. CASE AgentStep
  <2>1. LoadSet => loaded' = EmptyFile /\ pc' # "boot"
    BY DEF LoadSet
  <2> QED BY <1>4, <2>1 DEF AgentStep, Loading, EmptyFile, AgentAt, LoadRead, AutoResume,
              NextPeek, tryDequeue, idleNotifyForQueued, SelectIdle, SelectNotify, coalesceBatch, NextReturns,
              TurnStarts, TurnFinishes, ClearInterrupted, TurnEnds
<1>5. CASE ReadInput
  BY <1>5 DEF ReadInput, SelectInput, TurnReadsInput, AgentAt, Loading, EmptyFile
<1>6. CASE \E t \in Threads : Persist(t)
  <2>1. PICK t \in Threads : Persist(t)
    BY <1>6
  <2>2. UNCHANGED <<pc, loaded>>
    BY <2>1 DEF Persist, persistSnapshot, persistTruncate, persistWrite, persistFails, nextVars
  <2>3. CASE pc = "boot"
    <3>1. t # Agent /\ io[t] # "write"
      BY <2>1, <2>3 DEF Persist, persistSnapshot, persistTruncate, persistWrite, persistFails,
                        Loading, LoadsFirst, Threads
    <3>2. persistSnapshot(t) \/ persistTruncate(t)
      BY <2>1, <3>1 DEF Persist, persistWrite, persistFails
    <3>3. file' \in {file, EmptyFile} /\ io'[Agent] = io[Agent]
      BY <1>2, <3>1, <3>2 DEF persistSnapshot, persistTruncate, IoType
    <3> QED BY <2>2, <2>3, <3>3 DEF Loading, EmptyFile
  <2> QED BY <2>2, <2>3 DEF Loading, EmptyFile
<1>7. CASE \E p \in Pushers, m \in Messages : PushExternal(p, m)
  <2>1. PICK p \in Pushers, m \in Messages : PushExternal(p, m)
    BY <1>7
  <2>2. p # Agent /\ file' = file /\ pc' = pc /\ loaded' = loaded
        /\ io' = [io EXCEPT ![p] = "lock"]
    BY <2>1, QueueAssumption DEF PushExternal, Push, beginPersist, nextVars
  <2>3. io'[Agent] = io[Agent]
    BY <1>2, <2>2 DEF IoType
  <2> QED BY <2>2, <2>3 DEF Loading, EmptyFile
<1>8. CASE \/ \E m \in Messages : BridgeForward(m)
           \/ \E c \in Channels : BridgeIntercept(c) \/ TimePasses(c) \/ TrackerCallback(c)
  BY <1>8 DEF BridgeForward, BridgeIntercept, TimePasses, TrackerCallback, ioVars, nextVars,
              Loading, EmptyFile
<1> QED BY <1>1, <1>3, <1>4, <1>5, <1>6, <1>7, <1>8 DEF Next

(* The arrivals. *)
LEMMA ArrivalPlaces ==
    ASSUME Typed, Places,
           \/ \E p \in Pushers, m \in Messages : PushExternal(p, m)
           \/ \E m \in Messages : BridgeForward(m)
    PROVE  Places'
<1>0. messages \in Seq(Messages) /\ fresh \subseteq Messages
  BY TypedIs DEF QueueTyped
<1>1. CASE \E p \in Pushers, m \in Messages : PushExternal(p, m)
  <2>1. PICK p \in Pushers, m \in Messages : PushExternal(p, m)
    BY <1>1
  <2>2. /\ m \in fresh /\ fresh' = fresh \ {m} /\ messages' = Append(messages, m)
        /\ UNCHANGED <<input, handled, pc, cur>>
    BY <2>1 DEF PushExternal, Push, nextVars
  <2>3. m \notin ToSet(messages)
    BY <2>2 DEF Places, apart
  <2>4. unrepeated(messages') /\ ToSet(messages') = ToSet(messages) \cup {m}
    BY <1>0, <2>2, <2>3, UnrepeatedAppend, ToSetAppend DEF Places
  <2>5. taken' = taken
    BY <2>2 DEF taken
  <2> QED BY <2>2, <2>4, <2>5 DEF Places, apart
<1>2. CASE \E m \in Messages : BridgeForward(m)
  <2>1. PICK m \in Messages : BridgeForward(m)
    BY <1>2
  <2>2. /\ m \in fresh /\ fresh' = fresh \ {m} /\ input = <<>> /\ input' = <<m>>
        /\ UNCHANGED <<messages, handled, pc, cur>>
    BY <2>1 DEF BridgeForward, queueVars, nextVars
  <2>3. ToSet(input) = {} /\ ToSet(input') = {m} /\ unrepeated(input')
    BY <2>2, OneMessage
  <2>4. taken' = taken
    BY <2>2 DEF taken
  <2> QED BY <2>2, <2>3, <2>4 DEF Places, apart
<1> QED BY <1>1, <1>2

(* The agent takes from the input what the bridge handed on. *)
LEMMA ReadPlaces ==
    ASSUME Typed, Places, ReadInput
    PROVE  Places'
<1> DEFINE m == Head(input)
<1>0. messages \in Seq(Messages) /\ input \in Seq(Messages) /\ handled \in Seq(Messages)
  BY TypedIs DEF QueueTyped
<1>1. /\ input # <<>> /\ input' = Tail(input) /\ fresh' = fresh
      /\ pc # "return" /\ pc' # "return"
      /\ \/ handled' = handled /\ messages' = Append(messages, m)
         \/ messages' = messages /\ handled' = Append(handled, m)
  BY DEF ReadInput, SelectInput, TurnReadsInput, AgentAt, Push, queueVars, histVars
<1>2. /\ m \in Messages /\ ToSet(input) = {m} \cup ToSet(input') /\ m \notin ToSet(input')
      /\ unrepeated(input')
  BY <1>0, <1>1, HeadTail DEF Places
<1>3. taken = <<>> /\ taken' = <<>>
  BY <1>1 DEF taken
<1> HIDE DEF m
<1>4. m \notin ToSet(messages) /\ m \notin ToSet(handled)
  BY <1>2 DEF Places, apart
<1>5. CASE handled' = handled /\ messages' = Append(messages, m)
  <2>1. unrepeated(messages') /\ ToSet(messages') = ToSet(messages) \cup {m}
    BY <1>0, <1>2, <1>4, <1>5, UnrepeatedAppend, ToSetAppend DEF Places
  <2> QED BY <1>1, <1>2, <1>3, <1>5, <2>1 DEF Places, apart
<1>6. CASE messages' = messages /\ handled' = Append(handled, m)
  <2>1. unrepeated(handled') /\ ToSet(handled') = ToSet(handled) \cup {m}
    BY <1>0, <1>2, <1>4, <1>6, UnrepeatedAppend, ToSetAppend DEF Places
  <2> QED BY <1>1, <1>2, <1>3, <1>6, <2>1 DEF Places, apart
<1> QED BY <1>1, <1>5, <1>6

(* Next takes one message, or the batch of a debounce window. *)
LEMMA TakePlaces ==
    ASSUME Typed, Places, tryDequeue \/ coalesceBatch
    PROVE  Places'
<1>0. messages \in Seq(Messages)
  BY TypedIs DEF QueueTyped
<1>1. /\ pc # "return" /\ UNCHANGED <<input, handled, fresh>> /\ taken = <<>>
      /\ ToSet(taken) = {}
  BY ToSetEmpty DEF tryDequeue, coalesceBatch, AgentAt, histVars, taken
<1>2. SUFFICES ASSUME messages' # messages \/ pc' = "return"
               PROVE  /\ unrepeated(messages') /\ unrepeated(taken')
                      /\ ToSet(messages) = ToSet(messages') \cup ToSet(taken')
                      /\ ToSet(messages') \cap ToSet(taken') = {}
  <2>1. CASE messages' # messages \/ pc' = "return"
    BY <1>1, <1>2, <2>1 DEF Places, apart
  <2>2. CASE messages' = messages /\ pc' # "return"
    <3>1. taken' = taken
      BY <1>1, <2>2 DEF taken
    <3> QED BY <1>1, <2>2, <3>1 DEF Places, apart
  <2> QED BY <2>1, <2>2
<1>3. CASE tryDequeue
  <2> DEFINE i == dequeueIndex(messages)
  <2>1. i # 0 /\ messages' = RemoveAt(messages, i) /\ cur' = <<messages[i]>> /\ pc' = "return"
    BY <1>2, <1>3 DEF tryDequeue
  <2>2. i \in DOMAIN messages
    BY <1>0, <2>1, DequeueIndex
  <2>3. taken' = <<messages[i]>>
    BY <2>1 DEF taken
  <2> HIDE DEF i
  <2>4. messages[i] \in Messages
    BY <1>0, <2>2
  <2>5. unrepeated(taken') /\ ToSet(taken') = {messages[i]}
    BY <2>3, <2>4, OneMessage
  <2>6. /\ unrepeated(messages') /\ messages[i] \notin ToSet(messages')
        /\ ToSet(messages) = ToSet(messages') \cup {messages[i]}
    BY <1>0, <2>1, <2>2, UnrepeatedRemoved, Removed DEF Places
  <2> QED BY <2>5, <2>6
<1>4. CASE coalesceBatch
  <2> DEFINE P == batched(messages, batchChan)
             R == DOMAIN messages \ P
             at(Q) == {messages[k] : k \in Q}
  <2>1. /\ cur' = elementsAt(messages, P) /\ messages' = elementsAt(messages, R)
        /\ pc' = "return"
    BY <1>4 DEF coalesceBatch, batchOf, keptAfter
  <2>2. taken' = elementsAt(messages, P)
    BY <2>1 DEF taken
  <2>3. P \in SUBSET (DOMAIN messages) /\ R \in SUBSET (DOMAIN messages)
    BY DEF batched
  <2>4. unrepeated(messages)
    BY DEF Places
  <2> HIDE DEF P
  <2>5. /\ ToSet(taken') = at(P) /\ unrepeated(taken')
        /\ at(P) \cap at(R) = {} /\ ToSet(messages) = at(P) \cup at(R)
    BY <1>0, <2>2, <2>3, <2>4, Parted
  <2>6. ToSet(messages') = at(R) /\ unrepeated(messages')
    BY <1>0, <2>1, <2>3, <2>4, Parted
  <2> QED BY <2>5, <2>6
<1> QED BY <1>3, <1>4

(* The agent gets what Next took. *)
LEMMA ReturnPlaces ==
    ASSUME Typed, Places, NextReturns
    PROVE  Places'
<1>0. cur \in Seq(Messages) /\ handled \in Seq(Messages)
  BY TypedIs DEF QueueTyped
<1>1. /\ pc = "return" /\ pc' # "return" /\ handled' = handled \o cur
      /\ UNCHANGED <<input, messages, fresh>>
  BY DEF NextReturns, AgentAt, queueVars
<1>2. taken = cur /\ taken' = <<>> /\ ToSet(taken') = {} /\ unrepeated(taken')
  BY <1>1, ToSetEmpty DEF taken, unrepeated
<1>3. unrepeated(handled') /\ ToSet(handled') = ToSet(handled) \cup ToSet(cur)
  BY <1>0, <1>1, <1>2, UnrepeatedConcat, ToSetConcat DEF Places, apart
<1> QED BY <1>1, <1>2, <1>3 DEF Places, apart

(* No other step moves a message. *)
LEMMA PlacesStep ==
    ASSUME Typed, Places, Loading, ~NextCancelled, ~Crash, [Next]_vars
    PROVE  Places'
<1>1. ASSUME UNCHANGED <<input, messages, handled, fresh>>,
             \/ pc' = pc /\ cur' = cur
             \/ pc # "return" /\ pc' # "return"
      PROVE  Places'
  <2>1. taken' = taken
    BY <1>1 DEF taken
  <2> QED BY <1>1, <2>1 DEF Places, apart
<1>2. CASE UNCHANGED vars
  BY <1>1, <1>2 DEF vars
<1>3. CASE AgentStep
  <2>1. CASE \/ LoadRead \/ AutoResume \/ NextPeek \/ idleNotifyForQueued \/ SelectIdle
             \/ SelectNotify \/ TurnStarts \/ TurnFinishes \/ ClearInterrupted \/ TurnEnds
    BY <1>1, <2>1 DEF LoadRead, AutoResume, NextPeek, idleNotifyForQueued, SelectIdle,
         SelectNotify, TurnStarts, TurnFinishes, ClearInterrupted, TurnEnds, AgentAt,
         queueVars, histVars
  <2>2. CASE LoadSet
    <3>1. loaded.is # "state"
      BY DEF Loading, EmptyFile
    <3> QED BY <1>1, <2>2, <3>1 DEF LoadSet, AgentAt, histVars
  <2> QED BY <1>3, <2>1, <2>2, TakePlaces, ReturnPlaces DEF AgentStep
<1>4. CASE \E t \in Threads : Persist(t)
  BY <1>1, <1>4 DEF Persist, persistSnapshot, persistTruncate, persistWrite, persistFails,
       queueVars, nextVars, histVars
<1>5. CASE \E c \in Channels : BridgeIntercept(c) \/ TimePasses(c) \/ TrackerCallback(c)
  BY <1>1, <1>5 DEF BridgeIntercept, TimePasses, TrackerCallback, queueVars, nextVars, histVars
<1> QED BY <1>2, <1>3, <1>4, <1>5, ArrivalPlaces, ReadPlaces DEF Next

(* A message that the window is open for stays queued until it closes. *)
LEMMA DebounceStep ==
    ASSUME Typed, DebounceHasBatch, ~NextCancelled, ~Crash, [Next]_vars
    PROVE  DebounceHasBatch'
<1>0. messages \in Seq(Messages) /\ input \in Seq(Messages)
  BY TypedIs DEF QueueTyped
<1> DEFINE opens(q, c) == \E i \in DOMAIN q : ChanOf[q[i]] = c /\ isBatchable(q[i])
<1>1. SUFFICES ASSUME pc' = "debounce" PROVE opens(messages', batchChan')
  BY DEF DebounceHasBatch, isBatchable, isUserMessage, isControlMessage
<1>2. CASE NextPeek
  <2> DEFINE i == dequeueIndex(messages)
  <2>1. i # 0 /\ isBatchable(messages[i]) /\ batchChan' = ChanOf[messages[i]]
        /\ messages' = messages
    BY <1>1, <1>2 DEF NextPeek, opensDebounce, queueVars
  <2>2. i \in DOMAIN messages
    BY <1>0, <2>1, DequeueIndex
  <2> QED BY <2>1, <2>2
<1>3. CASE ~NextPeek
  <2>1. pc = "debounce" /\ batchChan' = batchChan
        /\ (messages' = messages \/ \E m \in Messages : messages' = Append(messages, m))
    <3>1. CASE UNCHANGED vars
      BY <1>1, <3>1 DEF vars
    <3>2. CASE AgentStep
      BY <1>1, <1>3, <3>2
         DEF AgentStep, AgentAt, LoadRead, LoadSet, AutoResume, tryDequeue,
             idleNotifyForQueued, SelectIdle, SelectNotify, coalesceBatch, NextReturns,
             TurnStarts, TurnFinishes, ClearInterrupted, TurnEnds
    <3>3. CASE ReadInput
      <4>1. input # <<>>
        BY <3>3 DEF ReadInput, SelectInput, TurnReadsInput
      <4>2. Head(input) \in Messages
        BY <1>0, <4>1
      <4>3. CASE SelectInput
        BY <1>1, <4>2, <4>3 DEF SelectInput, AgentAt, Push
      <4>4. CASE TurnReadsInput
        BY <1>1, <4>4 DEF TurnReadsInput, AgentAt
      <4> QED BY <3>3, <4>3, <4>4 DEF ReadInput
    <3>4. CASE \E t \in Threads : Persist(t)
      BY <1>1, <3>4 DEF Persist, persistSnapshot, persistTruncate, persistWrite, persistFails,
                        queueVars, nextVars
    <3>5. CASE \E p \in Pushers, m \in Messages : PushExternal(p, m)
      BY <1>1, <3>5 DEF PushExternal, Push, nextVars
    <3>6. CASE \/ \E m \in Messages : BridgeForward(m)
               \/ \E c \in Channels : BridgeIntercept(c) \/ TimePasses(c) \/ TrackerCallback(c)
      BY <1>1, <3>6 DEF BridgeForward, BridgeIntercept, TimePasses, TrackerCallback, queueVars,
                        nextVars
    <3> QED BY <3>1, <3>2, <3>3, <3>4, <3>5, <3>6 DEF Next
  <2>2. PICK i \in DOMAIN messages : ChanOf[messages[i]] = batchChan /\ isBatchable(messages[i])
    BY <2>1 DEF DebounceHasBatch
  <2>3. i \in DOMAIN messages' /\ messages'[i] = messages[i]
    BY <1>0, <2>1, <2>2
  <2> QED BY <2>1, <2>2, <2>3
<1> QED BY <1>2, <1>3

LEMMA PlacedInvariant == MaxRestarts = 0 => (Spec /\ []LoadsFirst => [](Typed /\ Placed))
<1> SUFFICES ASSUME MaxRestarts = 0 PROVE Spec /\ []LoadsFirst => [](Typed /\ Placed)
  OBVIOUS
<1>1. Init => Placed
  <2> SUFFICES ASSUME Init PROVE Placed
    OBVIOUS
  <2>1. /\ messages = <<>> /\ handled = <<>> /\ input = <<>> /\ taken = <<>> /\ fresh = Messages
    BY DEF Init, taken
  <2>2. ToSet(<<>>) = {} /\ unrepeated(<<>>)
    BY ToSetEmpty DEF unrepeated
  <2>3. Places
    BY <2>1, <2>2 DEF Places, apart
  <2>4. Loading /\ DebounceHasBatch
    BY DEF Init, Loading, DebounceHasBatch, Threads
  <2> QED BY <2>3, <2>4 DEF Placed
<1>2. Typed /\ Placed /\ LoadsFirst /\ [Next]_vars => Placed'
  <2> SUFFICES ASSUME Typed, Placed, LoadsFirst, [Next]_vars PROVE Placed'
    OBVIOUS
  <2>1. Loading' /\ ~NextCancelled /\ ~Crash
    BY LoadingStep DEF Placed
  <2>2. Places' /\ DebounceHasBatch'
    BY <2>1, PlacesStep, DebounceStep DEF Placed
  <2> QED BY <2>1, <2>2 DEF Placed
<1> QED BY <1>1, <1>2, TypedInvariant, PTL DEF Spec

(* Without repetition a message occurs once or not at all. *)
LEMMA OccursOnce ==
    ASSUME NEW s \in Seq(Messages), unrepeated(s), NEW m
    PROVE  Occurrences(s, m) = IF m \in ToSet(s) THEN 1 ELSE 0
<1> DEFINE I == {i \in DOMAIN s : s[i] = m}
<1>1. CASE m \in ToSet(s)
  <2>1. PICK i \in DOMAIN s : s[i] = m
    BY <1>1, InToSet
  <2>2. I = {i}
    BY <2>1 DEF unrepeated
  <2> QED BY <1>1, <2>2, FS_Singleton DEF Occurrences
<1>2. CASE m \notin ToSet(s)
  <2>1. I = {}
    BY <1>2, InToSet
  <2> QED BY <1>2, <2>1, FS_EmptySet DEF Occurrences
<1> QED BY <1>1, <1>2

(***************************************************************************)
(* While no restart happens, whatever other goroutines push and whichever  *)
(* writes fail, every message that arrived is in exactly one place, and a  *)
(* debounce window that closes finds a batch.  Only the loading of the     *)
(* file could do harm, when another goroutine has written to it before.    *)
(***************************************************************************)
THEOREM EveryMessageIsInOnePlace == MaxRestarts = 0 => (Spec /\ []LoadsFirst => []QueueOK)
<1> SUFFICES ASSUME MaxRestarts = 0 PROVE Spec /\ []LoadsFirst => []QueueOK
  OBVIOUS
<1>1. Typed /\ Placed => QueueOK
  <2> SUFFICES ASSUME Typed, Placed PROVE QueueOK
    OBVIOUS
  <2>1. TypeOK /\ DebounceHasBatch /\ Places
    BY DEF Typed, Placed
  <2>2. ExactlyOnce
    <3> SUFFICES ASSUME NEW m \in Messages
                 PROVE  Occurrences(input, m) + Occurrences(messages, m)
                          + Occurrences(handled, m)
                          + (IF pc = "return" THEN Occurrences(cur, m) ELSE 0)
                          = IF m \in fresh THEN 0 ELSE 1
      BY DEF ExactlyOnce
    <3> DEFINE one(s) == IF m \in ToSet(s) THEN 1 ELSE 0
    <3>1. /\ input \in Seq(Messages) /\ messages \in Seq(Messages)
          /\ handled \in Seq(Messages) /\ cur \in Seq(Messages)
      BY TypedIs DEF QueueTyped
    <3>2. /\ Occurrences(input, m) = one(input) /\ Occurrences(messages, m) = one(messages)
          /\ Occurrences(handled, m) = one(handled)
      BY <2>1, <3>1, OccursOnce DEF Places
    <3>3. (IF pc = "return" THEN Occurrences(cur, m) ELSE 0) = one(taken)
      <4>1. CASE pc = "return"
        BY <2>1, <3>1, <4>1, OccursOnce DEF Places, taken
      <4>2. CASE pc # "return"
        BY <4>2, ToSetEmpty DEF taken
      <4> QED BY <4>1, <4>2
    <3>4. one(input) + one(messages) + one(handled) + one(taken) = IF m \in fresh THEN 0 ELSE 1
      BY <2>1 DEF Places, apart
    <3> QED BY <3>2, <3>3, <3>4
  <2> QED BY <2>1, <2>2 DEF QueueOK
<1> QED BY <1>1, PlacedInvariant, PTL

=============================================================================
