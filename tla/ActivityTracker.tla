--------------------------- MODULE ActivityTracker ---------------------------
(***************************************************************************)
(* The per-channel activity tracker, internal/channel/activity.go.         *)
(*                                                                         *)
(* A channel is busy while a turn runs on it, or for DefaultIdleTimeout    *)
(* after its last inbound message.  The queue asks to be told when a busy  *)
(* channel becomes idle (NotifyIdle) and the tracker closes the waiters it *)
(* handed out, from TurnEnded or from a timer it arms for the moment the   *)
(* cooldown ends.                                                          *)
(*                                                                         *)
(* Time is abstracted to the one thing the code asks of it: "recent" says  *)
(* that time.Since(lastMessageAt) < DefaultIdleTimeout.  Every handler     *)
(* that moves lastMessageAt also cancels the timer, so a pending timer     *)
(* always runs out exactly when "recent" does.                             *)
(***************************************************************************)
CONSTANT Channels

VARIABLES
    act,    \* t.entries: the in-memory record of each channel
    saved   \* lastMessageAt as RuntimeStateStore holds it on disk

activityVars == <<act, saved>>

(***************************************************************************)
(* known: the entry exists.  idleWaiters: the list of waiters is not empty *)
(* (signalWaiters closes all of them, so only emptiness matters).          *)
(* idleTimer: the *time.Timer field, which stays non-nil ("fired") after   *)
(* the timer ran out.  callback: the AfterFunc goroutine was started and   *)
(* still waits for t.mu.                                                   *)
(***************************************************************************)
ChannelActivity ==
    [known: BOOLEAN, processing: BOOLEAN, recent: BOOLEAN,
     idleWaiters: BOOLEAN, idleTimer: {"nil", "pending", "fired"},
     callback: BOOLEAN]

NoEntry ==
    [known |-> FALSE, processing |-> FALSE, recent |-> FALSE,
     idleWaiters |-> FALSE, idleTimer |-> "nil", callback |-> FALSE]

SavedActivity == {"none", "recent", "old"}

ActivityTypeOK ==
    /\ act \in [Channels -> ChannelActivity]
    /\ saved \in [Channels -> SavedActivity]

ActivityInit ==
    /\ act = [c \in Channels |-> NoEntry]
    /\ saved = [c \in Channels |-> "none"]

-----------------------------------------------------------------------------
(* What each method does to one entry, with t.mu held. *)

isBusy(e) == e.processing \/ e.recent

(* Seeded fault: the timer is stopped, and the field is not set to nil. *)
cancelKeepsField(e) == IF e.idleTimer = "nil" THEN e ELSE [e EXCEPT !.idleTimer = "fired"]

cancelIdleTimer(e) == [e EXCEPT !.idleTimer = "nil"]

signalWaiters(e) == [e EXCEPT !.idleWaiters = FALSE]

scheduleIdleCheck(e) ==
    LET stopped == cancelIdleTimer(e)
    IN  IF ~stopped.idleWaiters THEN stopped
        ELSE IF ~stopped.recent THEN signalWaiters(stopped)
        ELSE [stopped EXCEPT !.idleTimer = "pending"]

Received(e) == cancelIdleTimer([e EXCEPT !.known = TRUE, !.recent = TRUE])

Started(e) == cancelIdleTimer([e EXCEPT !.known = TRUE, !.processing = TRUE])

(* Seeded fault: the end of a turn schedules no idle check. *)
EndedUnscheduled(e) == [e EXCEPT !.known = TRUE, !.processing = FALSE]

Ended(e) == scheduleIdleCheck([e EXCEPT !.known = TRUE, !.processing = FALSE])

(* Seeded fault: a waiter added during the cooldown arms no timer. *)
AwaitedUnarmed(e) ==
    IF ~e.known \/ ~isBusy(e) THEN e ELSE [e EXCEPT !.idleWaiters = TRUE]

(***************************************************************************)
(* NotifyIdle on an unknown or idle channel returns a closed channel and   *)
(* leaves the entry alone.                                                 *)
(***************************************************************************)
Awaited(e) ==
    LET waiting == [e EXCEPT !.idleWaiters = TRUE]
    IN  IF ~e.known \/ ~isBusy(e) THEN e
        ELSE IF ~e.processing /\ e.idleTimer = "nil"
             THEN scheduleIdleCheck(waiting)
             ELSE waiting

(* The passing of time: the cooldown ends, and the timer armed for it fires. *)
Cooled(e) == [e EXCEPT !.recent = FALSE]
Fired(e) == [e EXCEPT !.idleTimer = "fired", !.callback = TRUE]

(* The body of the AfterFunc goroutine. *)
TimerCallback(e) ==
    LET ran == [e EXCEPT !.callback = FALSE]
    IN  IF isBusy(ran) THEN ran ELSE signalWaiters(ran)

(***************************************************************************)
(* An entry whose waiter nothing inside the tracker will ever wake: no     *)
(* turn whose end would schedule a check, and no timer.                    *)
(***************************************************************************)
Stranded(e) == e.idleWaiters /\ ~e.processing /\ e.idleTimer = "nil"

-----------------------------------------------------------------------------
(* The methods as actions on the tracker. *)

IsBusy(c) == act[c].known /\ isBusy(act[c])

(***************************************************************************)
(* The timestamp is persisted after the unlock, best effort: the process   *)
(* may die first and a failing write is only logged.                       *)
(***************************************************************************)
persistActivity(c) ==
    \/ saved' = [saved EXCEPT ![c] = "recent"]
    \/ UNCHANGED saved

MessageReceivedFrom(c) ==
    /\ act' = [act EXCEPT ![c] = Received(@)]
    /\ persistActivity(c)

(* OnTurnStart calls MessageReceived, then TurnStarted, on one channel. *)
ReceivedAndStarted(c) ==
    /\ act' = [act EXCEPT ![c] = Started(Received(@))]
    /\ persistActivity(c)

TurnEnded(c) ==
    /\ act' = [act EXCEPT ![c] = Ended(@)]
    /\ UNCHANGED saved

NotifyIdle(cs) ==
    /\ act' = [c \in Channels |-> IF c \in cs THEN Awaited(act[c]) ELSE act[c]]
    /\ UNCHANGED saved

(***************************************************************************)
(* DefaultIdleTimeout passes since the last message.  A callback that      *)
(* waits for t.mu never waits for as long as a whole cooldown.             *)
(***************************************************************************)
CooldownElapses(c) ==
    /\ act[c].recent \/ saved[c] = "recent"
    /\ ~act[c].callback
    /\ act' = [act EXCEPT ![c] = Cooled(@)]
    /\ saved' = [saved EXCEPT ![c] = IF @ = "recent" THEN "old" ELSE @]

IdleTimerExpires(c) ==
    /\ act[c].idleTimer = "pending"
    /\ ~act[c].recent
    /\ act' = [act EXCEPT ![c] = Fired(@)]
    /\ UNCHANGED saved

IdleTimerCallback(c) ==
    /\ act[c].callback
    /\ act' = [act EXCEPT ![c] = TimerCallback(@)]
    /\ UNCHANGED saved

(* A new process: NewPersistedActivityTracker rebuilds the entries from disk. *)
NewPersistedActivityTracker ==
    /\ act' = [c \in Channels |->
                 IF saved[c] = "none" THEN NoEntry
                 ELSE [NoEntry EXCEPT !.known = TRUE,
                                      !.recent = (saved[c] = "recent")]]
    /\ UNCHANGED saved

=============================================================================
