---------------------------- MODULE Notifications ----------------------------
(***************************************************************************)
(* Push notifications: the subscription manager (notification/manager.go,  *)
(* store.go), the tools that subscribe and unsubscribe, and the one        *)
(* notifier there is, the Gmail poller (tool/google/notifier.go).          *)
(*                                                                         *)
(* All subscriptions watch one mailbox.  An email is its place in the      *)
(* mailbox's history, a history identifier the number of emails so far.    *)
(* Every subscription has a poller goroutine and a cursor; the set of      *)
(* emails already notified ("seen") is one per account, ordered and        *)
(* capped.  Operations of the subscription store are one step here: the    *)
(* window between its read and its write is the subject of Schedules.      *)
(* A failing call to Gmail changes nothing and is tried at the next poll.  *)
(* Left open, a choice at each use: whether the notifier is registered     *)
(* (its credentials are ready), whether the channel's name resolves (the   *)
(* channel map is empty until the router's first iteration, and a channel  *)
(* may be deleted), and whether an email still exists when it is read.     *)
(***************************************************************************)
EXTENDS Integers, FiniteSets, FiniteSetsExt, Sequences, SequencesExt

CONSTANTS
    Subs,          \* subscription identifiers
    OneShots,      \* those of scope one_shot
    Stored,        \* those the process finds persisted when it first boots
    Unset,
    MaxMail,       \* bound on emails
    PageCap,       \* emails one poll can page through: historyPageSize * maxHistoryPages
    MaxSeen,       \* maxSeenMessageIDs
    MaxMishaps     \* bound on failing writes and restarts together

ASSUME NotificationsAssumption ==
    /\ IsFiniteSet(Subs) /\ OneShots \subseteq Subs /\ Stored \subseteq Subs
    /\ PageCap \in Nat \ {0} /\ MaxSeen \in Nat \ {0}
    /\ MaxMail \in Nat /\ MaxMishaps \in Nat
    /\ Unset \notin Int

VARIABLES
    mail,          \* emails that have arrived
    subs,          \* the persisted subscriptions
    cursors,       \* the persisted history cursors
    seen,          \* the persisted seen set, oldest first
    poller,        \* per subscription: its poll loop
    delivered,     \* emitters that have fired while their Subscribe runs
    cancels,       \* Manager.cancels
    call,          \* per subscription: the tool call that works on it
    resub,         \* what resubscribeAll has still to do, and the one it is at
    used,          \* identifiers handed out
    mishaps,
    start,         \* history: the cursor a subscription was seeded with
    fate,          \* history: per email, new, told, or passed over unsent
    repeats,       \* history: notifications of emails that had been told before
    blurred,       \* history: emails two pollers held at once, or the cap pushed out of seen
    cuts           \* history: pollers a crash cut off between emit and reserve

fileVars == <<subs, cursors, seen>>
managerVars == <<cancels, call, resub, used>>
histVars == <<start, fate, repeats, blurred, cuts>>
notificationVars == <<mail, subs, cursors, seen, poller, delivered, cancels,
          call, resub, used, mishaps, start, fate, repeats, blurred, cuts>>

Emails == 1 .. MaxMail

NoPoller == [pc |-> "none", ctx |-> "done", cursor |-> Unset, todo |-> {}, to |-> Unset]

mishap == mishaps < MaxMishaps /\ mishaps' = mishaps + 1

-----------------------------------------------------------------------------
(* The poll loop. *)

(* startPolling: the loop reads its cursor and lives as long as its context. *)
started(ctx, cursor) ==
    [pc |-> "wait", ctx |-> ctx, cursor |-> cursor, todo |-> {}, to |-> Unset]

(* A loop whose context is done finishes the emails it holds, then exits. *)
cancelled(p) == IF p.pc = "wait" THEN NoPoller ELSE [p EXCEPT !.ctx = "done"]

stopped(s) == [poller EXCEPT ![s] = cancelled(@)]

(* cancelOne: a watcher the manager does not know yet is not stopped. *)
cancelOne(s) ==
    /\ cancels' = cancels \ {s}
    /\ poller' = IF s \in cancels THEN stopped(s) ELSE poller

(* A loop without a cursor takes the mailbox's current history for one. *)
PollSeeds(s) ==
    /\ poller[s].pc = "wait" /\ poller[s].cursor = Unset
    /\ poller' = [poller EXCEPT ![s].cursor = mail]
    /\ cursors' = [cursors EXCEPT ![s] = mail]
    /\ start' = [start EXCEPT ![s] = mail]
    /\ UNCHANGED <<mail, managerVars, subs, seen, delivered, mishaps, fate, repeats, blurred, cuts>>

(* Seeded fault: the cursor moves on although pages are left. *)
nextCursorSkips(from) == mail

(* fetchHistory: the history since a cursor, whose own record may repeat, as *)
(* far as the page cap goes; with pages left the cursor is held.             *)
fetched(from) == {e \in from .. mail : e < from + PageCap}
nextCursor(from) == IF from + PageCap <= mail THEN Unset ELSE mail

(* filterSeen *)
fresh(from) == fetched(from) \ ToSet(seen)

(* Emails are dealt with in the order of the history. *)
isNext(s, e) == e \in poller[s].todo /\ \A f \in poller[s].todo : e <= f

(* advanceCursor: Unset holds the cursor.                                  *)
Advances(s, todo, to) ==
    IF todo = {}
    THEN LET c == IF to = Unset THEN poller[s].cursor ELSE to
         IN  /\ poller' = [poller EXCEPT ![s] = IF @.ctx = "done" THEN NoPoller
                                                                  ELSE started(@.ctx, c)]
             /\ cursors' = [cursors EXCEPT ![s] = IF to = Unset THEN @ ELSE to]
    ELSE /\ poller' = [poller EXCEPT ![s].pc = "emit", ![s].todo = todo, ![s].to = to]
         /\ UNCHANGED cursors

(* poll: fetch, compare with the seen set, release its lock. *)
PollFetches(s) ==
    /\ poller[s].pc = "wait" /\ poller[s].cursor # Unset
    /\ \E from \in {poller[s].cursor, poller[s].cursor + 1} \ {0} :
           /\ Advances(s, fresh(from), nextCursor(from))
           /\ blurred' = blurred \cup
                  {e \in fresh(from) : \E t \in Subs \ {s} : e \in poller[t].todo}
    /\ UNCHANGED <<mail, managerVars, subs, seen, delivered, mishaps,
                   start, fate, repeats, cuts>>

leftUntold(e) == [fate EXCEPT ![e] = IF @ = "told" THEN @ ELSE "unsent"]

(* Emit and deliver.  A channel that cannot be resolved drops the message, *)
(* and so may, with the buffer full, a context that is done; neither is an *)
(* error to the poller.  A one-shot is removed after a delivery.           *)
Delivers(s, e) ==
    \/ /\ fate' = [fate EXCEPT ![e] = "told"]
       /\ repeats' = IF fate[e] = "told" /\ e \notin blurred THEN repeats + 1 ELSE repeats
       /\ IF s \in OneShots
          THEN /\ cancels' = cancels \ {s} /\ subs' = subs \ {s}
               /\ poller' = [poller EXCEPT ![s].pc = "reserve",
                                           ![s].ctx = IF s \in cancels THEN "done" ELSE @]
          ELSE poller' = [poller EXCEPT ![s].pc = "reserve"] /\ UNCHANGED <<cancels, subs>>
    \/ /\ fate' = leftUntold(e)
       /\ poller' = [poller EXCEPT ![s].pc = "reserve"]
       /\ UNCHANGED <<repeats, cancels, subs>>

(* buildNotification: an email that is gone by now is only reserved; a done *)
(* context cannot tell, and degrades to a notification without the content. *)
PollEmits(s) ==
    /\ poller[s].pc = "emit"
    /\ \E e \in Emails :
           /\ isNext(s, e)
           /\ \/ /\ poller[s].ctx # "done"
                 /\ fate' = leftUntold(e)
                 /\ poller' = [poller EXCEPT ![s].pc = "reserve"]
                 /\ UNCHANGED <<delivered, repeats, cancels, subs>>
              \/ /\ delivered' = IF call[s] = "none" THEN delivered ELSE delivered \cup {s}
                 /\ Delivers(s, e)
    /\ UNCHANGED <<mail, call, resub, used, cursors, seen, mishaps, start, blurred, cuts>>

(* Seeded fault: a full set is trimmed at the wrong end. *)
appendTrimmed(ids, e) == SubSeq(Append(ids, e), 1, MaxSeen)

(* appendCapped: the oldest go first. *)
appendCapped(ids, e) ==
    LET all == Append(ids, e)
    IN  IF Len(all) <= MaxSeen THEN all ELSE SubSeq(all, Len(all) - MaxSeen + 1, Len(all))

(* reserveSeen, and after the last email the cursor. *)
PollReserves(s) ==
    /\ poller[s].pc = "reserve"
    /\ \E e \in Emails :
           /\ isNext(s, e)
           /\ seen' = appendCapped(seen, e)
           /\ Advances(s, poller[s].todo \ {e}, poller[s].to)
    /\ blurred' = blurred \cup (ToSet(seen) \ ToSet(seen'))
    /\ UNCHANGED <<mail, managerVars, subs, delivered, mishaps,
                   start, fate, repeats, cuts>>

-----------------------------------------------------------------------------
(* notification_subscribe: Manager.Subscribe under the context of the request. *)

SubscribeStarts(s) ==
    /\ s \notin used /\ call[s] = "none"
    /\ used' = used \cup {s}
    /\ \/ cursors' = [cursors EXCEPT ![s] = mail] /\ start' = [start EXCEPT ![s] = mail]
       \/ UNCHANGED <<cursors, start>>
    /\ poller' = [poller EXCEPT ![s] = started("request", cursors'[s])]
    /\ call' = [call EXCEPT ![s] = "started"]
    /\ UNCHANGED <<mail, subs, seen, delivered, cancels, resub, mishaps,
                   fate, repeats, blurred, cuts>>

(* The subscription is persisted; if that fails its loop is cancelled. *)
SubscribeAdds(s) ==
    /\ call[s] = "started"
    /\ \/ /\ subs' = subs \cup {s}
          /\ call' = [call EXCEPT ![s] = "added"] /\ UNCHANGED <<poller, mishaps>>
       \/ /\ mishap /\ poller' = stopped(s)
          /\ call' = [call EXCEPT ![s] = "none"] /\ UNCHANGED subs
    /\ UNCHANGED <<mail, cursors, seen, delivered, cancels, resub, used,
                   histVars>>

(* A one-shot that was delivered before it was persisted is removed now. *)
SubscribeChecks(s) ==
    /\ call[s] = "added"
    /\ IF s \in delivered /\ s \in OneShots
       THEN /\ poller' = stopped(s) /\ subs' = subs \ {s}
            /\ call' = [call EXCEPT ![s] = "none"]
       ELSE call' = [call EXCEPT ![s] = "checked"] /\ UNCHANGED <<poller, subs>>
    /\ UNCHANGED <<mail, cursors, seen, delivered, cancels, resub, used,
                   mishaps, histVars>>

(* The watcher is recorded, the handler returns and its request ends. *)
SubscribeReturns(s) ==
    /\ call[s] = "checked"
    /\ cancels' = cancels \cup {s}
    /\ poller' = stopped(s)
    /\ call' = [call EXCEPT ![s] = "none"] /\ delivered' = delivered \ {s}
    /\ UNCHANGED <<mail, fileVars, resub, used, mishaps,
                   histVars>>

(* notification_unsubscribe: stop the watcher, then remove the subscription. *)
UnsubscribeCancels(s) ==
    /\ s \in subs /\ call[s] = "none"
    /\ cancelOne(s)
    /\ call' = [call EXCEPT ![s] = "remove"]
    /\ UNCHANGED <<mail, fileVars, delivered, resub, used, mishaps,
                   histVars>>

UnsubscribeRemoves(s) ==
    /\ call[s] = "remove" /\ call' = [call EXCEPT ![s] = "none"]
    /\ \/ subs' = subs \ {s} /\ UNCHANGED mishaps
       \/ mishap /\ UNCHANGED subs
    /\ UNCHANGED <<mail, cursors, seen, poller, delivered, cancels,
                   resub, used, histVars>>

-----------------------------------------------------------------------------
(* Restarts and surroundings. *)

(* The process stops and boots again: resubscribeAll lists the subscriptions. *)
Restart ==
    /\ mishap
    /\ poller' = [s \in Subs |-> NoPoller]
    /\ delivered' = {} /\ cancels' = {} /\ call' = [s \in Subs |-> "none"]
    /\ resub' = [left |-> subs, at |-> Unset]
    /\ cuts' = cuts + Cardinality({s \in Subs : poller[s].pc = "reserve"})
    /\ UNCHANGED <<mail, fileVars, used, start, fate, repeats, blurred>>

(* A persisted subscription whose notifier is not registered is skipped; the *)
(* loops of the others live as long as the user does.                        *)
Resubscribes(s) ==
    /\ s \in resub.left /\ resub.at = Unset
    /\ \/ /\ resub' = [left |-> resub.left \ {s}, at |-> s]
          /\ poller' = [poller EXCEPT ![s] = started("user", cursors[s])]
       \/ resub' = [resub EXCEPT !.left = @ \ {s}] /\ UNCHANGED poller
    /\ UNCHANGED <<mail, fileVars, delivered, cancels, call, used, mishaps, histVars>>

ResubscribeRecords ==
    /\ resub.at # Unset
    /\ cancels' = cancels \cup {resub.at}
    /\ resub' = [resub EXCEPT !.at = Unset]
    /\ UNCHANGED <<mail, fileVars, poller, delivered, call, used, mishaps, histVars>>

MailArrives ==
    /\ mail < MaxMail /\ mail' = mail + 1
    /\ UNCHANGED <<managerVars, fileVars, poller, delivered, mishaps, histVars>>

-----------------------------------------------------------------------------

NotificationsInit ==
    /\ mail = 0
    /\ start = [s \in Subs |-> IF s \in Stored THEN 0 ELSE Unset]
    /\ subs = Stored /\ cursors = start /\ seen = << >>
    /\ poller = [s \in Subs |-> NoPoller]
    /\ delivered = {} /\ cancels = {} /\ call = [s \in Subs |-> "none"] 
    /\ resub = [left |-> Stored, at |-> Unset]
    /\ used = Stored /\ mishaps = 0
    /\ fate = [e \in Emails |-> "new"] /\ repeats = 0 /\ blurred = {} /\ cuts = 0

Poller(s) == PollSeeds(s) \/ PollFetches(s) \/ PollEmits(s) \/ PollReserves(s)
Subscribe(s) == SubscribeAdds(s) \/ SubscribeChecks(s) \/ SubscribeReturns(s)

NotificationsNext ==
    \/ \E s \in Subs :
           \/ Poller(s)
           \/ SubscribeStarts(s) \/ Subscribe(s)
           \/ UnsubscribeCancels(s) \/ UnsubscribeRemoves(s)
           \/ Resubscribes(s)
    \/ ResubscribeRecords \/ MailArrives \/ Restart

(* The poll loops run: their tickers tick and Gmail answers in the end. *)
PollersRun == \A s \in Subs : WF_notificationVars(Poller(s))

NotificationsSpec == NotificationsInit /\ [][NotificationsNext]_notificationVars /\ PollersRun

-----------------------------------------------------------------------------

(* Type correctness, of the poll loops above all. *)
NotificationsTypeOK ==
    /\ mail \in 0 .. MaxMail
    /\ cursors \in [Subs -> 0 .. MaxMail \cup {Unset}]
    /\ Len(seen) <= MaxSeen /\ ToSet(seen) \subseteq Emails
    /\ \A s \in Subs :
           /\ poller[s].pc \in {"none", "wait", "emit", "reserve"}
           /\ poller[s].ctx \in {"user", "request", "done"}
           /\ poller[s].cursor \in 0 .. MaxMail \cup {Unset}
           /\ poller[s].todo \subseteq 1 .. mail
           /\ poller[s].pc \in {"emit", "reserve"} <=> poller[s].todo # {}
    /\ call \in [Subs -> {"none", "started", "added", "checked", "remove"}]
    /\ subs \cup cancels \cup delivered \cup used \cup resub.left \subseteq Subs
    /\ resub.at \in Subs \cup {Unset}

settled(e) == fate[e] # "new"

(* "Nothing is skipped": the cursor on disk never moves past an email that *)
(* arrived since the subscription was seeded and that was neither notified *)
(* nor found deleted nor, for want of a channel or of a context, dropped;  *)
(* whatever crashes come between the steps of a poll.                      *)
NothingSkipped ==
    \A s \in Subs : cursors[s] # Unset =>
        \A e \in start[s] + 1 .. cursors[s] : settled(e)

(* "Bounds that re-delivery to the single in-flight message": but for two  *)
(* pollers that hold an email at the same time, and for emails the cap has *)
(* pushed out of the seen set, every repeated notification is paid for by  *)
(* one poller that a crash cut off between its emit and its reservation.   *)
RepeatsArePaidFor == repeats <= cuts

=============================================================================
