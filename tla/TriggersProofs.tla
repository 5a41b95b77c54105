--------------------------- MODULE TriggersProofs ---------------------------
(***************************************************************************)
(* Proofs about what starts a turn without the user: notifications, for    *)
(* any subscriptions, any number of emails and crashes, and any page cap   *)
(* and size of the seen set; and schedules, for every set of schedules,    *)
(* channels and tool calls and every file a process may find.              *)
(***************************************************************************)
EXTENDS Notifications, Schedules, FiniteSetTheorems, TLAPS

(***************************************************************************)
(* Notifications                                                           *)
(***************************************************************************)

(* What the poll loops and the files hold. *)
Cursor == (0 .. MaxMail) \cup {Unset}
Loops == [pc : {"none", "wait", "emit", "reserve"}, ctx : {"user", "request", "done"},
          cursor : Cursor, todo : SUBSET Emails, to : Cursor]

Types ==
    /\ mail \in 0 .. MaxMail
    /\ cursors \in [Subs -> Cursor] /\ start \in [Subs -> Cursor]
    /\ seen \in Seq(Emails)
    /\ poller \in [Subs -> Loops]
    /\ fate \in [Emails -> {"new", "told", "unsent"}]

(* A cursor, on disk or in a loop, has a seed. *)
seeded(s) ==
    /\ cursors[s] # Unset \/ poller[s].cursor # Unset => start[s] # Unset
    /\ poller[s].pc \in {"emit", "reserve"} => poller[s].cursor # Unset

behind(s, c) == {e \in Emails : start[s] < e /\ e <= c}

(* All that lies behind a cursor was dealt with; behind the cursor a batch *)
(* is going to leave lies, besides, what is left of the batch.             *)
fileSound(s) == cursors[s] # Unset => \A e \in behind(s, cursors[s]) : settled(e)

loopSound(s) ==
    /\ poller[s].cursor # Unset => \A e \in behind(s, poller[s].cursor) : settled(e)
    /\ poller[s].pc \in {"emit", "reserve"} /\ poller[s].to # Unset =>
           \A e \in behind(s, poller[s].to) : settled(e) \/ e \in poller[s].todo
    /\ poller[s].pc = "reserve" => \A e \in Emails : isNext(s, e) => settled(e)

(* What was seen was dealt with. *)
SeenIsSettled == \A e \in ToSet(seen) : settled(e)

SkipInv ==
    /\ Types /\ SeenIsSettled
    /\ \A s \in Subs : seeded(s) /\ fileSound(s) /\ loopSound(s)

-----------------------------------------------------------------------------
(* What appendCapped returns holds the new email and only old ones besides. *)
LEMMA AppendCapped ==
    ASSUME NEW ids \in Seq(Emails), NEW e \in Emails
    PROVE  /\ appendCapped(ids, e) \in Seq(Emails)
           /\ e \in ToSet(appendCapped(ids, e))
           /\ ToSet(appendCapped(ids, e)) \subseteq ToSet(ids) \cup {e}
<1> DEFINE all == Append(ids, e)
           n == Len(all)
           m == n - MaxSeen + 1
<1>1. all \in Seq(Emails) /\ n \in Nat /\ n = Len(ids) + 1 /\ all[n] = e /\ MaxSeen \in Nat \ {0}
  BY NotificationsAssumption
<1>2. \A i \in 1 .. n : all[i] \in ToSet(ids) \cup {e}
  BY DEF ToSet
<1>3. CASE n <= MaxSeen
  <2>1. appendCapped(ids, e) = all
    BY <1>3 DEF appendCapped
  <2>2. ToSet(all) \subseteq ToSet(ids) \cup {e} /\ e \in ToSet(all)
    BY <1>1, <1>2 DEF ToSet
  <2> QED BY <1>1, <2>1, <2>2
<1>4. CASE n > MaxSeen
  <2> DEFINE t == SubSeq(all, m, n)
  <2>1. appendCapped(ids, e) = t
    BY <1>1, <1>4 DEF appendCapped
  <2> HIDE DEF all, n
  <2>2. m \in 1 .. n /\ m \in Nat
    BY <1>1, <1>4
  <2>3. t \in Seq(Emails) /\ Len(t) = MaxSeen /\ \A i \in 1 .. MaxSeen : t[i] = all[m + i - 1]
    <3>1. Len(all) = n /\ n - m + 1 = MaxSeen
      BY <1>1 DEF n
    <3>2. n \in m .. Len(all) /\ n \in 1 .. Len(all)
      BY <1>1, <2>2, <3>1
    <3> HIDE DEF m
    <3>3. t \in Seq(Emails)
      BY <1>1, <2>2, <3>1, <3>2
    <3>4. Len(t) = MaxSeen
      BY <1>1, <2>2, <3>1, <3>2
    <3>5. \A i \in 1 .. MaxSeen : t[i] = all[m + i - 1]
      BY <1>1, <2>2, <3>1, <3>2
    <3> QED BY <3>3, <3>4, <3>5
  <2>4. \A i \in 1 .. MaxSeen : m + i - 1 \in 1 .. n
    BY <1>1, <2>2
  <2>5. ToSet(t) \subseteq ToSet(ids) \cup {e}
    BY <1>2, <2>3, <2>4 DEF ToSet
  <2>6. t[MaxSeen] = e /\ MaxSeen \in DOMAIN t
    BY <1>1, <2>3
  <2> QED BY <2>1, <2>3, <2>5, <2>6 DEF ToSet
<1> QED BY <1>1, <1>3, <1>4

-----------------------------------------------------------------------------
(* Emails stay settled, and nothing of the subscription changes. *)
LEMMA OtherSound ==
    ASSUME SkipInv, NEW t \in Subs, \A e \in Emails : settled(e) => settled(e)',
           poller'[t] = poller[t], start'[t] = start[t], cursors'[t] = cursors[t]
    PROVE  seeded(t)' /\ fileSound(t)' /\ loopSound(t)'
<1>1. seeded(t)'
  BY DEF SkipInv, seeded
<1>2. fileSound(t)'
  BY DEF SkipInv, fileSound, behind
<1>3. loopSound(t)'
  <2>1. \A c : behind(t, c)' = behind(t, c)
    BY DEF behind
  <2>2. \A e \in Emails : isNext(t, e)' = isNext(t, e)
    BY DEF isNext
  <2>3. \A c : behind(t, c) \subseteq Emails
    BY DEF behind
  <2> QED BY <2>1, <2>2, <2>3 DEF SkipInv, loopSound
<1> QED BY <1>1, <1>2, <1>3

(* A loop that is stopped, told to stop, or forgotten with the process. *)
LEMMA StoppedSound ==
    ASSUME SkipInv, NEW t \in Subs, UNCHANGED <<fate, start, cursors>>,
           poller'[t] \in {poller[t], NoPoller, [poller[t] EXCEPT !.ctx = "done"]}
    PROVE  poller'[t] \in Loops /\ seeded(t)' /\ fileSound(t)' /\ loopSound(t)'
<1>1. poller[t] \in Loops /\ NoPoller \in Loops
  BY DEF SkipInv, Types, Loops, NoPoller, Cursor
<1>2. poller'[t] \in Loops
  BY <1>1 DEF Loops
<1>3. CASE poller'[t] = NoPoller
  BY <1>2, <1>3 DEF SkipInv, seeded, fileSound, loopSound, behind, settled, NoPoller
<1>4. CASE poller'[t] # NoPoller
  <2>1. /\ poller'[t].pc = poller[t].pc /\ poller'[t].cursor = poller[t].cursor
        /\ poller'[t].todo = poller[t].todo /\ poller'[t].to = poller[t].to
    BY <1>1, <1>4 DEF Loops
  <2>2. seeded(t)' /\ fileSound(t)'
    BY <2>1 DEF SkipInv, seeded, fileSound, behind, settled
  <2>3. loopSound(t)'
    BY <2>1 DEF SkipInv, loopSound, behind, settled, isNext
  <2> QED BY <1>2, <2>2, <2>3
<1> QED BY <1>2, <1>3, <1>4

(* A loop that starts with the cursor on disk. *)
LEMMA StartedSound ==
    ASSUME NEW t \in Subs, NEW ctx \in {"user", "request"}, cursors'[t] \in Cursor,
           cursors'[t] # Unset => start'[t] # Unset, fileSound(t)',
           poller'[t] = started(ctx, cursors'[t])
    PROVE  poller'[t] \in Loops /\ seeded(t)' /\ loopSound(t)'
<1>1. /\ poller'[t] \in Loops /\ poller'[t].pc = "wait" /\ poller'[t].cursor = cursors'[t]
  BY DEF started, NoPoller, Loops, Cursor
<1> QED BY <1>1 DEF seeded, loopSound, fileSound

(* What Advances makes of a loop with a sound batch. *)
LEMMA AdvancesSound ==
    ASSUME SkipInv, NEW s \in Subs, NEW todo \in SUBSET Emails, NEW to \in Cursor,
           Advances(s, todo, to), UNCHANGED <<start, fate>>, poller[s].cursor # Unset,
           poller[s].pc # "none",
           to # Unset => \A e \in behind(s, to) : settled(e) \/ e \in todo
    PROVE  /\ poller' \in [Subs -> Loops] /\ cursors' \in [Subs -> Cursor]
           /\ \A t \in Subs : seeded(t)' /\ fileSound(t)' /\ loopSound(t)'
<1>1. poller \in [Subs -> Loops] /\ cursors \in [Subs -> Cursor]
  BY DEF SkipInv, Types
<1>2. ASSUME NEW t \in Subs \ {s}
      PROVE  poller'[t] = poller[t] /\ cursors'[t] = cursors[t]
  BY <1>1 DEF Advances
<1>3. start[s] # Unset
  BY DEF SkipInv, seeded
<1>4. CASE todo = {}
  <2> DEFINE c == IF to = Unset THEN poller[s].cursor ELSE to
  <2>1. poller' = [poller EXCEPT ![s] = IF @.ctx = "done" THEN NoPoller ELSE started(@.ctx, c)]
    BY <1>4 DEF Advances
  <2>2. cursors' = [cursors EXCEPT ![s] = IF to = Unset THEN @ ELSE to]
    BY <1>4 DEF Advances
  <2>3. c \in Cursor /\ c # Unset /\ \A e \in behind(s, c) : settled(e)
    BY <1>1, <1>4 DEF SkipInv, loopSound, Loops
  <2>4. poller'[s] \in {NoPoller, started(poller[s].ctx, c)}
    BY <1>1, <2>1
  <2> HIDE DEF c
  <2>5. NoPoller \in Loops /\ started(poller[s].ctx, c) \in Loops
    BY <1>1, <2>3 DEF Loops, NoPoller, started, Cursor
  <2>6. poller' \in [Subs -> Loops] /\ cursors' \in [Subs -> Cursor]
    BY <1>1, <2>1, <2>2, <2>4, <2>5
  <2>7. fileSound(s)'
    BY <1>1, <1>4, <2>2 DEF SkipInv, fileSound, behind, settled
  <2>8. /\ poller'[s].pc \in {"none", "wait"}
        /\ poller'[s].cursor # Unset => poller'[s].cursor = c
    BY <2>4 DEF NoPoller, started
  <2>9. seeded(s)' /\ loopSound(s)'
    BY <1>3, <2>3, <2>8 DEF seeded, loopSound, behind, settled
  <2> QED BY <1>2, <2>6, <2>7, <2>9, OtherSound DEF settled
<1>5. CASE todo # {}
  <2>1. /\ poller' = [poller EXCEPT ![s].pc = "emit", ![s].todo = todo, ![s].to = to]
        /\ cursors' = cursors
    BY <1>5 DEF Advances
  <2>2. /\ poller'[s] \in Loops /\ poller'[s].pc = "emit"
        /\ poller'[s].cursor = poller[s].cursor
        /\ poller'[s].todo = todo /\ poller'[s].to = to
    BY <1>1, <2>1 DEF Loops
  <2>3. poller' \in [Subs -> Loops] /\ cursors' \in [Subs -> Cursor]
    BY <1>1, <2>1, <2>2
  <2>4. seeded(s)' /\ fileSound(s)' /\ loopSound(s)'
    BY <2>1, <2>2 DEF SkipInv, seeded, fileSound, loopSound, behind, settled
  <2> QED BY <1>2, <2>3, <2>4, OtherSound DEF settled
<1> QED BY <1>4, <1>5

-----------------------------------------------------------------------------
(* A fetch that leaves no page behind leaves only what it holds, or what   *)
(* was seen, between the old cursor and the new one.                       *)
LEMMA FetchIsComplete ==
    ASSUME SkipInv, NEW s \in Subs, poller[s].cursor # Unset,
           NEW from \in {poller[s].cursor, poller[s].cursor + 1} \ {0}
    PROVE  /\ fresh(from) \subseteq Emails /\ nextCursor(from) \in Cursor
           /\ nextCursor(from) # Unset =>
                \A e \in behind(s, nextCursor(from)) : settled(e) \/ e \in fresh(from)
<1>1. poller[s].cursor \in 0 .. MaxMail /\ from \in Nat \ {0} /\ mail \in 0 .. MaxMail
  <2>1. poller[s] \in Loops /\ mail \in 0 .. MaxMail
    BY DEF SkipInv, Types
  <2>2. poller[s].cursor \in 0 .. MaxMail
    BY <2>1 DEF Loops, Cursor
  <2> QED BY <2>1, <2>2
<1>2. fresh(from) \subseteq Emails /\ nextCursor(from) \in Cursor
  BY <1>1, NotificationsAssumption DEF fresh, fetched, Emails, nextCursor, Cursor
<1>3. ASSUME nextCursor(from) # Unset, NEW e \in behind(s, nextCursor(from))
      PROVE  settled(e) \/ e \in fresh(from)
  <2>1. nextCursor(from) = mail /\ mail < from + PageCap /\ PageCap \in Nat
    BY <1>1, <1>3, NotificationsAssumption DEF nextCursor
  <2>2. e \in Emails /\ start[s] < e /\ e <= mail /\ e \in Nat
    BY <1>1, <1>3, <2>1 DEF behind, Emails
  <2>3. CASE e <= poller[s].cursor
    BY <2>2, <2>3 DEF SkipInv, loopSound, behind
  <2>4. CASE e > poller[s].cursor
    <3>1. e \in fetched(from)
      BY <1>1, <2>1, <2>2, <2>4 DEF fetched
    <3> QED BY <3>1 DEF fresh, SkipInv, SeenIsSettled
  <2> QED BY <1>1, <2>2, <2>3, <2>4
<1> QED BY <1>2, <1>3

(* A step of a poll loop. *)
LEMMA PollerSound == ASSUME SkipInv, NEW s \in Subs, Poller(s) PROVE SkipInv'
<1>0. /\ poller \in [Subs -> Loops] /\ cursors \in [Subs -> Cursor] /\ start \in [Subs -> Cursor]
      /\ mail \in 0 .. MaxMail /\ mail \in Nat /\ seen \in Seq(Emails)
      /\ fate \in [Emails -> {"new", "told", "unsent"}]
  BY DEF SkipInv, Types
<1>1. CASE PollSeeds(s)
  <2>1. /\ poller' = [poller EXCEPT ![s].cursor = mail] /\ poller[s].pc = "wait"
        /\ cursors' = [cursors EXCEPT ![s] = mail] /\ start' = [start EXCEPT ![s] = mail]
        /\ UNCHANGED <<mail, seen, fate>>
    BY <1>1 DEF PollSeeds
  <2>2. poller'[s] \in Loops /\ poller'[s].pc = "wait" /\ poller'[s].cursor = mail
    BY <1>0, <2>1 DEF Loops, Cursor
  <2>3. mail # Unset /\ mail \in Cursor
    BY <1>0, NotificationsAssumption DEF Cursor
  <2>4. Types'
    BY <1>0, <2>1, <2>2, <2>3 DEF Types
  <2>5. behind(s, mail)' = {}
    BY <1>0, <2>1 DEF behind, Emails
  <2>6. seeded(s)' /\ fileSound(s)' /\ loopSound(s)'
    BY <1>0, <2>1, <2>2, <2>3, <2>5 DEF seeded, fileSound, loopSound
  <2>7. \A t \in Subs \ {s} : seeded(t)' /\ fileSound(t)' /\ loopSound(t)'
    BY <1>0, <2>1, OtherSound DEF settled
  <2> QED BY <2>1, <2>4, <2>6, <2>7 DEF SkipInv, SeenIsSettled, settled
<1>2. CASE PollFetches(s)
  <2>1. PICK from \in {poller[s].cursor, poller[s].cursor + 1} \ {0} :
          Advances(s, fresh(from), nextCursor(from))
    BY <1>2 DEF PollFetches
  <2>2. /\ poller[s].pc = "wait" /\ poller[s].cursor # Unset
        /\ UNCHANGED <<mail, seen, start, fate>>
    BY <1>2 DEF PollFetches
  <2>3. /\ fresh(from) \in SUBSET Emails /\ nextCursor(from) \in Cursor
        /\ nextCursor(from) # Unset =>
             \A e \in behind(s, nextCursor(from)) : settled(e) \/ e \in fresh(from)
    BY <2>2, FetchIsComplete
  <2>4. /\ poller' \in [Subs -> Loops] /\ cursors' \in [Subs -> Cursor]
        /\ \A t \in Subs : seeded(t)' /\ fileSound(t)' /\ loopSound(t)'
    BY <2>1, <2>2, <2>3, AdvancesSound
  <2> QED BY <1>0, <2>2, <2>4 DEF SkipInv, Types, SeenIsSettled, settled
<1>3. CASE PollEmits(s)
  <2>1. PICK e \in Emails :
          /\ isNext(s, e)
          /\ fate' = leftUntold(e) \/ fate' = [fate EXCEPT ![e] = "told"]
          /\ \/ poller' = [poller EXCEPT ![s].pc = "reserve"]
             \/ poller' = [poller EXCEPT ![s].pc = "reserve",
                                         ![s].ctx = IF s \in cancels THEN "done" ELSE @]
    BY <1>3 DEF PollEmits, Delivers
  <2>2. /\ poller[s].pc = "emit" /\ UNCHANGED <<mail, cursors, seen, start>>
    BY <1>3 DEF PollEmits
  <2>3. /\ fate' \in [Emails -> {"new", "told", "unsent"}] /\ fate'[e] # "new"
        /\ \A f \in Emails : fate[f] # "new" => fate'[f] # "new"
    BY <1>0, <2>1 DEF leftUntold
  <2>4. /\ poller'[s] \in Loops /\ poller'[s].pc = "reserve"
        /\ poller'[s].cursor = poller[s].cursor /\ poller'[s].todo = poller[s].todo
        /\ poller'[s].to = poller[s].to
    BY <1>0, <2>1 DEF Loops
  <2>5. \A t \in Subs \ {s} : poller'[t] = poller[t]
    BY <1>0, <2>1
  <2>6. poller' \in [Subs -> Loops]
    BY <1>0, <2>1, <2>4, <2>5
  <2>7. seeded(s)' /\ fileSound(s)'
    BY <2>2, <2>3, <2>4 DEF SkipInv, seeded, fileSound, behind, settled
  <2>8. \A f \in Emails : isNext(s, f)' => f = e
    <3>1. \A f \in Emails : f \in Nat
      BY <1>0 DEF Emails
    <3> QED BY <2>1, <2>4, <3>1 DEF isNext
  <2>9. loopSound(s)'
    BY <2>2, <2>3, <2>4, <2>8 DEF SkipInv, loopSound, behind, settled
  <2>10. \A t \in Subs \ {s} : seeded(t)' /\ fileSound(t)' /\ loopSound(t)'
    BY <2>2, <2>3, <2>5, OtherSound DEF settled
  <2>11. SeenIsSettled'
    <3>1. ToSet(seen) \subseteq Emails
      BY <1>0 DEF ToSet
    <3> QED BY <2>2, <2>3, <3>1 DEF SkipInv, SeenIsSettled, settled
  <2> QED BY <1>0, <2>2, <2>3, <2>6, <2>7, <2>9, <2>10, <2>11 DEF SkipInv, Types
<1>4. CASE PollReserves(s)
  <2>1. PICK e \in Emails : /\ isNext(s, e) /\ seen' = appendCapped(seen, e)
                            /\ Advances(s, poller[s].todo \ {e}, poller[s].to)
    BY <1>4 DEF PollReserves
  <2>2. poller[s].pc = "reserve" /\ UNCHANGED <<mail, start, fate>>
    BY <1>4 DEF PollReserves
  <2>3. settled(e) /\ poller[s].cursor # Unset
    BY <2>1, <2>2 DEF SkipInv, loopSound, seeded
  <2>4. poller[s].todo \ {e} \in SUBSET Emails /\ poller[s].to \in Cursor
    <3>1. poller[s] \in Loops
      BY <1>0
    <3> QED BY <3>1 DEF Loops
  <2>5. poller[s].to # Unset =>
          \A f \in behind(s, poller[s].to) : settled(f) \/ f \in poller[s].todo \ {e}
    BY <2>2, <2>3 DEF SkipInv, loopSound
  <2>6. /\ poller' \in [Subs -> Loops] /\ cursors' \in [Subs -> Cursor]
        /\ \A t \in Subs : seeded(t)' /\ fileSound(t)' /\ loopSound(t)'
    BY <2>1, <2>2, <2>3, <2>4, <2>5, AdvancesSound
  <2>7. seen' \in Seq(Emails) /\ ToSet(seen') \subseteq ToSet(seen) \cup {e}
    BY <1>0, <2>1, AppendCapped
  <2>8. SeenIsSettled'
    BY <2>2, <2>3, <2>7 DEF SkipInv, SeenIsSettled, settled, ToSet
  <2> QED BY <1>0, <2>2, <2>6, <2>7, <2>8 DEF SkipInv, Types
<1> QED BY <1>1, <1>2, <1>3, <1>4 DEF Poller

(* A step that stops loops, all of them or none, and changes no email. *)
LEMMA QuietSound ==
    ASSUME SkipInv, UNCHANGED <<fate, start, cursors, seen>>, mail' \in 0 .. MaxMail,
           poller' \in [Subs -> Loops] \/ poller' = poller,
           \A t \in Subs :
             poller'[t] \in {poller[t], NoPoller, [poller[t] EXCEPT !.ctx = "done"]}
    PROVE  SkipInv'
<1>1. \A t \in Subs : seeded(t)' /\ fileSound(t)' /\ loopSound(t)'
  BY StoppedSound
<1>2. Types'
  BY DEF SkipInv, Types
<1> QED BY <1>1, <1>2 DEF SkipInv, SeenIsSettled, settled

(* What stopping a loop makes of the loops. *)
LEMMA StoppedType ==
    ASSUME poller \in [Subs -> Loops], NEW s \in Subs, poller' \in {poller, stopped(s)}
    PROVE  /\ poller' \in [Subs -> Loops]
           /\ \A t \in Subs :
                poller'[t] \in {poller[t], NoPoller, [poller[t] EXCEPT !.ctx = "done"]}
<1>1. cancelled(poller[s]) \in {NoPoller, [poller[s] EXCEPT !.ctx = "done"]}
  BY DEF cancelled
<1>2. cancelled(poller[s]) \in Loops
  <2>1. poller[s] \in Loops /\ NoPoller \in Loops
    BY DEF Loops, NoPoller, Cursor
  <2> QED BY <1>1, <2>1 DEF Loops
<1>3. CASE poller' = poller
  BY <1>3
<1>4. CASE poller' = [poller EXCEPT ![s] = cancelled(@)]
  BY <1>1, <1>2, <1>4
<1> QED BY <1>3, <1>4 DEF stopped

(* A step keeps every cursor from passing an email nobody dealt with. *)
LEMMA SkipStep == ASSUME SkipInv, [NotificationsNext]_notificationVars PROVE SkipInv'
<1>0. /\ poller \in [Subs -> Loops] /\ cursors \in [Subs -> Cursor] /\ start \in [Subs -> Cursor]
      /\ mail \in 0 .. MaxMail /\ mail \in Nat /\ seen \in Seq(Emails)
      /\ fate \in [Emails -> {"new", "told", "unsent"}]
  BY DEF SkipInv, Types
<1>1. CASE UNCHANGED notificationVars
  BY <1>0, <1>1, QuietSound DEF notificationVars
<1>2. ASSUME NEW s \in Subs, Poller(s) PROVE SkipInv'
  BY <1>2, PollerSound
<1>3. ASSUME NEW s \in Subs, SubscribeStarts(s) PROVE SkipInv'
  <2>1. /\ \/ cursors' = [cursors EXCEPT ![s] = mail] /\ start' = [start EXCEPT ![s] = mail]
           \/ UNCHANGED <<cursors, start>>
        /\ poller' = [poller EXCEPT ![s] = started("request", cursors'[s])]
        /\ UNCHANGED <<mail, seen, fate>>
    BY <1>3 DEF SubscribeStarts
  <2>2. mail # Unset /\ mail \in Cursor
    BY <1>0, NotificationsAssumption DEF Cursor
  <2>3. cursors' \in [Subs -> Cursor] /\ start' \in [Subs -> Cursor]
    BY <1>0, <2>1, <2>2
  <2>4. (cursors'[s] # Unset => start'[s] # Unset) /\ fileSound(s)'
    <3>1. CASE cursors' = [cursors EXCEPT ![s] = mail] /\ start' = [start EXCEPT ![s] = mail]
      <4>1. cursors'[s] = mail /\ start'[s] = mail
        BY <1>0, <3>1
      <4>2. behind(s, mail)' = {}
        BY <1>0, <2>1, <4>1 DEF behind, Emails
      <4> QED BY <2>1, <2>2, <4>1, <4>2 DEF fileSound
    <3>2. CASE UNCHANGED <<cursors, start>>
      BY <2>1, <3>2 DEF SkipInv, seeded, fileSound, behind, settled
    <3> QED BY <2>1, <3>1, <3>2
  <2>5. poller'[s] = started("request", cursors'[s])
    BY <1>0, <2>1
  <2>6. poller'[s] \in Loops /\ seeded(s)' /\ loopSound(s)'
    BY <2>3, <2>4, <2>5, StartedSound
  <2>7. poller' \in [Subs -> Loops]
    BY <1>0, <2>1, <2>5, <2>6
  <2>8. \A t \in Subs \ {s} : seeded(t)' /\ fileSound(t)' /\ loopSound(t)'
    <3>1. \A t \in Subs \ {s} :
            poller'[t] = poller[t] /\ cursors'[t] = cursors[t] /\ start'[t] = start[t]
      BY <1>0, <2>1
    <3> QED BY <2>1, <3>1, OtherSound DEF settled
  <2>9. Types' /\ SeenIsSettled'
    BY <1>0, <2>1, <2>3, <2>7 DEF SkipInv, Types, SeenIsSettled, settled
  <2> QED BY <2>4, <2>6, <2>8, <2>9 DEF SkipInv
<1>4. ASSUME NEW s \in Subs, Subscribe(s) \/ UnsubscribeCancels(s) \/ UnsubscribeRemoves(s)
      PROVE  SkipInv'
  <2>1. /\ poller' \in {poller, stopped(s)} /\ UNCHANGED <<mail, cursors, seen, start, fate>>
    BY <1>4 DEF Subscribe, SubscribeAdds, SubscribeChecks, SubscribeReturns,
                UnsubscribeCancels, UnsubscribeRemoves, cancelOne, fileVars, histVars
  <2>2. /\ poller' \in [Subs -> Loops]
        /\ \A t \in Subs :
             poller'[t] \in {poller[t], NoPoller, [poller[t] EXCEPT !.ctx = "done"]}
    BY <1>0, <2>1, StoppedType
  <2> QED BY <1>0, <2>1, <2>2, QuietSound
<1>5. ASSUME NEW s \in Subs, Resubscribes(s) PROVE SkipInv'
  <2>1. UNCHANGED <<mail, cursors, seen, start, fate>>
    BY <1>5 DEF Resubscribes, fileVars, histVars
  <2>2. CASE UNCHANGED poller
    BY <1>0, <2>1, <2>2, QuietSound
  <2>3. CASE poller' = [poller EXCEPT ![s] = started("user", cursors[s])]
    <3>1. poller'[s] = started("user", cursors'[s])
      BY <1>0, <2>1, <2>3
    <3>2. cursors'[s] \in Cursor /\ (cursors'[s] # Unset => start'[s] # Unset) /\ fileSound(s)'
      BY <1>0, <2>1 DEF SkipInv, seeded, fileSound, behind, settled
    <3>3. poller'[s] \in Loops /\ seeded(s)' /\ loopSound(s)'
      BY <3>1, <3>2, StartedSound
    <3>4. poller' \in [Subs -> Loops]
      BY <1>0, <2>3, <3>1, <3>3
    <3>5. \A t \in Subs \ {s} : seeded(t)' /\ fileSound(t)' /\ loopSound(t)'
      BY <1>0, <2>1, <2>3, OtherSound DEF settled
    <3>6. Types' /\ SeenIsSettled'
      BY <1>0, <2>1, <3>4 DEF SkipInv, Types, SeenIsSettled, settled
    <3> QED BY <3>2, <3>3, <3>5, <3>6 DEF SkipInv
  <2> QED BY <1>5, <2>2, <2>3 DEF Resubscribes
<1>6. CASE ResubscribeRecords
  BY <1>0, <1>6, QuietSound DEF ResubscribeRecords, fileVars, histVars
<1>7. CASE MailArrives
  BY <1>0, <1>7, NotificationsAssumption, QuietSound
     DEF MailArrives, fileVars, histVars
<1>8. CASE Restart
  <2>1. poller' = [s \in Subs |-> NoPoller] /\ NoPoller \in Loops
    BY <1>8 DEF Restart, NoPoller, Loops, Cursor
  <2>2. /\ \A t \in Subs :
             poller'[t] \in {poller[t], NoPoller, [poller[t] EXCEPT !.ctx = "done"]}
        /\ poller' \in [Subs -> Loops]
    BY <2>1
  <2> QED BY <1>0, <1>8, <2>2, QuietSound DEF Restart, fileVars
<1> QED BY <1>1, <1>2, <1>3, <1>4, <1>5, <1>6, <1>7, <1>8 DEF NotificationsNext

(* Nothing is behind a cursor at first. *)
LEMMA SkipInit == ASSUME NotificationsInit PROVE SkipInv
<1>1. /\ poller = [s \in Subs |-> NoPoller] /\ NoPoller \in Loops
      /\ NoPoller.cursor = Unset /\ NoPoller.pc = "none"
  BY DEF NotificationsInit, NoPoller, Loops, Cursor
<1>2. Types
  BY <1>1, NotificationsAssumption DEF NotificationsInit, Types, Cursor
<1>3. \A s \in Subs : seeded(s) /\ loopSound(s)
  BY <1>1 DEF NotificationsInit, seeded, loopSound
<1>4. \A s \in Subs : fileSound(s)
  <2>1. \A s \in Subs : cursors[s] # Unset => cursors[s] = 0 /\ start[s] = 0
    BY DEF NotificationsInit
  <2> QED BY <2>1 DEF fileSound, behind, Emails
<1>5. SeenIsSettled
  BY DEF NotificationsInit, SeenIsSettled, ToSet
<1> QED BY <1>2, <1>3, <1>4, <1>5 DEF SkipInv

(* So the invariant holds always. *)
THEOREM SkipInvariance == NotificationsSpec => []SkipInv
BY SkipInit, SkipStep, PTL DEF NotificationsSpec

(***************************************************************************)
(* "Nothing is skipped" (poll, fetchHistory, advanceCursor): whatever page *)
(* cap holds the cursor back, whatever tool calls stop and start loops,    *)
(* and whatever crashes come between two steps of a poll.                  *)
(***************************************************************************)
THEOREM NoEmailIsSkipped == NotificationsSpec => []NothingSkipped
<1>1. ASSUME SkipInv PROVE NothingSkipped
  <2> SUFFICES ASSUME NEW s \in Subs, cursors[s] # Unset,
                      NEW e \in start[s] + 1 .. cursors[s]
               PROVE  settled(e)
    BY DEF NothingSkipped
  <2>1. cursors[s] \in 0 .. MaxMail /\ start[s] \in 0 .. MaxMail
    BY <1>1 DEF SkipInv, Types, seeded, Cursor
  <2>2. e \in behind(s, cursors[s])
    BY <2>1, NotificationsAssumption DEF behind, Emails
  <2> QED BY <1>1, <2>2 DEF SkipInv, fileSound
<1> QED BY <1>1, SkipInvariance, PTL

-----------------------------------------------------------------------------
(* An email that a loop has emitted and not reserved yet. *)
reserving(e) == \E s \in Subs : poller[s].pc = "reserve" /\ isNext(s, e)

(* Emails that were told and will be told again: nothing remembers them.   *)
owed == {e \in Emails : /\ fate[e] = "told" /\ e \notin blurred
                        /\ e \notin ToSet(seen) /\ ~reserving(e)}

(* An identifier is handed out once, and a loop is started where none runs. *)
Managed ==
    /\ resub \in [left : SUBSET Subs, at : Subs \cup {Unset}]
    /\ call \in [Subs -> {"none", "started", "added", "checked", "remove"}]
    /\ subs \subseteq used /\ resub.left \subseteq used /\ subs \subseteq Subs
    /\ \A s \in Subs : call[s] # "none" => s \in used
    /\ \A s \in Subs : s \notin used \/ s \in resub.left => poller[s].pc = "none"

(* But for the blurred, an email is held by one loop and not yet seen.     *)
Apart ==
    /\ \A s, t \in Subs : s # t => poller[s].todo \cap poller[t].todo \subseteq blurred
    /\ \A s \in Subs : poller[s].todo \cap ToSet(seen) \subseteq blurred

(* Each repetition, past or to come, is paid for by a loop a crash cut off. *)
Debt ==
    /\ repeats \in Nat /\ cuts \in Nat
    /\ repeats + Cardinality(owed) <= cuts

RepeatInv == SkipInv /\ Managed /\ Apart /\ Debt

-----------------------------------------------------------------------------
(* What is owed can be counted. *)
LEMMA OwedIsFinite == IsFiniteSet(owed) /\ Cardinality(owed) \in Nat
<1>1. owed \subseteq Emails /\ IsFiniteSet(Emails)
  BY FS_Interval, NotificationsAssumption DEF owed, Emails
<1> QED BY <1>1, FS_Subset, FS_CardinalityType

(* Nothing new is owed. *)
LEMMA DebtKept ==
    ASSUME Debt, UNCHANGED <<repeats, cuts>>, owed' \subseteq owed PROVE Debt'
<1>1. Cardinality(owed') <= Cardinality(owed) /\ Cardinality(owed') \in Nat
  BY OwedIsFinite, FS_Subset, FS_CardinalityType
<1> QED BY <1>1, OwedIsFinite DEF Debt

(* Steps that leave the emails alone and no loop that is to reserve one.   *)
LEMMA DebtFrame ==
    ASSUME Apart, Debt, UNCHANGED <<fate, blurred, seen, repeats, cuts>>,
           \A t \in Subs : poller'[t].todo \subseteq poller[t].todo,
           \A t \in Subs : poller[t].pc = "reserve" =>
             poller'[t].pc = "reserve" /\ poller'[t].todo = poller[t].todo
    PROVE  Apart' /\ Debt'
<1>1. Apart'
  BY DEF Apart, ToSet
<1>2. \A e \in Emails : reserving(e) => reserving(e)'
  BY DEF reserving, isNext
<1>3. owed' \subseteq owed
  BY <1>2 DEF owed, ToSet
<1> QED BY <1>1, <1>3, DebtKept

(* Two emails cannot both be the next one. *)
LEMMA NextIsOne ==
    ASSUME NEW s \in Subs, NEW e \in Emails, NEW f \in Emails, isNext(s, e), isNext(s, f)
    PROVE  e = f
BY NotificationsAssumption DEF isNext, Emails

(* A fetch holds nothing that was seen; what another loop holds is blurred. *)
LEMMA FetchKeepsDebt ==
    ASSUME RepeatInv, NEW s \in Subs, PollFetches(s) PROVE Apart' /\ Debt'
<1>0. poller \in [Subs -> Loops]
  BY DEF RepeatInv, SkipInv, Types
<1>1. PICK from \in {poller[s].cursor, poller[s].cursor + 1} \ {0} :
        /\ Advances(s, fresh(from), nextCursor(from))
        /\ blurred' = blurred \cup {e \in fresh(from) : \E t \in Subs \ {s} : e \in poller[t].todo}
  BY DEF PollFetches
<1>2. poller[s].pc = "wait" /\ UNCHANGED <<seen, fate, repeats, cuts>>
  BY DEF PollFetches
<1>3. \A t \in Subs \ {s} : poller'[t] = poller[t]
  BY <1>0, <1>1 DEF Advances
<1>4. poller'[s].todo \subseteq fresh(from)
  BY <1>0, <1>1 DEF Advances, NoPoller, started, Loops
<1>5. fresh(from) \cap ToSet(seen) = {}
  BY DEF fresh
<1>6. Apart'
  <2>1. \A t \in Subs \ {s} : poller'[s].todo \cap poller[t].todo \subseteq blurred'
    BY <1>1, <1>4
  <2>2. \A t, u \in Subs : t # u => poller'[t].todo \cap poller'[u].todo \subseteq blurred'
    BY <1>1, <1>3, <2>1 DEF RepeatInv, Apart
  <2>3. \A t \in Subs : poller'[t].todo \cap ToSet(seen) \subseteq blurred'
    BY <1>1, <1>3, <1>4, <1>5 DEF RepeatInv, Apart
  <2> QED BY <1>2, <2>2, <2>3 DEF Apart, ToSet
<1>7. owed' \subseteq owed
  <2>1. \A e \in Emails : reserving(e) => reserving(e)'
    <3>1. \A t \in Subs : poller[t].pc = "reserve" => t \in Subs \ {s}
      BY <1>2
    <3> QED BY <1>3, <3>1 DEF reserving, isNext
  <2> QED BY <1>1, <1>2, <2>1 DEF owed, ToSet
<1> QED BY <1>2, <1>6, <1>7, DebtKept DEF RepeatInv

(* An emission that repeats a notification was owed. *)
LEMMA EmitKeepsDebt ==
    ASSUME RepeatInv, NEW s \in Subs, PollEmits(s) PROVE Apart' /\ Debt'
<1>0. poller \in [Subs -> Loops] /\ fate \in [Emails -> {"new", "told", "unsent"}]
  BY DEF RepeatInv, SkipInv, Types
<1>1. PICK e \in Emails :
        /\ isNext(s, e)
        /\ \/ poller' = [poller EXCEPT ![s].pc = "reserve"]
           \/ poller' = [poller EXCEPT ![s].pc = "reserve",
                                       ![s].ctx = IF s \in cancels THEN "done" ELSE @]
        /\ \/ fate' = leftUntold(e) /\ UNCHANGED repeats
           \/ /\ fate' = [fate EXCEPT ![e] = "told"]
              /\ repeats' = IF fate[e] = "told" /\ e \notin blurred THEN repeats + 1 ELSE repeats
  BY DEF PollEmits, Delivers
<1>2. poller[s].pc = "emit" /\ UNCHANGED <<seen, blurred, cuts>>
  BY DEF PollEmits
<1>3. /\ \A t \in Subs \ {s} : poller'[t] = poller[t]
      /\ poller'[s].todo = poller[s].todo /\ poller'[s].pc = "reserve"
  BY <1>0, <1>1 DEF Loops
<1>4. Apart'
  <2>1. \A t \in Subs : poller'[t].todo = poller[t].todo
    BY <1>3
  <2> QED BY <1>2, <2>1 DEF RepeatInv, Apart, ToSet
<1>5. \A f \in Emails : (reserving(f) => reserving(f)') /\ reserving(e)'
  <2>1. \A t \in Subs : poller[t].pc = "reserve" => t \in Subs \ {s}
    BY <1>2
  <2>2. isNext(s, e)'
    BY <1>1, <1>3 DEF isNext
  <2> QED BY <1>3, <2>1, <2>2 DEF reserving, isNext
<1>6. \A f \in Emails \ {e} : fate'[f] = fate[f]
  BY <1>0, <1>1 DEF leftUntold
<1>7. owed' \subseteq owed \ {e}
  BY <1>2, <1>5, <1>6 DEF owed, ToSet
<1>8. CASE repeats' = repeats
  BY <1>2, <1>4, <1>7, <1>8, DebtKept DEF RepeatInv
<1>9. CASE repeats' # repeats
  <2>1. fate[e] = "told" /\ e \notin blurred /\ repeats' = repeats + 1
    BY <1>1, <1>9
  <2>2. e \notin ToSet(seen)
    BY <1>1, <2>1 DEF RepeatInv, Apart, isNext
  <2>3. ~reserving(e)
    BY <1>1, <1>2, <2>1 DEF RepeatInv, Apart, reserving, isNext
  <2>4. e \in owed
    BY <2>1, <2>2, <2>3 DEF owed
  <2>5. IsFiniteSet(owed \ {e}) /\ Cardinality(owed \ {e}) = Cardinality(owed) - 1
    BY <2>4, OwedIsFinite, FS_RemoveElement
  <2>6. Cardinality(owed') <= Cardinality(owed) - 1 /\ Cardinality(owed') \in Nat
    BY <1>7, <2>5, FS_Subset, FS_CardinalityType
  <2>7. Debt'
    BY <1>2, <2>1, <2>6, OwedIsFinite DEF RepeatInv, Debt
  <2> QED BY <1>4, <2>7
<1> QED BY <1>8, <1>9

(* A reservation remembers the email; what it pushes out is blurred. *)
LEMMA ReserveKeepsDebt ==
    ASSUME RepeatInv, NEW s \in Subs, PollReserves(s) PROVE Apart' /\ Debt'
<1>0. poller \in [Subs -> Loops] /\ seen \in Seq(Emails)
  BY DEF RepeatInv, SkipInv, Types
<1>1. PICK e \in Emails : /\ isNext(s, e) /\ seen' = appendCapped(seen, e)
                          /\ Advances(s, poller[s].todo \ {e}, poller[s].to)
  BY DEF PollReserves
<1>2. /\ poller[s].pc = "reserve" /\ blurred' = blurred \cup (ToSet(seen) \ ToSet(seen'))
      /\ UNCHANGED <<fate, repeats, cuts>>
  BY DEF PollReserves
<1>3. ToSet(seen)' = ToSet(seen')
  BY DEF ToSet
<1>4. e \in ToSet(seen') /\ ToSet(seen') \subseteq ToSet(seen) \cup {e}
  BY <1>0, <1>1, AppendCapped
<1>5. \A t \in Subs \ {s} : poller'[t] = poller[t]
  BY <1>0, <1>1 DEF Advances
<1>6. poller'[s].todo \subseteq poller[s].todo \ {e}
  BY <1>0, <1>1 DEF Advances, NoPoller, started, Loops
<1>7. Apart'
  <2>1. \A t \in Subs : poller'[t].todo \subseteq poller[t].todo
    BY <1>5, <1>6
  <2>2. \A t \in Subs \ {s} : e \in poller[t].todo => e \in blurred
    BY <1>1 DEF RepeatInv, Apart, isNext
  <2>3. \A t \in Subs : poller'[t].todo \cap ToSet(seen') \subseteq blurred
    BY <1>4, <1>6, <2>1, <2>2 DEF RepeatInv, Apart
  <2>4. \A t, u \in Subs : t # u => poller'[t].todo \cap poller'[u].todo \subseteq blurred
    BY <2>1 DEF RepeatInv, Apart
  <2> QED BY <1>2, <1>3, <2>3, <2>4 DEF Apart
<1>8. owed' \subseteq owed
  <2> SUFFICES ASSUME NEW f \in owed' PROVE f \in owed
    OBVIOUS
  <2>1. /\ f \in Emails /\ fate[f] = "told" /\ f \notin blurred' /\ f \notin ToSet(seen')
        /\ ~reserving(f)'
    BY <1>2, <1>3 DEF owed
  <2>2. f # e /\ f \notin blurred /\ f \notin ToSet(seen)
    BY <1>2, <1>4, <2>1
  <2>3. ~reserving(f)
    <3> SUFFICES ASSUME NEW t \in Subs, poller[t].pc = "reserve", isNext(t, f) PROVE FALSE
      BY DEF reserving
    <3>1. t # s
      BY <1>1, <2>1, <2>2, NextIsOne
    <3> QED BY <1>5, <2>1, <3>1 DEF reserving, isNext
  <2> QED BY <2>1, <2>2, <2>3 DEF owed
<1> QED BY <1>2, <1>7, <1>8, DebtKept DEF RepeatInv

(* A crash cuts off the loops that were to reserve an email, one each. *)
LEMMA RestartKeepsDebt == ASSUME RepeatInv, Restart PROVE Apart' /\ Debt'
<1> DEFINE cutOff == {s \in Subs : poller[s].pc = "reserve"}
           held == {e \in Emails : reserving(e)}
           nextOf == [e \in held |-> CHOOSE s \in cutOff : isNext(s, e)]
<1>1. /\ poller' = [s \in Subs |-> NoPoller] /\ cuts' = cuts + Cardinality(cutOff)
      /\ UNCHANGED <<fate, blurred, seen, repeats>>
  BY DEF Restart, fileVars
<1>2. \A t \in Subs : poller'[t].todo = {} /\ poller'[t].pc = "none"
  BY <1>1 DEF NoPoller
<1>3. Apart'
  BY <1>2 DEF Apart
<1>4. IsFiniteSet(cutOff) /\ Cardinality(cutOff) \in Nat
  BY NotificationsAssumption, FS_Subset, FS_CardinalityType
<1>5. nextOf \in Injection(held, cutOff)
  <2>1. \A e \in held : nextOf[e] \in cutOff /\ isNext(nextOf[e], e)
    BY DEF reserving
  <2>2. \A e, f \in held : nextOf[e] = nextOf[f] => e = f
    BY <2>1, NextIsOne
  <2> QED BY <2>1, <2>2 DEF Injection, IsInjective
<1>6. IsFiniteSet(held) /\ Cardinality(held) <= Cardinality(cutOff) /\ Cardinality(held) \in Nat
  BY <1>4, <1>5, FS_Injection, FS_CardinalityType
<1>7. owed' \subseteq owed \cup held
  BY <1>1 DEF owed, ToSet
<1>8. /\ IsFiniteSet(owed \cup held)
      /\ Cardinality(owed \cup held) <= Cardinality(owed) + Cardinality(held)
  <2>1. Cardinality(owed \cap held) \in Nat
    BY OwedIsFinite, FS_Intersection, FS_CardinalityType
  <2> QED BY <1>6, <2>1, OwedIsFinite, FS_Union
<1>9. Cardinality(owed') <= Cardinality(owed \cup held) /\ Cardinality(owed') \in Nat
      /\ Cardinality(owed \cup held) \in Nat
  BY <1>7, <1>8, FS_Subset, FS_CardinalityType
<1> HIDE DEF cutOff, held
<1>10. Debt'
  BY <1>1, <1>4, <1>6, <1>8, <1>9, OwedIsFinite DEF RepeatInv, Debt
<1> QED BY <1>3, <1>10

(* What stopping a loop leaves of it. *)
LEMMA StoppedKeepsDebt ==
    ASSUME RepeatInv, NEW s \in Subs, poller' \in {poller, stopped(s)},
           UNCHANGED <<fate, blurred, seen, repeats, cuts>>
    PROVE  /\ Apart' /\ Debt'
           /\ \A t \in Subs : poller[t].pc = "none" => poller'[t].pc = "none"
<1>0. poller \in [Subs -> Loops]
  BY DEF RepeatInv, SkipInv, Types
<1>1. \A t \in Subs :
        \/ poller'[t] = poller[t]
        \/ /\ poller'[t].todo = poller[t].todo /\ poller'[t].pc = poller[t].pc
        \/ poller'[t].todo = {} /\ poller[t].pc = "wait" /\ poller'[t].pc = "none"
  <2>1. /\ cancelled(poller[s]).todo = poller[s].todo /\ cancelled(poller[s]).pc = poller[s].pc
        \/ /\ cancelled(poller[s]).todo = {} /\ poller[s].pc = "wait"
           /\ cancelled(poller[s]).pc = "none"
    BY <1>0 DEF cancelled, NoPoller, Loops
  <2>2. CASE poller' = [poller EXCEPT ![s] = cancelled(@)]
    BY <1>0, <2>1, <2>2
  <2> QED BY <2>2 DEF stopped
<1>2. Apart' /\ Debt'
  <2>1. \A t \in Subs : poller'[t].todo \subseteq poller[t].todo
    BY <1>1
  <2>2. \A t \in Subs : poller[t].pc = "reserve" =>
          poller'[t].pc = "reserve" /\ poller'[t].todo = poller[t].todo
    BY <1>1
  <2> QED BY <2>1, <2>2, DebtFrame DEF RepeatInv
<1>3. \A t \in Subs : poller[t].pc = "none" => poller'[t].pc = "none"
  BY <1>1
<1> QED BY <1>2, <1>3

(* Identifiers and loops are handed out once. *)
LEMMA ManagedFrame ==
    ASSUME Managed, UNCHANGED <<resub, call, used>>, subs' \subseteq subs,
           \A t \in Subs : poller[t].pc = "none" => poller'[t].pc = "none"
    PROVE  Managed'
BY DEF Managed

(* A step adds no repetition that no crash paid for. *)
LEMMA RepeatStep == ASSUME RepeatInv, [NotificationsNext]_notificationVars PROVE RepeatInv'
<1>0. SkipInv' /\ poller \in [Subs -> Loops]
  BY SkipStep DEF RepeatInv, SkipInv, Types
<1> SUFFICES Managed' /\ Apart' /\ Debt'
  BY <1>0 DEF RepeatInv
<1>a. Managed /\ Apart /\ Debt
  BY DEF RepeatInv
<1>1. CASE UNCHANGED notificationVars
  BY <1>a, <1>1, DebtFrame, ManagedFrame DEF notificationVars
<1>2. ASSUME NEW s \in Subs, Poller(s) PROVE Managed' /\ Apart' /\ Debt'
  <2>1. poller[s].pc # "none" /\ UNCHANGED <<resub, call, used>> /\ subs' \subseteq subs
    BY <1>2 DEF Poller, PollSeeds, PollFetches, PollEmits, PollReserves, Delivers, managerVars
  <2>2. \A t \in Subs \ {s} : poller'[t] = poller[t]
    BY <1>0, <1>2 DEF Poller, PollSeeds, PollFetches, PollEmits, PollReserves, Delivers, Advances
  <2>3. Managed'
    BY <1>a, <2>1, <2>2, ManagedFrame
  <2>4. CASE PollSeeds(s)
    <3>1. poller' = [poller EXCEPT ![s].cursor = mail]
          /\ UNCHANGED <<fate, blurred, seen, repeats, cuts>>
      BY <2>4 DEF PollSeeds
    <3>2. \A t \in Subs : poller'[t].todo = poller[t].todo /\ poller'[t].pc = poller[t].pc
      BY <1>0, <3>1 DEF Loops
    <3> QED BY <1>a, <2>3, <3>1, <3>2, DebtFrame
  <2> QED
    BY <1>2, <2>3, <2>4, FetchKeepsDebt, EmitKeepsDebt, ReserveKeepsDebt DEF Poller
<1>3. ASSUME NEW s \in Subs, SubscribeStarts(s) PROVE Managed' /\ Apart' /\ Debt'
  <2>1. /\ s \notin used /\ used' = used \cup {s}
        /\ poller' = [poller EXCEPT ![s] = started("request", cursors'[s])]
        /\ call' = [call EXCEPT ![s] = "started"]
        /\ UNCHANGED <<subs, resub, fate, blurred, seen, repeats, cuts>>
    BY <1>3 DEF SubscribeStarts
  <2>2. poller[s].pc = "none" /\ poller'[s].todo = {}
    BY <1>0, <1>a, <2>1 DEF Managed, started
  <2>3. \A t \in Subs \ {s} : poller'[t] = poller[t]
    BY <1>0, <2>1
  <2>4. Apart' /\ Debt'
    BY <1>a, <2>1, <2>2, <2>3, DebtFrame
  <2>5. Managed'
    BY <1>a, <2>1, <2>3 DEF Managed
  <2> QED BY <2>4, <2>5
<1>4. ASSUME NEW s \in Subs, Subscribe(s) \/ UnsubscribeCancels(s) \/ UnsubscribeRemoves(s)
      PROVE  Managed' /\ Apart' /\ Debt'
  <2>1. /\ poller' \in {poller, stopped(s)}
        /\ UNCHANGED <<seen, fate, blurred, repeats, cuts, resub, used>>
    BY <1>4 DEF Subscribe, SubscribeAdds, SubscribeChecks, SubscribeReturns,
                UnsubscribeCancels, UnsubscribeRemoves, cancelOne, fileVars, histVars
  <2>2. /\ Apart' /\ Debt'
        /\ \A t \in Subs : poller[t].pc = "none" => poller'[t].pc = "none"
    BY <2>1, StoppedKeepsDebt
  <2>3. /\ \E c \in {"none", "added", "checked", "remove"} : call' = [call EXCEPT ![s] = c]
        /\ subs' \subseteq subs \cup {s} /\ s \in used
    BY <1>4, <1>a DEF Subscribe, SubscribeAdds, SubscribeChecks, SubscribeReturns,
                UnsubscribeCancels, UnsubscribeRemoves, fileVars, Managed
  <2>4. Managed'
    BY <1>a, <2>1, <2>2, <2>3 DEF Managed
  <2> QED BY <2>2, <2>4
<1>5. ASSUME NEW s \in Subs, Resubscribes(s) PROVE Managed' /\ Apart' /\ Debt'
  <2>1. /\ s \in resub.left /\ resub' \in [left : SUBSET Subs, at : Subs \cup {Unset}]
        /\ resub'.left = resub.left \ {s}
        /\ UNCHANGED <<subs, call, used, fate, blurred, seen, repeats, cuts>>
    BY <1>5, <1>a DEF Resubscribes, fileVars, histVars, Managed
  <2>2. poller' \in {poller, [poller EXCEPT ![s] = started("user", cursors[s])]}
    BY <1>5 DEF Resubscribes
  <2>3. poller[s].pc = "none" /\ poller'[s].todo \subseteq poller[s].todo
    BY <1>0, <1>a, <2>1, <2>2 DEF Managed, started
  <2>4. \A t \in Subs \ {s} : poller'[t] = poller[t]
    BY <1>0, <2>2
  <2>5. Apart' /\ Debt'
    BY <1>a, <2>1, <2>3, <2>4, DebtFrame
  <2>6. Managed'
    BY <1>a, <2>1, <2>4 DEF Managed
  <2> QED BY <2>5, <2>6
<1>6. CASE ResubscribeRecords
  <2>1. /\ resub' \in [left : SUBSET Subs, at : Subs \cup {Unset}] /\ resub'.left = resub.left
        /\ UNCHANGED <<subs, poller, call, used, fate, blurred, seen, repeats, cuts>>
    BY <1>6, <1>a DEF ResubscribeRecords, fileVars, histVars, Managed
  <2>2. Managed'
    BY <1>a, <2>1 DEF Managed
  <2> QED BY <1>a, <2>1, <2>2, DebtFrame
<1>7. CASE MailArrives
  BY <1>a, <1>7, DebtFrame, ManagedFrame DEF MailArrives, fileVars, histVars, managerVars
<1>8. CASE Restart
  <2>1. Managed'
    BY <1>a, <1>8 DEF Restart, Managed, fileVars, NoPoller
  <2> QED BY <1>8, <2>1, RestartKeepsDebt
<1> QED BY <1>1, <1>2, <1>3, <1>4, <1>5, <1>6, <1>7, <1>8 DEF NotificationsNext

(* Nobody was told anything at first. *)
LEMMA RepeatInit == ASSUME NotificationsInit PROVE RepeatInv
<1>1. Managed
  BY NotificationsAssumption DEF NotificationsInit, Managed, NoPoller
<1>2. Apart
  BY DEF NotificationsInit, Apart, NoPoller
<1>3. owed = {}
  BY DEF NotificationsInit, owed
<1>4. Debt
  BY <1>3, FS_EmptySet DEF NotificationsInit, Debt
<1> QED BY <1>1, <1>2, <1>4, SkipInit DEF RepeatInv

(***************************************************************************)
(* "Bounds that re-delivery to the single in-flight message" (poll,        *)
(* reserveSeen): each repeated notification is paid for by one loop that a *)
(* crash cut off between emit and reserve, however many loops there are,   *)
(* but for emails two loops held at once or the cap pushed out.            *)
(***************************************************************************)
THEOREM RepetitionIsPaidFor == NotificationsSpec => []RepeatsArePaidFor
<1>1. ASSUME RepeatInv PROVE RepeatsArePaidFor
  BY <1>1, OwedIsFinite DEF RepeatInv, Debt, RepeatsArePaidFor
<1> QED BY <1>1, RepeatInit, RepeatStep, PTL DEF NotificationsSpec

(***************************************************************************)
(* Schedules                                                               *)
(***************************************************************************)

USE SchedulesAssumption DEF Times, Never, NextRun

Processes == Callers \cup {Loop}

(* The requests that processes make of the store. *)
Requests == [kind : Kinds, id : Ids, arg : Schedule \cup Channels \cup 0 .. MaxTime \cup {None}]

(* The argument of a request fits its kind. *)
WellFormed(o) ==
    /\ o \in Requests
    /\ o.kind = "add" => o.arg \in Schedule
    /\ o.kind = "channel" => o.arg \in Channels
    /\ o.kind = "advance" => o.arg \in 0 .. MaxTime

IoStates == [at : {"none", "listed", "writing", "reload"}, op : Requests \cup {None}, list : Files]
Passes == [at : 0 .. MaxTime, live : SUBSET Channels, left : Files]

busy(p) == io[p].at \in {"listed", "writing"}

(* Type correctness, with what the steps need: every request under way is  *)
(* well formed, the scheduler's is the advance of the schedule in hand,    *)
(* and no tool makes that one.                                             *)
Typing ==
    /\ now \in 0 .. MaxTime
    /\ configured \subseteq Channels /\ live \subseteq Channels
    /\ file \in Files /\ atomic \in Files
    /\ io \in [Processes -> IoStates]
    /\ created \subseteq Ids
    /\ reload \in BOOLEAN /\ wake \in 0 .. Never
    /\ pass \in Passes
    /\ hand \in Ids \cup {None}
    /\ stale \subseteq Ids /\ again \subseteq Ids /\ quiet \in BOOLEAN
    /\ sent \in [Ids -> SUBSET Times]
    /\ faults \in Nat

Control ==
    /\ spc \in {"down", "load", "sleep", "idle", "failed", "pass", "update", "send"}
    /\ spc \in {"update", "send"} => hand \in Ids /\ pass.left[hand] # None
    /\ io[Loop].at # "none" <=> spc = "update"
    /\ spc = "update" => busy(Loop) /\ io[Loop].op = Advance(hand)
    /\ \A p \in Processes : busy(p) => WellFormed(io[p].op)
    /\ \A c \in Callers : busy(c) => io[c].op.kind # "advance"

Inv == Typing /\ Control

LEMMA EmptyIsFile == EmptyFile \in Files /\ \A s \in Ids : EmptyFile[s] = None
  BY DEF EmptyFile, Files

(* What a request makes of a schedule: a schedule, one due after now or    *)
(* after the pass, or due when it was; an absent one stays absent unless   *)
(* it is added.                                                            *)
LEMMA ChangedTyped ==
  ASSUME now \in 0 .. MaxTime, NEW o, WellFormed(o), NEW r \in Schedule \cup {None}
  PROVE  /\ Changed(o, r) \in Schedule \cup {None}
         /\ o.kind # "add" /\ r = None => Changed(o, r) = None
         /\ o.kind = "add" => Changed(o, r) = o.arg
         /\ o.kind = "remove" => Changed(o, r) = None
         /\ o.kind = "advance" /\ r # None => Changed(o, r).next = o.arg + 1
         /\ o.kind \notin {"add", "advance"} /\ Changed(o, r) # None
                => r # None /\ Changed(o, r).next \in {r.next, now + 1}
  <1>1. CASE o.kind = "add"
    BY <1>1 DEF Changed, WellFormed
  <1>2. CASE o.kind # "add" /\ (r = None \/ o.kind = "remove")
    BY <1>2 DEF Changed, WellFormed
  <1>3. CASE o.kind # "add" /\ r # None /\ o.kind # "remove"
    <2> r \in Schedule
      BY <1>3
    <2>1. CASE o.kind = "channel"
      <3>1. Changed(o, r) = [r EXCEPT !.ch = o.arg]
        BY <1>3, <2>1 DEF Changed
      <3> QED
        BY <3>1, <2>1 DEF WellFormed, Schedule
    <2>2. CASE o.kind = "cron"
      <3>1. Changed(o, r) = [r EXCEPT !.cron = TRUE, !.next = NextRun(now)]
        BY <1>3, <2>2 DEF Changed
      <3>2. [r EXCEPT !.cron = TRUE] \in Schedule
        BY DEF Schedule
      <3>3. Changed(o, r) \in Schedule /\ Changed(o, r).next = now + 1
        <4> DEFINE q == [r EXCEPT !.cron = TRUE]
        <4>1. Changed(o, r) = [q EXCEPT !.next = NextRun(now)]
          BY <3>1
        <4> HIDE DEF q
        <4>2. q \in Schedule
          BY <3>2 DEF q
        <4> QED
          BY <4>1, <4>2 DEF Schedule
      <3> QED
        BY <3>3, <2>2, <1>3
    <2>3. CASE o.kind = "timezone"
      <3>1. Changed(o, r) = IF r.cron THEN [r EXCEPT !.next = NextRun(now)] ELSE r
        BY <1>3, <2>3 DEF Changed
      <3> QED
        BY <3>1, <2>3 DEF WellFormed, Schedule
    <2>4. CASE o.kind = "pause"
      <3>1. Changed(o, r) = [r EXCEPT !.active = FALSE]
        BY <1>3, <2>4 DEF Changed
      <3> QED
        BY <3>1, <2>4 DEF WellFormed, Schedule
    <2>5. CASE o.kind = "resume"
      <3>1. Changed(o, r) = [r EXCEPT !.active = TRUE,
                                      !.next = IF r.cron THEN NextRun(now) ELSE r.next]
        BY <1>3, <2>5 DEF Changed
      <3>2. [r EXCEPT !.active = TRUE] \in Schedule
        BY DEF Schedule
      <3>3. Changed(o, r) \in Schedule /\ Changed(o, r).next \in {r.next, now + 1}
        <4> DEFINE q == [r EXCEPT !.active = TRUE]
        <4>1. Changed(o, r) = [q EXCEPT !.next = IF r.cron THEN NextRun(now) ELSE r.next]
          BY <3>1
        <4> HIDE DEF q
        <4>2. q \in Schedule
          BY <3>2 DEF q
        <4> QED
          BY <4>1, <4>2 DEF Schedule
      <3> QED
        BY <3>3, <2>5, <1>3
    <2>6. CASE o.kind = "advance"
      <3>1. Changed(o, r) = [r EXCEPT !.next = NextRun(o.arg)]
        BY <1>3, <2>6 DEF Changed
      <3> QED
        BY <3>1, <2>6 DEF WellFormed, Schedule
    <2> QED
      BY <1>3, <2>1, <2>2, <2>3, <2>4, <2>5, <2>6 DEF WellFormed, Requests, Kinds
  <1> QED
    BY <1>1, <1>2, <1>3

LEMMA TypedInit == Init => Inv
  <1> SUFFICES ASSUME Init PROVE Inv
    OBVIOUS
  <1>1. Typing
    <2>1. io \in [Processes -> IoStates]
      BY EmptyIsFile DEF Init, Processes, IoStates, Idle
    <2>2. pass \in Passes
      BY EmptyIsFile DEF Init, Passes, NoPass
    <2>3. sent \in [Ids -> SUBSET Times]
      BY DEF Init
    <2>4. wake \in 0 .. Never /\ file \in Files /\ atomic \in Files /\ created \subseteq Ids
      BY DEF Init
    <2>5. now \in 0 .. MaxTime /\ faults \in Nat
      BY DEF Init
    <2>6. reload \in BOOLEAN /\ quiet \in BOOLEAN /\ stale \subseteq Ids /\ again \subseteq Ids
      BY DEF Init
    <2> QED
      BY <2>1, <2>2, <2>3, <2>4, <2>5, <2>6 DEF Init, Typing
  <1>2. Control
    BY EmptyIsFile DEF Init, Control, Processes, Idle, NoPass, busy, Files
  <1> QED
    BY <1>1, <1>2 DEF Inv

(* A tool call lists the file for a well-formed request: for a schedule    *)
(* it has just named, or for one whose name was handed out.                *)
LEMMA RequestMade ==
  ASSUME Inv, NEW c \in Callers, ToolCalls(c)
  PROVE  \E o \in Requests :
            /\ WellFormed(o) /\ o.kind # "advance" /\ Lists(c, o)
            /\ \/ o.kind = "add" /\ o.id \notin created /\ created' = created \cup {o.id}
               \/ o.kind # "add" /\ o.id \in created /\ created' = created
  <1>1. CASE /\ Ids # created
             /\ LET s == CHOOSE s \in Ids \ created : TRUE
                IN  /\ \E o \in CreateRequests(s) : Lists(c, o)
                    /\ created' = created \cup {s}
    <2> DEFINE s == CHOOSE s \in Ids \ created : TRUE
    <2>1. s \in Ids /\ s \notin created
      BY <1>1 DEF Inv, Typing
    <2> HIDE DEF s
    <2>2. PICK o \in CreateRequests(s) : Lists(c, o)
      BY <1>1 DEF s
    <2>3. created' = created \cup {s}
      BY <1>1 DEF s
    <2>4. o \in Requests /\ WellFormed(o) /\ o.kind = "add" /\ o.id = s
      <3>1. PICK r \in newSchedules : o = Request("add", s, r)
        BY <2>2 DEF CreateRequests
      <3> QED
        BY <3>1, <2>1 DEF newSchedules, Request, Requests, WellFormed, Kinds
    <2> QED
      BY <2>1, <2>2, <2>3, <2>4
  <1>2. CASE (\E s \in created : \E o \in ChangeRequests(s) : Lists(c, o)) /\ created' = created
    <2>1. PICK s \in created : \E o \in ChangeRequests(s) : Lists(c, o)
      BY <1>2
    <2>2. PICK o \in ChangeRequests(s) : Lists(c, o)
      BY <2>1
    <2>3. s \in Ids
      BY <2>1 DEF Inv, Typing
    <2>4. \E k \in {"channel", "cron", "timezone", "pause", "resume", "remove"},
             a \in Channels \cup {None} :
              o = Request(k, s, a) /\ (k = "channel" => a \in Channels)
      BY <2>2 DEF ChangeRequests, EditRequests, PauseRequest, ResumeRequest, DeleteRequest
    <2>5. o \in Requests /\ WellFormed(o) /\ o.kind \notin {"add", "advance"} /\ o.id = s
      BY <2>3, <2>4 DEF Request, Requests, WellFormed, Kinds
    <2> QED
      BY <1>2, <2>1, <2>2, <2>5
  <1> QED
    BY <1>1, <1>2 DEF ToolCalls

(* The list a process makes and the history of the store stay well typed. *)
LEMMA TruncateTyped ==
  ASSUME Inv, NEW p \in Processes, Truncates(p)
  PROVE  /\ file' = EmptyFile /\ stale' = stale
         /\ atomic' \in Files
         /\ io' = [io EXCEPT ![p] = [at |-> "writing", op |-> io[p].op, list |-> io'[p].list]]
         /\ io'[p].list \in Files
         /\ io[p].op \in Requests
         /\ io'[p].list = [io[p].list EXCEPT ![io[p].op.id] = Changed(io[p].op, io[p].list[io[p].op.id])]
         /\ atomic' = [atomic EXCEPT ![io[p].op.id] = Changed(io[p].op, atomic[io[p].op.id])]
         /\ io' \in [Processes -> IoStates]
         /\ io'[p].at = "writing" /\ io'[p].op = io[p].op
         /\ \A q \in Processes \ {p} : io'[q] = io[q]
  <1> DEFINE o == io[p].op
             new == [io[p].list EXCEPT ![o.id] = Changed(o, io[p].list[o.id])]
  <1>1. WellFormed(o) /\ o \in Requests /\ o.id \in Ids
    BY DEF Inv, Control, busy, Truncates, WellFormed, Requests
  <1>2. io[p] \in IoStates /\ io[p].list \in Files /\ atomic \in Files /\ now \in 0 .. MaxTime
    BY DEF Inv, Typing, IoStates
  <1>3. /\ Changed(o, io[p].list[o.id]) \in Schedule \cup {None}
        /\ Changed(o, atomic[o.id]) \in Schedule \cup {None}
    <2>1. io[p].list[o.id] \in Schedule \cup {None} /\ atomic[o.id] \in Schedule \cup {None}
      BY <1>1, <1>2 DEF Files
    <2> QED
      BY <1>1, <1>2, <2>1, ChangedTyped
  <1>4. new \in Files /\ [atomic EXCEPT ![o.id] = Changed(o, atomic[o.id])] \in Files
    BY <1>1, <1>2, <1>3 DEF Files
  <1>5. /\ io' = [io EXCEPT ![p] = [at |-> "writing", op |-> o, list |-> new]]
        /\ atomic' = [atomic EXCEPT ![o.id] = Changed(o, atomic[o.id])]
        /\ file' = EmptyFile /\ stale' = stale
    BY DEF Truncates
  <1> HIDE DEF new
  <1>6. [at |-> "writing", op |-> o, list |-> new] \in IoStates
    BY <1>1, <1>4 DEF IoStates
  <1>7. /\ io' \in [Processes -> IoStates] /\ io'[p] = [at |-> "writing", op |-> o, list |-> new]
        /\ \A q \in Processes \ {p} : io'[q] = io[q]
    BY <1>5, <1>6 DEF Inv, Typing
  <1> QED
    BY <1>1, <1>4, <1>5, <1>7 DEF new

LEMMA IdleTyped == Idle \in IoStates /\ Signalling \in IoStates
  BY EmptyIsFile DEF Idle, Signalling, IoStates

LEMMA ListsTyped ==
  ASSUME Inv, NEW p \in Processes, NEW o \in Requests, Lists(p, o)
  PROVE  /\ io' \in [Processes -> IoStates]
         /\ io'[p] = [at |-> "listed", op |-> o, list |-> file]
         /\ \A q \in Processes \ {p} : io'[q] = io[q]
  <1>1. [at |-> "listed", op |-> o, list |-> file] \in IoStates
    BY DEF Inv, Typing, IoStates
  <1> QED
    BY <1>1 DEF Lists, Inv, Typing

(* The scheduler's request: the schedule in hand moves past the pass. *)
LEMMA AdvanceTyped ==
  ASSUME Inv, NEW s \in Ids
  PROVE  /\ Advance(s) \in Requests /\ WellFormed(Advance(s)) /\ Advance(s).id = s
         /\ Advance(s).kind \in {"remove", "advance"} /\ Advance(s).arg = pass.at
  BY DEF Advance, Request, Requests, WellFormed, Kinds, Inv, Typing, Passes

LEMMA PassedOverTyped ==
  ASSUME Inv, hand \in Ids
  PROVE  /\ passedOver \in Passes /\ passedOver.at = pass.at
         /\ passedOver.left = [pass.left EXCEPT ![hand] = None]
  BY DEF passedOver, Inv, Typing, Passes, Files

LEMMA TypedStep == Inv /\ [Next]_vars => Inv'
  <1> SUFFICES ASSUME Inv, [Next]_vars PROVE Typing' /\ Control'
    BY DEF Inv
  <1> USE DEF Inv, storeVars, loopVars, sentVars
  <1>0. Loop \in Processes /\ Callers \subseteq Processes /\ Loop \notin Callers
    BY DEF Processes
  <1>1. ASSUME NEW c \in Callers, ToolCalls(c) PROVE Typing' /\ Control'
    <2>1. PICK o \in Requests :
            /\ WellFormed(o) /\ o.kind # "advance" /\ Lists(c, o)
            /\ created' \in {created \cup {o.id}, created}
      BY <1>1, RequestMade
    <2>2. /\ io' \in [Processes -> IoStates]
          /\ io'[c] = [at |-> "listed", op |-> o, list |-> file]
          /\ \A q \in Processes \ {c} : io'[q] = io[q]
      BY <1>0, <2>1, ListsTyped
    <2>3. created' \subseteq Ids
      BY <2>1 DEF Requests, Typing
    <2>4. Typing'
      BY <1>1, <2>2, <2>3 DEF Typing, ToolCalls
    <2>5. Control'
      BY <1>0, <1>1, <2>1, <2>2 DEF Control, ToolCalls, busy, Advance
    <2> QED
      BY <2>4, <2>5
  <1>2. ASSUME NEW p \in Processes, Truncates(p),
               UNCHANGED <<now, configured, live, calls, created, loopVars, reload, sentVars, faults, quiet>>
        PROVE  Typing' /\ Control'
    <2>1. /\ file' = EmptyFile /\ stale' = stale /\ atomic' \in Files
          /\ io' \in [Processes -> IoStates]
          /\ io'[p].at = "writing" /\ io'[p].op = io[p].op
          /\ \A q \in Processes \ {p} : io'[q] = io[q]
      BY <1>2, TruncateTyped
    <2>2. io[p].at = "listed"
      BY <1>2 DEF Truncates
    <2>3. Typing'
      BY <1>2, <2>1, EmptyIsFile DEF Typing
    <2>4. Control'
      BY <1>0, <1>2, <2>1, <2>2 DEF Control, busy, Advance
    <2> QED
      BY <2>3, <2>4
  <1>3. ASSUME NEW c \in Callers, ToolWrites(c) PROVE Typing' /\ Control'
    <2>1. PICK x \in {Idle, Signalling} : io' = [io EXCEPT ![c] = x]
      BY <1>3 DEF ToolWrites
    <2>2. io' \in [Processes -> IoStates]
      BY <1>0, <2>1, IdleTyped DEF Typing
    <2>3. io[c].list \in Files /\ differing(io[c].list, atomic) \subseteq Ids
      BY <1>0 DEF Typing, IoStates, differing
    <2>4. Typing'
      BY <1>3, <2>2, <2>3 DEF Typing, ToolWrites, Writes
    <2>5. Control'
      BY <1>0, <1>3, <2>1 DEF Control, ToolWrites, Writes, busy, Advance, Typing, Idle, Signalling
    <2> QED
      BY <2>4, <2>5
  <1>4. ASSUME NEW c \in Callers, ToolFails(c) PROVE Typing' /\ Control'
    <2>1. io' = [io EXCEPT ![c] = Idle] /\ io' \in [Processes -> IoStates]
      BY <1>0, <1>4, IdleTyped DEF ToolFails, Typing
    <2>2. stale' \subseteq Ids /\ faults' \in Nat
      BY <1>0, <1>4 DEF ToolFails, OperationFails, Typing, differing, fault
    <2>3. Typing'
      BY <1>4, <2>1, <2>2 DEF Typing, ToolFails, OperationFails
    <2>4. Control'
      BY <1>0, <1>4, <2>1 DEF Control, ToolFails, OperationFails, busy, Advance, Typing, Idle
    <2> QED
      BY <2>3, <2>4
  <1>5. ASSUME NEW c \in Callers, ToolReloads(c) PROVE Typing' /\ Control'
    <2>1. io' = [io EXCEPT ![c] = Idle] /\ io' \in [Processes -> IoStates]
      BY <1>0, <1>5, IdleTyped DEF ToolReloads, Typing
    <2>2. Typing'
      BY <1>5, <2>1 DEF Typing, ToolReloads, Reloads
    <2>3. Control'
      BY <1>0, <1>5, <2>1 DEF Control, ToolReloads, busy, Advance, Typing, Idle
    <2> QED
      BY <2>2, <2>3
  <1>6. ASSUME Load PROVE Typing' /\ Control'
    <2>1. wake' \in 0 .. Never /\ faults' \in Nat
      BY <1>6 DEF Load, activeIn, Typing, Files, Schedule, fault
    <2>2. Typing'
      BY <1>6, <2>1 DEF Typing, Load
    <2>3. Control'
      BY <1>0, <1>6 DEF Control, Load, busy, Advance
    <2> QED
      BY <2>2, <2>3
  <1>7. ASSUME Reloaded PROVE Typing' /\ Control'
    <2>1. wake' \in 0 .. Never
      BY <1>7 DEF Reloaded
    <2>2. Typing'
      BY <1>7, <2>1 DEF Typing, Reloaded
    <2>3. Control'
      BY <1>0, <1>7 DEF Control, Reloaded, rests, busy, Advance
    <2> QED
      BY <2>2, <2>3
  <1>8. ASSUME Wakes PROVE Typing' /\ Control'
    <2>1. pass' \in Passes /\ faults' \in Nat
      BY <1>8 DEF Wakes, Typing, Passes, Files, fault
    <2>2. Typing'
      BY <1>8, <2>1 DEF Typing, Wakes
    <2>3. Control'
      BY <1>0, <1>8 DEF Control, Wakes, busy, Advance
    <2> QED
      BY <2>2, <2>3
  <1>9. ASSUME NEW s \in Ids, Fires(s) PROVE Typing' /\ Control'
    <2>1. Advance(s) \in Requests /\ WellFormed(Advance(s))
      BY AdvanceTyped
    <2>2. /\ io' \in [Processes -> IoStates]
          /\ io'[Loop] = [at |-> "listed", op |-> Advance(s), list |-> file]
          /\ \A q \in Processes \ {Loop} : io'[q] = io[q]
      BY <1>0, <1>9, <2>1, ListsTyped DEF Fires
    <2>3. Typing'
      BY <1>9, <2>2 DEF Typing, Fires
    <2>4. Control'
      <3>1. Advance(s) = Advance(hand)'
        BY <1>9 DEF Fires, Advance
      <3> QED
        BY <1>0, <1>9, <2>1, <2>2, <3>1 DEF Control, Fires, busy
    <2> QED
      BY <2>3, <2>4
  <1>10. ASSUME LoopWrites \/ LoopUpdateFails PROVE Typing' /\ Control'
    <2>1. io' = [io EXCEPT ![Loop] = Idle] /\ io' \in [Processes -> IoStates]
      BY <1>0, <1>10, IdleTyped DEF LoopWrites, LoopUpdateFails, Typing
    <2>2. spc = "update" /\ hand \in Ids /\ pass.left[hand] # None
      BY <1>0, <1>10 DEF LoopWrites, LoopUpdateFails, Writes, OperationFails, Control
    <2>3. /\ pass' \in Passes /\ hand' \in Ids \cup {None}
          /\ \/ spc' = "send" /\ pass' = pass /\ hand' = hand
             \/ spc' = "pass"
      BY <1>10, <2>2, PassedOverTyped DEF LoopWrites, LoopUpdateFails, Proceeds, Typing
    <2>4. stale' \subseteq Ids /\ faults' \in Nat /\ file' \in Files /\ atomic' = atomic
      BY <1>0, <1>10, <2>2
      DEF LoopWrites, LoopUpdateFails, Writes, OperationFails, Typing, IoStates, differing, fault
    <2>5. Typing'
      BY <1>10, <2>1, <2>3, <2>4 DEF Typing, LoopWrites, LoopUpdateFails
    <2>6. Control'
      BY <1>0, <1>10, <2>1, <2>2, <2>3 DEF Control, busy, Typing, Idle
    <2> QED
      BY <2>5, <2>6
  <1>11. ASSUME Sends PROVE Typing' /\ Control'
    <2>1. hand \in Ids /\ pass.left[hand] # None
      BY <1>11 DEF Sends, Control
    <2>2. pass' \in Passes
      BY <1>11, <2>1, PassedOverTyped DEF Sends
    <2>3. sent' \in [Ids -> SUBSET Times] /\ again' \subseteq Ids
      BY <1>11, <2>1 DEF Sends, Typing, Passes, Files, Schedule
    <2>4. Typing'
      BY <1>11, <2>2, <2>3 DEF Typing, Sends
    <2>5. Control'
      BY <1>0, <1>11 DEF Control, Sends, busy
    <2> QED
      BY <2>4, <2>5
  <1>12. ASSUME PassEnds PROVE Typing' /\ Control'
    <2>1. pass' \in Passes
      BY <1>12, EmptyIsFile DEF PassEnds, NoPass, Passes
    <2>2. Typing'
      BY <1>12, <2>1 DEF Typing, PassEnds
    <2>3. Control'
      BY <1>0, <1>12 DEF Control, PassEnds, busy
    <2> QED
      BY <2>2, <2>3
  <1>13. ASSUME Ticks \/ IterationBegins \/ (\E c \in Channels : ChannelDeleted(c)) \/ Boot
         PROVE  Typing' /\ Control'
    <2>1. Typing'
      <3>1. now' \in 0 .. MaxTime /\ configured' \subseteq Channels
        BY <1>13 DEF Typing, Ticks, IterationBegins, ChannelDeleted, Boot
      <3>2. live' \subseteq Channels /\ reload' \in BOOLEAN
        BY <1>13 DEF Typing, Ticks, IterationBegins, ChannelDeleted, Boot, Reloads
      <3> QED
        BY <1>13, <3>1, <3>2 DEF Typing, Ticks, IterationBegins, ChannelDeleted, Boot
    <2>2. Control'
      BY <1>0, <1>13 DEF Control, Ticks, IterationBegins, ChannelDeleted, Boot, busy, Advance
    <2> QED
      BY <2>1, <2>2
  <1>14. ASSUME Crash PROVE Typing' /\ Control'
    <2>1. io' \in [Processes -> IoStates] /\ \A p \in Processes : io'[p] = Idle
      BY <1>14, IdleTyped DEF Crash, Processes
    <2>2. pass' \in Passes
      BY <1>14, EmptyIsFile DEF Crash, NoPass, Passes
    <2>3. stale' \subseteq Ids /\ faults' \in Nat /\ wake' \in 0 .. Never
      BY <1>14 DEF Crash, Typing, differing, fault
    <2>4. Typing'
      BY <1>14, <2>1, <2>2, <2>3 DEF Typing, Crash
    <2>5. Control'
      BY <1>0, <1>14, <2>1 DEF Control, Crash, busy, Idle
    <2> QED
      BY <2>4, <2>5
  <1>15. ASSUME UNCHANGED vars PROVE Typing' /\ Control'
    <2>1. Typing'
      BY <1>15 DEF vars, Typing
    <2>2. Control'
      BY <1>15 DEF vars, Control, busy, Advance
    <2> QED
      BY <2>1, <2>2
  <1>16. ASSUME NEW c \in Callers, ToolTruncates(c) PROVE Typing' /\ Control'
    BY <1>0, <1>2, <1>16 DEF ToolTruncates
  <1>17. ASSUME LoopTruncates PROVE Typing' /\ Control'
    BY <1>0, <1>2, <1>17 DEF LoopTruncates
  <1> QED
    BY <1>1, <1>3, <1>4, <1>5, <1>6, <1>7, <1>8, <1>9, <1>10, <1>11, <1>12, <1>13, <1>14, <1>15,
       <1>16, <1>17 DEF Next, Tool, Scheduler

LEMMA TypingImpliesTypeOK == Inv => TypeOK
  <1> SUFFICES ASSUME Inv PROVE TypeOK
    OBVIOUS
  <1>1. \A p \in Callers \cup {Loop} :
           /\ io[p].at \in {"none", "listed", "writing", "reload"}
           /\ io[p].list \in Files
           /\ io[p].at \in {"listed", "writing"} => io[p].op.kind \in Kinds /\ io[p].op.id \in Ids
    BY DEF Inv, Typing, Control, Processes, IoStates, busy, WellFormed, Requests
  <1>2. pass.at \in 0 .. MaxTime /\ pass.live \subseteq Channels /\ pass.left \in Files
    BY DEF Inv, Typing, Passes
  <1> QED
    BY <1>1, <1>2 DEF TypeOK, Inv, Typing, Control

(* The timer is set from the file, and every later change of the file is   *)
(* followed by a signal, or leaves the schedules of the file inactive.     *)
LEMMA SleepStep == Inv /\ SleepIsSound /\ [Next]_vars => SleepIsSound'
  <1> SUFFICES ASSUME Inv, SleepIsSound, [Next]_vars,
                      (spc \in {"sleep", "idle"})', ~reload', ~quiet',
                      \A c \in Callers : io'[c].at # "reload"
               PROVE  \A s \in activeIn(file') : wake' <= file'[s].next
    BY DEF SleepIsSound, activeIn
  <1> USE DEF storeVars, loopVars, sentVars
  <1>0. Loop \in Processes /\ Callers \subseteq Processes /\ Loop \notin Callers
    BY DEF Processes
  <1>1. CASE Load
    <2>1. \A s \in activeIn(file) : file[s].next \in Times
      BY DEF activeIn, Inv, Typing, Files, Schedule
    <2> QED
      BY <1>1, <2>1 DEF Load
  <1>2. CASE file' = EmptyFile
    BY <1>2, EmptyIsFile DEF activeIn
  <1>3. ASSUME NEW c \in Callers, ToolWrites(c) PROVE FALSE
    <2>1. io'[c] = Signalling
      BY <1>0, <1>3 DEF ToolWrites, Inv, Typing
    <2> QED
      BY <2>1 DEF Signalling
  <1>4. ASSUME LoopWrites \/ LoopUpdateFails PROVE FALSE
    BY <1>0, <1>4 DEF LoopWrites, LoopUpdateFails, Proceeds
  <1>5. ASSUME NEW c \in Callers, ToolReloads(c) PROVE FALSE
    BY <1>5 DEF ToolReloads, Reloads
  <1>6. CASE /\ file' = file /\ wake' = wake /\ spc' = spc /\ quiet' = quiet /\ reload' = reload
             /\ \A c \in Callers : io[c].at # "reload"
    BY <1>6 DEF SleepIsSound
  <1>7. ASSUME NEW c \in Callers, ToolCalls(c) \/ ToolFails(c)
        PROVE \A d \in Callers : io[d].at # "reload"
    <2>1. \A d \in Callers \ {c} : io'[d] = io[d]
      BY <1>0, <1>7, RequestMade, ListsTyped DEF ToolFails, Inv, Typing
    <2>2. io[c].at # "reload"
      BY <1>7 DEF ToolCalls, ToolFails, OperationFails
    <2> QED
      BY <2>1, <2>2
  <1>8. ASSUME NEW s \in Ids, Fires(s) PROVE FALSE
    BY <1>8 DEF Fires
  <1> QED
    BY <1>1, <1>2, <1>3, <1>4, <1>5, <1>6, <1>7, <1>8
    DEF Next, Tool, Scheduler, vars, ToolCalls, ToolTruncates, LoopTruncates, Truncates, ToolFails,
        OperationFails, Reloaded, Wakes, Sends, PassEnds, Ticks, IterationBegins, ChannelDeleted,
        Crash, Boot, Reloads

-----------------------------------------------------------------------------
(* A schedule that is not stored yet: its identifier was not handed out,   *)
(* or the call that creates it has only listed the file.                   *)

addListed(c, s) == io[c].at = "listed" /\ io[c].op.kind = "add" /\ io[c].op.id = s
Unborn(s) == s \notin created \/ \E c \in Callers : addListed(c, s)
Absent(s) ==
    /\ file[s] = None /\ atomic[s] = None /\ pass.left[s] = None /\ sent[s] = {}
    /\ \A p \in Processes : io[p].list[s] = None

(* Nothing anywhere knows such a schedule, and one call at most creates it. *)
Births ==
    /\ \A s \in Ids : Unborn(s) => Absent(s)
    /\ \A c \in Callers, d \in Callers, s \in Ids : addListed(c, s) /\ addListed(d, s) => c = d
    /\ \A c \in Callers, s \in Ids : addListed(c, s) => s \in created

LEMMA BirthsInit == Init => Births
  BY EmptyIsFile DEF Init, Births, Unborn, Absent, addListed, Idle, NoPass, Processes

(* Only a new request adds to the calls that are about to create a schedule. *)
LEMMA BirthsShrink ==
  ASSUME Births, created' = created,
         \A c \in Callers, s \in Ids : addListed(c, s)' => addListed(c, s)
  PROVE  /\ \A s \in Ids : Unborn(s)' => Unborn(s)
         /\ \A c \in Callers, d \in Callers, s \in Ids : addListed(c, s)' /\ addListed(d, s)' => c = d
         /\ \A c \in Callers, s \in Ids : addListed(c, s)' => s \in created'
  <1>1. \A s \in Ids : Unborn(s)' => Unborn(s)
    BY DEF Unborn
  <1> QED
    BY <1>1 DEF Births

LEMMA BirthsStep == Inv /\ Births /\ [Next]_vars => Births'
  <1> SUFFICES ASSUME Inv, Births, [Next]_vars PROVE Births'
    OBVIOUS
  <1> USE DEF storeVars, loopVars, sentVars
  <1>0. Loop \in Processes /\ Callers \subseteq Processes /\ Loop \notin Callers
    BY DEF Processes
  <1>1. ASSUME NEW c \in Callers, ToolCalls(c) PROVE Births'
    <2>1. PICK o \in Requests :
            /\ WellFormed(o) /\ o.kind # "advance" /\ Lists(c, o)
            /\ \/ o.kind = "add" /\ o.id \notin created /\ created' = created \cup {o.id}
               \/ o.kind # "add" /\ o.id \in created /\ created' = created
      BY <1>1, RequestMade
    <2>2. /\ io'[c] = [at |-> "listed", op |-> o, list |-> file]
          /\ \A q \in Processes \ {c} : io'[q] = io[q]
      BY <1>0, <2>1, ListsTyped
    <2>3. \A d \in Callers, s \in Ids :
             addListed(d, s)' <=> IF d = c THEN o.kind = "add" /\ o.id = s ELSE addListed(d, s)
      BY <1>0, <2>2 DEF addListed
    <2>4. \A s \in Ids : Unborn(s)' => Unborn(s)
      BY <2>1, <2>3 DEF Unborn
    <2>5. ASSUME NEW s \in Ids, Absent(s) PROVE Absent(s)'
      BY <1>0, <1>1, <2>2, <2>5 DEF Absent, ToolCalls
    <2>6. \A d \in Callers, s \in Ids : addListed(d, s)' => s \in created'
      BY <2>1, <2>3 DEF Births
    <2>7. \A d \in Callers, e \in Callers, s \in Ids : addListed(d, s)' /\ addListed(e, s)' => d = e
      BY <2>1, <2>3 DEF Births
    <2> QED
      BY <2>4, <2>5, <2>6, <2>7 DEF Births
  <1>2. ASSUME NEW p \in Processes, Truncates(p),
               UNCHANGED <<now, configured, live, calls, created, loopVars, reload, sentVars, faults, quiet>>
        PROVE  Births'
    <2> DEFINE o == io[p].op
    <2>1. /\ file' = EmptyFile /\ io'[p].at = "writing"
          /\ \A q \in Processes \ {p} : io'[q] = io[q]
          /\ io'[p].list = [io[p].list EXCEPT ![o.id] = Changed(o, io[p].list[o.id])]
          /\ atomic' = [atomic EXCEPT ![o.id] = Changed(o, atomic[o.id])]
      BY <1>2, TruncateTyped
    <2>2. WellFormed(o) /\ o.id \in Ids /\ io[p].at = "listed"
      BY <1>2 DEF Inv, Control, busy, Truncates, WellFormed, Requests
    <2>3. /\ atomic \in Files /\ io[p].list \in Files /\ now \in 0 .. MaxTime
          /\ p = Loop => o.kind # "add"
      BY <1>2, AdvanceTyped DEF Inv, Typing, Control, Processes, IoStates, Truncates, busy
    <2>4. \A d \in Callers, s \in Ids : addListed(d, s)' <=> d # p /\ addListed(d, s)
      BY <1>0, <2>1 DEF addListed
    <2>5. /\ \A s \in Ids : Unborn(s)' => Unborn(s)
          /\ \A c \in Callers, d \in Callers, s \in Ids : addListed(c, s)' /\ addListed(d, s)' => c = d
          /\ \A c \in Callers, s \in Ids : addListed(c, s)' => s \in created'
      BY <1>2, <2>4, BirthsShrink
    <2>6. ASSUME NEW s \in Ids, Unborn(s)' PROVE Absent(s)'
      <3>1. Unborn(s) /\ Absent(s)
        BY <2>5, <2>6 DEF Births
      <3>2. ~ (o.kind = "add" /\ o.id = s)
        <4> SUFFICES ASSUME o.kind = "add", o.id = s PROVE FALSE
          OBVIOUS
        <4>1. p \in Callers /\ addListed(p, s)
          BY <1>2, <2>2, <2>3 DEF addListed, Processes
        <4>2. s \in created'
          BY <1>2, <4>1 DEF Births
        <4>3. PICK d \in Callers : d # p /\ addListed(d, s)
          BY <2>4, <2>6, <4>2 DEF Unborn
        <4> QED
          BY <4>1, <4>3 DEF Births
      <3>3. o.id = s => Changed(o, None) = None
        BY <2>2, <2>3, <3>2, ChangedTyped
      <3>4. atomic'[s] = None /\ io'[p].list[s] = None
        BY <2>1, <2>2, <2>3, <3>1, <3>3 DEF Absent, Files
      <3> QED
        BY <1>2, <2>1, <3>1, <3>4, EmptyIsFile DEF Absent
    <2> QED
      BY <2>5, <2>6 DEF Births
  <1>3. ASSUME created' = created,
               \A c \in Callers, s \in Ids : addListed(c, s)' => addListed(c, s),
               \A s \in Ids : Absent(s) => Absent(s)'
        PROVE  Births'
    BY <1>3, BirthsShrink DEF Births
  <1>4. ASSUME NEW p \in Processes, NEW x \in {Idle, Signalling}, io' = [io EXCEPT ![p] = x]
        PROVE  /\ \A c \in Callers, s \in Ids : addListed(c, s)' => addListed(c, s)
               /\ \A s \in Ids, q \in Processes : io[q].list[s] = None => io'[q].list[s] = None
    BY <1>4, EmptyIsFile DEF addListed, Idle, Signalling, Inv, Typing, Processes
  <1>5. ASSUME NEW c \in Callers, ToolWrites(c) PROVE Births'
    <2>1. PICK x \in {Idle, Signalling} : io' = [io EXCEPT ![c] = x]
      BY <1>5 DEF ToolWrites
    <2>2. \A s \in Ids : Absent(s) => Absent(s)'
      BY <1>0, <1>4, <1>5, <2>1 DEF ToolWrites, Writes, Absent
    <2> QED
      BY <1>0, <1>3, <1>4, <1>5, <2>1, <2>2 DEF ToolWrites
  <1>6. ASSUME NEW c \in Callers, ToolFails(c) \/ ToolReloads(c) PROVE Births'
    <2>1. io' = [io EXCEPT ![c] = Idle]
      BY <1>6 DEF ToolFails, ToolReloads
    <2>2. \A s \in Ids : Absent(s) => Absent(s)'
      BY <1>0, <1>4, <1>6, <2>1 DEF ToolFails, OperationFails, ToolReloads, Absent
    <2> QED
      BY <1>0, <1>3, <1>4, <1>6, <2>1, <2>2 DEF ToolFails, ToolReloads
  <1>7. ASSUME NEW s \in Ids, Fires(s) PROVE Births'
    <2>1. /\ io'[Loop] = [at |-> "listed", op |-> Advance(s), list |-> file]
          /\ \A q \in Processes \ {Loop} : io'[q] = io[q]
      BY <1>0, <1>7, AdvanceTyped, ListsTyped DEF Fires
    <2>2. \A c \in Callers, t \in Ids : addListed(c, t)' => addListed(c, t)
      BY <1>0, <2>1 DEF addListed
    <2>3. \A t \in Ids : Absent(t) => Absent(t)'
      BY <1>0, <1>7, <2>1 DEF Fires, Absent
    <2> QED
      BY <1>3, <1>7, <2>2, <2>3 DEF Fires
  <1>8. ASSUME LoopWrites \/ LoopUpdateFails PROVE Births'
    <2>1. io' = [io EXCEPT ![Loop] = Idle] /\ hand \in Ids
      BY <1>0, <1>8 DEF LoopWrites, LoopUpdateFails, Writes, OperationFails, Inv, Control
    <2>2. \A s \in Ids : pass.left[s] = None => pass'.left[s] = None
      BY <1>8, <2>1, PassedOverTyped DEF LoopWrites, LoopUpdateFails, Proceeds, Inv, Typing, Passes, Files
    <2>3. \A s \in Ids : Absent(s) => Absent(s)'
      BY <1>0, <1>4, <1>8, <2>1, <2>2
      DEF LoopWrites, LoopUpdateFails, Writes, OperationFails, Absent
    <2> QED
      BY <1>0, <1>3, <1>4, <1>8, <2>1, <2>3 DEF LoopWrites, LoopUpdateFails
  <1>9. ASSUME Sends PROVE Births'
    <2>1. hand \in Ids /\ pass.left[hand] # None
      BY <1>9 DEF Sends, Inv, Control
    <2>2. \A s \in Ids : pass.left[s] = None => pass'.left[s] = None /\ sent'[s] = sent[s]
      BY <1>9, <2>1, PassedOverTyped DEF Sends, Inv, Typing, Passes, Files
    <2>3. \A s \in Ids : Absent(s) => Absent(s)'
      BY <1>9, <2>2 DEF Sends, Absent
    <2> QED
      BY <1>3, <1>9, <2>3 DEF Sends, addListed
  <1>10. ASSUME Wakes PROVE Births'
    <2>1. \A s \in Ids : Absent(s) => Absent(s)'
      BY <1>10 DEF Wakes, Absent
    <2> QED
      BY <1>3, <1>10, <2>1 DEF Wakes, addListed
  <1>11. ASSUME Crash PROVE Births'
    <2>1. \A s \in Ids : Absent(s) => Absent(s)'
      BY <1>11, EmptyIsFile DEF Crash, Absent, NoPass, Idle, Processes
    <2>2. \A c \in Callers, s \in Ids : ~ addListed(c, s)'
      BY <1>11 DEF Crash, addListed, Idle
    <2> QED
      BY <1>3, <1>11, <2>1, <2>2 DEF Crash
  <1>12. ASSUME PassEnds PROVE Births'
    <2>1. \A s \in Ids : Absent(s) => Absent(s)'
      BY <1>12, EmptyIsFile DEF PassEnds, Absent, NoPass
    <2> QED
      BY <1>3, <1>12, <2>1 DEF PassEnds, addListed
  <1>13. ASSUME file' = file, atomic' = atomic, pass' = pass, sent' = sent, io' = io, created' = created
         PROVE  Births'
    <2>1. \A s \in Ids : Absent(s) => Absent(s)'
      BY <1>13 DEF Absent
    <2> QED
      BY <1>3, <1>13, <2>1 DEF addListed
  <1>14. ASSUME NEW c \in Callers, ToolTruncates(c) PROVE Births'
    BY <1>0, <1>2, <1>14 DEF ToolTruncates
  <1>15. ASSUME LoopTruncates PROVE Births'
    BY <1>0, <1>2, <1>15 DEF LoopTruncates
  <1>16. CASE Load \/ Reloaded \/ Ticks \/ IterationBegins \/ (\E c \in Channels : ChannelDeleted(c))
              \/ Boot \/ UNCHANGED vars
    BY <1>13, <1>16 DEF Load, Reloaded, Ticks, IterationBegins, ChannelDeleted, Boot, vars
  <1> QED
    BY <1>1, <1>5, <1>6, <1>7, <1>8, <1>9, <1>10, <1>11, <1>12, <1>14, <1>15, <1>16
    DEF Next, Tool, Scheduler

-----------------------------------------------------------------------------
(* What was sent lies in the past: a due time that was sent for is not     *)
(* ahead of the clock, nor of the pass that is under way.                  *)

inPass == spc \in {"pass", "update", "send"}

Past ==
    /\ pass.at <= now
    /\ \A s \in Ids : \A d \in sent[s] : d <= now /\ (inPass => d <= pass.at)
    /\ \A s \in Ids : pass.left[s] # None => pass.left[s].next <= pass.at

LEMMA PastInit == Init => Past
  BY EmptyIsFile DEF Init, Past, NoPass

LEMMA PastStep == Inv /\ Past /\ [Next]_vars => Past'
  <1> SUFFICES ASSUME Inv, Past, [Next]_vars PROVE Past'
    OBVIOUS
  <1> USE DEF storeVars, loopVars, sentVars
  <1>0. now \in 0 .. MaxTime /\ pass.at \in 0 .. MaxTime /\ \A s \in Ids : sent[s] \subseteq Times
    BY DEF Inv, Typing, Passes
  <1>1. ASSUME sent' = sent, pass' = pass, now' \in {now, now + 1}, inPass' => inPass PROVE Past'
    BY <1>0, <1>1 DEF Past
  <1>2. ASSUME Wakes PROVE Past'
    <2>1. CASE spc' = "load" /\ pass' = pass
      BY <1>1, <1>2, <2>1 DEF Wakes, inPass
    <2>2. CASE pass' = [at |-> now, live |-> live,
                        left |-> [s \in Ids |-> IF s \in dueIn(file, now) THEN file[s] ELSE None]]
      <3>1. \A s \in Ids : pass'.left[s] # None => pass'.left[s].next <= now
        BY <2>2 DEF dueIn
      <3> QED
        BY <1>0, <1>2, <2>2, <3>1 DEF Wakes, Past
    <2> QED
      BY <1>2, <2>1, <2>2 DEF Wakes
  <1>3. ASSUME hand \in Ids, pass' = passedOver, now' = now, inPass,
               \A s \in Ids : sent'[s] \subseteq sent[s] \cup (IF pass.left[s] # None THEN {pass.left[s].next} ELSE {})
        PROVE  Past'
    <2>1. pass'.at = pass.at /\ \A s \in Ids : pass'.left[s] # None => pass'.left[s] = pass.left[s]
      BY <1>3, PassedOverTyped DEF Inv, Typing, Passes, Files
    <2>2. \A s \in Ids : \A d \in sent'[s] : d <= now /\ d <= pass.at
      <3> SUFFICES ASSUME NEW s \in Ids, NEW d \in sent'[s] PROVE d <= now /\ d <= pass.at
        OBVIOUS
      <3>1. CASE d \in sent[s]
        BY <1>3, <3>1 DEF Past
      <3>2. CASE pass.left[s] # None /\ d = pass.left[s].next
        <4>1. d \in Times
          BY <3>2 DEF Inv, Typing, Passes, Files, Schedule
        <4> QED
          BY <1>0, <3>2, <4>1 DEF Past
      <3> QED
        BY <1>3, <3>1, <3>2
    <2> QED
      BY <1>0, <1>3, <2>1, <2>2 DEF Past
  <1>4. ASSUME LoopWrites \/ LoopUpdateFails PROVE Past'
    <2>1. spc = "update" /\ hand \in Ids
      BY <1>4 DEF LoopWrites, LoopUpdateFails, Writes, OperationFails, Inv, Control
    <2>2. CASE pass' = pass
      BY <1>1, <1>4, <2>1, <2>2 DEF LoopWrites, LoopUpdateFails, inPass
    <2>3. CASE pass' = passedOver
      BY <1>3, <1>4, <2>1, <2>3 DEF LoopWrites, LoopUpdateFails, inPass
    <2> QED
      BY <1>4, <2>2, <2>3 DEF LoopWrites, LoopUpdateFails, Proceeds
  <1>5. ASSUME Sends PROVE Past'
    <2>1. hand \in Ids /\ pass.left[hand] # None /\ inPass
      BY <1>5 DEF Sends, Inv, Control, inPass
    <2>2. \A s \in Ids : sent'[s] = IF s = hand THEN sent[s] \cup {pass.left[s].next} ELSE sent[s]
      BY <1>5 DEF Sends, Inv, Typing
    <2> QED
      BY <1>3, <1>5, <2>1, <2>2 DEF Sends
  <1>6. ASSUME PassEnds \/ Crash PROVE Past'
    <2>1. pass' = NoPass /\ sent' = sent /\ now' = now /\ spc' \in {"load", "down"}
      BY <1>6 DEF PassEnds, Crash
    <2> QED
      BY <1>0, <2>1, EmptyIsFile DEF Past, inPass, NoPass
  <1>7. CASE \/ \E c \in Callers : ToolCalls(c) \/ Tool(c)
             \/ Load \/ Reloaded \/ (\E s \in Ids : Fires(s)) \/ LoopTruncates
             \/ Ticks \/ IterationBegins \/ (\E c \in Channels : ChannelDeleted(c)) \/ Boot
             \/ UNCHANGED vars
    <2>1. sent' = sent /\ pass' = pass /\ now' \in {now, now + 1} /\ (inPass' => inPass)
      BY <1>7 DEF Tool, ToolCalls, ToolTruncates, ToolWrites, ToolFails, ToolReloads, Load, Reloaded,
                  Fires, LoopTruncates, Ticks, IterationBegins, ChannelDeleted, Boot, vars, inPass
    <2> QED
      BY <1>1, <2>1
  <1> QED
    BY <1>2, <1>4, <1>5, <1>6, <1>7 DEF Next, Scheduler

-----------------------------------------------------------------------------
(* The schedules that were never stale: the file has them as if every      *)
(* operation of the store were one step, or has lost them for a moment;    *)
(* they are due after everything they were sent for; and once the store is *)
(* updated the one in hand is due after the pass.                          *)

advanced == spc = "send" \/ (spc = "update" /\ io[Loop].at = "writing")

Sound(s) ==
    /\ file[s] \in {None, atomic[s]}
    /\ atomic[s] # None => \A d \in sent[s] : d < atomic[s].next
    /\ pass.left[s] # None => pass.left[s].next \notin sent[s]
    /\ advanced /\ hand = s /\ atomic[s] # None => pass.at < atomic[s].next

Fresh == \A s \in Ids : s \notin stale => Sound(s)

LEMMA FreshInit == Init => Fresh
  BY EmptyIsFile DEF Init, Fresh, Sound, NoPass, advanced

LEMMA FreshStep == Inv /\ Births /\ Past /\ Fresh /\ [Next]_vars => Fresh' /\ stale \subseteq stale'
  <1> SUFFICES ASSUME Inv, Births, Past, Fresh, [Next]_vars PROVE Fresh' /\ stale \subseteq stale'
    OBVIOUS
  <1> USE DEF storeVars, loopVars, sentVars
  <1>0. /\ Loop \in Processes /\ Callers \subseteq Processes /\ Loop \notin Callers
        /\ now \in 0 .. MaxTime /\ pass.at \in 0 .. MaxTime /\ pass.at <= now
        /\ \A s \in Ids : sent[s] \subseteq Times
    BY DEF Processes, Inv, Typing, Passes, Past
  <1>1. ASSUME stale \subseteq stale', \A s \in Ids : s \notin stale' /\ Sound(s) => Sound(s)'
        PROVE  Fresh' /\ stale \subseteq stale'
    BY <1>1 DEF Fresh
  <1>2. ASSUME NEW p \in Processes, Truncates(p),
               UNCHANGED <<now, configured, live, calls, created, loopVars, reload, sentVars, faults, quiet>>
        PROVE  Fresh' /\ stale \subseteq stale'
    <2> DEFINE o == io[p].op
    <2>1. /\ file' = EmptyFile /\ stale' = stale /\ io'[p].at = "writing"
          /\ \A q \in Processes \ {p} : io'[q] = io[q]
          /\ atomic' = [atomic EXCEPT ![o.id] = Changed(o, atomic[o.id])]
          /\ atomic' \in Files
      BY <1>2, TruncateTyped
    <2>2. WellFormed(o) /\ o.id \in Ids /\ io[p].at = "listed" /\ atomic \in Files
      BY <1>2 DEF Inv, Typing, Control, busy, Truncates, WellFormed, Requests
    <2>3. /\ p = Loop => spc = "update" /\ o.id = hand /\ o.kind \in {"remove", "advance"} /\ o.arg = pass.at
          /\ p # Loop => o.kind # "advance"
          /\ spc \in {"update", "send"} => pass.left[hand] # None
      BY <1>2, AdvanceTyped DEF Inv, Control, Processes, Truncates, busy
    <2>4. ASSUME NEW s \in Ids, Sound(s) PROVE Sound(s)'
      <3>1. file'[s] = None /\ pass'.left[s] = pass.left[s] /\ sent'[s] = sent[s] /\ hand' = hand
            /\ pass'.at = pass.at
        BY <1>2, <2>1, EmptyIsFile
      <3>2. CASE o.id # s
        <4>1. atomic'[s] = atomic[s]
          BY <2>1, <2>2, <3>2 DEF Files
        <4>2. advanced' /\ hand' = s => advanced
          BY <1>0, <1>2, <2>1, <2>3, <3>2 DEF advanced
        <4> QED
          BY <2>4, <3>1, <4>1, <4>2 DEF Sound
      <3>3. CASE o.id = s
        <4>1. atomic'[s] = Changed(o, atomic[s]) /\ atomic[s] \in Schedule \cup {None}
          BY <2>1, <2>2, <3>3 DEF Files
        <4>2. CASE atomic'[s] = None
          BY <2>4, <3>1, <4>2 DEF Sound
        <4>3. CASE p = Loop /\ atomic'[s] # None
          <5>1. spc = "update" /\ o.kind = "advance" /\ atomic'[s].next = pass.at + 1
            BY <1>0, <2>2, <2>3, <4>1, <4>3, ChangedTyped
          <5>2. \A d \in sent[s] : d <= pass.at
            BY <5>1 DEF Past, inPass
          <5>3. \A d \in sent[s] : d < atomic'[s].next
            BY <1>0, <5>1, <5>2
          <5> QED
            BY <1>0, <2>4, <3>1, <5>1, <5>3 DEF Sound
        <4>4. CASE p # Loop /\ atomic'[s] # None /\ o.kind # "add"
          <5>1. atomic[s] # None /\ atomic'[s].next \in {atomic[s].next, now + 1}
            BY <1>0, <2>2, <2>3, <4>1, <4>4, ChangedTyped
          <5>2. \A d \in sent[s] : d < atomic'[s].next
            BY <1>0, <2>4, <5>1 DEF Sound, Past
          <5>3. advanced' => advanced
            BY <1>0, <1>2, <2>1, <4>4 DEF advanced
          <5>4. advanced' /\ hand' = s => pass'.at < atomic'[s].next
            BY <1>0, <2>4, <3>1, <5>1, <5>3 DEF Sound
          <5> QED
            BY <2>4, <3>1, <5>2, <5>4 DEF Sound
        <4>5. CASE p # Loop /\ o.kind = "add"
          <5>1. Absent(s)
            BY <1>2, <2>2, <3>3, <4>5 DEF Births, Unborn, addListed, Processes
          <5>2. ~ (advanced' /\ hand' = s)
            BY <1>2, <2>3, <3>1, <5>1 DEF advanced, Absent
          <5> QED
            BY <3>1, <5>1, <5>2 DEF Absent, Sound
        <4> QED
          BY <4>2, <4>3, <4>4, <4>5
      <3> QED
        BY <3>2, <3>3
    <2> QED
      BY <1>1, <2>1, <2>4
  <1>3. ASSUME NEW c \in Callers, ToolWrites(c) PROVE Fresh' /\ stale \subseteq stale'
    <2>1. io'[Loop] = io[Loop]
      BY <1>0, <1>3 DEF ToolWrites, Inv, Typing
    <2>2. \A s \in Ids : s \notin stale' => file'[s] = atomic[s]
      BY <1>3 DEF ToolWrites, Writes, differing
    <2>3. \A s \in Ids : s \notin stale' /\ Sound(s) => Sound(s)'
      BY <1>3, <2>1, <2>2 DEF ToolWrites, Writes, Sound, advanced
    <2> QED
      BY <1>1, <1>3, <2>3 DEF ToolWrites, Writes
  <1>4. ASSUME stale \subseteq stale', file' = file, atomic' = atomic, sent' = sent, pass' = pass,
               advanced' => advanced /\ hand' = hand
        PROVE  Fresh' /\ stale \subseteq stale'
    <2>1. \A s \in Ids : Sound(s) => Sound(s)'
      BY <1>4 DEF Sound
    <2> QED
      BY <1>1, <1>4, <2>1
  <1>5. ASSUME NEW c \in Callers, ToolCalls(c) \/ ToolFails(c) \/ ToolReloads(c)
        PROVE  Fresh' /\ stale \subseteq stale'
    <2>1. io'[Loop] = io[Loop]
      BY <1>0, <1>5, RequestMade, ListsTyped DEF ToolFails, ToolReloads, Inv, Typing
    <2> QED
      BY <1>4, <1>5, <2>1 DEF ToolCalls, ToolFails, OperationFails, ToolReloads, advanced
  <1>6. ASSUME Wakes PROVE Fresh' /\ stale \subseteq stale'
    <2>1. CASE pass' = pass
      BY <1>4, <1>6, <2>1 DEF Wakes, advanced
    <2>2. CASE pass' = [at |-> now, live |-> live,
                        left |-> [s \in Ids |-> IF s \in dueIn(file, now) THEN file[s] ELSE None]]
      <3>1. ASSUME NEW s \in Ids, Sound(s), pass'.left[s] # None PROVE pass'.left[s].next \notin sent[s]
        <4>1. pass'.left[s] = file[s] /\ file[s] = atomic[s] /\ file[s] \in Schedule
          BY <2>2, <3>1 DEF Sound, Inv, Typing, Files
        <4>2. file[s].next \in Times /\ \A d \in sent[s] : d < file[s].next
          BY <3>1, <4>1 DEF Sound, Schedule
        <4> QED
          BY <1>0, <4>1, <4>2
      <3>2. ~ advanced'
        BY <1>6 DEF Wakes, advanced, Inv, Control
      <3>3. \A s \in Ids : Sound(s) => Sound(s)'
        BY <1>6, <3>1, <3>2 DEF Wakes, Sound
      <3> QED
        BY <1>1, <1>6, <3>3 DEF Wakes
    <2> QED
      BY <1>6, <2>1, <2>2 DEF Wakes
  <1>7. ASSUME NEW t \in Ids, Fires(t) PROVE Fresh' /\ stale \subseteq stale'
    <2>1. io'[Loop] = [at |-> "listed", op |-> Advance(t), list |-> file]
      BY <1>0, <1>7, AdvanceTyped, ListsTyped DEF Fires
    <2> QED
      BY <1>4, <1>7, <2>1 DEF Fires, advanced
  <1>8. ASSUME LoopWrites \/ LoopUpdateFails PROVE Fresh' /\ stale \subseteq stale'
    <2>1. /\ spc = "update" /\ hand \in Ids /\ pass.left \in Files
          /\ sent' = sent /\ atomic' = atomic /\ stale \subseteq stale'
      BY <1>0, <1>8
      DEF LoopWrites, LoopUpdateFails, Writes, OperationFails, Inv, Typing, Passes, Control
    <2>2. \A s \in Ids : s \notin stale' => file'[s] \in {file[s], atomic[s]}
      BY <1>8 DEF LoopWrites, LoopUpdateFails, Writes, OperationFails, differing
    <2>3. hand \notin stale' => io[Loop].at = "writing"
      BY <1>8 DEF LoopWrites, LoopUpdateFails, Writes, OperationFails
    <2>4. CASE pass' = pass /\ hand' = hand
      <3>1. \A s \in Ids : s \notin stale' /\ advanced' /\ hand' = s => advanced
        BY <2>1, <2>3, <2>4 DEF advanced
      <3>2. \A s \in Ids : s \notin stale' /\ Sound(s) => Sound(s)'
        BY <2>1, <2>2, <2>4, <3>1 DEF Sound
      <3> QED
        BY <1>1, <2>1, <3>2
    <2>5. CASE pass' = passedOver /\ spc' = "pass"
      <3>1. \A s \in Ids : pass'.left[s] # None => pass'.left[s] = pass.left[s]
        BY <2>1, <2>5, PassedOverTyped DEF Files
      <3>2. \A s \in Ids : s \notin stale' /\ Sound(s) => Sound(s)'
        BY <2>1, <2>2, <2>5, <3>1 DEF Sound, advanced
      <3> QED
        BY <1>1, <2>1, <3>2
    <2> QED
      BY <1>8, <2>4, <2>5 DEF LoopWrites, LoopUpdateFails, Proceeds
  <1>9. ASSUME Sends PROVE Fresh' /\ stale \subseteq stale'
    <2>1. hand \in Ids /\ pass.left[hand] \in Schedule /\ advanced /\ spc' = "pass" /\ pass.left \in Files
      BY <1>9 DEF Sends, Inv, Typing, Passes, Files, Control, advanced
    <2>2. /\ pass'.left[hand] = None
          /\ \A s \in Ids \ {hand} : pass'.left[s] = pass.left[s]
      BY <1>9, <2>1, PassedOverTyped DEF Sends, Files
    <2>3. \A s \in Ids : sent'[s] = IF s = hand THEN sent[s] \cup {pass.left[s].next} ELSE sent[s]
      BY <1>9 DEF Sends, Inv, Typing
    <2>4. ASSUME NEW s \in Ids, Sound(s) PROVE Sound(s)'
      <3>1. CASE s # hand
        BY <1>9, <2>1, <2>2, <2>3, <2>4, <3>1 DEF Sends, Sound, advanced
      <3>2. CASE s = hand
        <4>1. atomic[s] # None => \A d \in sent'[s] : d < atomic[s].next
          <5> SUFFICES ASSUME atomic[s] # None PROVE \A d \in sent'[s] : d < atomic[s].next
            OBVIOUS
          <5>1. pass.at < atomic[s].next /\ atomic[s].next \in Times
            BY <2>1, <2>4, <3>2 DEF Sound, Inv, Typing, Files, Schedule
          <5>2. pass.left[s].next <= pass.at /\ pass.left[s].next \in Times
            BY <2>1, <3>2 DEF Past, Schedule
          <5> QED
            <6>1. pass.left[s].next < atomic[s].next
              BY <1>0, <5>1, <5>2
            <6>2. \A d \in sent[s] : d < atomic[s].next
              BY <2>4 DEF Sound
            <6> QED
              BY <2>3, <3>2, <6>1, <6>2
        <4> QED
          BY <1>9, <2>1, <2>2, <2>4, <3>2, <4>1 DEF Sends, Sound, advanced
      <3> QED
        BY <3>1, <3>2
    <2> QED
      BY <1>1, <1>9, <2>4 DEF Sends
  <1>10. ASSUME PassEnds \/ Crash PROVE Fresh' /\ stale \subseteq stale'
    <2>1. /\ pass' = NoPass /\ sent' = sent /\ file' = file /\ atomic' = atomic
          /\ stale \subseteq stale' /\ spc' \in {"load", "down"}
      BY <1>10 DEF PassEnds, Crash
    <2>2. \A s \in Ids : Sound(s) => Sound(s)'
      BY <2>1, EmptyIsFile DEF Sound, advanced, NoPass
    <2> QED
      BY <1>1, <2>1, <2>2
  <1>11. ASSUME Load \/ Reloaded \/ Ticks \/ IterationBegins \/ (\E c \in Channels : ChannelDeleted(c))
                \/ Boot \/ UNCHANGED vars
         PROVE  Fresh' /\ stale \subseteq stale'
    BY <1>4, <1>11
    DEF Load, Reloaded, Ticks, IterationBegins, ChannelDeleted, Boot, vars, advanced
  <1>12. ASSUME NEW c \in Callers, ToolTruncates(c) PROVE Fresh' /\ stale \subseteq stale'
    BY <1>0, <1>2, <1>12 DEF ToolTruncates
  <1>13. ASSUME LoopTruncates PROVE Fresh' /\ stale \subseteq stale'
    BY <1>0, <1>2, <1>13 DEF LoopTruncates
  <1> QED
    BY <1>3, <1>5, <1>6, <1>7, <1>8, <1>9, <1>10, <1>11, <1>12, <1>13 DEF Next, Tool, Scheduler

-----------------------------------------------------------------------------

LEMMA FiredOnceStep ==
  Inv /\ Births /\ Past /\ Fresh /\ FiredOnce /\ [Next]_vars => FiredOnce'
  <1> SUFFICES ASSUME Inv, Births, Past, Fresh, FiredOnce, [Next]_vars PROVE FiredOnce'
    OBVIOUS
  <1>1. stale \subseteq stale'
    BY FreshStep
  <1>2. CASE Sends
    <2>1. hand \in Ids /\ pass.left[hand] # None
      BY <1>2 DEF Sends, Inv, Control
    <2>2. hand \notin stale => pass.left[hand].next \notin sent[hand]
      BY <2>1 DEF Fresh, Sound
    <2>3. again' \subseteq again \cup (IF pass.left[hand].next \in sent[hand] THEN {hand} ELSE {})
      BY <1>2 DEF Sends
    <2> QED
      BY <1>1, <2>2, <2>3 DEF FiredOnce
  <1>3. CASE again' = again
    BY <1>1, <1>3 DEF FiredOnce
  <1> QED
    BY <1>2, <1>3
    DEF Next, Tool, Scheduler, vars, sentVars, ToolCalls, ToolTruncates, ToolWrites, ToolFails,
        ToolReloads, Load, Reloaded, Wakes, Fires, LoopTruncates, LoopWrites, LoopUpdateFails,
        PassEnds, Ticks, IterationBegins, ChannelDeleted, Crash, Boot

(* The inductive invariant. *)
ScheduleInv == Inv /\ SleepIsSound /\ Births /\ Past /\ Fresh /\ FiredOnce

(* Whatever tools and scheduler do at the same time, with reads and writes *)
(* that fail and with crashes: the scheduler's timer never passes over an  *)
(* active schedule of the file, and no schedule is sent twice for one due  *)
(* time unless its update failed or the unlocked store lost it.            *)
THEOREM SchedulesFireSoundly == Spec => []FiresAreSound
  <1>1. Init => ScheduleInv
    <2>1. Init => SleepIsSound /\ FiredOnce
      BY DEF Init, SleepIsSound, FiredOnce
    <2> QED
      BY <2>1, TypedInit, BirthsInit, PastInit, FreshInit DEF ScheduleInv
  <1>2. ScheduleInv /\ [Next]_vars => ScheduleInv'
    BY TypedStep, SleepStep, BirthsStep, PastStep, FreshStep, FiredOnceStep DEF ScheduleInv
  <1>3. ScheduleInv => FiresAreSound
    BY TypingImpliesTypeOK DEF ScheduleInv, FiresAreSound
  <1> QED
    BY <1>1, <1>2, <1>3, PTL DEF Spec

=============================================================================
