------------------------------ MODULE Schedules ------------------------------
(***************************************************************************)
(* Scheduled prompts: the store (internal/schedule/schedule.go), the       *)
(* scheduler goroutine that fires them (scheduler.go) and the six MCP      *)
(* tools that change them (tool/scheduletools).                            *)
(*                                                                         *)
(* The store has no lock.  Every operation of it lists the file, changes   *)
(* the list and writes all of it back, and the file store truncates a file *)
(* before it writes it (libraries/store/fs.go), so each operation is three *)
(* steps here and those of the tools and of the scheduler interleave.      *)
(*                                                                         *)
(* Time is a bounded clock; a cron expression is due again one tick after  *)
(* the time it is evaluated at.  The channel map the scheduler resolves    *)
(* names with is empty until the router's first iteration.                 *)
(***************************************************************************)
EXTENDS Integers

CONSTANTS
    Ids,          \* schedule identifiers
    Channels,     \* channel names
    Callers,      \* tool calls that may run at the same time
    Loop,         \* the scheduler goroutine
    None,
    Persisted,    \* the files a process may find when it boots
    MaxTime,      \* bound on the clock
    MaxCalls,     \* bound on tool calls
    MaxFaults     \* bound on failing reads and writes and crashes together

VARIABLES
    now,
    configured,   \* the channels of the configuration file
    live,         \* channelSet: what the scheduler can resolve
    file,         \* the schedules on disk
    io,           \* per process: the store operation it is in
    calls,        \* how many tool calls were made
    created,      \* identifiers handed out
    spc,          \* where the scheduler goroutine is
    reload,       \* Scheduler.reload holds a token
    wake,         \* when its timer fires
    pass,         \* the firing pass: its time, its channel map, what is left to fire
    hand,         \* the schedule being fired
    faults,
    atomic,       \* history: the file, had every operation been one step
    stale,        \* history: schedules whose file entry ever differed from that, or
                  \* that were fired though their update failed
    quiet,        \* history: a call that reported an error changed the file since the last load
    sent,         \* history: per schedule, the due times it was sent for
    again         \* history: schedules sent twice for one due time

storeVars == <<file, atomic, stale>>
loopVars == <<spc, wake, pass, hand>>
sentVars == <<sent, again>>
vars == <<now, configured, live, file, io, calls, created, spc, reload, wake, pass, hand,
          faults, atomic, stale, quiet, sent, again>>

Times == 0 .. MaxTime + 1
Never == MaxTime + 2

Schedule == [once : BOOLEAN, cron : BOOLEAN, active : BOOLEAN, next : Times, ch : Channels]
Files == [Ids -> Schedule \cup {None}]
EmptyFile == [s \in Ids |-> None]

ASSUME SchedulesAssumption ==
    /\ Persisted \subseteq Files
    /\ Loop \notin Callers
    /\ None \notin Schedule
    /\ MaxTime \in Nat /\ MaxCalls \in Nat /\ MaxFaults \in Nat

fault == faults < MaxFaults /\ faults' = faults + 1

(* Seeded fault: a cron expression matches the time it is evaluated at. *)
NextRunInclusive(t) == t

(* computeNextRunFromTime: strictly after t. *)
NextRun(t) == t + 1

-----------------------------------------------------------------------------
(* The store: List, and Add, Update or Remove of one schedule. *)

Kinds == {"add", "channel", "cron", "timezone", "pause", "resume", "remove", "advance"}

(* What an operation makes of a schedule r. *)
Changed(o, r) ==
    IF o.kind = "add" THEN o.arg
    ELSE IF r = None \/ o.kind = "remove" THEN None
    ELSE CASE o.kind = "channel" -> [r EXCEPT !.ch = o.arg]
           [] o.kind = "cron" -> [r EXCEPT !.cron = TRUE, !.next = NextRun(now)]
           [] o.kind = "timezone" -> IF r.cron THEN [r EXCEPT !.next = NextRun(now)] ELSE r
           [] o.kind = "pause" -> [r EXCEPT !.active = FALSE]
           [] o.kind = "resume" ->
                  [r EXCEPT !.active = TRUE, !.next = IF r.cron THEN NextRun(now) ELSE @]
           [] o.kind = "advance" -> [r EXCEPT !.next = NextRun(o.arg)]

Idle == [at |-> "none", op |-> None, list |-> EmptyFile]

Lists(p, o) == io' = [io EXCEPT ![p] = [at |-> "listed", op |-> o, list |-> file]]

(* Add refuses an identifier it finds, Update and Remove one they do not. *)
applies(o, list) == (list[o.id] = None) <=> (o.kind = "add")

(* The new list is made and os.WriteFile truncates the file. *)
Truncates(p) ==
    LET o == io[p].op
        new == [io[p].list EXCEPT ![o.id] = Changed(o, @)]
    IN  /\ io[p].at = "listed" /\ applies(o, io[p].list)
        /\ io' = [io EXCEPT ![p] = [at |-> "writing", op |-> o, list |-> new]]
        /\ file' = EmptyFile
        /\ atomic' = [atomic EXCEPT ![o.id] = Changed(o, @)]
        /\ UNCHANGED stale

differing(f, g) == {s \in Ids : f[s] # g[s]}

Writes(p) ==
    /\ io[p].at = "writing"
    /\ file' = io[p].list
    /\ stale' = stale \cup differing(io[p].list, atomic)
    /\ UNCHANGED atomic

(* The operation returns an error: it does not apply, or the file cannot be *)
(* opened, or the write fails and leaves it empty.                          *)
OperationFails(p) ==
    /\ \/ io[p].at = "listed" /\ ~applies(io[p].op, io[p].list) /\ UNCHANGED faults
       \/ io[p].at = "listed" /\ fault
       \/ io[p].at = "writing" /\ fault
    /\ stale' = stale \cup (IF p = Loop THEN {hand} ELSE {})
                      \cup (IF io[p].at = "writing" THEN differing(EmptyFile, atomic) ELSE {})
    /\ UNCHANGED <<file, atomic>>

-----------------------------------------------------------------------------
(* The tools. *)

Request(kind, s, arg) == [kind |-> kind, id |-> s, arg |-> arg]

(* schedule_create: run_at lies ahead, a cron expression is due next after now. *)
newSchedules ==
    {r \in Schedule : /\ r.active /\ r.cron = ~r.once
                      /\ r.next \in IF r.once THEN now + 1 .. MaxTime ELSE {NextRun(now)}}

CreateRequests(s) == {Request("add", s, r) : r \in newSchedules}

(* schedule_edit: a new channel, cron expression or timezone. *)
EditRequests(s) ==
    {Request("channel", s, c) : c \in Channels}
    \cup {Request(k, s, None) : k \in {"cron", "timezone"}}

PauseRequest(s) == Request("pause", s, None)
ResumeRequest(s) == Request("resume", s, None)
DeleteRequest(s) == Request("remove", s, None)

ChangeRequests(s) == EditRequests(s) \cup {PauseRequest(s), ResumeRequest(s), DeleteRequest(s)}

(* A handler has checked its arguments and lists the file. *)
ToolCalls(c) ==
    /\ spc # "down" /\ io[c].at = "none" /\ calls < MaxCalls
    /\ calls' = calls + 1
    /\ \/ /\ Ids # created
          /\ LET s == CHOOSE s \in Ids \ created : TRUE
             IN  /\ \E o \in CreateRequests(s) : Lists(c, o)
                 /\ created' = created \cup {s}
       \/ /\ \E s \in created : \E o \in ChangeRequests(s) : Lists(c, o)
          /\ UNCHANGED created
    /\ UNCHANGED <<now, configured, live, storeVars, loopVars, reload, sentVars, faults, quiet>>

ToolTruncates(c) ==
    /\ Truncates(c)
    /\ UNCHANGED <<now, configured, live, calls, created, loopVars, reload, sentVars, faults, quiet>>

(* The store has changed and Reload is still to be called. *)
Signalling == [at |-> "reload", op |-> None, list |-> EmptyFile]

(* schedule_resume of a schedule without a cron expression has changed the *)
(* store when it returns its error, and returns before Reload.             *)
resumeRefused(o, list) == o.kind = "resume" /\ ~list[o.id].cron

ToolWrites(c) ==
    LET o == io[c].op
        refused == resumeRefused(o, io[c].list)
    IN  /\ Writes(c)
        /\ io' = [io EXCEPT ![c] = IF refused THEN Idle ELSE Signalling]
        /\ quiet' = (quiet \/ refused)
        /\ UNCHANGED <<now, configured, live, calls, created, loopVars, reload, sentVars, faults>>

ToolFails(c) ==
    /\ OperationFails(c) /\ io' = [io EXCEPT ![c] = Idle]
    /\ UNCHANGED <<now, configured, live, calls, created, loopVars, reload, sentVars, quiet>>

(* Reload never blocks: a token that is already there is enough. *)
Reloads == TRUE

ToolReloads(c) ==
    /\ io[c].at = "reload" /\ reload' = Reloads
    /\ io' = [io EXCEPT ![c] = Idle]
    /\ UNCHANGED <<now, configured, live, storeVars, calls, created, loopVars, sentVars, faults, quiet>>

-----------------------------------------------------------------------------
(* The scheduler goroutine: Run. *)

NoPass == [at |-> 0, live |-> {}, left |-> EmptyFile]

activeIn(f) == {s \in Ids : f[s] # None /\ f[s].active}
rests == spc \in {"sleep", "idle", "failed"}

(* The top of the loop: sleep until the earliest active schedule is due, or *)
(* with none, or with an unreadable file, until a reload.                   *)
Load ==
    /\ spc = "load"
    /\ \/ /\ \E s \in activeIn(file) :
                 /\ \A t \in activeIn(file) : file[s].next <= file[t].next
                 /\ wake' = file[s].next
          /\ spc' = "sleep" /\ UNCHANGED faults
       \/ /\ activeIn(file) = {} /\ spc' = "idle" /\ wake' = Never /\ UNCHANGED faults
       \/ fault /\ spc' = "failed" /\ wake' = Never
    /\ quiet' = FALSE
    /\ UNCHANGED <<now, configured, live, storeVars, io, calls, created, reload, pass, hand,
                   sentVars>>

Reloaded ==
    /\ rests /\ reload
    /\ spc' = "load" /\ reload' = FALSE /\ wake' = Never
    /\ UNCHANGED <<now, configured, live, storeVars, io, calls, created, pass, hand,
                   sentVars, faults, quiet>>

dueIn(f, t) == {s \in activeIn(f) : f[s].next <= t}

(* The timer fires: fireReadySchedules lists the file and takes the time *)
(* and the channel map for the whole pass.                               *)
Wakes ==
    /\ spc = "sleep" /\ now >= wake /\ wake' = Never
    /\ \/ /\ spc' = "pass"
          /\ pass' = [at |-> now, live |-> live,
                      left |-> [s \in Ids |-> IF s \in dueIn(file, now) THEN file[s] ELSE None]]
          /\ UNCHANGED faults
       \/ fault /\ spc' = "load" /\ UNCHANGED pass
    /\ UNCHANGED <<now, configured, live, storeVars, io, calls, created, reload, hand,
                   sentVars, quiet>>

(* Seeded fault: a schedule whose channel is missing is only skipped. *)
AdvanceOnlyResolved(s) ==
    IF pass.left[s].ch \in pass.live
    THEN Request(IF pass.left[s].once THEN "remove" ELSE "advance", s, pass.at)
    ELSE Request("channel", s, pass.left[s].ch)

(* Both a fired schedule and one whose channel is missing are moved past   *)
(* this pass: a one-shot is removed, a recurring one is due next after it. *)
Advance(s) == Request(IF pass.left[s].once THEN "remove" ELSE "advance", s, pass.at)

(* The store is updated before the message is sent. *)
Fires(s) ==
    /\ spc = "pass" /\ pass.left[s] # None
    /\ spc' = "update" /\ hand' = s
    /\ Lists(Loop, Advance(s))
    /\ UNCHANGED <<now, configured, live, storeVars, calls, created, reload, wake, pass,
                   sentVars, faults, quiet>>

passedOver == [at |-> pass.at, live |-> pass.live, left |-> [pass.left EXCEPT ![hand] = None]]

resolved == pass.left[hand].ch \in pass.live

(* After the update: send to a channel that was resolved, else the next one. *)
Proceeds ==
    IF resolved THEN spc' = "send" /\ UNCHANGED <<pass, hand>>
    ELSE spc' = "pass" /\ hand' = None /\ pass' = passedOver

LoopTruncates ==
    /\ Truncates(Loop)
    /\ UNCHANGED <<now, configured, live, calls, created, loopVars, reload, sentVars, faults, quiet>>

LoopWrites ==
    /\ Writes(Loop) /\ io' = [io EXCEPT ![Loop] = Idle]
    /\ Proceeds
    /\ UNCHANGED <<now, configured, live, calls, created, reload, wake, sentVars, faults, quiet>>

(* An update that fails is logged; the message is sent all the same. *)
LoopUpdateFails ==
    /\ OperationFails(Loop) /\ io' = [io EXCEPT ![Loop] = Idle]
    /\ Proceeds
    /\ UNCHANGED <<now, configured, live, calls, created, reload, wake, sentVars, quiet>>

(* The send blocks while scheduleMsgs is full, until the merge of the *)
(* message streams has read: it may come at any later time.           *)
Sends ==
    /\ spc = "send"
    /\ LET due == pass.left[hand].next
       IN  /\ sent' = [sent EXCEPT ![hand] = @ \cup {due}]
           /\ again' = IF due \in sent[hand] THEN again \cup {hand} ELSE again
    /\ spc' = "pass" /\ hand' = None /\ pass' = passedOver
    /\ UNCHANGED <<now, configured, live, storeVars, io, calls, created, reload, wake, faults, quiet>>

PassEnds ==
    /\ spc = "pass" /\ pass.left = EmptyFile
    /\ spc' = "load" /\ pass' = NoPass
    /\ UNCHANGED <<now, configured, live, storeVars, io, calls, created, reload, wake, hand,
                   sentVars, faults, quiet>>

-----------------------------------------------------------------------------
(* The surroundings. *)

Ticks ==
    /\ now < MaxTime /\ now' = now + 1
    /\ UNCHANGED <<configured, live, storeVars, io, calls, created, loopVars, reload, sentVars,
                   faults, quiet>>

(* A channel is deleted: its schedules stay. *)
ChannelDeleted(c) ==
    /\ c \in configured /\ configured' = configured \ {c}
    /\ UNCHANGED <<now, live, storeVars, io, calls, created, loopVars, reload, sentVars, faults, quiet>>

(* The router begins an iteration: channelSet.Replace, scheduler.Reload. *)
IterationBegins ==
    /\ spc # "down" /\ live # configured
    /\ live' = configured /\ reload' = Reloads
    /\ UNCHANGED <<now, configured, storeVars, io, calls, created, loopVars, sentVars, faults, quiet>>

Crash ==
    /\ spc # "down" /\ fault
    /\ spc' = "down" /\ wake' = Never /\ pass' = NoPass /\ hand' = None
    /\ io' = [p \in Callers \cup {Loop} |-> Idle]
    /\ live' = {} /\ reload' = FALSE
    /\ stale' = stale \cup differing(file, atomic)
    /\ UNCHANGED <<now, configured, file, calls, created, atomic, quiet, sent, again>>

(* go scheduler.Run: the channel map is still empty. *)
Boot ==
    /\ spc = "down" /\ spc' = "load"
    /\ UNCHANGED <<now, configured, live, storeVars, io, calls, created, reload, wake, pass, hand,
                   sentVars, faults, quiet>>

-----------------------------------------------------------------------------

Init ==
    /\ now = 0
    /\ configured = Channels /\ live = {}
    /\ file \in Persisted /\ atomic = file
    /\ created = {s \in Ids : file[s] # None}
    /\ io = [p \in Callers \cup {Loop} |-> Idle]
    /\ calls = 0
    /\ spc = "load" /\ reload = FALSE /\ wake = Never /\ pass = NoPass /\ hand = None
    /\ faults = 0
    /\ stale = {} /\ quiet = FALSE
    /\ sent = [s \in Ids |-> {}] /\ again = {}

Tool(c) == ToolTruncates(c) \/ ToolWrites(c) \/ ToolFails(c) \/ ToolReloads(c)
Scheduler ==
    \/ Load \/ Reloaded \/ Wakes \/ (\E s \in Ids : Fires(s))
    \/ LoopTruncates \/ LoopWrites \/ LoopUpdateFails \/ Sends \/ PassEnds

Next ==
    \/ \E c \in Callers : ToolCalls(c) \/ Tool(c)
    \/ Scheduler
    \/ Ticks \/ IterationBegins
    \/ \E c \in Channels : ChannelDeleted(c)
    \/ Crash \/ Boot

(* Goroutines that can run do; the merge keeps reading scheduleMsgs. *)
Fairness ==
    /\ WF_vars(Scheduler)
    /\ \A c \in Callers : WF_vars(Tool(c))

Spec == Init /\ [][Next]_vars /\ Fairness

-----------------------------------------------------------------------------

(* Type correctness of the file, of every store operation and of the pass. *)
TypeOK ==
    /\ now \in 0 .. MaxTime
    /\ configured \subseteq Channels /\ live \subseteq Channels
    /\ file \in Files /\ atomic \in Files
    /\ \A p \in Callers \cup {Loop} :
           /\ io[p].at \in {"none", "listed", "writing", "reload"}
           /\ io[p].list \in Files
           /\ io[p].at \in {"listed", "writing"} => io[p].op.kind \in Kinds /\ io[p].op.id \in Ids
    /\ created \subseteq Ids
    /\ spc \in {"down", "load", "sleep", "idle", "failed", "pass", "update", "send"}
    /\ spc \in {"update", "send"} => hand \in Ids /\ pass.left[hand] # None
    /\ io[Loop].at # "none" <=> spc = "update"
    /\ reload \in BOOLEAN /\ wake \in 0 .. Never
    /\ pass.at \in 0 .. MaxTime /\ pass.live \subseteq Channels /\ pass.left \in Files
    /\ hand \in Ids \cup {None}
    /\ stale \cup again \subseteq Ids /\ quiet \in BOOLEAN

(* The scheduler never sleeps past a schedule: with no reload pending and *)
(* no tool call about to signal one, its timer fires no later than the    *)
(* earliest active schedule of the file, whatever was changed while it    *)
(* was reading.  The exceptions: its last read failed (it then waits for  *)
(* a reload, whatever is due), and schedule_resume of a one-shot, which   *)
(* activates it, returns an error and tells the scheduler nothing.        *)
SleepIsSound ==
    spc \in {"sleep", "idle"} /\ ~reload /\ ~quiet /\ (\A c \in Callers : io[c].at # "reload")
        => \A s \in activeIn(file) : wake <= file[s].next

(* A schedule is sent at most once for a due time, across crashes too,     *)
(* unless the update that precedes the send failed, or an overlapping      *)
(* operation of the unlocked store wrote its entry back.                   *)
FiredOnce == again \subseteq stale

(* The scheduler comes to rest: no state of the file and of the channel    *)
(* map keeps it re-reading a schedule that stays due ("tight-spins").      *)
Settles == <>[](rests \/ spc = "down")

(* Nothing due is slept past, and nothing is sent twice for one due time.  *)
FiresAreSound == TypeOK /\ SleepIsSound /\ FiredOnce

=============================================================================
