----------------------------- MODULE DevSessions -----------------------------
(***************************************************************************)
(* Development sessions: the map of sessions of internal/dev, one per      *)
(* branch and owned by a channel, and the tools of internal/tool/devtools  *)
(* that start, publish, end and cancel one, over a bare repository with    *)
(* one worktree per session, and the deletion of a channel with the        *)
(* sessions it owns.                                                       *)
(*                                                                         *)
(* The map is listed, changed and written back under no lock; a list is    *)
(* one with the step before it.  Git knows three things of a branch here:  *)
(* its directory, its entry in the bare repository's list of worktrees,    *)
(* and the local branch.  What the agent writes in a worktree is a change, *)
(* and the model follows where each change is.  The calls share the bounds *)
(* of Repos.                                                               *)
(***************************************************************************)
EXTENDS Repos

NoOwner == "nobody"
Cleaner == "cleaner"

CONSTANTS
    Branches,
    Owners,      \* channels that start sessions
    DevCalls,    \* calls of the tools under way together
    Changes

ASSUME DevSessionsAssumption == NoOwner \notin Owners /\ Cleaner \notin DevCalls

VARIABLES
    sessions,    \* dev.Store: the owner of each branch's session
    worktree,    \* what git has of each branch
    change,      \* where each change is
    published,   \* upstream: the branches that were pushed
    pull,        \* upstream: the state of each branch's latest pull request
    devJob,      \* what each call, and the deletion of a channel, is at
    doubled,     \* history: dev_end opened another pull request after a merge
    blind,       \* history: the search for a pull request failed, or its answer was late
    entangled,   \* history: two jobs were at one branch, or had listed the map, together
    abandoned    \* history: changes that may be lost, see ChangesArePushed

devVars == <<sessions, worktree, change, published, pull, devJob>>
devHistory == <<doubled, blind, entangled, abandoned>>

DevWorkers == DevCalls \cup {Cleaner}
NoSessions == [b \in Branches |-> NoOwner]
NoWorktree == [dir |-> FALSE, listed |-> FALSE, local |-> FALSE]
AnyBranch == CHOOSE b \in Branches : TRUE
DevIdle == [at |-> "idle", op |-> "none", branch |-> AnyBranch, owner |-> NoOwner,
            map |-> NoSessions, drop |-> {}]

DevInit ==
    /\ sessions = NoSessions
    /\ worktree = [b \in Branches |-> NoWorktree]
    /\ change = [x \in Changes |-> [branch |-> AnyBranch, place |-> "none"]]
    /\ published = {}
    /\ pull = [b \in Branches |-> "none"]
    /\ devJob = [w \in DevWorkers |-> DevIdle]
    /\ doubled = FALSE /\ blind = FALSE /\ entangled = FALSE
    /\ abandoned = {}

devAt(w, step) == devJob[w].at = step
devGoes(w, record) == devJob' = [devJob EXCEPT ![w] = record]
devMoves(w, step) == devGoes(w, [devJob[w] EXCEPT !.at = step])
devReturns(w) == devGoes(w, DevIdle)
roomForDev == Cardinality({w \in Workers : ~ at(w, "idle")} \cup {w \in DevWorkers : ~ devAt(w, "idle")}) < MaxBusy

\* The branches a job is at.
concerns(w, b) ==
    \/ devJob[w].op \notin {"none", "clean"} /\ devJob[w].branch = b
    \/ b \in devJob[w].drop
meets(w, bs) == \E v \in DevWorkers \ {w}, b \in bs : concerns(v, b)

\* Between its list of the map and its save.
holdsMap(v) == devAt(v, "saving")

calls(c, op, b, step) ==
    /\ devAt(c, "idle") /\ begin /\ roomForDev
    /\ devGoes(c, [DevIdle EXCEPT !.at = step, !.op = op, !.branch = b, !.owner = sessions[b]])
    /\ entangled' = (entangled \/ meets(c, {b}))

\* The map is listed and changed; another job may have it listed too, and
\* then one of them writes the other's change away.
devSaves(w, map) ==
    /\ devGoes(w, [devJob[w] EXCEPT !.at = "saving", !.map = map])
    /\ entangled' = (entangled \/ \E v \in DevWorkers \ {w} : holdsMap(v))

changesOf(b, places) == {x \in Changes : change[x].branch = b /\ change[x].place \in places}
movedTo(xs, place) == [x \in Changes |-> IF x \in xs THEN [change[x] EXCEPT !.place = place] ELSE change[x]]
unpublished(b) == changesOf(b, {"tree", "commits"})

-----------------------------------------------------------------------------
(* dev_start.                                                              *)

dev_start(c, b, ch) ==
    /\ sessions[b] = NoOwner
    /\ devAt(c, "idle") /\ begin /\ roomForDev
    /\ devGoes(c, [DevIdle EXCEPT !.at = "adding", !.op = "start", !.branch = b, !.owner = ch])
    /\ entangled' = (entangled \/ meets(c, {b}))
    /\ UNCHANGED <<sessions, worktree, change, published, pull, doubled, blind, abandoned>>

\* git refuses a directory that exists or that it still has on its list,
\* and a new branch whose name the bare repository already has.
worktreeAdd(b) ==
    /\ ~ worktree[b].dir /\ ~ worktree[b].listed
    /\ worktree[b].local => b \in published

\* The fetch of the bare repository or git may fail: nothing is left.
StartAdds(c) ==
    LET b == devJob[c].branch
    IN  /\ devAt(c, "adding")
        /\ \/ /\ worktreeAdd(b)
              /\ worktree' = [worktree EXCEPT ![b] = [dir |-> TRUE, listed |-> TRUE, local |-> TRUE]]
              /\ devSaves(c, [sessions EXCEPT ![b] = devJob[c].owner])
           \/ /\ devReturns(c)
              /\ UNCHANGED <<worktree, entangled>>
        /\ UNCHANGED <<sessions, change, published, pull, doubled, blind, abandoned>>

-----------------------------------------------------------------------------
(* dev_pr and dev_end: commit, push, look for a pull request, create one.   *)

\* Both fail at the commit when the directory is gone.
Publishes(c, b, op) ==
    /\ sessions[b] # NoOwner /\ worktree[b].dir
    /\ calls(c, op, b, "pushing")
    /\ change' = movedTo(changesOf(b, {"tree"}), "commits")
    /\ UNCHANGED <<sessions, worktree, published, pull, doubled, blind, abandoned>>

dev_pr(c, b) == Publishes(c, b, "pr")
dev_end(c, b) == Publishes(c, b, "end")

gitPush(c) ==
    LET b == devJob[c].branch
    IN  /\ devAt(c, "pushing")
        /\ \/ /\ worktree[b].dir
              /\ published' = published \cup {b}
              /\ change' = movedTo(changesOf(b, {"commits"}), "pushed")
              /\ devMoves(c, "finding")
           \/ /\ devReturns(c)
              /\ UNCHANGED <<published, change>>
        /\ UNCHANGED <<sessions, worktree, pull, devHistory>>

\* The latest pull request in any state.
ghPRFind(b) == pull[b]

shouldCreatePRForEnd(state) == state \notin {"open", "merged"}
shouldCreatePRForPR(state) == state # "open"
shouldCreate(op, state) == IF op = "end" THEN shouldCreatePRForEnd(state) ELSE shouldCreatePRForPR(state)

\* A search that fails counts as none.
Finds(c) ==
    LET b == devJob[c].branch
        op == devJob[c].op
        next(state) ==
            CASE shouldCreate(op, state) -> [devJob[c] EXCEPT !.at = "creating"]
              [] ~ shouldCreate(op, state) /\ op = "end" -> [devJob[c] EXCEPT !.at = "removing"]
              [] OTHER -> DevIdle
    IN  /\ devAt(c, "finding")
        /\ \/ devGoes(c, next(ghPRFind(b))) /\ UNCHANGED blind
           \/ devGoes(c, next("none")) /\ blind' = TRUE
        /\ UNCHANGED <<sessions, worktree, change, published, pull, doubled, entangled, abandoned>>

\* GitHub refuses a second open pull request of a branch.  When dev_end
\* cannot create one, the session stays for another try.
Creates(c) ==
    LET b == devJob[c].branch
    IN  /\ devAt(c, "creating")
        /\ \/ /\ pull[b] # "open" /\ worktree[b].dir
              /\ pull' = [pull EXCEPT ![b] = "open"]
              /\ doubled' = (doubled \/ (pull[b] = "merged" /\ devJob[c].op = "end"))
              /\ IF devJob[c].op = "end" THEN devMoves(c, "removing") ELSE devReturns(c)
           \/ /\ devReturns(c)
              /\ UNCHANGED <<pull, doubled>>
        /\ UNCHANGED <<sessions, worktree, change, published, blind, entangled, abandoned>>

-----------------------------------------------------------------------------
(* dev_cancel, the removal of a worktree, and the deletion of a channel.    *)

dev_cancel(c, b) ==
    /\ sessions[b] # NoOwner
    /\ calls(c, "cancel", b, "removing")
    /\ abandoned' = abandoned \cup unpublished(b)
    /\ UNCHANGED <<sessions, worktree, change, published, pull, doubled, blind>>

\* The fault of leaving the session in the store.
RemovesOnly(c) ==
    LET b == devJob[c].branch
    IN  /\ devAt(c, "removing")
        /\ worktree' = [worktree EXCEPT ![b] = NoWorktree]
        /\ change' = movedTo(unpublished(b), "lost")
        /\ devReturns(c)
        /\ UNCHANGED <<sessions, published, pull, devHistory>>

\* worktree remove --force, then the local branch.  dev_cancel stops at an
\* error, dev_end goes on and deletes the session all the same.
Removes(c) ==
    LET b == devJob[c].branch
    IN  /\ devAt(c, "removing")
        /\ \/ /\ worktree[b].dir /\ worktree[b].listed
              /\ worktree' = [worktree EXCEPT ![b] = NoWorktree]
              /\ change' = movedTo(unpublished(b), "lost")
              /\ devSaves(c, [sessions EXCEPT ![b] = NoOwner])
           \/ /\ ~ (worktree[b].dir /\ worktree[b].listed)
              /\ IF devJob[c].op = "end" THEN devSaves(c, [sessions EXCEPT ![b] = NoOwner])
                                        ELSE devReturns(c) /\ UNCHANGED entangled
              /\ UNCHANGED <<worktree, change>>
        /\ UNCHANGED <<sessions, published, pull, doubled, blind, abandoned>>

\* DeleteSessionsByChannel, and then the directories.
cleanupDevSessionsForChannel(ch) ==
    LET owned == {b \in Branches : sessions[b] = ch}
    IN  /\ devAt(Cleaner, "idle") /\ owned # {} /\ begin
        /\ devGoes(Cleaner, [DevIdle EXCEPT !.at = "saving", !.op = "clean", !.owner = ch, !.drop = owned,
                                !.map = [b \in Branches |-> IF b \in owned THEN NoOwner ELSE sessions[b]]])
        /\ abandoned' = abandoned \cup UNION {unpublished(b) : b \in owned}
        /\ entangled' = (entangled \/ meets(Cleaner, owned) \/ \E c \in DevCalls : holdsMap(c))
        /\ UNCHANGED <<sessions, worktree, change, published, pull, doubled, blind>>

Drops ==
    /\ devAt(Cleaner, "dropping")
    /\ worktree' = [b \in Branches |-> IF b \in devJob[Cleaner].drop THEN [worktree[b] EXCEPT !.dir = FALSE]
                                                                 ELSE worktree[b]]
    /\ change' = movedTo(UNION {unpublished(b) : b \in devJob[Cleaner].drop}, "lost")
    /\ devReturns(Cleaner)
    /\ UNCHANGED <<sessions, published, pull, devHistory>>

SessionsSaved(w) ==
    /\ devAt(w, "saving")
    /\ sessions' = devJob[w].map
    /\ IF w = Cleaner THEN devMoves(w, "dropping") ELSE devReturns(w)
    /\ UNCHANGED <<worktree, change, published, pull, devHistory>>

SessionsNotSaved(w) ==
    /\ devAt(w, "saving") /\ lapses
    /\ devReturns(w)
    /\ UNCHANGED <<sessions, worktree, change, published, pull, devHistory>>

-----------------------------------------------------------------------------
(* The agent at work, and the reviewers.                                   *)

\* A change made while dev_end or dev_cancel is under way goes with the
\* worktree.
AgentChanges(x, b) ==
    /\ change[x].place = "none" /\ worktree[b].dir
    /\ change' = [change EXCEPT ![x] = [branch |-> b, place |-> "tree"]]
    /\ abandoned' = IF \E w \in DevWorkers : devJob[w].op \in {"end", "cancel", "clean"} /\ concerns(w, b)
                      THEN abandoned \cup {x} ELSE abandoned
    /\ UNCHANGED <<sessions, worktree, published, pull, devJob, doubled, blind, entangled>>

\* A call that looked before the review ended acts on what it saw.
Reviewed(b) ==
    /\ pull[b] = "open"
    /\ pull' \in {[pull EXCEPT ![b] = "merged"], [pull EXCEPT ![b] = "closed"]}
    /\ blind' = (blind \/ \E c \in DevCalls : devAt(c, "creating") /\ devJob[c].branch = b)
    /\ UNCHANGED <<sessions, worktree, change, published, devJob, doubled, entangled, abandoned>>

DevRestarts ==
    /\ devJob' = [w \in DevWorkers |-> DevIdle]
    /\ UNCHANGED <<sessions, worktree, change, published, pull, devHistory>>

DevTools(c) ==
    \/ \E b \in Branches, ch \in Owners : dev_start(c, b, ch)
    \/ \E b \in Branches : dev_pr(c, b) \/ dev_end(c, b) \/ dev_cancel(c, b)

\* Steps that begin something count against the bound of Repos.
DevBegins == (\E c \in DevCalls : DevTools(c)) \/ \E ch \in Owners : cleanupDevSessionsForChannel(ch)
DevFails == \E w \in DevWorkers : SessionsNotSaved(w)
DevSteps ==
    \/ \E c \in DevCalls : StartAdds(c) \/ gitPush(c) \/ Finds(c) \/ Creates(c) \/ Removes(c)
    \/ \E w \in DevWorkers : SessionsSaved(w)
    \/ Drops
    \/ \E x \in Changes, b \in Branches : AgentChanges(x, b)
    \/ \E b \in Branches : Reviewed(b)

-----------------------------------------------------------------------------
(* A worktree and its session come and go together: while nothing is under *)
(* way, a branch has a session exactly when it has a directory, so no      *)
(* session is stuck and no directory is out of the reach of dev_cancel.    *)
(* Only a failed write, a crash between the two, or two jobs at one branch *)
(* or between list and save of the map together, can part them.            *)
WorktreesAreOwned ==
    (\A w \in DevWorkers : devAt(w, "idle")) =>
        \/ faults > 0 \/ entangled
        \/ \A b \in Branches : (sessions[b] # NoOwner) <=> worktree[b].dir

(* dev_end removes a worktree only with its work pushed: a change is lost  *)
(* only by dev_cancel, with its channel, or when it was made after dev_end *)
(* had committed.  A push that fails or a pull request that cannot be      *)
(* created keeps the worktree.                                             *)
ChangesArePushed ==
    \A x \in Changes : change[x].place = "lost" => x \in abandoned

(* dev_end opens no second pull request for a branch whose last one was    *)
(* merged, though others merge at any moment, unless the search for it     *)
(* failed or its answer was out of date by the time it was used.           *)
NoSecondPull == doubled => blind

(* Every session can be told what became of its worktree, its changes and  *)
(* its pull request.                                                       *)
SessionsAreAccountedFor == WorktreesAreOwned /\ ChangesArePushed /\ NoSecondPull

=============================================================================
