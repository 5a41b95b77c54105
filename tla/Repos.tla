-------------------------------- MODULE Repos --------------------------------
(***************************************************************************)
(* Tracked repositories of one user: the store of internal/repo, the tools *)
(* of internal/tool/repotools, the grant the user confirms and the sweep   *)
(* of the router, the git proxy's check of a push, and the sync of the     *)
(* knowledge vault after each turn.                                        *)
(*                                                                         *)
(* Store.Put and Store.Delete list the whole map, change one entry and     *)
(* write the map back, under no lock; a sync and a refresh besides write   *)
(* back the entry they read before a fetch that may take minutes.  A job   *)
(* therefore reads, fetches, lists and saves in steps of its own, a list   *)
(* being one with the step before it.                                      *)
(*                                                                         *)
(* Upstream history is a number of commits.  What the agent writes into a  *)
(* clone is an edit, and the model follows where each edit is.  The        *)
(* intervals of a clone's hygiene are left open: a clone may be due        *)
(* whenever its entry was read.  Calls for a repository that the channel   *)
(* may not see are refused and are no step.                                *)
(***************************************************************************)
EXTENDS Integers, FiniteSets

CONSTANTS
    Repos,        \* names
    Declared,     \* those tclaw.yaml may declare; repo_remove refuses them
    Vault,        \* the knowledge vault, one of them
    Calls,        \* tool calls of the agent under way together
    Edits,
    Depth,        \* commits a fetch keeps
    MaxTime,      \* bound on the clock
    MaxCommits,   \* bound on upstream commits
    MaxBusy,      \* bound on the calls and jobs under way together
    MaxBegun,     \* bound on calls, sweeps, turns and commits of others
    MaxFaults     \* bound on failed writes, timeouts of a sync and crashes

ASSUME ReposAssumption ==
    /\ Vault \in Declared /\ Declared \subseteq Repos
    /\ Depth \in Nat \ {0}
    /\ {MaxTime, MaxCommits, MaxBusy, MaxBegun, MaxFaults} \subseteq Nat

VARIABLES
    store,      \* the stored entries
    clone,      \* the directory of each repository
    edit,       \* where each edit is: in the tree, committed, committed on a
                \* detached head, pushed, or lost
    head,       \* upstream: commits of the default branch
    armed,      \* the access grant the user is asked about
    writable,   \* the clones the running turn may write
    job,        \* what each call and background job is at
    due,        \* a turn has ended since the last sync of the vault began
    now,
    reported,   \* history: the commits repo_sync told the agent of
    shallow,    \* history: the commits that were already below the depth
    granted,    \* history: the highest tier agreed to since the name was added
    overreached,\* history: a push went beyond that
    straddled,  \* history: a removal overlapped other work on the name
    excused,    \* history: edits that may be lost, see WorkIsKept
    begun, faults

repoVars == <<store, clone, edit, head, armed, writable, job, due, now>>
repoHistory == <<reported, shallow, granted, overreached, straddled, excused, begun, faults>>
vars == <<repoVars, repoHistory>>

ReadOnly == 0
PullRequestsOnly == 1
FullWrite == 2
Tiers == ReadOnly..FullWrite

\* Of an entry: the stored tier, when it drops to read-only (0: never), and
\* the last commit the agent was told of.
NoEntry == [access |-> -1, until |-> 0, seen |-> 0]
NewEntry == [access |-> ReadOnly, until |-> 0, seen |-> 0]
DeclaredEntry == [NewEntry EXCEPT !.access = FullWrite]
tracked(r) == store[r] # NoEntry

AllowsPush(tier) == tier > ReadOnly
Exceeds(tier, other) == tier > other
EffectiveAccess(entry) ==
    IF entry.until # 0 /\ now > entry.until THEN ReadOnly ELSE entry.access
ResetToRemote(entry) == ~ AllowsPush(EffectiveAccess(entry))

\* What the git proxy serves a name with; it answers 404 where there is none.
NoTier == -1
Lookup(r) == IF tracked(r) THEN EffectiveAccess(store[r]) ELSE NoTier

Sweep == "sweep"
Bridge == "bridge"
Sync == "vault"
Workers == Calls \cup {Sweep, Bridge, Sync}
NoStore == [r \in Repos |-> NoEntry]
NoGrant == [repo |-> Vault, access |-> ReadOnly, until |-> 0]
\* The step a job is at and what it does, on which repository, with the entry
\* it read, the map it is about to write, the rest of the sweep's snapshot,
\* and whether its fetch resets the clone.
Idle == [at |-> "idle", op |-> "none", repo |-> Vault, copy |-> NoEntry,
         map |-> NoStore, rest |-> NoStore, reset |-> FALSE]

\* A directory that is empty ("dir") or holds a clone, the upstream commit
\* its branch is at, and whether a rebase is open in it.
EmptyClone == [dir |-> "none", tip |-> 0, rebasing |-> FALSE]

\* The store outlives the process: what the agent added earlier is there.
Init ==
    /\ store = [r \in Repos |-> IF r \in Declared THEN DeclaredEntry ELSE NewEntry]
    /\ clone = [r \in Repos |-> [EmptyClone EXCEPT !.dir = "clone"]]
    /\ edit = [e \in Edits |-> [repo |-> Vault, place |-> "none"]]
    /\ head = [r \in Repos |-> 0]
    /\ armed = NoGrant
    /\ writable = {}
    /\ job = [w \in Workers |-> Idle]
    /\ due = FALSE
    /\ now = 0
    /\ reported = [r \in Repos |-> {}] /\ shallow = [r \in Repos |-> {}]
    /\ granted = [r \in Repos |-> IF r \in Declared THEN FullWrite ELSE ReadOnly]
    /\ overreached = FALSE /\ straddled = FALSE
    /\ excused = {}
    /\ begun = 0 /\ faults = 0

at(w, step) == job[w].at = step
goes(w, record) == job' = [job EXCEPT ![w] = record]
moves(w, step) == goes(w, [job[w] EXCEPT !.at = step])
begin == begun < MaxBegun /\ begun' = begun + 1
mayWork(w) == at(w, "idle") /\ Cardinality({u \in Workers : ~ at(u, "idle")}) < MaxBusy
begins(c) == c \in Calls /\ mayWork(c) /\ begin
lapses == faults < MaxFaults /\ faults' = faults + 1

\* The sweep goes back to the rest of its snapshot, every other job is done.
finishes(w) ==
    goes(w, IF w = Sweep THEN [Idle EXCEPT !.at = "sweeping", !.rest = job[w].rest] ELSE Idle)

in(r, places) == {e \in Edits : edit[e].repo = r /\ edit[e].place \in places}
placed(es, place) == [e \in Edits |-> IF e \in es THEN [edit[e] EXCEPT !.place = place] ELSE edit[e]]
unpushed(r) == in(r, {"tree", "commits", "detached"})

-----------------------------------------------------------------------------
(* CloneOrFetch.                                                           *)

\* The fault of resetting a clone that has work in it.
fetchedEditsReset(r, reset) == placed(unpushed(r), "lost")

\* reset --hard moves the branch that is checked out: in the middle of a
\* rebase that is not the one with the commits.  A directory without a
\* clone is removed and cloned again.
fetchedEdits(r, reset) ==
    IF clone[r].dir = "clone" /\ ~ reset THEN edit
    ELSE placed(in(r, {"tree", "detached"} \cup IF clone[r].rebasing THEN {} ELSE {"commits"}), "lost")

\* The fetch goes through the proxy; it may always fail.
Fetches(w) ==
    LET r == job[w].repo
    IN  /\ at(w, "fetching")
        /\ \/ /\ Lookup(r) # NoTier
              /\ edit' = fetchedEdits(r, job[w].reset)
              /\ clone' = [clone EXCEPT ![r] = [@ EXCEPT !.dir = "clone", !.tip = head[r]]]
              /\ moves(w, "fetched")
           \/ /\ finishes(w)
              /\ UNCHANGED <<edit, clone>>
        /\ UNCHANGED <<store, head, armed, writable, due, now, repoHistory>>

-----------------------------------------------------------------------------
(* Store.Put and Store.Delete.                                             *)

\* The list of the whole map, with one entry changed, on its way back.
withEntry(record, r, entry) ==
    [record EXCEPT !.at = "saving", !.repo = r, !.map = [store EXCEPT ![r] = entry]]

\* What repo_sync tells the agent: the commits since the cursor it read,
\* as far as the shallow history goes.
newCommits(seen, tip) == {n \in 1..tip : n > seen /\ n > tip - Depth}

\* Another job works on the name, or holds its entry in a list or a snapshot.
overlaps(w, r) ==
    \E v \in Workers \ {w} :
        \/ job[v].repo = r /\ job[v].op \notin {"none", "vault"}
        \/ job[v].map[r] # NoEntry
        \/ job[v].rest[r] # NoEntry

Saves(w) ==
    LET r == job[w].repo
        entry == job[w].map[r]
    IN  /\ at(w, "saving")
        /\ store' = job[w].map
        /\ IF job[w].op = "sync"
             THEN /\ reported' = [reported EXCEPT ![r] = @ \cup newCommits(job[w].copy.seen, entry.seen)]
                  /\ shallow' = [shallow EXCEPT ![r] = @ \cup 1..(entry.seen - Depth)]
             ELSE UNCHANGED <<reported, shallow>>
        /\ granted' = [granted EXCEPT ![r] =
                          CASE job[w].op = "remove" -> ReadOnly
                            [] job[w].op = "grant" /\ Exceeds(entry.access, @) -> entry.access
                            [] OTHER -> @]
        /\ straddled' = (straddled \/ (job[w].op = "remove" /\ (overlaps(w, r) \/ armed.repo = r)))
        /\ excused' = excused \cup {e \in Edits : \E q \in Repos :
                                       edit[e].repo = q /\ ResetToRemote(store'[q])}
        /\ finishes(w)
        /\ UNCHANGED <<clone, edit, head, armed, writable, due, now, overreached, begun, faults>>

SaveFails(w) ==
    /\ at(w, "saving") /\ lapses
    /\ finishes(w)
    /\ UNCHANGED <<store, clone, edit, head, armed, writable, due, now,
                   reported, shallow, granted, overreached, straddled, excused, begun>>

-----------------------------------------------------------------------------
(* The tools.                                                              *)

writes(c, r, op, entry) == begins(c) /\ goes(c, withEntry([Idle EXCEPT !.op = op], r, entry))

repo_add(c, r) ==
    /\ ~ tracked(r) /\ r \notin Declared
    /\ writes(c, r, "add", NewEntry)
    /\ clone' = [clone EXCEPT ![r].dir = IF @ = "none" THEN "dir" ELSE @]
    /\ UNCHANGED <<store, edit, head, armed, writable, due, now,
                   reported, shallow, granted, overreached, straddled, excused, faults>>

repo_sync(c, r) ==
    /\ tracked(r)
    /\ begins(c)
    /\ goes(c, [Idle EXCEPT !.at = "fetching", !.op = "sync", !.repo = r, !.copy = store[r],
                            !.reset = ResetToRemote(store[r])])
    /\ clone' = [clone EXCEPT ![r].dir = IF @ = "none" THEN "dir" ELSE @]
    /\ UNCHANGED <<store, edit, head, armed, writable, due, now,
                   reported, shallow, granted, overreached, straddled, excused, faults>>

SyncReads(c) ==
    /\ at(c, "fetched") /\ job[c].op = "sync"
    /\ goes(c, withEntry(job[c], job[c].repo, [job[c].copy EXCEPT !.seen = clone[job[c].repo].tip]))
    /\ UNCHANGED <<store, clone, edit, head, armed, writable, due, now, repoHistory>>

\* RemoveAll, then the entry.
repo_remove(c, r) ==
    /\ tracked(r) /\ r \notin Declared
    /\ writes(c, r, "remove", NoEntry)
    /\ clone' = [clone EXCEPT ![r] = EmptyClone]
    /\ edit' = placed(unpushed(r), "lost")
    /\ excused' = excused \cup unpushed(r)
    /\ UNCHANGED <<store, head, armed, writable, due, now,
                   reported, shallow, granted, overreached, straddled, faults>>

\* A tier that is no higher applies at once, with the expiry that was asked
\* for or none; a higher one is put to the user.
repo_request_access(c, r, tier, until) ==
    /\ tracked(r) /\ (until = 0 \/ until > now)
    /\ IF Exceeds(tier, EffectiveAccess(store[r]))
         THEN /\ armed = NoGrant
              /\ armed' = [repo |-> r, access |-> tier, until |-> until]
              /\ begins(c)
              /\ UNCHANGED job
         ELSE /\ writes(c, r, "access", [store[r] EXCEPT !.access = tier, !.until = until])
              /\ UNCHANGED armed
    /\ UNCHANGED <<store, clone, edit, head, writable, due, now,
                   reported, shallow, granted, overreached, straddled, excused, faults>>

\* confirmRepoGrant, on the user's yes; a name that is gone gets nothing.
\* Anything else the user says, or the expiry of the prompt, declines it.
confirmRepoGrant ==
    LET r == armed.repo
    IN  /\ armed # NoGrant /\ mayWork(Bridge)
        /\ armed' = NoGrant
        /\ IF tracked(r)
             THEN goes(Bridge, withEntry([Idle EXCEPT !.op = "grant"], r,
                                    [store[r] EXCEPT !.access = armed.access, !.until = armed.until]))
             ELSE UNCHANGED job
        /\ UNCHANGED <<store, clone, edit, head, writable, due, now, repoHistory>>

Declines ==
    /\ armed # NoGrant
    /\ armed' = NoGrant
    /\ UNCHANGED <<store, clone, edit, head, writable, job, due, now, repoHistory>>

-----------------------------------------------------------------------------
(* The sweep: one snapshot of the store, then one repository after another. *)

SweepBegins ==
    /\ mayWork(Sweep) /\ begin
    /\ goes(Sweep, [Idle EXCEPT !.at = "sweeping", !.rest = store])
    /\ UNCHANGED <<store, clone, edit, head, armed, writable, due, now,
                   reported, shallow, granted, overreached, straddled, excused, faults>>

snapshot(r) == job[Sweep].rest[r]
takes(r) == at(Sweep, "sweeping") /\ snapshot(r) # NoEntry
handled(r) == [Idle EXCEPT !.at = "sweeping", !.rest = [job[Sweep].rest EXCEPT ![r] = NoEntry]]
expired(entry) == entry.until # 0 /\ now >= entry.until /\ AllowsPush(entry.access)

\* The write that follows keeps the rest of the snapshot's entry.
expireGrant(r) ==
    /\ takes(r) /\ expired(snapshot(r))
    /\ goes(Sweep, withEntry([handled(r) EXCEPT !.op = "expire"], r,
                             [snapshot(r) EXCEPT !.access = ReadOnly, !.until = 0]))
    /\ UNCHANGED <<store, clone, edit, head, armed, writable, due, now, repoHistory>>

dropUnusedClone(r) ==
    /\ takes(r) /\ ~ expired(snapshot(r))
    /\ clone[r].dir # "none"
    /\ clone' = [clone EXCEPT ![r] = EmptyClone]
    /\ edit' = placed(unpushed(r), "lost")
    /\ excused' = excused \cup unpushed(r)
    /\ goes(Sweep, handled(r))
    /\ UNCHANGED <<store, head, armed, writable, due, now,
                   reported, shallow, granted, overreached, straddled, begun, faults>>

refreshRepo(r) ==
    /\ takes(r) /\ ~ expired(snapshot(r))
    /\ clone[r].dir # "none"
    /\ goes(Sweep, [handled(r) EXCEPT !.at = "fetching", !.op = "refresh", !.repo = r,
                       !.copy = snapshot(r), !.reset = ResetToRemote(snapshot(r))])
    /\ UNCHANGED <<store, clone, edit, head, armed, writable, due, now, repoHistory>>

\* The fault of a refresh that moves the cursor too.
refreshedEntryAndCursor(r) == [job[Sweep].copy EXCEPT !.seen = clone[r].tip]

\* Only LastSyncedAt moves, which is no part of this entry.
refreshedEntry(r) == job[Sweep].copy

RefreshReads ==
    LET r == job[Sweep].repo
    IN  /\ at(Sweep, "fetched")
        /\ goes(Sweep, withEntry(job[Sweep], r, refreshedEntry(r)))
        /\ UNCHANGED <<store, clone, edit, head, armed, writable, due, now, repoHistory>>

\* Nothing is due, or nothing is left of the snapshot.
SweepGoesOn ==
    /\ at(Sweep, "sweeping")
    /\ \/ \E r \in Repos : takes(r) /\ ~ expired(snapshot(r)) /\ goes(Sweep, handled(r))
       \/ job[Sweep].rest = NoStore /\ goes(Sweep, Idle)
    /\ UNCHANGED <<store, clone, edit, head, armed, writable, due, now, repoHistory>>

-----------------------------------------------------------------------------
(* Turns: the mounts, the agent's work, and a push through the proxy.      *)

\* The clones that are mounted and not bound read-only.
resolveRepoMounts == {r \in Repos : tracked(r) /\ clone[r].dir # "none" /\ ~ ResetToRemote(store[r])}

\* OnTurnEnd of one turn, and the mounts of the next.
NextTurn ==
    /\ begin
    /\ due' = TRUE
    /\ writable' = resolveRepoMounts
    /\ UNCHANGED <<store, clone, edit, head, armed, job, now,
                   reported, shallow, granted, overreached, straddled, excused, faults>>

\* A clone about to be reset, by a fetch or a sweep that read the entry when
\* the repository was a mirror.
aboutToReset(r) ==
    \/ \E w \in Workers : at(w, "fetching") /\ job[w].repo = r /\ job[w].reset
    \/ snapshot(r) # NoEntry /\ ResetToRemote(snapshot(r))

AgentEdits(e, r) ==
    /\ edit[e].place = "none" /\ r \in writable /\ clone[r].dir = "clone"
    /\ edit' = [edit EXCEPT ![e] = [repo |-> r, place |-> "tree"]]
    /\ excused' = IF clone[r].rebasing \/ aboutToReset(r) \/ ~ tracked(r) \/ ResetToRemote(store[r])
                    THEN excused \cup {e} ELSE excused
    /\ UNCHANGED <<store, clone, head, armed, writable, job, due, now,
                   reported, shallow, granted, overreached, straddled, begun, faults>>

\* In the middle of a rebase the commit goes on top of a detached head.
committed(r) == placed(in(r, {"tree"}), IF clone[r].rebasing THEN "detached" ELSE "commits")

AgentCommits(r) ==
    /\ r \in writable /\ in(r, {"tree"}) # {}
    /\ edit' = committed(r)
    /\ UNCHANGED <<store, clone, head, armed, writable, job, due, now, repoHistory>>

\* The fault of letting a pull-request tier write the default branch.
checkPushAnyBranch(tier, target) == AllowsPush(tier)

\* What the commands of the request write: a branch, the default branch, or
\* another ref.
checkPullRequestsOnly(target) == target = "branch"

checkPush(tier, target) ==
    \/ tier = FullWrite
    \/ tier = PullRequestsOnly /\ checkPullRequestsOnly(target)

needs(target) == IF target = "branch" THEN PullRequestsOnly ELSE FullWrite

\* Upstream takes a push to the default branch only when it is up to date.
lands(r) ==
    /\ edit' = placed(in(r, {"commits"}), "pushed")
    /\ head' = [head EXCEPT ![r] = @ + 1]
    /\ clone' = [clone EXCEPT ![r].tip = head'[r]]

\* The tier is looked up for each request; the agent pushes what it committed.
Pushes(r, target) ==
    /\ clone[r].dir = "clone" /\ ~ clone[r].rebasing
    /\ in(r, {"commits"}) # {}
    /\ checkPush(Lookup(r), target)
    /\ \/ target = "branch" /\ edit' = placed(in(r, {"commits"}), "pushed") /\ UNCHANGED <<head, clone>>
       \/ target = "default" /\ clone[r].tip = head[r] /\ head[r] < MaxCommits /\ lands(r)
       \/ target = "tag" /\ UNCHANGED <<edit, head, clone>>
    /\ overreached' = (overreached \/ Exceeds(needs(target), granted[r]))
    /\ UNCHANGED <<store, armed, writable, job, due, now,
                   reported, shallow, granted, straddled, excused, begun, faults>>

OthersPush(r) ==
    /\ head[r] < MaxCommits /\ begin
    /\ head' = [head EXCEPT ![r] = @ + 1]
    /\ UNCHANGED <<store, clone, edit, armed, writable, job, due, now,
                   reported, shallow, granted, overreached, straddled, excused, faults>>

-----------------------------------------------------------------------------
(* syncKnowledgeVault, serialised by its mutex.                            *)

SyncBegins ==
    /\ due /\ mayWork(Sync)
    /\ due' = FALSE
    /\ IF clone[Vault].dir = "clone"
         THEN edit' = committed(Vault) /\ goes(Sync, [Idle EXCEPT !.at = "pulling", !.op = "vault"])
         ELSE UNCHANGED <<edit, job>>
    /\ UNCHANGED <<store, clone, head, armed, writable, now, repoHistory>>

dirty(r) == in(r, {"tree"}) # {}

SyncPulls ==
    /\ at(Sync, "pulling")
    /\ \/ /\ clone[Vault].dir = "clone" /\ ~ clone[Vault].rebasing /\ ~ dirty(Vault) /\ Lookup(Vault) # NoTier
          /\ clone' = [clone EXCEPT ![Vault].tip = head[Vault]]
          /\ moves(Sync, "ahead")
       \/ /\ clone[Vault].dir = "clone" /\ ~ clone[Vault].rebasing /\ ~ dirty(Vault) /\ Lookup(Vault) # NoTier
          /\ clone[Vault].tip < head[Vault] /\ in(Vault, {"commits"}) # {}
          /\ clone' = [clone EXCEPT ![Vault].rebasing = TRUE]
          /\ moves(Sync, "aborting")
       \/ /\ clone[Vault].rebasing
          /\ moves(Sync, "aborting")
          /\ UNCHANGED clone
       \/ /\ ~ clone[Vault].rebasing
          /\ goes(Sync, Idle)
          /\ UNCHANGED clone
    /\ UNCHANGED <<store, edit, head, armed, writable, due, now, repoHistory>>

\* rebase --abort goes back to the branch: the detached commits and what is
\* in the tree are gone.  In a clone that was made anew meanwhile there is no
\* rebase, and git refuses.
abortedEdits == IF clone[Vault].rebasing THEN placed(in(Vault, {"tree", "detached"}), "lost") ELSE edit

gitRebaseAbort ==
    /\ at(Sync, "aborting")
    /\ edit' = abortedEdits
    /\ clone' = [clone EXCEPT ![Vault].rebasing = FALSE]
    /\ goes(Sync, Idle)
    /\ UNCHANGED <<store, head, armed, writable, due, now, repoHistory>>

\* The sync's ninety seconds are over: the abort, under the same context,
\* does not run, and the clone stays in the middle of the rebase.
AbortTimesOut ==
    /\ at(Sync, "aborting") /\ lapses
    /\ goes(Sync, Idle)
    /\ UNCHANGED <<store, clone, edit, head, armed, writable, due, now,
                   reported, shallow, granted, overreached, straddled, excused, begun>>

\* The push of a clone that is ahead is checked by the proxy like any other.
SyncPushes ==
    /\ at(Sync, "ahead")
    /\ \/ /\ checkPush(Lookup(Vault), "default")
          /\ clone[Vault].tip = head[Vault] /\ in(Vault, {"commits"}) # {} /\ head[Vault] < MaxCommits
          /\ lands(Vault)
       \/ UNCHANGED <<edit, head, clone>>
    /\ goes(Sync, Idle)
    /\ UNCHANGED <<store, armed, writable, due, now, repoHistory>>

-----------------------------------------------------------------------------
(* Time, and the process.                                                  *)

\* The clock moves only while a grant waits for it.
Ticks ==
    /\ now < MaxTime + 1
    /\ armed.until # 0 \/ \E r \in Repos : store[r].until # 0
    /\ now' = now + 1
    /\ excused' = excused \cup {e \in Edits : \E q \in Repos : edit[e].repo = q /\ store[q].until # 0 /\ now' > store[q].until}
    /\ UNCHANGED <<store, clone, edit, head, armed, writable, job, due,
                   reported, shallow, granted, overreached, straddled, begun, faults>>

\* A restart: provisionConfigRepos drops what the configuration no longer
\* declares, with its clone, and registers the rest with the tier it
\* declares, keeping the cursor; then each is fetched, if that works.
provisionConfigRepos(declared) ==
    LET gone == {r \in Declared \ declared : tracked(r)}
        es == {e \in Edits : edit[e].repo \in gone /\ edit[e].place \in {"tree", "commits", "detached"}}
    IN  /\ store' = [r \in Repos |->
                        IF r \in gone THEN NoEntry
                        ELSE IF r \in declared THEN [DeclaredEntry EXCEPT !.seen = store[r].seen]
                        ELSE store[r]]
        /\ edit' = placed(es, "lost")
        /\ excused' = excused \cup es
        /\ \E ok \in SUBSET declared :
              clone' = [r \in Repos |->
                          IF r \in gone THEN EmptyClone
                          ELSE IF r \in ok THEN [clone[r] EXCEPT !.dir = "clone", !.tip = head[r]]
                          ELSE IF r \in declared /\ clone[r].dir = "none" THEN [EmptyClone EXCEPT !.dir = "dir"]
                          ELSE clone[r]]

\* Without a repository in the configuration nothing is reconciled.
Restarts ==
    /\ lapses
    /\ \E declared \in SUBSET Declared :
          IF declared = {}
            THEN UNCHANGED <<store, clone, edit, excused>>
            ELSE provisionConfigRepos(declared)
    /\ job' = [w \in Workers |-> Idle]
    /\ writable' = {}
    /\ due' = FALSE
    /\ UNCHANGED <<head, armed, now, reported, shallow, granted, overreached, straddled, begun>>

-----------------------------------------------------------------------------
Tools(c) ==
    \/ \E r \in Repos : repo_add(c, r) \/ repo_sync(c, r) \/ repo_remove(c, r)
    \/ \E r \in Repos, tier \in Tiers, until \in 0..MaxTime : repo_request_access(c, r, tier, until)
    \/ SyncReads(c)
SweepSteps ==
    \/ SweepBegins \/ SweepGoesOn \/ RefreshReads
    \/ \E r \in Repos : expireGrant(r) \/ dropUnusedClone(r) \/ refreshRepo(r)
Agent ==
    \/ NextTurn
    \/ \E e \in Edits, r \in Repos : AgentEdits(e, r)
    \/ \E r \in Repos : AgentCommits(r)
    \/ \E r \in Repos, target \in {"branch", "default", "tag"} : Pushes(r, target)
VaultSteps == SyncBegins \/ SyncPulls \/ gitRebaseAbort \/ AbortTimesOut \/ SyncPushes

RepoSteps ==
    \/ \E c \in Calls : Tools(c)
    \/ \E w \in Workers : Fetches(w) \/ Saves(w) \/ SaveFails(w)
    \/ confirmRepoGrant \/ Declines
    \/ SweepSteps \/ Agent \/ VaultSteps
    \/ \E r \in Repos : OthersPush(r)
    \/ Ticks

-----------------------------------------------------------------------------
(* What the agent wrote is lost only where the code means to drop it: with *)
(* a repository that is removed or no longer declared, with a clone that   *)
(* sat unused, or by the reset of a mirror, that is of a repository whose  *)
(* grant lapsed, or was given up, after the edit.  No sync, refresh, vault *)
(* sync, conflict, restart or stale write of an entry loses an edit of a   *)
(* repository the agent may push.  Two gaps are excepted: an edit made     *)
(* while a rebase of the vault is open, which an abort discards, and one   *)
(* made during a fetch or a sweep that read the entry before the grant.    *)
WorkIsKept == \A e \in Edits : edit[e].place = "lost" => e \in excused

(* repo_sync reports each upstream commit before its cursor passes it,     *)
(* though the sweep fetches the same clone meanwhile and writes the entry  *)
(* back: every commit up to a stored cursor was told to the agent, or was  *)
(* already below the depth of a fetch.                                     *)
NothingMissed ==
    \A r \in Repos : 1..store[r].seen \subseteq reported[r] \cup shallow[r]

(* The proxy lets no push through beyond what the user or the              *)
(* configuration agreed to for the name: stale writes of an entry may      *)
(* bring back a tier that was given up, never one that was not given.  A   *)
(* name removed while something still held its entry is excepted.          *)
PushWasGranted == overreached => straddled
=============================================================================
