---------------------------- MODULE WorkspaceProofs ----------------------------
(***************************************************************************)
(* Proofs about Workspace, for any repositories, branches, calls and edits *)
(* and any bounds: first the repositories (Repos), then the development    *)
(* sessions (DevSessions).                                                 *)
(***************************************************************************)
EXTENDS Workspace, TLAPS

-----------------------------------------------------------------------------
(* The invariant of the repositories.                                      *)

TrackedRepo == [access : NoTier..FullWrite, until : Nat, seen : Nat]
Clone == [dir : {"none", "dir", "clone"}, tip : Nat, rebasing : BOOLEAN]
Edit == [repo : Repos, place : {"none", "tree", "commits", "detached", "pushed", "lost"}]
RepoStep == {"idle", "fetching", "fetched", "saving", "sweeping", "pulling", "ahead", "aborting"}
RepoOp == {"none", "add", "sync", "remove", "access", "grant", "expire", "refresh", "vault"}
Job == [at : RepoStep, op : RepoOp, repo : Repos, copy : TrackedRepo,
        map : [Repos -> TrackedRepo], rest : [Repos -> TrackedRepo], reset : BOOLEAN]

ReposTyped ==
    /\ store \in [Repos -> TrackedRepo]
    /\ clone \in [Repos -> Clone]
    /\ edit \in [Edits -> Edit]
    /\ head \in [Repos -> Nat]
    /\ armed \in [repo : Repos, access : Tiers, until : Nat]
    /\ job \in [Workers -> Job]
    /\ now \in Nat
    /\ granted \in [Repos -> Tiers]
    /\ reported \in [Repos -> SUBSET Nat] /\ shallow \in [Repos -> SUBSET Nat]
    /\ {overreached, straddled} \subseteq BOOLEAN
    /\ excused \subseteq Edits

\* An entry holds no tier beyond what was granted, and no cursor beyond what
\* was reported.
within(entry, r) == entry.access <= granted[r]
told(entry, r) == 1..entry.seen \subseteq reported[r] \cup shallow[r]
vouched(entry, r) == (~ straddled => within(entry, r)) /\ told(entry, r)

\* So do the entries a job holds, but for the one a grant or a sync is about
\* to write.
Vouches(j) ==
    /\ j \in Job
    /\ j.op \in {"none", "vault"} => j.copy = NoEntry /\ j.map = NoStore
    /\ j.at \in {"fetching", "fetched"} => j.op \in {"sync", "refresh"}
    /\ j.op = "remove" => j.repo \notin Declared /\ j.map[j.repo] = NoEntry /\ j.rest = NoStore
    /\ vouched(j.copy, j.repo)
    /\ \A r \in Repos :
          /\ vouched(j.rest[r], r)
          /\ ~ straddled => within(j.map[r], r) \/ (j.op = "grant" /\ j.repo = r)
          /\ told(j.map[r], r) \/ (j.op = "sync" /\ j.repo = r)

EntriesVouched ==
    /\ \A r \in Declared : granted[r] = FullWrite
    /\ \A r \in Repos : vouched(store[r], r)
    /\ \A w \in Workers : Vouches(job[w])

\* What is in the clone of such a repository may be lost: there is none, it
\* is a mirror now, or was one when the sweep or a fetch read the entry.
doomed(r) ==
    \/ clone[r].dir # "clone"
    \/ ResetToRemote(store[r])
    \/ snapshot(r) # NoEntry /\ ~ AllowsPush(snapshot(r).access)
    \/ \E w \in Workers : at(w, "fetching") /\ job[w].repo = r /\ job[w].reset

\* Nothing may be lost in it, nor be in the tree of a rebase that an abort
\* discards, that is not excused.
WorkIsExcused ==
    /\ \A e \in Edits : edit[e].place \in {"lost", "detached"} => e \in excused
    /\ \A r \in Repos : clone[r].rebasing => in(r, {"tree"}) \subseteq excused
    /\ \A r \in Repos : doomed(r) => unpushed(r) \subseteq excused

ReposInv == ReposTyped /\ EntriesVouched /\ WorkIsExcused /\ PushWasGranted

-----------------------------------------------------------------------------
(* What jobs hold.                                                         *)
LEMMA Constants ==
    /\ Vault \in Repos /\ Declared \subseteq Repos /\ Depth \in Nat /\ Depth > 0
    /\ Calls \subseteq Workers /\ Sweep \in Workers /\ Bridge \in Workers /\ Sync \in Workers
    /\ Tiers = 0..2 /\ FullWrite = 2 /\ PullRequestsOnly = 1 /\ ReadOnly = 0 /\ NoTier = -1
  BY ReposAssumption DEF Workers, Tiers, FullWrite, PullRequestsOnly, ReadOnly, NoTier

LEMMA EntriesAre ==
    /\ NoEntry \in TrackedRepo /\ NoEntry.access = -1 /\ NoEntry.seen = 0 /\ NoEntry.until = 0
    /\ NewEntry \in TrackedRepo /\ NewEntry.access = 0 /\ NewEntry.seen = 0 /\ NewEntry.until = 0
    /\ NoStore \in [Repos -> TrackedRepo] /\ \A r \in Repos : NoStore[r] = NoEntry
  BY Constants DEF NoEntry, NewEntry, TrackedRepo, NoStore

LEMMA IdleIs ==
    /\ Idle \in Job /\ Idle.at = "idle" /\ Idle.op = "none" /\ Idle.repo \in Repos
    /\ Idle.copy = NoEntry /\ Idle.map = NoStore /\ Idle.rest = NoStore /\ Idle.reset = FALSE
  BY Constants, EntriesAre DEF Idle, Job, RepoStep, RepoOp

LEMMA NoEntryVouched == ASSUME ReposTyped, NEW r \in Repos PROVE vouched(NoEntry, r)
  BY EntriesAre, Constants DEF vouched, within, told, ReposTyped

LEMMA JobGoes ==
    ASSUME ReposTyped, EntriesVouched, NEW w \in Workers, NEW j, Vouches(j), goes(w, j),
           UNCHANGED <<store, granted, reported, shallow, straddled>>
    PROVE  /\ EntriesVouched'
           /\ job' \in [Workers -> Job]
           /\ job'[w] = j
           /\ \A v \in Workers : v # w => job'[v] = job[v]
<1>1. /\ job' \in [Workers -> Job] /\ job'[w] = j
      /\ \A v \in Workers : v # w => job'[v] = job[v]
  BY DEF goes, ReposTyped, Vouches
<1>2. \A v \in Workers : Vouches(job'[v])
  BY <1>1 DEF EntriesVouched
<1>3. \A v \in Workers : Vouches(job[v])'
  BY <1>2 DEF Vouches, vouched, within, told
<1>4. \A r \in Repos : vouched(store[r], r)'
  BY DEF EntriesVouched, vouched, within, told
<1>5. \A r \in Declared : granted'[r] = FullWrite
  BY DEF EntriesVouched
<1> QED BY <1>1, <1>3, <1>4, <1>5 DEF EntriesVouched

LEMMA IdleVouches == ASSUME ReposTyped PROVE Vouches(Idle)
  BY IdleIs, EntriesAre, NoEntryVouched DEF Vouches, vouched

LEMMA MovedVouches ==
    ASSUME NEW j, Vouches(j), NEW step \in RepoStep,
           step \in {"fetching", "fetched"} => j.at = "fetching"
    PROVE  Vouches([j EXCEPT !.at = step]) /\ [j EXCEPT !.at = step].at = step
           /\ [j EXCEPT !.at = step].rest = j.rest
<1> DEFINE k == [j EXCEPT !.at = step]
<1>1. /\ k \in Job /\ k.at = step /\ k.op = j.op /\ k.repo = j.repo /\ k.copy = j.copy /\ k.map = j.map /\ k.rest = j.rest
  BY DEF Vouches, Job
<1> HIDE DEF k
<1>2. Vouches(k)
  BY <1>1 DEF Vouches
<1> QED BY <1>1, <1>2 DEF k

\* The sweep between two repositories.
LEMMA SweepingVouches ==
    ASSUME ReposTyped, NEW rest \in [Repos -> TrackedRepo], \A r \in Repos : vouched(rest[r], r),
           NEW j, j = [Idle EXCEPT !.at = "sweeping", !.rest = rest]
    PROVE  /\ Vouches(j) /\ j \in Job /\ j.at = "sweeping" /\ j.op = "none" /\ j.copy = NoEntry /\ j.rest = rest
           /\ j.map = NoStore
<1>1. /\ j \in Job /\ j.at = "sweeping" /\ j.op = "none" /\ j.copy = NoEntry /\ j.rest = rest
      /\ j.map = NoStore /\ j.repo \in Repos
  BY IdleIs DEF Job, RepoStep
<1> QED BY <1>1, EntriesAre, NoEntryVouched DEF Vouches, vouched

LEMMA FinishedVouches ==
    ASSUME ReposTyped, EntriesVouched, NEW w \in Workers, finishes(w)
    PROVE  \E j : /\ goes(w, j) /\ Vouches(j) /\ j.at \in {"idle", "sweeping"}
                  /\ w = Sweep => j.rest = job[w].rest
                  /\ w # Sweep => j.rest = NoStore
                  /\ j.op = "none" /\ j.copy = NoEntry /\ j.map = NoStore
<1>1. CASE w = Sweep
  <2>1. PICK j : j = [Idle EXCEPT !.at = "sweeping", !.rest = job[w].rest]
    OBVIOUS
  <2>2. job[w].rest \in [Repos -> TrackedRepo] /\ \A r \in Repos : vouched(job[w].rest[r], r)
    BY DEF EntriesVouched, Vouches, Job
  <2>3. goes(w, j)
    BY <1>1, <2>1 DEF finishes
  <2> QED BY <1>1, <2>1, <2>2, <2>3, SweepingVouches
<1>2. CASE w # Sweep
  <2>1. goes(w, Idle)
    BY <1>2 DEF finishes
  <2> QED BY <1>2, <2>1, IdleVouches, IdleIs
<1> QED BY <1>1, <1>2

\* An entry that is on its way back to the store.
LEMMA WithEntryVouches ==
    ASSUME ReposTyped, EntriesVouched, NEW k \in Job, NEW r \in Repos, NEW entry \in TrackedRepo,
           k.op \notin {"none", "vault"}, vouched(k.copy, r), \A q \in Repos : vouched(k.rest[q], q),
           ~ straddled => within(entry, r) \/ k.op = "grant",
           told(entry, r) \/ k.op = "sync",
           k.op = "remove" => r \notin Declared /\ entry = NoEntry /\ k.rest = NoStore
    PROVE  /\ Vouches(withEntry(k, r, entry)) /\ withEntry(k, r, entry).at = "saving"
           /\ withEntry(k, r, entry).rest = k.rest
<1> DEFINE j == withEntry(k, r, entry)
<1>1. [store EXCEPT ![r] = entry] \in [Repos -> TrackedRepo]
  BY DEF ReposTyped
<1>2. /\ j \in Job /\ j.at = "saving" /\ j.op = k.op /\ j.repo = r /\ j.copy = k.copy
      /\ j.map = [store EXCEPT ![r] = entry] /\ j.rest = k.rest
  BY <1>1 DEF withEntry, Job, RepoStep
<1> HIDE DEF j
<1>3. j.map[r] = entry /\ \A q \in Repos : q # r => j.map[q] = store[q]
  BY <1>2 DEF ReposTyped
<1>4. Vouches(j)
  BY <1>2, <1>3 DEF Vouches, EntriesVouched, vouched
<1> QED BY <1>2, <1>4 DEF j

-----------------------------------------------------------------------------
(* What becomes of the edits.                                              *)
LEMMA PlacedIs ==
    ASSUME ReposTyped, NEW es, NEW place \in {"commits", "detached", "pushed", "lost"}
    PROVE  /\ placed(es, place) \in [Edits -> Edit]
           /\ \A e \in Edits : /\ placed(es, place)[e].repo = edit[e].repo
                               /\ placed(es, place)[e].place = IF e \in es THEN place ELSE edit[e].place
<1>1. ASSUME NEW e \in Edits
      PROVE  LET f == IF e \in es THEN [edit[e] EXCEPT !.place = place] ELSE edit[e]
             IN  f \in Edit /\ f.repo = edit[e].repo /\ f.place = IF e \in es THEN place ELSE edit[e].place
  <2>1. PICK f \in Edit : f = edit[e]
    BY DEF ReposTyped
  <2>2. [f EXCEPT !.place = place] \in Edit /\ [f EXCEPT !.place = place].repo = f.repo /\ [f EXCEPT !.place = place].place = place
    BY DEF Edit
  <2> QED BY <2>1, <2>2
<1> QED BY <1>1 DEF placed

LEMMA WorkStays ==
    ASSUME ReposTyped, WorkIsExcused, edit' \in [Edits -> Edit], excused \subseteq excused',
           \A e \in Edits :
              /\ edit'[e].repo = edit[e].repo
              /\ \/ edit'[e].place = edit[e].place
                 \/ edit'[e].place \in {"lost", "detached"} /\ e \in excused'
                 \/ edit'[e].place = "pushed"
                 \/ edit'[e].place = "commits" /\ edit[e].place = "tree",
           \A r \in Repos : clone'[r].rebasing => clone[r].rebasing \/ in(r, {"tree"}) = {},
           \A r \in Repos : doomed(r)' =>
              \/ doomed(r)
              \/ \A e \in Edits : edit'[e].repo = r /\ edit'[e].place \in {"tree", "commits", "detached"} => e \in excused'
    PROVE  WorkIsExcused'
<1>1. \A e \in Edits : edit'[e].place \in {"lost", "detached"} => e \in excused'
  BY DEF WorkIsExcused
<1>2. ASSUME NEW r \in Repos, clone'[r].rebasing, NEW e \in Edits, edit'[e].repo = r, edit'[e].place = "tree"
      PROVE  e \in excused'
  BY <1>2 DEF WorkIsExcused, in
<1>3. ASSUME NEW r \in Repos, doomed(r)', NEW e \in Edits, edit'[e].repo = r, edit'[e].place \in {"tree", "commits", "detached"}
      PROVE  e \in excused'
  <2>1. CASE doomed(r)
    BY <1>3, <2>1 DEF WorkIsExcused, unpushed, in
  <2> QED BY <1>3, <2>1
<1> QED BY <1>1, <1>2, <1>3 DEF WorkIsExcused, in, unpushed

\* A step that leaves the edits alone.
LEMMA NoWork ==
    ASSUME ReposTyped, WorkIsExcused, UNCHANGED edit, excused \subseteq excused',
           \A r \in Repos : clone'[r].rebasing => clone[r].rebasing \/ in(r, {"tree"}) = {},
           \A r \in Repos : doomed(r)' =>
              \/ doomed(r)
              \/ \A e \in Edits : edit[e].repo = r /\ edit[e].place \in {"tree", "commits", "detached"} => e \in excused'
    PROVE  WorkIsExcused'
  BY WorkStays DEF ReposTyped

\* A job that begins or goes on dooms nothing, unless it is to reset a clone.
LEMMA DoomStays ==
    ASSUME NEW w \in Workers, NEW j, job'[w] = j, \A v \in Workers : v # w => job'[v] = job[v],
           UNCHANGED <<store, now>>, NEW r \in Repos,
           clone'[r].dir # "clone" => clone[r].dir # "clone",
           j.at = "fetching" /\ j.repo = r /\ j.reset => doomed(r),
           w = Sweep => \/ j.rest[r] \in {NoEntry, snapshot(r)}
                        \/ j.rest[r] = store[r],
           doomed(r)'
    PROVE  doomed(r)
<1>1. CASE clone'[r].dir # "clone" \/ ResetToRemote(store[r])'
  BY <1>1 DEF doomed, ResetToRemote, EffectiveAccess
<1>2. CASE snapshot(r)' # NoEntry /\ ~ AllowsPush(snapshot(r)'.access)
  <2>1. CASE w = Sweep /\ j.rest[r] = store[r]
    BY <1>2, <2>1, Constants DEF doomed, snapshot, ResetToRemote, EffectiveAccess, AllowsPush
  <2>2. snapshot(r)' = job'[Sweep].rest[r] /\ Sweep \in Workers
    BY Constants DEF snapshot
  <2>3. CASE w # Sweep \/ j.rest[r] \in {NoEntry, snapshot(r)}
    <3>1. snapshot(r)' \in {NoEntry, snapshot(r)}
      BY <2>2, <2>3 DEF snapshot
    <3> QED BY <1>2, <3>1 DEF doomed
  <2> QED BY <2>1, <2>3
<1>3. CASE \E v \in Workers : job'[v].at = "fetching" /\ job'[v].repo = r /\ job'[v].reset
  BY <1>3 DEF doomed, at
<1> QED BY <1>1, <1>2, <1>3 DEF doomed, at, AllowsPush

-----------------------------------------------------------------------------
(* The steps of the repositories.                                          *)

\* A step of one job that leaves the store and its history alone.
LEMMA JobSteps ==
    ASSUME ReposInv, NEW w \in Workers, NEW j, Vouches(j), goes(w, j),
           UNCHANGED <<store, granted, reported, shallow, straddled, now>>,
           overreached' = overreached \/ (overreached' \in BOOLEAN /\ PushWasGranted'),
           edit' \in [Edits -> Edit], clone' \in [Repos -> Clone], head' \in [Repos -> Nat],
           armed' \in [repo : Repos, access : Tiers, until : Nat],
           excused \subseteq excused', excused' \subseteq Edits,
           \A e \in Edits :
              /\ edit'[e].repo = edit[e].repo
              /\ \/ edit'[e].place = edit[e].place
                 \/ (edit'[e].place \in {"lost", "detached"} /\ e \in excused')
                 \/ edit'[e].place = "pushed"
                 \/ edit'[e].place = "commits" /\ edit[e].place = "tree",
           \A r \in Repos : clone'[r].rebasing => clone[r].rebasing \/ in(r, {"tree"}) = {},
           \A r \in Repos : clone'[r].dir # "clone" => 
               clone[r].dir # "clone" \/ (\A e \in Edits : edit'[e].repo = r => edit'[e].place \notin {"tree", "commits", "detached"}),
           \A r \in Repos : j.at = "fetching" /\ j.repo = r /\ j.reset => doomed(r),
           w = Sweep => \A r \in Repos : j.rest[r] \in {NoEntry, snapshot(r), store[r]}
    PROVE  ReposInv'
<1>1. EntriesVouched' /\ job' \in [Workers -> Job] /\ job'[w] = j /\ \A v \in Workers : v # w => job'[v] = job[v]
  BY JobGoes DEF ReposInv
<1>2. ReposTyped'
  BY <1>1 DEF ReposInv, ReposTyped
<1>3. PushWasGranted'
  BY DEF ReposInv, PushWasGranted
<1>4. ASSUME NEW r \in Repos, doomed(r)'
      PROVE  \/ doomed(r)
             \/ \A e \in Edits : edit'[e].repo = r /\ edit'[e].place \in {"tree", "commits", "detached"} => e \in excused'
  <2>1. CASE clone'[r].dir # "clone"
    BY <2>1 DEF doomed
  <2>2. CASE ~ (clone'[r].dir # "clone")
    <3>1. doomed(r)
      BY <1>1, <1>4, <2>2, DoomStays
    <3> QED BY <3>1
  <2> QED BY <2>1, <2>2
<1>5. WorkIsExcused'
  BY <1>4, WorkStays DEF ReposInv
<1> QED BY <1>1, <1>2, <1>3, <1>5 DEF ReposInv

\* A step of one job that also leaves the work alone.
LEMMA JobGoesOn ==
    ASSUME ReposInv, NEW w \in Workers, NEW j, Vouches(j), goes(w, j),
           UNCHANGED <<store, edit, head, now, granted, reported, shallow, straddled, overreached, excused>>,
           clone' \in [Repos -> Clone], armed' \in [repo : Repos, access : Tiers, until : Nat],
           \A r \in Repos : clone'[r].rebasing = clone[r].rebasing /\ (clone'[r].dir # "clone" => clone[r].dir # "clone"),
           \A r \in Repos : j.at = "fetching" /\ j.repo = r /\ j.reset => doomed(r),
           w = Sweep => \A r \in Repos : j.rest[r] \in {NoEntry, snapshot(r), store[r]}
    PROVE  ReposInv'
<1>1. edit' \in [Edits -> Edit] /\ head' \in [Repos -> Nat] /\ excused' \subseteq Edits
  BY DEF ReposInv, ReposTyped
<1> QED BY <1>1, JobSteps

\* A job that is done.
LEMMA JobIsDone ==
    ASSUME ReposInv, NEW w \in Workers, finishes(w),
           UNCHANGED <<store, edit, clone, head, armed, now, granted, reported, shallow, straddled, overreached, excused>>
    PROVE  ReposInv'
<1>1. PICK j : /\ goes(w, j) /\ Vouches(j) /\ j.at \in {"idle", "sweeping"}
               /\ w = Sweep => j.rest = job[w].rest
  BY FinishedVouches DEF ReposInv
<1>2. /\ clone' \in [Repos -> Clone] /\ armed' \in [repo : Repos, access : Tiers, until : Nat]
      /\ \A r \in Repos : clone'[r].rebasing = clone[r].rebasing /\ (clone'[r].dir # "clone" => clone[r].dir # "clone")
  BY DEF ReposInv, ReposTyped
<1>3. w = Sweep => \A r \in Repos : j.rest[r] \in {NoEntry, snapshot(r), store[r]}
  BY <1>1 DEF snapshot
<1> QED BY <1>1, <1>2, <1>3, JobGoesOn

\* The directory of one repository.
LEMMA CloneIs ==
    ASSUME ReposTyped, NEW r \in Repos, NEW c \in Clone, clone' = [clone EXCEPT ![r] = c]
    PROVE  clone' \in [Repos -> Clone] /\ clone'[r] = c /\ \A q \in Repos : q # r => clone'[q] = clone[q]
  BY DEF ReposTyped

LEMMA JobIs ==
    ASSUME ReposInv, NEW w \in Workers
    PROVE  /\ job[w] \in Job /\ Vouches(job[w]) /\ job[w].repo \in Repos
           /\ vouched(job[w].copy, job[w].repo) /\ job[w].copy \in TrackedRepo
           /\ job[w].rest \in [Repos -> TrackedRepo] /\ \A q \in Repos : vouched(job[w].rest[q], q)
  BY DEF ReposInv, ReposTyped, EntriesVouched, Vouches, Job

\* Edits that are lost with an excuse, if any.
LEMMA LostIs ==
    ASSUME ReposTyped, edit' = edit \/ \E es \in SUBSET excused' : edit' = placed(es, "lost")
    PROVE  /\ edit' \in [Edits -> Edit]
           /\ \A e \in Edits : /\ edit'[e].repo = edit[e].repo
                               /\ edit'[e].place = edit[e].place \/ (edit'[e].place = "lost" /\ e \in excused')
<1>1. CASE edit' = edit
  <2>1. edit' \in [Edits -> Edit]
    BY <1>1 DEF ReposTyped
  <2> QED BY <1>1, <2>1
<1>2. CASE \E es \in SUBSET excused' : edit' = placed(es, "lost")
  <2>1. PICK es \in SUBSET excused' : edit' = placed(es, "lost")
    BY <1>2
  <2> QED BY <2>1, PlacedIs
<1> QED BY <1>1, <1>2

LEMMA FetchesKeepsInv == ASSUME ReposInv, NEW w \in Workers, Fetches(w) PROVE ReposInv'
<1> DEFINE r == job[w].repo
<1>1. r \in Repos /\ Vouches(job[w]) /\ job[w].at = "fetching"
  BY JobIs DEF Fetches, at
<1>2. CASE /\ edit' = fetchedEdits(r, job[w].reset)
           /\ clone' = [clone EXCEPT ![r] = [@ EXCEPT !.dir = "clone", !.tip = head[r]]]
           /\ moves(w, "fetched")
  <2>1. PICK c \in Clone : c = [clone[r] EXCEPT !.dir = "clone", !.tip = head[r]]
    <3>1. clone[r] \in Clone /\ head[r] \in Nat
      BY <1>1 DEF ReposInv, ReposTyped
    <3> QED BY <3>1 DEF Clone
  <2>2. c.dir = "clone" /\ c.rebasing = clone[r].rebasing
    BY <1>1, <2>1 DEF ReposInv, ReposTyped, Clone
  <2>3. clone' = [clone EXCEPT ![r] = c]
    BY <1>1, <1>2, <2>1
  <2>4. clone' \in [Repos -> Clone] /\ clone'[r] = c /\ \A q \in Repos : q # r => clone'[q] = clone[q]
    BY <1>1, <2>3, CloneIs DEF ReposInv
  <2>5. PICK j : j = [job[w] EXCEPT !.at = "fetched"]
    OBVIOUS
  <2>6. Vouches(j) /\ goes(w, j) /\ j.at = "fetched" /\ j.rest = job[w].rest
    BY <1>1, <1>2, <2>5, MovedVouches DEF moves, RepoStep
  <2>7. \/ edit' = edit
        \/ doomed(r) /\ \E es \in SUBSET unpushed(r) : edit' = placed(es, "lost")
    <3>1. CASE clone[r].dir = "clone" /\ ~ job[w].reset
      BY <1>2, <3>1 DEF fetchedEdits
    <3>2. CASE ~ (clone[r].dir = "clone" /\ ~ job[w].reset)
      <4>1. doomed(r)
        BY <1>1, <3>2 DEF doomed, at
      <4>2. in(r, {"tree", "detached"} \cup IF clone[r].rebasing THEN {} ELSE {"commits"}) \in SUBSET unpushed(r)
        BY DEF in, unpushed
      <4> QED BY <1>2, <3>2, <4>1, <4>2 DEF fetchedEdits
    <3> QED BY <3>1, <3>2
  <2>8. /\ edit' \in [Edits -> Edit]
        /\ \A e \in Edits : /\ edit'[e].repo = edit[e].repo
                            /\ edit'[e].place = edit[e].place \/ (edit'[e].place = "lost" /\ e \in excused)
    <3>1. unpushed(r) \subseteq excused \/ ~ doomed(r)
      BY <1>1 DEF ReposInv, WorkIsExcused
    <3>2. excused' = excused
      BY DEF Fetches, repoHistory
    <3>3. edit' = edit \/ \E es \in SUBSET excused' : edit' = placed(es, "lost")
      BY <2>7, <3>1, <3>2
    <3> QED BY <3>2, <3>3, LostIs DEF ReposInv
  <2>9. /\ UNCHANGED <<store, granted, reported, shallow, straddled, overreached, now, head, armed, excused>>
    BY DEF Fetches, repoHistory
  <2>10. /\ head' \in [Repos -> Nat] /\ armed' \in [repo : Repos, access : Tiers, until : Nat]
         /\ excused' \subseteq Edits /\ excused' = excused
    BY <2>9 DEF ReposInv, ReposTyped
  <2>11. w = Sweep => \A q \in Repos : j.rest[q] \in {NoEntry, snapshot(q), store[q]}
    BY <2>6 DEF snapshot
  <2>12. \A q \in Repos : /\ clone'[q].rebasing => clone[q].rebasing
                          /\ clone'[q].dir # "clone" => clone[q].dir # "clone"
    BY <2>2, <2>4
  <2> HIDE DEF r
  <2> QED BY <2>4, <2>6, <2>8, <2>9, <2>10, <2>11, <2>12, JobSteps
<1>3. CASE finishes(w) /\ UNCHANGED <<edit, clone>>
  BY <1>3, JobIsDone DEF Fetches, repoHistory
<1> QED BY <1>2, <1>3 DEF Fetches

LEMMA SaveFailsKeepsInv == ASSUME ReposInv, NEW w \in Workers, SaveFails(w) PROVE ReposInv'
  BY JobIsDone DEF SaveFails

LEMMA SyncReadsKeepsInv == ASSUME ReposInv, NEW c \in Calls, SyncReads(c) PROVE ReposInv'
<1> DEFINE r == job[c].repo
           entry == [job[c].copy EXCEPT !.seen = clone[r].tip]
<1>1. /\ c \in Workers /\ job[c] \in Job /\ r \in Repos /\ job[c].op = "sync"
      /\ vouched(job[c].copy, r) /\ job[c].copy \in TrackedRepo /\ \A q \in Repos : vouched(job[c].rest[q], q)
  BY Constants, JobIs DEF SyncReads
<1>2. clone[r].tip \in Nat
  BY <1>1 DEF ReposInv, ReposTyped, Clone
<1>3. entry \in TrackedRepo /\ entry.access = job[c].copy.access
  BY <1>1, <1>2 DEF TrackedRepo
<1>4. ~ straddled => within(entry, r)
  BY <1>1, <1>3 DEF vouched, within
<1>5. PICK j : j = withEntry(job[c], r, entry)
  OBVIOUS
<1>6. goes(c, j)
  BY <1>5 DEF SyncReads
<1> HIDE DEF entry, r
<1>7. Vouches(j) /\ j.at = "saving" /\ j.rest = job[c].rest
  BY <1>1, <1>3, <1>4, <1>5, WithEntryVouches DEF ReposInv
<1>8. UNCHANGED <<store, edit, clone, head, armed, now, granted, reported, shallow, straddled, overreached, excused>>
  BY DEF SyncReads, repoHistory
<1>9. clone' \in [Repos -> Clone] /\ armed' \in [repo : Repos, access : Tiers, until : Nat]
  BY <1>8 DEF ReposInv, ReposTyped
<1>10. c = Sweep => \A q \in Repos : j.rest[q] \in {NoEntry, snapshot(q), store[q]}
  BY <1>7 DEF snapshot
<1> QED BY <1>1, <1>6, <1>7, <1>8, <1>9, <1>10, JobGoesOn

\* A write of an entry that the tool or the grant just made up.
LEMMA WritesEntry ==
    ASSUME ReposInv, NEW w \in Workers, NEW r \in Repos, NEW entry \in TrackedRepo,
           NEW op \in {"add", "remove", "access", "grant"},
           goes(w, withEntry([Idle EXCEPT !.op = op], r, entry)),
           ~ straddled => within(entry, r) \/ op = "grant", told(entry, r),
           op = "remove" => r \notin Declared /\ entry = NoEntry
    PROVE  \E j : /\ goes(w, j) /\ Vouches(j) /\ j.at = "saving"
                  /\ \A q \in Repos : j.rest[q] = NoEntry
<1>1. PICK k : k = [Idle EXCEPT !.op = op]
  OBVIOUS
<1>2. k \in Job /\ k.op = op /\ k.copy = NoEntry /\ k.rest = NoStore
  BY <1>1, IdleIs DEF Job, RepoOp
<1>3. vouched(k.copy, r) /\ \A q \in Repos : k.rest[q] = NoEntry /\ vouched(k.rest[q], q)
  BY <1>2, EntriesAre, NoEntryVouched DEF ReposInv
<1>4. goes(w, withEntry(k, r, entry))
  BY <1>1
<1>5. PICK j : j = withEntry(k, r, entry)
  OBVIOUS
<1>6. Vouches(j) /\ j.at = "saving" /\ j.rest = k.rest
  BY <1>2, <1>3, <1>5, WithEntryVouches DEF ReposInv
<1> QED BY <1>3, <1>4, <1>5, <1>6

\* A directory made for a clone that is missing.
LEMMA DirectoryIs ==
    ASSUME ReposTyped, NEW r \in Repos,
           clone' = [clone EXCEPT ![r].dir = IF @ = "none" THEN "dir" ELSE @]
    PROVE  /\ clone' \in [Repos -> Clone]
           /\ \A q \in Repos : clone'[q].rebasing = clone[q].rebasing /\ (clone'[q].dir # "clone" => clone[q].dir # "clone")
<1>1. PICK d : d = IF clone[r].dir = "none" THEN "dir" ELSE clone[r].dir
  OBVIOUS
<1>2. clone[r] \in Clone
  BY DEF ReposTyped
<1>3. PICK c : c = [clone[r] EXCEPT !.dir = d]
  OBVIOUS
<1>4. c \in Clone /\ c.rebasing = clone[r].rebasing /\ c.dir = d
  BY <1>1, <1>2, <1>3 DEF Clone
<1>5. clone' = [clone EXCEPT ![r] = c]
  BY <1>1, <1>3
<1> QED BY <1>1, <1>4, <1>5, CloneIs

LEMMA AddKeepsInv == ASSUME ReposInv, NEW c \in Calls, NEW r \in Repos, repo_add(c, r) PROVE ReposInv'
<1>1. c \in Workers /\ within(NewEntry, r) /\ told(NewEntry, r)
  BY Constants, EntriesAre DEF ReposInv, ReposTyped, within, told
<1>2. goes(c, withEntry([Idle EXCEPT !.op = "add"], r, NewEntry))
  BY DEF repo_add, writes
<1>3. PICK j : goes(c, j) /\ Vouches(j) /\ j.at = "saving" /\ \A q \in Repos : j.rest[q] = NoEntry
  BY <1>1, <1>2, WritesEntry, EntriesAre
<1>4. UNCHANGED <<store, edit, head, armed, now, granted, reported, shallow, straddled, overreached, excused>>
  BY DEF repo_add
<1>5. /\ clone' \in [Repos -> Clone]
      /\ \A q \in Repos : clone'[q].rebasing = clone[q].rebasing /\ (clone'[q].dir # "clone" => clone[q].dir # "clone")
  BY DirectoryIs DEF repo_add, ReposInv
<1>6. armed' \in [repo : Repos, access : Tiers, until : Nat]
  BY <1>4 DEF ReposInv, ReposTyped
<1> QED BY <1>1, <1>3, <1>4, <1>5, <1>6, JobGoesOn

LEMMA SyncKeepsInv == ASSUME ReposInv, NEW c \in Calls, NEW r \in Repos, repo_sync(c, r) PROVE ReposInv'
<1>1. PICK j : j = [Idle EXCEPT !.at = "fetching", !.op = "sync", !.repo = r, !.copy = store[r],
                            !.reset = ResetToRemote(store[r])]
  OBVIOUS
<1>2. c \in Workers /\ goes(c, j) /\ store[r] \in TrackedRepo /\ vouched(store[r], r)
  BY <1>1, Constants DEF repo_sync, ReposInv, ReposTyped, EntriesVouched
<1>3. ResetToRemote(store[r]) \in BOOLEAN
  BY DEF ResetToRemote
<1>4. /\ j \in Job /\ j.at = "fetching" /\ j.op = "sync" /\ j.repo = r /\ j.copy = store[r] /\ j.rest = NoStore /\ j.map = NoStore
      /\ j.reset = ResetToRemote(store[r])
  BY <1>1, <1>2, <1>3, IdleIs DEF Job, RepoStep, RepoOp
<1>5. Vouches(j)
  BY <1>2, <1>4, EntriesAre, NoEntryVouched DEF Vouches, vouched, ReposInv
<1>6. j.at = "fetching" /\ j.repo = r /\ j.reset => doomed(r)
  BY <1>4 DEF doomed
<1>7. UNCHANGED <<store, edit, head, armed, now, granted, reported, shallow, straddled, overreached, excused>>
  BY DEF repo_sync
<1>8. /\ clone' \in [Repos -> Clone]
      /\ \A q \in Repos : clone'[q].rebasing = clone[q].rebasing /\ (clone'[q].dir # "clone" => clone[q].dir # "clone")
  BY DirectoryIs DEF repo_sync, ReposInv
<1>9. armed' \in [repo : Repos, access : Tiers, until : Nat]
  BY <1>7 DEF ReposInv, ReposTyped
<1>10. \A q \in Repos : j.rest[q] = NoEntry
  BY <1>4, EntriesAre
<1> QED BY <1>2, <1>4, <1>5, <1>6, <1>7, <1>8, <1>9, <1>10, JobGoesOn

\* The clone of a repository is removed, and what was in it.
LEMMA RemovalIs ==
    ASSUME ReposInv, NEW r \in Repos, clone' = [clone EXCEPT ![r] = EmptyClone],
           edit' = placed(unpushed(r), "lost"), excused' = excused \cup unpushed(r)
    PROVE  /\ clone' \in [Repos -> Clone] /\ edit' \in [Edits -> Edit]
           /\ excused \subseteq excused' /\ excused' \subseteq Edits
           /\ \A e \in Edits : /\ edit'[e].repo = edit[e].repo
                               /\ edit'[e].place = edit[e].place \/ (edit'[e].place = "lost" /\ e \in excused')
           /\ \A q \in Repos : /\ clone'[q].rebasing => clone[q].rebasing
                               /\ clone'[q].dir # "clone" =>
                                     \/ clone[q].dir # "clone"
                                     \/ \A e \in Edits : edit'[e].repo = q => edit'[e].place \notin {"tree", "commits", "detached"}
<1>1. EmptyClone \in Clone /\ EmptyClone.rebasing = FALSE
  BY DEF EmptyClone, Clone
<1>2. clone' \in [Repos -> Clone] /\ clone'[r] = EmptyClone /\ \A q \in Repos : q # r => clone'[q] = clone[q]
  BY <1>1, CloneIs DEF ReposInv
<1>3. unpushed(r) \in SUBSET excused' /\ excused \subseteq excused' /\ excused' \subseteq Edits
  BY DEF unpushed, in, ReposInv, ReposTyped
<1>4. /\ edit' \in [Edits -> Edit]
      /\ \A e \in Edits : /\ edit'[e].repo = edit[e].repo
                          /\ edit'[e].place = edit[e].place \/ (edit'[e].place = "lost" /\ e \in excused')
  BY <1>3, LostIs DEF ReposInv
<1>5. \A e \in Edits : edit'[e].repo = r => edit'[e].place \notin {"tree", "commits", "detached"}
  <2>1. \A e \in Edits : /\ edit'[e].repo = edit[e].repo
                         /\ edit'[e].place = IF e \in unpushed(r) THEN "lost" ELSE edit[e].place
    BY PlacedIs DEF ReposInv
  <2> QED BY <2>1 DEF unpushed, in
<1> QED BY <1>1, <1>2, <1>3, <1>4, <1>5

LEMMA RemoveKeepsInv == ASSUME ReposInv, NEW c \in Calls, NEW r \in Repos, repo_remove(c, r) PROVE ReposInv'
<1>1. c \in Workers /\ within(NoEntry, r) /\ told(NoEntry, r) /\ r \notin Declared
  BY Constants, EntriesAre DEF ReposInv, ReposTyped, within, told, repo_remove
<1>2. goes(c, withEntry([Idle EXCEPT !.op = "remove"], r, NoEntry))
  BY DEF repo_remove, writes
<1>3. PICK j : goes(c, j) /\ Vouches(j) /\ j.at = "saving" /\ \A q \in Repos : j.rest[q] = NoEntry
  BY <1>1, <1>2, WritesEntry, EntriesAre
<1>4. UNCHANGED <<store, head, armed, now, granted, reported, shallow, straddled, overreached>>
  BY DEF repo_remove
<1>5. /\ clone' = [clone EXCEPT ![r] = EmptyClone] /\ edit' = placed(unpushed(r), "lost")
      /\ excused' = excused \cup unpushed(r)
  BY DEF repo_remove
<1>6. armed' \in [repo : Repos, access : Tiers, until : Nat] /\ head' \in [Repos -> Nat]
  BY <1>4 DEF ReposInv, ReposTyped
<1> QED BY <1>1, <1>3, <1>4, <1>5, <1>6, RemovalIs, JobSteps

\* No job moves.
LEMMA JobsStay ==
    ASSUME ReposInv, UNCHANGED job
    PROVE  /\ Bridge \in Workers /\ Bridge # Sweep /\ goes(Bridge, job[Bridge]) /\ Vouches(job[Bridge])
           /\ \A r \in Repos : job[Bridge].at = "fetching" /\ job[Bridge].repo = r /\ job[Bridge].reset => doomed(r)
<1>1. Bridge \in Workers /\ Bridge # Sweep /\ Vouches(job[Bridge])
  BY Constants, JobIs DEF Bridge, Sweep
<1>2. goes(Bridge, job[Bridge])
  BY <1>1 DEF goes, ReposInv, ReposTyped
<1>3. \A r \in Repos : job[Bridge].at = "fetching" /\ job[Bridge].repo = r /\ job[Bridge].reset => doomed(r)
  BY <1>1 DEF doomed, at
<1> QED BY <1>1, <1>2, <1>3

\* Neither a job nor the work: what is asked, what may be written, the clock.
LEMMA NothingMoves ==
    ASSUME ReposInv,
           UNCHANGED <<store, edit, clone, job, now, granted, reported, shallow, straddled, overreached, excused>>,
           head' \in [Repos -> Nat], armed' \in [repo : Repos, access : Tiers, until : Nat]
    PROVE  ReposInv'
<1>1. edit' \in [Edits -> Edit] /\ clone' \in [Repos -> Clone] /\ excused' \subseteq Edits
  BY DEF ReposInv, ReposTyped
<1> QED BY <1>1, JobsStay, JobSteps

LEMMA AccessKeepsInv ==
    ASSUME ReposInv, NEW c \in Calls, NEW r \in Repos, NEW tier \in Tiers, NEW until \in 0..MaxTime,
           repo_request_access(c, r, tier, until)
    PROVE  ReposInv'
<1>1. until \in Nat /\ c \in Workers /\ store[r] \in TrackedRepo /\ vouched(store[r], r) /\ granted[r] \in Tiers /\ now \in Nat
  BY Constants, ReposAssumption DEF ReposInv, ReposTyped, EntriesVouched
<1>2. UNCHANGED <<store, clone, edit, head, now, granted, reported, shallow, straddled, overreached, excused>>
  BY DEF repo_request_access
<1>3. head' \in [Repos -> Nat] /\ clone' \in [Repos -> Clone]
  BY <1>2 DEF ReposInv, ReposTyped
<1>4. CASE armed' = [repo |-> r, access |-> tier, until |-> until] /\ UNCHANGED job
  BY <1>1, <1>2, <1>3, <1>4, NothingMoves
<1>5. CASE /\ ~ Exceeds(tier, EffectiveAccess(store[r])) /\ UNCHANGED armed
           /\ writes(c, r, "access", [store[r] EXCEPT !.access = tier, !.until = until])
  <2>1. PICK entry : entry = [store[r] EXCEPT !.access = tier, !.until = until]
    OBVIOUS
  <2>2. entry \in TrackedRepo /\ entry.access = tier /\ entry.seen = store[r].seen
    <3>1. PICK s \in TrackedRepo : s = store[r]
      BY <1>1
    <3>2. entry = [s EXCEPT !.access = tier, !.until = until]
      BY <2>1, <3>1
    <3>3. s.seen \in Nat /\ tier \in NoTier..FullWrite /\ until \in Nat
      BY <1>1, Constants DEF TrackedRepo
    <3>4. entry = [access |-> tier, until |-> until, seen |-> s.seen]
      BY <3>1, <3>2 DEF TrackedRepo
    <3>5. entry \in TrackedRepo /\ entry.access = tier /\ entry.seen = s.seen
      BY <3>3, <3>4 DEF TrackedRepo
    <3> QED BY <3>1, <3>5
  <2>3. tier <= store[r].access \/ tier = 0
    BY <1>1, <1>5, Constants DEF Exceeds, EffectiveAccess, TrackedRepo
  <2>4. (~ straddled => within(entry, r)) /\ told(entry, r)
    BY <1>1, <2>2, <2>3, Constants DEF vouched, within, told, TrackedRepo
  <2>5. goes(c, withEntry([Idle EXCEPT !.op = "access"], r, entry))
    BY <1>5, <2>1 DEF writes
  <2>6. PICK j : goes(c, j) /\ Vouches(j) /\ j.at = "saving" /\ \A q \in Repos : j.rest[q] = NoEntry
    BY <1>1, <2>2, <2>4, <2>5, WritesEntry
  <2>7. armed' \in [repo : Repos, access : Tiers, until : Nat]
    BY <1>5 DEF ReposInv, ReposTyped
  <2> QED BY <1>1, <1>2, <1>3, <2>6, <2>7, JobGoesOn
<1> QED BY <1>4, <1>5 DEF repo_request_access

LEMMA GrantKeepsInv == ASSUME ReposInv, confirmRepoGrant PROVE ReposInv'
<1> DEFINE r == armed.repo
<1>1. /\ Bridge \in Workers /\ r \in Repos /\ armed.access \in Tiers /\ armed.until \in Nat
      /\ store[r] \in TrackedRepo /\ vouched(store[r], r)
  BY Constants DEF ReposInv, ReposTyped, EntriesVouched
<1>2. UNCHANGED <<store, clone, edit, head, now, granted, reported, shallow, straddled, overreached, excused>> /\ armed' = NoGrant
  BY DEF confirmRepoGrant, repoHistory
<1>3. /\ head' \in [Repos -> Nat] /\ clone' \in [Repos -> Clone]
      /\ armed' \in [repo : Repos, access : Tiers, until : Nat]
  BY <1>2, Constants DEF ReposInv, ReposTyped, NoGrant
<1>4. CASE UNCHANGED job
  BY <1>2, <1>3, <1>4, NothingMoves
<1>5. CASE goes(Bridge, withEntry([Idle EXCEPT !.op = "grant"], r,
                                    [store[r] EXCEPT !.access = armed.access, !.until = armed.until]))
  <2>1. PICK entry : entry = [store[r] EXCEPT !.access = armed.access, !.until = armed.until]
    OBVIOUS
  <2>2. entry \in TrackedRepo /\ entry.seen = store[r].seen
    <3>1. PICK s \in TrackedRepo, tier \in Tiers, until \in Nat :
                s = store[r] /\ tier = armed.access /\ until = armed.until
      BY <1>1
    <3>2. entry = [s EXCEPT !.access = tier, !.until = until]
      BY <2>1, <3>1
    <3>3. s.seen \in Nat /\ tier \in NoTier..FullWrite /\ until \in Nat
      BY <1>1, Constants DEF TrackedRepo
    <3>4. entry = [access |-> tier, until |-> until, seen |-> s.seen]
      BY <3>1, <3>2 DEF TrackedRepo
    <3>5. entry \in TrackedRepo /\ entry.access = tier /\ entry.seen = s.seen
      BY <3>3, <3>4 DEF TrackedRepo
    <3> QED BY <3>1, <3>5
  <2>3. told(entry, r)
    BY <1>1, <2>2 DEF vouched, told
  <2>4. goes(Bridge, withEntry([Idle EXCEPT !.op = "grant"], r, entry))
    BY <1>5, <2>1
  <2>5. PICK j : goes(Bridge, j) /\ Vouches(j) /\ j.at = "saving" /\ \A q \in Repos : j.rest[q] = NoEntry
    BY <1>1, <2>2, <2>3, <2>4, WritesEntry
  <2> QED BY <1>1, <1>2, <1>3, <2>5, JobGoesOn
<1> QED BY <1>4, <1>5 DEF confirmRepoGrant

LEMMA DeclinesKeepsInv == ASSUME ReposInv, Declines PROVE ReposInv'
<1>1. UNCHANGED <<store, clone, edit, head, job, now, granted, reported, shallow, straddled, overreached, excused>> /\ armed' = NoGrant
  BY DEF Declines, repoHistory
<1>2. head' \in [Repos -> Nat] /\ armed' \in [repo : Repos, access : Tiers, until : Nat]
  BY <1>1, Constants DEF ReposInv, ReposTyped, NoGrant
<1> QED BY <1>1, <1>2, NothingMoves

-----------------------------------------------------------------------------
(* The sweep.                                                              *)

LEMMA SnapshotIs ==
    ASSUME ReposInv
    PROVE  /\ Sweep \in Workers /\ job[Sweep].rest \in [Repos -> TrackedRepo]
           /\ \A r \in Repos : snapshot(r) = job[Sweep].rest[r] /\ snapshot(r) \in TrackedRepo /\ vouched(snapshot(r), r)
<1>1. Sweep \in Workers
  BY Constants
<1> QED BY <1>1, JobIs DEF snapshot

\* A step of the sweep, when it leaves the work alone.
LEMMA SweepMoves ==
    ASSUME ReposInv, NEW j, Vouches(j), goes(Sweep, j),
           UNCHANGED <<store, clone, edit, head, armed, now, granted, reported, shallow, straddled, overreached, excused>>,
           \A r \in Repos : j.at = "fetching" /\ j.repo = r /\ j.reset => doomed(r),
           \A r \in Repos : j.rest[r] \in {NoEntry, snapshot(r), store[r]}
    PROVE  ReposInv'
<1>1. /\ clone' \in [Repos -> Clone] /\ armed' \in [repo : Repos, access : Tiers, until : Nat]
      /\ \A r \in Repos : clone'[r].rebasing = clone[r].rebasing /\ (clone'[r].dir # "clone" => clone[r].dir # "clone")
  BY DEF ReposInv, ReposTyped
<1> QED BY <1>1, SnapshotIs, JobGoesOn

LEMMA HandledIs ==
    ASSUME ReposInv, NEW r \in Repos, NEW h, h = handled(r)
    PROVE  /\ Vouches(h) /\ h \in Job /\ h.at = "sweeping" /\ h.op = "none" /\ h.copy = NoEntry /\ h.map = NoStore
           /\ \A q \in Repos : h.rest[q] \in {NoEntry, snapshot(q)} /\ vouched(h.rest[q], q)
<1>1. PICK rest : rest = [job[Sweep].rest EXCEPT ![r] = NoEntry]
  OBVIOUS
<1>2. /\ rest \in [Repos -> TrackedRepo]
      /\ \A q \in Repos : rest[q] \in {NoEntry, snapshot(q)} /\ vouched(rest[q], q)
  BY <1>1, SnapshotIs, EntriesAre, NoEntryVouched DEF ReposInv
<1>3. h = [Idle EXCEPT !.at = "sweeping", !.rest = rest]
  BY <1>1 DEF handled
<1>4. /\ Vouches(h) /\ h \in Job /\ h.at = "sweeping" /\ h.op = "none" /\ h.copy = NoEntry /\ h.rest = rest
      /\ h.map = NoStore
  <2>1. ReposTyped /\ rest \in [Repos -> TrackedRepo] /\ \A q \in Repos : vouched(rest[q], q)
    BY <1>2 DEF ReposInv
  <2> QED BY <1>3, <2>1, SweepingVouches
<1> QED BY <1>2, <1>4

LEMMA SweepBeginsKeepsInv == ASSUME ReposInv, SweepBegins PROVE ReposInv'
<1>1. PICK j : j = [Idle EXCEPT !.at = "sweeping", !.rest = store]
  OBVIOUS
<1>2. store \in [Repos -> TrackedRepo] /\ \A r \in Repos : vouched(store[r], r)
  BY DEF ReposInv, ReposTyped, EntriesVouched
<1>3. Vouches(j) /\ j.at = "sweeping" /\ j.rest = store
  BY <1>1, <1>2, SweepingVouches DEF ReposInv
<1> QED BY <1>1, <1>3, SweepMoves DEF SweepBegins

LEMMA ExpireKeepsInv == ASSUME ReposInv, NEW r \in Repos, expireGrant(r) PROVE ReposInv'
<1>1. PICK h : h = handled(r)
  OBVIOUS
<1>2. PICK k : k = [h EXCEPT !.op = "expire"]
  OBVIOUS
<1>3. /\ k \in Job /\ k.op = "expire" /\ k.copy = NoEntry
      /\ \A q \in Repos : k.rest[q] \in {NoEntry, snapshot(q)} /\ vouched(k.rest[q], q)
  BY <1>1, <1>2, HandledIs DEF Job, RepoOp
<1>4. PICK entry : entry = [snapshot(r) EXCEPT !.access = ReadOnly, !.until = 0]
  OBVIOUS
<1>5. entry \in TrackedRepo /\ entry.access = 0 /\ entry.seen = snapshot(r).seen
  <2>1. PICK s \in TrackedRepo : s = snapshot(r)
    BY SnapshotIs
  <2>2. entry = [s EXCEPT !.access = ReadOnly, !.until = 0]
    BY <1>4, <2>1
  <2>3. s.seen \in Nat /\ ReadOnly = 0 /\ 0 \in NoTier..FullWrite
    BY Constants DEF TrackedRepo
  <2>4. entry = [access |-> 0, until |-> 0, seen |-> s.seen]
    BY <2>1, <2>2, <2>3 DEF TrackedRepo
  <2> QED BY <2>1, <2>3, <2>4 DEF TrackedRepo
<1>6. within(entry, r) /\ told(entry, r)
  BY <1>5, SnapshotIs, Constants DEF within, told, vouched, ReposInv, ReposTyped
<1>7. PICK j : j = withEntry(k, r, entry)
  OBVIOUS
<1>8. goes(Sweep, j)
  BY <1>1, <1>2, <1>4, <1>7 DEF expireGrant
<1>9. Vouches(j) /\ j.at = "saving" /\ j.rest = k.rest
  BY <1>3, <1>5, <1>6, <1>7, NoEntryVouched, WithEntryVouches DEF ReposInv
<1> QED BY <1>3, <1>8, <1>9, SweepMoves DEF expireGrant, repoHistory

LEMMA DropKeepsInv == ASSUME ReposInv, NEW r \in Repos, dropUnusedClone(r) PROVE ReposInv'
<1>1. PICK j : j = handled(r)
  OBVIOUS
<1>2. /\ goes(Sweep, j) /\ Vouches(j) /\ j.at = "sweeping"
      /\ \A q \in Repos : j.rest[q] \in {NoEntry, snapshot(q), store[q]}
  BY <1>1, HandledIs DEF dropUnusedClone
<1>3. /\ clone' = [clone EXCEPT ![r] = EmptyClone] /\ edit' = placed(unpushed(r), "lost")
      /\ excused' = excused \cup unpushed(r)
      /\ UNCHANGED <<store, head, armed, now, granted, reported, shallow, straddled, overreached>>
  BY DEF dropUnusedClone
<1>4. armed' \in [repo : Repos, access : Tiers, until : Nat] /\ head' \in [Repos -> Nat]
  BY <1>3 DEF ReposInv, ReposTyped
<1> QED BY <1>2, <1>3, <1>4, SnapshotIs, RemovalIs, JobSteps

LEMMA RefreshKeepsInv == ASSUME ReposInv, NEW r \in Repos, refreshRepo(r) PROVE ReposInv'
<1>1. PICK h : h = handled(r)
  OBVIOUS
<1>2. PICK j : j = [h EXCEPT !.at = "fetching", !.op = "refresh", !.repo = r,
                       !.copy = snapshot(r), !.reset = ResetToRemote(snapshot(r))]
  OBVIOUS
<1>3. ResetToRemote(snapshot(r)) \in BOOLEAN /\ snapshot(r) \in TrackedRepo /\ vouched(snapshot(r), r)
  BY SnapshotIs DEF ResetToRemote
<1>4. /\ h \in Job /\ h.map = NoStore /\ \A q \in Repos : h.rest[q] \in {NoEntry, snapshot(q)} /\ vouched(h.rest[q], q)
  BY <1>1, HandledIs
<1>5. /\ j \in Job /\ j.at = "fetching" /\ j.op = "refresh" /\ j.repo = r /\ j.copy = snapshot(r)
      /\ j.map = NoStore /\ j.rest = h.rest /\ j.reset = ResetToRemote(snapshot(r))
  BY <1>2, <1>3, <1>4 DEF Job, RepoStep, RepoOp
<1>6. Vouches(j)
  BY <1>3, <1>4, <1>5, EntriesAre, NoEntryVouched DEF Vouches, vouched, ReposInv
<1>7. goes(Sweep, j) /\ snapshot(r) # NoEntry /\ ~ expired(snapshot(r))
  BY <1>1, <1>2 DEF refreshRepo, takes
<1>8. j.reset => doomed(r)
  <2>1. now \in Nat /\ snapshot(r).until \in Nat
    BY <1>3 DEF ReposInv, ReposTyped, TrackedRepo
  <2>2. ResetToRemote(snapshot(r)) => ~ AllowsPush(snapshot(r).access)
    BY <1>7, <2>1 DEF expired, ResetToRemote, EffectiveAccess
  <2> QED BY <1>5, <1>7, <2>2 DEF doomed
<1> QED BY <1>4, <1>5, <1>6, <1>7, <1>8, SweepMoves DEF refreshRepo, repoHistory

LEMMA RefreshReadsKeepsInv == ASSUME ReposInv, RefreshReads PROVE ReposInv'
<1> DEFINE r == job[Sweep].repo
<1>1. /\ job[Sweep] \in Job /\ r \in Repos /\ vouched(job[Sweep].copy, r) /\ job[Sweep].copy \in TrackedRepo
      /\ \A q \in Repos : vouched(job[Sweep].rest[q], q)
      /\ job[Sweep].op \in {"sync", "refresh"}
  BY Constants, JobIs DEF RefreshReads, at, Vouches
<1>2. PICK j : j = withEntry(job[Sweep], r, job[Sweep].copy)
  OBVIOUS
<1>3. goes(Sweep, j)
  BY <1>2 DEF RefreshReads, refreshedEntry
<1> HIDE DEF r
<1>4. Vouches(j) /\ j.at = "saving" /\ j.rest = job[Sweep].rest
  BY <1>1, <1>2, WithEntryVouches DEF ReposInv, vouched
<1>5. UNCHANGED <<store, clone, edit, head, armed, now, granted, reported, shallow, straddled, overreached, excused>>
  BY DEF RefreshReads, repoHistory
<1> QED BY <1>3, <1>4, <1>5, SweepMoves, SnapshotIs

LEMMA SweepGoesOnKeepsInv == ASSUME ReposInv, SweepGoesOn PROVE ReposInv'
<1>1. UNCHANGED <<store, clone, edit, head, armed, now, granted, reported, shallow, straddled, overreached, excused>>
  BY DEF SweepGoesOn, repoHistory
<1>2. ASSUME NEW r \in Repos, goes(Sweep, handled(r)) PROVE ReposInv'
  <2>1. PICK j : j = handled(r)
    OBVIOUS
  <2>2. /\ goes(Sweep, j) /\ Vouches(j) /\ j.at = "sweeping"
        /\ \A q \in Repos : j.rest[q] \in {NoEntry, snapshot(q), store[q]}
    BY <1>2, <2>1, HandledIs
  <2> QED BY <1>1, <2>2, SweepMoves
<1>3. ASSUME goes(Sweep, Idle) PROVE ReposInv'
  <2>1. Vouches(Idle) /\ Idle.at = "idle" /\ \A q \in Repos : Idle.rest[q] = NoEntry
    BY IdleVouches, IdleIs, EntriesAre DEF ReposInv
  <2> QED BY <1>1, <1>3, <2>1, SweepMoves
<1> QED BY <1>2, <1>3 DEF SweepGoesOn

-----------------------------------------------------------------------------
(* Turns and the vault.                                                    *)

LEMMA NextTurnKeepsInv == ASSUME ReposInv, NextTurn PROVE ReposInv'
<1>1. UNCHANGED <<store, edit, clone, job, now, granted, reported, shallow, straddled, overreached, excused, head, armed>>
  BY DEF NextTurn
<1>2. head' \in [Repos -> Nat] /\ armed' \in [repo : Repos, access : Tiers, until : Nat]
  BY <1>1 DEF ReposInv, ReposTyped
<1> QED BY <1>1, <1>2, NothingMoves

LEMMA OthersPushKeepsInv == ASSUME ReposInv, NEW r \in Repos, OthersPush(r) PROVE ReposInv'
<1>1. UNCHANGED <<store, edit, clone, job, now, granted, reported, shallow, straddled, overreached, excused, armed>>
  BY DEF OthersPush
<1>2. head' \in [Repos -> Nat] /\ armed' \in [repo : Repos, access : Tiers, until : Nat]
  BY <1>1 DEF ReposInv, ReposTyped, OthersPush
<1> QED BY <1>1, <1>2, NothingMoves

LEMMA EditsKeepsInv == ASSUME ReposInv, NEW e \in Edits, NEW r \in Repos, AgentEdits(e, r) PROVE ReposInv'
<1>1. UNCHANGED <<store, clone, head, armed, job, now, granted, reported, shallow, straddled, overreached>>
  BY DEF AgentEdits
<1>2. PICK f : f = [repo |-> r, place |-> "tree"]
  OBVIOUS
<1>3. f \in Edit /\ f.repo = r /\ f.place = "tree"
  BY <1>2 DEF Edit
<1>4. edit' \in [Edits -> Edit] /\ edit'[e] = f /\ \A x \in Edits : x # e => edit'[x] = edit[x]
  BY <1>2, <1>3 DEF AgentEdits, ReposInv, ReposTyped
<1>5. excused \subseteq excused' /\ excused' \subseteq Edits
  BY DEF AgentEdits, ReposInv, ReposTyped
<1>6. ReposTyped'
  BY <1>1, <1>4, <1>5 DEF ReposInv, ReposTyped
<1>7. EntriesVouched'
  BY <1>1 DEF ReposInv, EntriesVouched, Vouches, vouched, within, told
<1>8. PushWasGranted'
  BY <1>1 DEF ReposInv, PushWasGranted
<1>9. clone[r].rebasing => e \in excused'
  BY DEF AgentEdits
<1>10. doomed(r) => e \in excused'
  <2>1. clone[r].dir = "clone"
    BY DEF AgentEdits
  <2>2. aboutToReset(r) \/ ResetToRemote(store[r]) => e \in excused'
    BY DEF AgentEdits
  <2>3. snapshot(r) # NoEntry /\ ~ AllowsPush(snapshot(r).access) => ResetToRemote(snapshot(r))
    BY Constants DEF ResetToRemote, EffectiveAccess, AllowsPush
  <2> QED BY <2>1, <2>2, <2>3 DEF doomed, aboutToReset
<1>11. \A q \in Repos : doomed(q)' => doomed(q)
  BY <1>1 DEF doomed, at, snapshot, ResetToRemote, EffectiveAccess
<1>12. \A x \in Edits : edit'[x].place \in {"lost", "detached"} => x \in excused'
  BY <1>3, <1>4, <1>5 DEF ReposInv, WorkIsExcused
<1>13. ASSUME NEW q \in Repos, clone'[q].rebasing, NEW x \in in(q, {"tree"})' PROVE x \in excused'
  BY <1>1, <1>3, <1>4, <1>5, <1>9, <1>13 DEF ReposInv, WorkIsExcused, in
<1>14. ASSUME NEW q \in Repos, doomed(q)', NEW x \in unpushed(q)' PROVE x \in excused'
  <2>1. CASE x = e
    BY <1>3, <1>4, <1>10, <1>11, <1>14, <2>1 DEF unpushed, in
  <2>2. CASE x # e
    <3>1. x \in unpushed(q)
      BY <1>4, <1>14, <2>2 DEF unpushed, in
    <3> QED BY <3>1, <1>5, <1>11, <1>14 DEF ReposInv, WorkIsExcused
  <2> QED BY <2>1, <2>2
<1>15. WorkIsExcused'
  BY <1>12, <1>13, <1>14 DEF WorkIsExcused
<1> QED BY <1>6, <1>7, <1>8, <1>15 DEF ReposInv

\* A commit of what is in the tree, on a detached head during a rebase.
LEMMA CommittedIs ==
    ASSUME ReposInv, NEW r \in Repos, edit' = committed(r), UNCHANGED excused
    PROVE  /\ edit' \in [Edits -> Edit]
           /\ \A e \in Edits :
                /\ edit'[e].repo = edit[e].repo
                /\ \/ edit'[e].place = edit[e].place
                   \/ (edit'[e].place \in {"lost", "detached"} /\ e \in excused')
                   \/ edit'[e].place = "pushed"
                   \/ edit'[e].place = "commits" /\ edit[e].place = "tree"
<1>1. PICK place : place = IF clone[r].rebasing THEN "detached" ELSE "commits"
  OBVIOUS
<1>2. edit' = placed(in(r, {"tree"}), place) /\ place \in {"detached", "commits"}
  BY <1>1 DEF committed
<1>3. /\ edit' \in [Edits -> Edit]
      /\ \A e \in Edits : /\ edit'[e].repo = edit[e].repo
                          /\ edit'[e].place = IF e \in in(r, {"tree"}) THEN place ELSE edit[e].place
  BY <1>2, PlacedIs DEF ReposInv
<1>4. place = "detached" => in(r, {"tree"}) \subseteq excused
  BY <1>1 DEF ReposInv, WorkIsExcused
<1> QED BY <1>2, <1>3, <1>4 DEF in

LEMMA CommitsKeepsInv == ASSUME ReposInv, NEW r \in Repos, AgentCommits(r) PROVE ReposInv'
<1>1. UNCHANGED <<store, clone, head, armed, job, now, granted, reported, shallow, straddled, overreached, excused>>
  BY DEF AgentCommits, repoHistory
<1>2. /\ head' \in [Repos -> Nat] /\ armed' \in [repo : Repos, access : Tiers, until : Nat]
      /\ clone' \in [Repos -> Clone] /\ excused' \subseteq Edits
  BY <1>1 DEF ReposInv, ReposTyped
<1>3. edit' = committed(r)
  BY DEF AgentCommits
<1> QED BY <1>1, <1>2, <1>3, CommittedIs, JobsStay, JobSteps

\* Commits that reach upstream, on a branch or on the default branch.
LEMMA PushedIs ==
    ASSUME ReposInv, NEW r \in Repos,
           \/ edit' = placed(in(r, {"commits"}), "pushed") /\ UNCHANGED <<head, clone>>
           \/ lands(r)
           \/ UNCHANGED <<edit, head, clone>>
    PROVE  /\ edit' \in [Edits -> Edit] /\ clone' \in [Repos -> Clone] /\ head' \in [Repos -> Nat]
           /\ \A e \in Edits : edit'[e].repo = edit[e].repo /\ edit'[e].place \in {edit[e].place, "pushed"}
           /\ \A q \in Repos : clone'[q].rebasing = clone[q].rebasing /\ clone'[q].dir = clone[q].dir
<1>1. /\ edit' \in [Edits -> Edit]
      /\ \A e \in Edits : edit'[e].repo = edit[e].repo /\ edit'[e].place \in {edit[e].place, "pushed"}
  <2>1. CASE edit' = edit
    <3>1. edit' \in [Edits -> Edit]
      BY <2>1 DEF ReposInv, ReposTyped
    <3> QED BY <2>1, <3>1
  <2>2. CASE edit' = placed(in(r, {"commits"}), "pushed")
    BY <2>2, PlacedIs DEF ReposInv
  <2> QED BY <2>1, <2>2 DEF lands
<1>2. CASE lands(r)
  <2>1. head' = [head EXCEPT ![r] = head[r] + 1] /\ head[r] \in Nat /\ clone[r] \in Clone
    BY <1>2 DEF lands, ReposInv, ReposTyped
  <2>2. head' \in [Repos -> Nat] /\ head'[r] \in Nat
    BY <2>1 DEF ReposInv, ReposTyped
  <2>3. PICK c : c = [clone[r] EXCEPT !.tip = head'[r]]
    OBVIOUS
  <2>4. c \in Clone /\ c.rebasing = clone[r].rebasing /\ c.dir = clone[r].dir
    BY <2>1, <2>2, <2>3 DEF Clone
  <2>5. clone' = [clone EXCEPT ![r] = c]
    BY <1>2, <2>3 DEF lands
  <2> QED BY <1>1, <2>2, <2>4, <2>5, CloneIs DEF ReposInv
<1>3. CASE UNCHANGED <<head, clone>>
  <2>1. head' \in [Repos -> Nat] /\ clone' \in [Repos -> Clone]
    BY <1>3 DEF ReposInv, ReposTyped
  <2> QED BY <1>1, <1>3, <2>1
<1> QED BY <1>2, <1>3

LEMMA PushesKeepsInv ==
    ASSUME ReposInv, NEW r \in Repos, NEW target \in {"branch", "default", "tag"}, Pushes(r, target)
    PROVE  ReposInv'
<1>1. UNCHANGED <<store, armed, job, now, granted, reported, shallow, straddled, excused>>
  BY DEF Pushes
<1>2. armed' \in [repo : Repos, access : Tiers, until : Nat] /\ excused' \subseteq Edits
  BY <1>1 DEF ReposInv, ReposTyped
<1>3. /\ edit' \in [Edits -> Edit] /\ clone' \in [Repos -> Clone] /\ head' \in [Repos -> Nat]
      /\ \A e \in Edits : edit'[e].repo = edit[e].repo /\ edit'[e].place \in {edit[e].place, "pushed"}
      /\ \A q \in Repos : clone'[q].rebasing = clone[q].rebasing /\ clone'[q].dir = clone[q].dir
  BY PushedIs DEF Pushes
<1>4. ASSUME ~ straddled PROVE ~ Exceeds(needs(target), granted[r])
  <2>1. store[r] \in TrackedRepo /\ granted[r] \in 0..2 /\ store[r].access <= granted[r] /\ store[r].access \in -1..2
    BY <1>4, Constants DEF ReposInv, ReposTyped, EntriesVouched, vouched, within, TrackedRepo
  <2>2. Lookup(r) <= granted[r] /\ Lookup(r) \in -1..2
    BY <2>1, Constants DEF Lookup, EffectiveAccess
  <2>3. checkPush(Lookup(r), target)
    BY DEF Pushes
  <2>4. needs(target) <= Lookup(r) /\ needs(target) \in 1..2
    BY <2>2, <2>3, Constants DEF checkPush, checkPullRequestsOnly, needs
  <2> QED BY <2>1, <2>2, <2>4 DEF Exceeds
<1>5. overreached \in BOOLEAN /\ (overreached => straddled)
  BY DEF ReposInv, ReposTyped, PushWasGranted
<1>6. PICK beyond \in BOOLEAN : beyond = Exceeds(needs(target), granted[r])
  <2>1. Exceeds(needs(target), granted[r]) \in BOOLEAN
    BY SMT DEF Exceeds
  <2> QED BY <2>1
<1>7. overreached' = (overreached \/ beyond) /\ (~ straddled => ~ beyond)
  BY <1>4, <1>6 DEF Pushes
<1>8. overreached' \in BOOLEAN /\ (overreached' => straddled')
  BY <1>1, <1>5, <1>7
<1>9. overreached' \in BOOLEAN /\ PushWasGranted'
  BY <1>8 DEF PushWasGranted
<1> QED BY <1>1, <1>2, <1>3, <1>9, JobsStay, JobSteps

LEMMA SyncBeginsKeepsInv == ASSUME ReposInv, SyncBegins PROVE ReposInv'
<1>1. UNCHANGED <<store, clone, head, armed, now, granted, reported, shallow, straddled, overreached, excused>>
  BY DEF SyncBegins, repoHistory
<1>2. /\ head' \in [Repos -> Nat] /\ armed' \in [repo : Repos, access : Tiers, until : Nat]
      /\ clone' \in [Repos -> Clone] /\ excused' \subseteq Edits
  BY <1>1 DEF ReposInv, ReposTyped
<1>3. CASE edit' = committed(Vault) /\ goes(Sync, [Idle EXCEPT !.at = "pulling", !.op = "vault"])
  <2>1. PICK j : j = [Idle EXCEPT !.at = "pulling", !.op = "vault"]
    OBVIOUS
  <2>2. j \in Job /\ j.at = "pulling" /\ j.op = "vault" /\ j.copy = NoEntry /\ j.map = NoStore /\ j.rest = NoStore /\ j.repo \in Repos
    BY <2>1, IdleIs DEF Job, RepoStep, RepoOp
  <2>3. Vouches(j)
    BY <2>2, EntriesAre, NoEntryVouched DEF Vouches, vouched, ReposInv
  <2>4. Vault \in Repos /\ Sync \in Workers /\ Sync # Sweep
    BY Constants DEF Sync, Sweep
  <2> QED BY <1>1, <1>2, <1>3, <2>1, <2>2, <2>3, <2>4, CommittedIs, JobSteps
<1>4. CASE UNCHANGED <<edit, job>>
  BY <1>1, <1>2, <1>4, NothingMoves
<1> QED BY <1>3, <1>4 DEF SyncBegins

\* The sync goes on to another step, or is done.
LEMMA SyncMoves ==
    ASSUME ReposInv, at(Sync, "pulling") \/ at(Sync, "ahead") \/ at(Sync, "aborting"),
           \/ goes(Sync, Idle)
           \/ \E step \in {"ahead", "aborting"} : moves(Sync, step)
    PROVE  /\ Sync \in Workers /\ Sync # Sweep
           /\ \E j : goes(Sync, j) /\ Vouches(j) /\ j.at # "fetching"
<1>1. Sync \in Workers /\ Sync # Sweep /\ Vouches(job[Sync])
  BY Constants, JobIs DEF Sync, Sweep
<1>2. CASE goes(Sync, Idle)
  BY <1>1, <1>2, IdleVouches, IdleIs DEF ReposInv
<1>3. ASSUME NEW step \in {"ahead", "aborting"}, moves(Sync, step)
      PROVE  \E j : goes(Sync, j) /\ Vouches(j) /\ j.at # "fetching"
  <2>1. PICK j : j = [job[Sync] EXCEPT !.at = step]
    OBVIOUS
  <2>2. step \in RepoStep
    BY DEF RepoStep
  <2>3. Vouches(j) /\ j.at = step
    BY <1>1, <2>1, <2>2, MovedVouches
  <2>4. goes(Sync, j)
    BY <1>3, <2>1 DEF moves
  <2> QED BY <2>3, <2>4
<1> QED BY <1>1, <1>2, <1>3

LEMMA SyncPullsKeepsInv == ASSUME ReposInv, SyncPulls PROVE ReposInv'
<1>1. UNCHANGED <<store, edit, head, armed, now, granted, reported, shallow, straddled, overreached, excused>>
  BY DEF SyncPulls, repoHistory
<1>2. /\ head' \in [Repos -> Nat] /\ armed' \in [repo : Repos, access : Tiers, until : Nat]
      /\ edit' \in [Edits -> Edit] /\ excused' \subseteq Edits
  BY <1>1 DEF ReposInv, ReposTyped
<1>3. Sync \in Workers /\ Sync # Sweep /\ \E j : goes(Sync, j) /\ Vouches(j) /\ j.at # "fetching"
  BY SyncMoves DEF SyncPulls
<1>4. /\ clone' \in [Repos -> Clone]
      /\ \A q \in Repos : /\ clone'[q].rebasing => clone[q].rebasing \/ in(q, {"tree"}) = {}
                          /\ clone'[q].dir = clone[q].dir
  <2>1. Vault \in Repos /\ clone[Vault] \in Clone /\ head[Vault] \in Nat
    BY Constants DEF ReposInv, ReposTyped
  <2>2. CASE UNCHANGED clone
    BY <2>2 DEF ReposInv, ReposTyped
  <2>3. CASE clone' = [clone EXCEPT ![Vault].tip = head[Vault]]
    <3>1. PICK c : c = [clone[Vault] EXCEPT !.tip = head[Vault]]
      OBVIOUS
    <3>2. c \in Clone /\ c.rebasing = clone[Vault].rebasing /\ c.dir = clone[Vault].dir
      BY <2>1, <3>1 DEF Clone
    <3>3. clone' = [clone EXCEPT ![Vault] = c]
      BY <2>3, <3>1
    <3> QED BY <2>1, <3>2, <3>3, CloneIs DEF ReposInv
  <2>4. CASE clone' = [clone EXCEPT ![Vault].rebasing = TRUE] /\ ~ dirty(Vault)
    <3>1. PICK c : c = [clone[Vault] EXCEPT !.rebasing = TRUE]
      OBVIOUS
    <3>2. c \in Clone /\ c.dir = clone[Vault].dir
      BY <2>1, <3>1 DEF Clone
    <3>3. clone' = [clone EXCEPT ![Vault] = c]
      BY <2>4, <3>1
    <3>4. in(Vault, {"tree"}) = {}
      BY <2>4 DEF dirty
    <3> QED BY <2>1, <3>2, <3>3, <3>4, CloneIs DEF ReposInv
  <2> QED BY <2>2, <2>3, <2>4 DEF SyncPulls
<1>5. \A e \in Edits : edit'[e].repo = edit[e].repo /\ edit'[e].place = edit[e].place
  BY <1>1
<1> QED BY <1>1, <1>2, <1>3, <1>4, <1>5, JobSteps

LEMMA AbortKeepsInv == ASSUME ReposInv, gitRebaseAbort PROVE ReposInv'
<1>1. UNCHANGED <<store, head, armed, now, granted, reported, shallow, straddled, overreached, excused>>
  BY DEF gitRebaseAbort, repoHistory
<1>2. /\ head' \in [Repos -> Nat] /\ armed' \in [repo : Repos, access : Tiers, until : Nat] /\ excused' \subseteq Edits
  BY <1>1 DEF ReposInv, ReposTyped
<1>3. Sync \in Workers /\ Sync # Sweep /\ \E j : goes(Sync, j) /\ Vouches(j) /\ j.at # "fetching"
  BY SyncMoves DEF gitRebaseAbort
<1>4. /\ clone' \in [Repos -> Clone]
      /\ \A q \in Repos : /\ clone'[q].rebasing => clone[q].rebasing
                          /\ clone'[q].dir = clone[q].dir
  <2>1. Vault \in Repos /\ clone[Vault] \in Clone
    BY Constants DEF ReposInv, ReposTyped
  <2>2. PICK c : c = [clone[Vault] EXCEPT !.rebasing = FALSE]
    OBVIOUS
  <2>3. c \in Clone /\ c.rebasing = FALSE /\ c.dir = clone[Vault].dir
    BY <2>1, <2>2 DEF Clone
  <2>4. clone' = [clone EXCEPT ![Vault] = c]
    BY <2>2 DEF gitRebaseAbort
  <2> QED BY <2>1, <2>3, <2>4, CloneIs DEF ReposInv
<1>5. /\ edit' \in [Edits -> Edit]
      /\ \A e \in Edits : /\ edit'[e].repo = edit[e].repo
                          /\ edit'[e].place = edit[e].place \/ (edit'[e].place = "lost" /\ e \in excused')
  <2>1. clone[Vault].rebasing => in(Vault, {"tree", "detached"}) \in SUBSET excused'
    BY <1>1, Constants DEF ReposInv, WorkIsExcused, in
  <2>2. edit' = edit \/ \E es \in SUBSET excused' : edit' = placed(es, "lost")
    BY <2>1 DEF gitRebaseAbort, abortedEdits
  <2> QED BY <2>2, LostIs DEF ReposInv
<1> QED BY <1>1, <1>2, <1>3, <1>4, <1>5, JobSteps

LEMMA AbortTimesOutKeepsInv == ASSUME ReposInv, AbortTimesOut PROVE ReposInv'
<1>1. UNCHANGED <<store, edit, clone, head, armed, now, granted, reported, shallow, straddled, overreached, excused>>
  BY DEF AbortTimesOut
<1>2. Sync \in Workers /\ Sync # Sweep /\ \E j : goes(Sync, j) /\ Vouches(j) /\ j.at # "fetching"
  BY SyncMoves DEF AbortTimesOut
<1>3. /\ clone' \in [Repos -> Clone] /\ armed' \in [repo : Repos, access : Tiers, until : Nat]
      /\ \A r \in Repos : clone'[r].rebasing = clone[r].rebasing /\ (clone'[r].dir # "clone" => clone[r].dir # "clone")
  BY <1>1 DEF ReposInv, ReposTyped
<1> QED BY <1>1, <1>2, <1>3, JobGoesOn

LEMMA SyncPushesKeepsInv == ASSUME ReposInv, SyncPushes PROVE ReposInv'
<1>1. UNCHANGED <<store, armed, now, granted, reported, shallow, straddled, overreached, excused>>
  BY DEF SyncPushes, repoHistory
<1>2. armed' \in [repo : Repos, access : Tiers, until : Nat] /\ excused' \subseteq Edits
  BY <1>1 DEF ReposInv, ReposTyped
<1>3. Sync \in Workers /\ Sync # Sweep /\ \E j : goes(Sync, j) /\ Vouches(j) /\ j.at # "fetching"
  BY SyncMoves DEF SyncPushes
<1>4. /\ edit' \in [Edits -> Edit] /\ clone' \in [Repos -> Clone] /\ head' \in [Repos -> Nat]
      /\ \A e \in Edits : edit'[e].repo = edit[e].repo /\ edit'[e].place \in {edit[e].place, "pushed"}
      /\ \A q \in Repos : clone'[q].rebasing = clone[q].rebasing /\ clone'[q].dir = clone[q].dir
  BY PushedIs, Constants DEF SyncPushes
<1> QED BY <1>1, <1>2, <1>3, <1>4, JobSteps

-----------------------------------------------------------------------------
(* A save.                                                                 *)

LEMMA VouchedStays ==
    ASSUME ReposTyped, NEW q \in Repos, NEW entry \in TrackedRepo, vouched(entry, q), granted' \in [Repos -> Tiers],
           ~ straddled' => ~ straddled /\ (granted'[q] >= granted[q] \/ entry = NoEntry),
           reported[q] \subseteq reported'[q], shallow[q] \subseteq shallow'[q]
    PROVE  vouched(entry, q)'
<1>1. told(entry, q)'
  BY DEF vouched, told
<1>2. ASSUME ~ straddled' PROVE within(entry, q)'
  <2>1. granted[q] \in 0..2 /\ granted'[q] \in 0..2 /\ entry.access \in -1..2 /\ NoEntry.access = -1
    BY Constants, EntriesAre DEF ReposTyped, TrackedRepo
  <2>2. entry.access <= granted[q]
    BY <1>2 DEF vouched, within
  <2> QED BY <1>2, <2>1, <2>2 DEF within
<1> QED BY <1>1, <1>2 DEF vouched

\* What was granted goes up, unless the name is removed.
LEMMA GrantedIs ==
    ASSUME ReposInv, NEW w \in Workers, Saves(w)
    PROVE  /\ granted' \in [Repos -> Tiers]
           /\ \A q \in Repos : granted'[q] >= granted[q] \/ (q = job[w].repo /\ job[w].op = "remove" /\ granted'[q] = 0)
           /\ job[w].op = "grant" => job[w].map[job[w].repo].access <= granted'[job[w].repo]
           /\ \A q \in Declared : granted'[q] = FullWrite
<1> DEFINE r == job[w].repo
<1>1. /\ r \in Repos /\ granted \in [Repos -> 0..2] /\ job[w].map[r].access \in -1..2
      /\ \A q \in Declared : granted[q] = 2
      /\ job[w].op = "remove" => r \notin Declared
  BY JobIs, Constants DEF ReposInv, ReposTyped, EntriesVouched, Vouches, Job, TrackedRepo
<1>2. PICK g : /\ granted' = [granted EXCEPT ![r] = g]
               /\ job[w].op = "remove" => g = 0
               /\ job[w].op = "grant" => IF job[w].map[r].access > granted[r] THEN g = job[w].map[r].access ELSE g = granted[r]
               /\ job[w].op \notin {"remove", "grant"} => g = granted[r]
  <2>1. CASE job[w].op = "remove"
    BY <2>1, Constants DEF Saves
  <2>2. CASE job[w].op = "grant" /\ job[w].map[r].access > granted[r]
    BY <2>2, Constants DEF Saves, Exceeds
  <2>3. CASE job[w].op # "remove" /\ ~ (job[w].op = "grant" /\ job[w].map[r].access > granted[r])
    BY <2>3, Constants DEF Saves, Exceeds
  <2> QED BY <2>1, <2>2, <2>3
<1> HIDE DEF r
<1>3. g \in 0..2 /\ (g >= granted[r] \/ (job[w].op = "remove" /\ g = 0))
  BY <1>1, <1>2
<1>4. granted' \in [Repos -> 0..2] /\ granted'[r] = g /\ \A q \in Repos : q # r => granted'[q] = granted[q]
  BY <1>1, <1>2, <1>3
<1>5. \A q \in Repos : granted'[q] >= granted[q] \/ (q = r /\ job[w].op = "remove" /\ granted'[q] = 0)
  BY <1>1, <1>3, <1>4
<1>6. job[w].op = "grant" => job[w].map[r].access <= granted'[r]
  BY <1>1, <1>2, <1>4
<1>7. \A q \in Declared : granted'[q] = 2
  BY <1>1, <1>2, <1>3, <1>4, Constants
<1> QED BY <1>4, <1>5, <1>6, <1>7, Constants DEF r

\* What was told grows; a sync tells what its cursor is about to pass.
LEMMA ReportedIs ==
    ASSUME ReposInv, NEW w \in Workers, Saves(w)
    PROVE  /\ reported' \in [Repos -> SUBSET Nat] /\ shallow' \in [Repos -> SUBSET Nat]
           /\ \A q \in Repos : reported[q] \subseteq reported'[q] /\ shallow[q] \subseteq shallow'[q]
           /\ job[w].op = "sync" => \A r \in Repos : r = job[w].repo => told(store[r], r)'
<1>1. CASE job[w].op = "sync"
  <2> DEFINE r == job[w].repo
             entry == job[w].map[r]
             seen == job[w].copy.seen
             new == newCommits(seen, entry.seen)
             deep == 1..(entry.seen - Depth)
  <2>1. /\ r \in Repos /\ entry.seen \in Nat /\ seen \in Nat /\ Depth \in Nat
        /\ 1..seen \subseteq reported[r] \cup shallow[r]
    BY JobIs, Constants DEF ReposInv, ReposTyped, Job, TrackedRepo, vouched, told
  <2>2. reported' = [reported EXCEPT ![r] = reported[r] \cup new] /\ shallow' = [shallow EXCEPT ![r] = shallow[r] \cup deep]
    BY <1>1 DEF Saves
  <2>3. new \subseteq Nat /\ deep \subseteq Nat
    BY <2>1 DEF newCommits
  <2>4. 1..entry.seen \subseteq 1..seen \cup new \cup deep
    BY <2>1 DEF newCommits
  <2>5. reported \in [Repos -> SUBSET Nat] /\ shallow \in [Repos -> SUBSET Nat]
    BY DEF ReposInv, ReposTyped
  <2> HIDE DEF r, entry, seen, new, deep
  <2>6. /\ reported' \in [Repos -> SUBSET Nat] /\ shallow' \in [Repos -> SUBSET Nat]
        /\ reported'[r] = reported[r] \cup new /\ shallow'[r] = shallow[r] \cup deep
        /\ \A q \in Repos : reported[q] \subseteq reported'[q] /\ shallow[q] \subseteq shallow'[q]
    <3>1. reported[r] \cup new \in SUBSET Nat /\ shallow[r] \cup deep \in SUBSET Nat
      BY <2>1, <2>3, <2>5
    <3> QED BY <2>1, <2>2, <2>5, <3>1
  <2>7. 1..entry.seen \subseteq reported'[r] \cup shallow'[r]
    BY <2>1, <2>4, <2>6
  <2>8. store'[r] = entry
    BY DEF Saves, entry, r
  <2>9. ASSUME NEW q \in Repos, q = r PROVE told(store[q], q)'
    BY <2>7, <2>8, <2>9 DEF told
  <2> QED BY <2>6, <2>9 DEF r
<1>2. CASE job[w].op # "sync"
  <2>1. UNCHANGED <<reported, shallow>>
    BY <1>2 DEF Saves
  <2> QED BY <1>2, <2>1 DEF ReposInv, ReposTyped
<1> QED BY <1>1, <1>2

LEMMA SavesKeepsInv == ASSUME ReposInv, NEW w \in Workers, Saves(w) PROVE ReposInv'
<1> DEFINE r == job[w].repo
<1>1. PICK j : /\ goes(w, j) /\ Vouches(j) /\ j.at \in {"idle", "sweeping"}
               /\ w = Sweep => j.rest = job[w].rest
               /\ w # Sweep => j.rest = NoStore
               /\ j.op = "none" /\ j.copy = NoEntry /\ j.map = NoStore
  BY FinishedVouches DEF Saves, ReposInv
<1>2. job' \in [Workers -> Job] /\ job'[w] = j /\ \A v \in Workers : v # w => job'[v] = job[v]
  BY <1>1 DEF goes, Vouches, ReposInv, ReposTyped
<1>3. /\ r \in Repos /\ store' = job[w].map /\ store' \in [Repos -> TrackedRepo] /\ Vouches(job[w])
      /\ UNCHANGED <<clone, edit, head, armed, now, overreached>>
  BY JobIs DEF Saves, Job
<1>4. straddled' = (straddled \/ (job[w].op = "remove" /\ (overlaps(w, r) \/ armed.repo = r)))
  BY DEF Saves
<1>5. straddled' \in BOOLEAN /\ (straddled => straddled')
  <2>1. straddled \in BOOLEAN
    BY DEF ReposInv, ReposTyped
  <2>2. PICK more : more = (job[w].op = "remove" /\ (overlaps(w, r) \/ armed.repo = r))
    OBVIOUS
  <2>3. more \in BOOLEAN
    BY <2>2
  <2> QED BY <1>4, <2>1, <2>2, <2>3
<1>6. ~ straddled' => ~ straddled /\ (job[w].op = "remove" => ~ overlaps(w, r))
  BY <1>4
<1>7. excused \subseteq excused' /\ excused' \subseteq Edits
      /\ \A e \in Edits, q \in Repos : edit[e].repo = q /\ ResetToRemote(store'[q]) => e \in excused'
  BY DEF Saves, ReposInv, ReposTyped
<1> HIDE DEF r
<1>8. ReposTyped'
  BY <1>2, <1>3, <1>5, <1>7, GrantedIs, ReportedIs DEF ReposInv, ReposTyped
<1>9. ASSUME NEW q \in Repos, NEW entry \in TrackedRepo, vouched(entry, q),
             ~ straddled' => ~ (q = r /\ job[w].op = "remove") \/ entry = NoEntry
      PROVE  vouched(entry, q)'
  BY <1>6, <1>9, GrantedIs, ReportedIs, VouchedStays DEF r, ReposInv
<1>10. ASSUME NEW q \in Repos PROVE vouched(store[q], q)'
  <2>1. store'[q] \in TrackedRepo
    BY <1>3
  <2>2. /\ ~ straddled => within(store'[q], q) \/ (job[w].op = "grant" /\ r = q)
        /\ told(store'[q], q) \/ (job[w].op = "sync" /\ r = q)
    BY <1>3 DEF Vouches, r
  <2>3. job[w].op = "sync" /\ r = q => told(store[q], q)'
    BY ReportedIs DEF r
  <2>4. told(store[q], q)'
    BY <2>2, <2>3, ReportedIs DEF told
  <2>5. ASSUME ~ straddled' PROVE within(store[q], q)'
    <3>1. granted[q] \in 0..2 /\ granted'[q] \in 0..2 /\ store'[q].access \in -1..2 /\ NoEntry.access = -1
      BY <2>1, Constants, EntriesAre, GrantedIs DEF ReposInv, ReposTyped, TrackedRepo
    <3>2. CASE q = r /\ job[w].op = "remove"
      <4>1. store'[q] = NoEntry
        BY <1>3, <3>2 DEF Vouches, r
      <4> QED BY <3>1, <4>1 DEF within
    <3>3. CASE job[w].op = "grant" /\ r = q
      BY <1>3, <3>3, GrantedIs DEF within, r
    <3>4. CASE ~ (q = r /\ job[w].op = "remove") /\ ~ (job[w].op = "grant" /\ r = q)
      <4>1. store'[q].access <= granted[q]
        BY <1>6, <2>2, <2>5, <3>4 DEF within
      <4>2. granted'[q] >= granted[q]
        BY <3>4, GrantedIs DEF r
      <4> QED BY <3>1, <4>1, <4>2 DEF within
    <3> QED BY <3>2, <3>3, <3>4
  <2> QED BY <2>4, <2>5 DEF vouched
<1>11. ASSUME NEW v \in Workers PROVE Vouches(job[v])'
  <2>1. CASE v = w
    <3>1. j \in Job /\ j.repo \in Repos /\ j.rest \in [Repos -> TrackedRepo] /\ \A q \in Repos : vouched(j.rest[q], q)
      BY <1>1 DEF Vouches, Job
    <3>2. job[w].op = "remove" => j.rest = NoStore
      BY <1>1, <1>3 DEF Vouches
    <3>3. \A q \in Repos : vouched(j.rest[q], q)'
      BY <1>9, <3>1, <3>2, EntriesAre
    <3>4. \A q \in Repos : vouched(NoEntry, q)'
      BY <1>9, EntriesAre, NoEntryVouched DEF ReposInv
    <3> QED BY <1>1, <1>2, <2>1, <3>1, <3>3, <3>4, EntriesAre DEF Vouches, vouched
  <2>2. CASE v # w
    <3>1. PICK k : k = job[v]
      OBVIOUS
    <3>2. Vouches(k) /\ job'[v] = k
      BY <1>2, <2>2, <3>1 DEF ReposInv, EntriesVouched
    <3>3. ~ straddled' /\ job[w].op = "remove" => /\ k.repo = r => k.op \in {"none", "vault"}
                                                  /\ k.map[r] = NoEntry /\ k.rest[r] = NoEntry
      BY <1>6, <2>2, <3>1 DEF overlaps
    <3>4. k \in Job /\ k.repo \in Repos /\ k.copy \in TrackedRepo /\ k.map \in [Repos -> TrackedRepo] /\ k.rest \in [Repos -> TrackedRepo]
      BY <3>2 DEF Vouches, Job
    <3>5. vouched(k.copy, k.repo)'
      BY <1>9, <3>2, <3>3, <3>4 DEF Vouches
    <3>6. \A q \in Repos : vouched(k.rest[q], q)'
      BY <1>9, <3>2, <3>3, <3>4 DEF Vouches
    <3>7. ASSUME NEW q \in Repos
          PROVE  /\ ~ straddled' => within(k.map[q], q)' \/ (k.op = "grant" /\ k.repo = q)
                 /\ told(k.map[q], q)' \/ (k.op = "sync" /\ k.repo = q)
      <4>1. told(k.map[q], q)' \/ (k.op = "sync" /\ k.repo = q)
        BY <3>2, ReportedIs DEF Vouches, told
      <4>2. ASSUME ~ straddled', ~ (k.op = "grant" /\ k.repo = q) PROVE within(k.map[q], q)'
        <5>1. granted[q] \in 0..2 /\ granted'[q] \in 0..2 /\ k.map[q].access \in -1..2 /\ NoEntry.access = -1
          BY <3>4, Constants, EntriesAre, GrantedIs DEF ReposInv, ReposTyped, TrackedRepo
        <5>2. k.map[q].access <= granted[q]
          BY <1>6, <3>2, <4>2 DEF Vouches, within
        <5>3. granted'[q] >= granted[q] \/ k.map[q] = NoEntry
          BY <3>3, <4>2, GrantedIs DEF r
        <5> QED BY <5>1, <5>2, <5>3 DEF within
      <4> QED BY <4>1, <4>2
    <3> QED BY <3>2, <3>4, <3>5, <3>6, <3>7 DEF Vouches, vouched
  <2> QED BY <2>1, <2>2
<1>12. EntriesVouched'
  BY <1>10, <1>11, GrantedIs DEF EntriesVouched
<1>13. PushWasGranted'
  BY <1>3, <1>5 DEF ReposInv, PushWasGranted
<1>14. ASSUME NEW q \in Repos, doomed(q)'
       PROVE  \/ doomed(q)
              \/ \A e \in Edits : edit[e].repo = q /\ edit[e].place \in {"tree", "commits", "detached"} => e \in excused'
  <2>1. CASE ResetToRemote(store[q])'
    <3>1. ResetToRemote(store'[q])
      BY <1>3, <2>1 DEF ResetToRemote, EffectiveAccess
    <3> QED BY <1>7, <3>1
  <2>2. CASE clone'[q].dir # "clone"
    BY <1>3, <2>2 DEF doomed
  <2>3. CASE snapshot(q)' # NoEntry /\ ~ AllowsPush(snapshot(q).access)'
    <3>1. snapshot(q)' = job'[Sweep].rest[q] /\ Sweep \in Workers
      BY Constants DEF snapshot
    <3>2. snapshot(q)' = snapshot(q) \/ snapshot(q)' = NoEntry
      BY <1>1, <1>2, <3>1, EntriesAre DEF snapshot
    <3> QED BY <2>3, <3>2 DEF doomed, AllowsPush
  <2>4. CASE \E v \in Workers : job'[v].at = "fetching" /\ job'[v].repo = q /\ job'[v].reset
    BY <1>1, <1>2, <2>4 DEF doomed, at
  <2> QED BY <1>14, <2>1, <2>2, <2>3, <2>4 DEF doomed, at
<1>15. WorkIsExcused'
  BY <1>3, <1>7, <1>14, NoWork DEF ReposInv
<1> QED BY <1>8, <1>12, <1>13, <1>15 DEF ReposInv

-----------------------------------------------------------------------------
(* The clock and the restart.                                              *)

LEMMA TicksKeepsInv == ASSUME ReposInv, Ticks PROVE ReposInv'
<1>1. UNCHANGED <<store, clone, edit, head, armed, job, granted, reported, shallow, straddled, overreached>>
  BY DEF Ticks
<1>2. now \in Nat /\ now' = now + 1 /\ excused \subseteq excused' /\ excused' \subseteq Edits
  BY DEF Ticks, ReposInv, ReposTyped
<1>3. ReposTyped'
  BY <1>1, <1>2 DEF ReposInv, ReposTyped
<1>4. EntriesVouched'
  BY <1>1 DEF ReposInv, EntriesVouched, Vouches, vouched, within, told
<1>5. PushWasGranted'
  BY <1>1 DEF ReposInv, PushWasGranted
<1>6. ASSUME NEW q \in Repos, doomed(q)'
      PROVE  \/ doomed(q)
             \/ \A e \in Edits : edit[e].repo = q /\ edit[e].place \in {"tree", "commits", "detached"} => e \in excused'
  <2>1. CASE store[q].until # 0 /\ now' > store[q].until
    BY <2>1 DEF Ticks
  <2>2. CASE ~ (store[q].until # 0 /\ now' > store[q].until)
    <3>1. store[q].until \in Nat
      BY DEF ReposInv, ReposTyped, TrackedRepo
    <3>2. ~ (store[q].until # 0 /\ now > store[q].until)
      BY <1>2, <2>2, <3>1
    <3>3. EffectiveAccess(store[q])' = EffectiveAccess(store[q])
      BY <1>1, <2>2, <3>2 DEF EffectiveAccess
    <3> QED BY <1>1, <1>6, <3>3 DEF doomed, at, snapshot, ResetToRemote, AllowsPush
  <2> QED BY <2>1, <2>2
<1>7. WorkIsExcused'
  BY <1>1, <1>2, <1>6, NoWork DEF ReposInv
<1> QED BY <1>3, <1>4, <1>5, <1>7 DEF ReposInv

LEMMA ProvisionIs ==
    ASSUME ReposInv, NEW declared \in SUBSET Declared, provisionConfigRepos(declared)
    PROVE  /\ store' \in [Repos -> TrackedRepo] /\ clone' \in [Repos -> Clone] /\ edit' \in [Edits -> Edit]
           /\ excused \subseteq excused' /\ excused' \subseteq Edits
           /\ \A r \in Repos : vouched(store'[r], r)
           /\ \A e \in Edits : /\ edit'[e].repo = edit[e].repo
                               /\ edit'[e].place = edit[e].place \/ (edit'[e].place = "lost" /\ e \in excused')
           /\ \A r \in Repos : clone'[r].rebasing => clone[r].rebasing
           /\ \A r \in Repos :
                 \/ \A e \in Edits : edit'[e].repo = r => edit'[e].place \notin {"tree", "commits", "detached"}
                 \/ clone'[r].dir = "clone" /\ store'[r].access = FullWrite /\ store'[r].until = 0
                 \/ /\ clone'[r].dir # "clone" => clone[r].dir # "clone"
                    /\ (store'[r].access = FullWrite /\ store'[r].until = 0) \/ store'[r] = store[r]
<1>1. PICK gone : gone = {r \in Declared \ declared : tracked(r)}
  OBVIOUS
<1>2. PICK es : es = {e \in Edits : edit[e].repo \in gone /\ edit[e].place \in {"tree", "commits", "detached"}}
  OBVIOUS
<1>3. /\ store' = [r \in Repos |-> IF r \in gone THEN NoEntry
                                   ELSE IF r \in declared THEN [DeclaredEntry EXCEPT !.seen = store[r].seen]
                                   ELSE store[r]]
      /\ edit' = placed(es, "lost") /\ excused' = excused \cup es
  BY <1>1, <1>2 DEF provisionConfigRepos
<1>4. PICK ok \in SUBSET declared :
        clone' = [r \in Repos |-> IF r \in gone THEN EmptyClone
                                  ELSE IF r \in ok THEN [clone[r] EXCEPT !.dir = "clone", !.tip = head[r]]
                                  ELSE IF r \in declared /\ clone[r].dir = "none" THEN [EmptyClone EXCEPT !.dir = "dir"]
                                  ELSE clone[r]]
  BY <1>1 DEF provisionConfigRepos
<1>5. gone \cap declared = {}
  BY <1>1
<1>6. excused \subseteq excused' /\ excused' \subseteq Edits /\ es \in SUBSET excused'
  BY <1>2, <1>3 DEF ReposInv, ReposTyped
<1>7. /\ edit' \in [Edits -> Edit]
      /\ \A e \in Edits : /\ edit'[e].repo = edit[e].repo
                          /\ edit'[e].place = edit[e].place \/ (edit'[e].place = "lost" /\ e \in excused')
  BY <1>3, <1>6, LostIs DEF ReposInv
<1>8. \A r \in gone, e \in Edits : edit'[e].repo = r => edit'[e].place \notin {"tree", "commits", "detached"}
  <2>1. \A e \in Edits : /\ edit'[e].repo = edit[e].repo
                         /\ edit'[e].place = IF e \in es THEN "lost" ELSE edit[e].place
    BY <1>3, PlacedIs DEF ReposInv
  <2> QED BY <1>2, <2>1
<1>9. ASSUME NEW r \in Repos
      PROVE  /\ store'[r] \in TrackedRepo /\ vouched(store'[r], r)
             /\ r \in declared => store'[r].access = FullWrite /\ store'[r].until = 0
             /\ r \notin gone \cup declared => store'[r] = store[r]
  <2>1. CASE r \in gone
    BY <1>3, <1>5, <2>1, EntriesAre, NoEntryVouched DEF ReposInv
  <2>2. CASE r \in declared
    <3>1. PICK seen : seen = store[r].seen
      OBVIOUS
    <3>2. seen \in Nat /\ 1..seen \subseteq reported[r] \cup shallow[r] /\ granted[r] = 2
      BY <2>2, <3>1, Constants DEF ReposInv, ReposTyped, TrackedRepo, EntriesVouched, vouched, told
    <3>3. store'[r] = [DeclaredEntry EXCEPT !.seen = seen]
      BY <1>3, <1>5, <2>2, <3>1
    <3>4. DeclaredEntry = [access |-> FullWrite, until |-> 0, seen |-> 0]
      BY DEF DeclaredEntry, NewEntry
    <3>5. store'[r] = [access |-> FullWrite, until |-> 0, seen |-> seen]
      BY <3>3, <3>4
    <3>6. FullWrite = 2 /\ FullWrite \in NoTier..FullWrite /\ 0 \in Nat
      BY Constants
    <3>7. store'[r] \in TrackedRepo /\ store'[r].access = 2 /\ store'[r].until = 0 /\ store'[r].seen = seen
      BY <3>2, <3>5, <3>6 DEF TrackedRepo
    <3>8. vouched(store'[r], r)
      BY <3>2, <3>7 DEF vouched, within, told
    <3> QED BY <2>2, <3>6, <3>7, <3>8
  <2>3. CASE r \notin gone \cup declared
    <3>1. store'[r] = store[r] /\ store[r] \in TrackedRepo /\ vouched(store[r], r)
      BY <1>3, <2>3 DEF ReposInv, ReposTyped, EntriesVouched
    <3> QED BY <2>3, <3>1
  <2> QED BY <2>1, <2>2, <2>3
<1>10. ASSUME NEW r \in Repos
       PROVE  /\ clone'[r] \in Clone /\ (clone'[r].rebasing => clone[r].rebasing)
              /\ \/ r \in gone
                 \/ r \in declared /\ clone'[r].dir = "clone"
                 \/ clone'[r].dir # "clone" => clone[r].dir # "clone"
  <2>1. clone[r] \in Clone /\ head[r] \in Nat /\ EmptyClone \in Clone /\ EmptyClone.rebasing = FALSE
    BY DEF ReposInv, ReposTyped, EmptyClone, Clone
  <2>2. CASE r \in gone
    BY <1>4, <2>1, <2>2
  <2>3. CASE r \notin gone /\ r \in ok
    <3>1. PICK c \in Clone, tip \in Nat : c = clone[r] /\ tip = head[r]
      BY <2>1
    <3>2. clone'[r] = [c EXCEPT !.dir = "clone", !.tip = tip]
      BY <1>4, <2>3, <3>1
    <3>3. clone'[r] = [dir |-> "clone", tip |-> tip, rebasing |-> c.rebasing]
      BY <3>2 DEF Clone
    <3> QED BY <1>4, <2>3, <3>1, <3>3 DEF Clone
  <2>4. CASE r \notin gone /\ r \notin ok /\ r \in declared /\ clone[r].dir = "none"
    <3>1. clone'[r] = [EmptyClone EXCEPT !.dir = "dir"]
      BY <1>4, <2>4
    <3>2. clone'[r] \in Clone /\ clone'[r].rebasing = FALSE
      BY <3>1, <2>1 DEF Clone
    <3> QED BY <2>4, <3>2
  <2>5. CASE r \notin gone /\ r \notin ok /\ ~ (r \in declared /\ clone[r].dir = "none")
    BY <1>4, <2>1, <2>5
  <2> QED BY <2>2, <2>3, <2>4, <2>5
<1>11. store' \in [Repos -> TrackedRepo] /\ clone' \in [Repos -> Clone]
  BY <1>3, <1>4, <1>9, <1>10
<1> HIDE <1>3, <1>4
<1> QED BY <1>6, <1>7, <1>8, <1>9, <1>10, <1>11

LEMMA RestartsKeepsInv == ASSUME ReposInv, Restarts PROVE ReposInv'
<1>1. UNCHANGED <<head, armed, now, granted, reported, shallow, straddled, overreached>>
  BY DEF Restarts
<1>2. job' \in [Workers -> Job] /\ \A w \in Workers : job'[w] = Idle
  BY IdleIs DEF Restarts
<1>3. PICK declared \in SUBSET Declared :
        IF declared = {} THEN UNCHANGED <<store, clone, edit, excused>> ELSE provisionConfigRepos(declared)
  BY DEF Restarts
<1>4. /\ store' \in [Repos -> TrackedRepo] /\ clone' \in [Repos -> Clone] /\ edit' \in [Edits -> Edit]
      /\ excused \subseteq excused' /\ excused' \subseteq Edits
      /\ \A r \in Repos : vouched(store'[r], r)
      /\ \A e \in Edits : /\ edit'[e].repo = edit[e].repo
                          /\ edit'[e].place = edit[e].place \/ (edit'[e].place = "lost" /\ e \in excused')
      /\ \A r \in Repos : clone'[r].rebasing => clone[r].rebasing
      /\ \A r \in Repos :
            \/ \A e \in Edits : edit'[e].repo = r => edit'[e].place \notin {"tree", "commits", "detached"}
            \/ clone'[r].dir = "clone" /\ store'[r].access = FullWrite /\ store'[r].until = 0
            \/ /\ clone'[r].dir # "clone" => clone[r].dir # "clone"
               /\ (store'[r].access = FullWrite /\ store'[r].until = 0) \/ store'[r] = store[r]
  <2>1. CASE declared # {}
    BY <1>3, <2>1, ProvisionIs
  <2>2. CASE declared = {}
    <3>1. UNCHANGED <<store, clone, edit, excused>>
      BY <1>3, <2>2
    <3>2. /\ store' \in [Repos -> TrackedRepo] /\ clone' \in [Repos -> Clone] /\ edit' \in [Edits -> Edit]
          /\ excused' \subseteq Edits /\ \A r \in Repos : vouched(store[r], r)
      BY <3>1 DEF ReposInv, ReposTyped, EntriesVouched
    <3> QED BY <3>1, <3>2
  <2> QED BY <2>1, <2>2
<1>5. ReposTyped'
  BY <1>1, <1>2, <1>4 DEF ReposInv, ReposTyped
<1>6. EntriesVouched'
  <2>1. \A q \in Repos : vouched(NoEntry, q)'
    BY <1>1, NoEntryVouched DEF ReposInv, vouched, within, told
  <2>2. \A w \in Workers : Vouches(job[w])'
    BY <1>2, <2>1, IdleIs, EntriesAre DEF Vouches, vouched
  <2>3. \A r \in Repos : vouched(store[r], r)'
    BY <1>1, <1>4 DEF vouched, within, told
  <2>4. \A r \in Declared : granted'[r] = FullWrite
    BY <1>1 DEF ReposInv, EntriesVouched
  <2> QED BY <2>2, <2>3, <2>4 DEF EntriesVouched
<1>7. PushWasGranted'
  BY <1>1 DEF ReposInv, PushWasGranted
<1>8. ASSUME NEW q \in Repos, doomed(q)'
      PROVE  \/ doomed(q)
             \/ \A e \in Edits : edit'[e].repo = q /\ edit'[e].place \in {"tree", "commits", "detached"} => e \in excused'
  <2>1. clone'[q].dir # "clone" \/ ResetToRemote(store[q])'
    BY <1>2, <1>8, IdleIs, EntriesAre, Constants DEF doomed, at, snapshot
  <2>2. store'[q].access = FullWrite /\ store'[q].until = 0 => ~ ResetToRemote(store[q])'
    BY Constants DEF ResetToRemote, EffectiveAccess, AllowsPush
  <2>3. store'[q] = store[q] /\ ResetToRemote(store[q])' => ResetToRemote(store[q])
    BY <1>1 DEF ResetToRemote, EffectiveAccess
  <2> QED BY <1>4, <2>1, <2>2, <2>3 DEF doomed
<1>9. WorkIsExcused'
  BY <1>4, <1>8, WorkStays DEF ReposInv
<1> QED BY <1>5, <1>6, <1>7, <1>9 DEF ReposInv

LEMMA KeptKeepsInv ==
    ASSUME ReposInv, UNCHANGED <<repoVars, reported, shallow, granted, overreached, straddled, excused>>
    PROVE  ReposInv'
<1>1. UNCHANGED <<store, edit, clone, job, now, granted, reported, shallow, straddled, overreached, excused, head, armed>>
  BY DEF repoVars
<1>2. head' \in [Repos -> Nat] /\ armed' \in [repo : Repos, access : Tiers, until : Nat]
  BY <1>1 DEF ReposInv, ReposTyped
<1> QED BY <1>1, <1>2, NothingMoves

-----------------------------------------------------------------------------
LEMMA InitVouches == Init => ReposInv
<1> SUFFICES ASSUME Init PROVE ReposInv
  OBVIOUS
<1>1. DeclaredEntry = [access |-> 2, until |-> 0, seen |-> 0] /\ NewEntry = [access |-> 0, until |-> 0, seen |-> 0]
  BY Constants DEF DeclaredEntry, NewEntry
<1>2. DeclaredEntry \in TrackedRepo /\ NewEntry \in TrackedRepo
  <2>1. 2 \in NoTier..FullWrite /\ 0 \in NoTier..FullWrite
    BY Constants
  <2> QED BY <1>1, <2>1 DEF TrackedRepo
<1>3. PICK c : c = [EmptyClone EXCEPT !.dir = "clone"]
  OBVIOUS
<1>4. c \in Clone /\ c.dir = "clone" /\ c.rebasing = FALSE
  BY <1>3 DEF EmptyClone, Clone
<1>5. clone = [r \in Repos |-> c] /\ edit = [e \in Edits |-> [repo |-> Vault, place |-> "none"]]
  BY <1>3 DEF Init
<1>6. clone \in [Repos -> Clone] /\ edit \in [Edits -> Edit]
  BY <1>4, <1>5, Constants DEF Edit
<1>7. /\ store \in [Repos -> TrackedRepo] /\ granted \in [Repos -> Tiers]
      /\ \A r \in Declared : store[r].access = 2 /\ granted[r] = 2
      /\ \A r \in Repos : store[r].seen = 0 /\ store[r].access <= granted[r]
  BY <1>1, <1>2, Constants DEF Init
<1>8. ReposTyped
  <2>1. NoGrant \in [repo : Repos, access : Tiers, until : Nat]
    BY Constants DEF NoGrant
  <2>2. armed \in [repo : Repos, access : Tiers, until : Nat] /\ head \in [Repos -> Nat] /\ now \in Nat
    BY <2>1 DEF Init
  <2>3. job \in [Workers -> Job] /\ reported \in [Repos -> SUBSET Nat] /\ shallow \in [Repos -> SUBSET Nat]
    BY IdleIs DEF Init
  <2>4. {overreached, straddled} \subseteq BOOLEAN /\ excused \subseteq Edits
    BY DEF Init
  <2> QED BY <1>6, <1>7, <2>2, <2>3, <2>4 DEF ReposTyped
<1>9. EntriesVouched
  <2>1. \A r \in Repos : vouched(store[r], r)
    BY <1>7 DEF vouched, within, told
  <2>2. \A w \in Workers : Vouches(job[w])
    BY <1>8, IdleVouches DEF Init
  <2> QED BY <1>7, <2>1, <2>2, Constants DEF EntriesVouched
<1>10. WorkIsExcused
  BY <1>5, <1>4 DEF WorkIsExcused, in, unpushed
<1>11. PushWasGranted
  BY DEF Init, PushWasGranted
<1> QED BY <1>8, <1>9, <1>10, <1>11 DEF ReposInv

LEMMA RepoStepsKeepInv == ASSUME ReposInv, RepoSteps PROVE ReposInv'
<1>1. ASSUME NEW c \in Calls, Tools(c) PROVE ReposInv'
  BY <1>1, AddKeepsInv, SyncKeepsInv, RemoveKeepsInv, AccessKeepsInv, SyncReadsKeepsInv DEF Tools
<1>2. ASSUME NEW w \in Workers, Fetches(w) \/ Saves(w) \/ SaveFails(w) PROVE ReposInv'
  BY <1>2, FetchesKeepsInv, SavesKeepsInv, SaveFailsKeepsInv
<1>3. CASE confirmRepoGrant \/ Declines
  BY <1>3, GrantKeepsInv, DeclinesKeepsInv
<1>4. CASE SweepSteps
  BY <1>4, SweepBeginsKeepsInv, SweepGoesOnKeepsInv, RefreshReadsKeepsInv, ExpireKeepsInv, DropKeepsInv, RefreshKeepsInv
     DEF SweepSteps
<1>5. CASE Agent
  BY <1>5, NextTurnKeepsInv, EditsKeepsInv, CommitsKeepsInv, PushesKeepsInv DEF Agent
<1>6. CASE VaultSteps
  BY <1>6, SyncBeginsKeepsInv, SyncPullsKeepsInv, AbortKeepsInv, AbortTimesOutKeepsInv, SyncPushesKeepsInv DEF VaultSteps
<1>7. ASSUME NEW r \in Repos, OthersPush(r) PROVE ReposInv'
  BY <1>7, OthersPushKeepsInv
<1>8. CASE Ticks
  BY <1>8, TicksKeepsInv
<1> QED BY <1>1, <1>2, <1>3, <1>4, <1>5, <1>6, <1>7, <1>8 DEF RepoSteps

(* The inductive invariant of the repositories: entries in the store, in   *)
(* the lists on their way back to it and in the sweep's snapshot carry no  *)
(* tier beyond what was granted and no cursor beyond what was told, and    *)
(* the work in a clone that a fetch, a removal or an abort may discard is  *)
(* excused.                                                                *)
THEOREM ReposInvariance == WorkspaceSpec => []ReposInv
<1>1. WorkspaceInit => ReposInv
  BY InitVouches DEF WorkspaceInit
<1>2. ReposInv /\ [WorkspaceNext]_allVars => ReposInv'
  <2> SUFFICES ASSUME ReposInv, [WorkspaceNext]_allVars PROVE ReposInv'
    OBVIOUS
  <2>1. CASE RepoSteps
    BY <2>1, RepoStepsKeepInv
  <2>2. CASE Restarts
    BY <2>2, RestartsKeepsInv
  <2>3. CASE reposKept \/ UNCHANGED allVars
    BY <2>3, KeptKeepsInv DEF reposKept, allVars, vars, repoHistory, repoVars
  <2> QED BY <2>1, <2>2, <2>3 DEF WorkspaceNext
<1> QED BY <1>1, <1>2, PTL DEF WorkspaceSpec

(* WorkIsKept: no sync, refresh, conflict, restart or stale write of an    *)
(* entry loses an edit of a repository the agent may push.                 *)
THEOREM WorkKept == WorkspaceSpec => []WorkIsKept
<1>1. ReposInv => WorkIsKept
  BY DEF ReposInv, WorkIsExcused, WorkIsKept
<1> QED BY <1>1, ReposInvariance, PTL

(* NothingMissed: no commit up to a stored cursor was kept from the agent, *)
(* whoever fetched and saved in between.                                   *)
THEOREM CommitsTold == WorkspaceSpec => []NothingMissed
<1>1. ReposInv => NothingMissed
  BY DEF ReposInv, EntriesVouched, vouched, told, NothingMissed
<1> QED BY <1>1, ReposInvariance, PTL

(* PushWasGranted: no stale write of an entry lets the proxy take a push   *)
(* beyond the highest tier agreed to.                                      *)
THEOREM PushesGranted == WorkspaceSpec => []PushWasGranted
<1>1. ReposInv => PushWasGranted
  BY DEF ReposInv
<1> QED BY <1>1, ReposInvariance, PTL

-----------------------------------------------------------------------------
(* The invariant of the development sessions.                              *)

Session == Owners \cup {NoOwner}
SomeBranch == Branches \cup {AnyBranch}
Worktree == [dir : BOOLEAN, listed : BOOLEAN, local : BOOLEAN]
Change == [branch : SomeBranch, place : {"none", "tree", "commits", "pushed", "lost"}]
DevStep == {"idle", "adding", "pushing", "finding", "creating", "removing", "saving", "dropping"}
DevJob == [at : DevStep, op : {"none", "start", "pr", "end", "cancel", "clean"}, branch : SomeBranch,
           owner : Session, map : [Branches -> Session], drop : SUBSET Branches]

DevTyped ==
    /\ sessions \in [Branches -> Session]
    /\ worktree \in [Branches -> Worktree]
    /\ change \in [Changes -> Change]
    /\ pull \in [Branches -> {"none", "open", "merged", "closed"}]
    /\ devJob \in [DevWorkers -> DevJob]
    /\ abandoned \subseteq Changes
    /\ {doubled, blind, entangled} \subseteq BOOLEAN

\* The steps each call goes through.
Shape(j) ==
    /\ j.op = "none" <=> j.at = "idle"
    /\ j.op = "start" => j.at \in {"adding", "saving"} /\ j.owner \in Owners
    /\ j.op = "pr" => j.at \in {"pushing", "finding", "creating"}
    /\ j.op = "end" => j.at \in {"pushing", "finding", "creating", "removing", "saving"}
    /\ j.op = "cancel" => j.at \in {"removing", "saving"}
    /\ j.op = "clean" => j.at \in {"saving", "dropping"}
    /\ j.op # "clean" => j.drop = {}
    /\ j.op \notin {"none", "clean"} => j.branch \in Branches
Shapes ==
    \A w \in DevWorkers :
        /\ Shape(devJob[w])
        /\ w = Cleaner => devJob[w].op \in {"none", "clean"}
        /\ devJob[w].op = "clean" => w = Cleaner


\* A session that is about to go has its changes abandoned, but for the
\* commits that dev_end is about to push.
parting(w) == devJob[w].op \in {"end", "cancel", "clean"}
Condemned ==
    \A w \in DevWorkers, x \in Changes :
        parting(w) /\ concerns(w, change[x].branch) =>
            /\ change[x].place = "tree" => x \in abandoned
            /\ change[x].place = "commits" => x \in abandoned \/ devAt(w, "pushing")

\* What dev_end found of a pull request still holds, or it looked too early.
SearchHolds ==
    \A w \in DevWorkers :
        devAt(w, "creating") /\ devJob[w].op = "end" => blind \/ pull[devJob[w].branch] # "merged"


\* Without an overlap a branch and the map between a list and a save have one
\* job at them, the map a job writes back is the stored one but for its branch,
\* and a branch nobody is at has a session exactly when it has a worktree.
Alone ==
    /\ \A v, w \in DevWorkers, b \in Branches : concerns(v, b) /\ concerns(w, b) => v = w
    /\ \A v, w \in DevWorkers : holdsMap(v) /\ holdsMap(w) => v = w
MapIsFresh ==
    \A w \in DevWorkers, b \in Branches : holdsMap(w) /\ ~ concerns(w, b) => devJob[w].map[b] = sessions[b]
Paired ==
    \A b \in Branches :
        (\A w \in DevWorkers : ~ concerns(w, b)) => ((sessions[b] # NoOwner) <=> worktree[b].dir)

\* What is there of a branch at each step of the job that is at it.
Stage(w, b) ==
    /\ devAt(w, "adding") => sessions[b] = NoOwner /\ ~ worktree[b].dir
    /\ devJob[w].at \in {"pushing", "finding", "creating", "removing"} => sessions[b] # NoOwner /\ worktree[b].dir
    /\ devAt(w, "dropping") => sessions[b] = NoOwner
    /\ devAt(w, "saving") =>
          /\ devJob[w].op = "start" => devJob[w].map[b] # NoOwner /\ worktree[b].dir
          /\ devJob[w].op \in {"end", "cancel"} => devJob[w].map[b] = NoOwner /\ ~ worktree[b].dir
          /\ devJob[w].op = "clean" => devJob[w].map[b] = NoOwner
Stages == \A w \in DevWorkers, b \in Branches : concerns(w, b) => Stage(w, b)
Listed == \A b \in Branches : worktree[b].dir => worktree[b].listed


\* These hold until a fault or an overlap, which the property excepts.
Worktrees == faults > 0 \/ entangled \/ (Alone /\ MapIsFresh /\ Paired /\ Stages)
SessionsInv == DevTyped /\ Shapes /\ ChangesArePushed /\ Condemned /\ NoSecondPull /\ SearchHolds /\ Listed /\ Worktrees

-----------------------------------------------------------------------------
(* What jobs and changes become.                                           *)
LEMMA DevGoesTo ==
    ASSUME devJob \in [DevWorkers -> DevJob], NEW w \in DevWorkers, NEW j \in DevJob, devGoes(w, j)
    PROVE  /\ devJob' \in [DevWorkers -> DevJob]
           /\ devJob'[w] = j
           /\ \A v \in DevWorkers : v # w => devJob'[v] = devJob[v]
  BY DEF devGoes

LEMMA DevIdleIsJob ==
    /\ DevIdle \in DevJob
    /\ DevIdle.at = "idle" /\ DevIdle.op = "none" /\ DevIdle.drop = {}
  BY DEF DevIdle, DevJob, NoSessions, SomeBranch, Session, DevStep

LEMMA MovedToTyped ==
    ASSUME DevTyped, NEW xs, NEW place \in {"commits", "pushed", "lost"}
    PROVE  movedTo(xs, place) \in [Changes -> Change]
  BY DEF movedTo, DevTyped, Change

LEMMA CleanerWorks == Cleaner \in DevWorkers /\ Cleaner \notin DevCalls /\ DevCalls \subseteq DevWorkers /\ NoOwner \notin Owners
  BY DevSessionsAssumption DEF DevWorkers

-----------------------------------------------------------------------------
(* A call begins.                                                          *)

LEMMA StartSound ==
    ASSUME SessionsInv, faults \in Nat, NEW c \in DevCalls, NEW b \in Branches, NEW ch \in Owners, dev_start(c, b, ch), UNCHANGED faults
    PROVE  SessionsInv'
<1> DEFINE j == [DevIdle EXCEPT !.at = "adding", !.op = "start", !.branch = b, !.owner = ch]
<1>a. /\ j \in DevJob
      /\ j.at = "adding" /\ j.op = "start" /\ j.branch = b /\ j.owner = ch /\ j.drop = {}
  BY CleanerWorks, DevIdleIsJob DEF SessionsInv, DevTyped, DevJob, DevIdle, NoSessions, Session, SomeBranch, DevStep
<1>b. c \in DevWorkers /\ devGoes(c, j)
  BY CleanerWorks DEF dev_start
<1> HIDE DEF j
<1>f. /\ devJob' \in [DevWorkers -> DevJob] /\ c \in DevWorkers
      /\ devJob'[c] = j /\ j.at = "adding" /\ j.op = "start" /\ j.branch = b /\ j.owner = ch /\ j.drop = {}
      /\ \A v \in DevWorkers : v # c => devJob'[v] = devJob[v]
  BY <1>a, <1>b, DevGoesTo DEF SessionsInv, DevTyped
<1>g. /\ sessions[b] = NoOwner /\ entangled' = (entangled \/ meets(c, {b}))
      /\ devJob[c].at = "idle" /\ devJob[c].op = "none" /\ devJob[c].drop = {} /\ c # Cleaner
      /\ UNCHANGED <<sessions, worktree, change, published, pull, doubled, blind, abandoned, faults>>
  BY CleanerWorks, <1>f DEF dev_start, devAt, SessionsInv, Shapes, Shape
<1>e. ~ entangled' => ~ entangled
  BY <1>g
<1>T. DevTyped'
  BY <1>f, <1>g DEF SessionsInv, DevTyped, unpublished, changesOf, Session, SomeBranch, Worktree, Change
<1>S. Shapes'
  BY <1>f, <1>g DEF SessionsInv, Shapes, Shape, devAt
<1>P. ChangesArePushed'
  BY <1>f, <1>g DEF SessionsInv, ChangesArePushed, Condemned, parting, concerns, devAt, changesOf, movedTo, unpublished, Change, DevTyped
<1>C. Condemned'
  BY <1>f, <1>g DEF SessionsInv, Condemned, parting, concerns, devAt, changesOf, movedTo, unpublished, Change
<1>N. NoSecondPull'
  BY <1>f, <1>g DEF SessionsInv, NoSecondPull, SearchHolds, devAt, parting, DevTyped, concerns
<1>H. SearchHolds'
  BY <1>f, <1>g DEF SessionsInv, SearchHolds, devAt, Shapes, Shape
<1>L. Listed'
  BY <1>f, <1>g DEF SessionsInv, Listed, DevTyped
<1>W. ASSUME ~ entangled', faults' = 0 PROVE (Alone /\ MapIsFresh /\ Paired /\ Stages)'
  <2>p. Alone /\ MapIsFresh /\ Paired /\ Stages
    <3>1. ~ entangled /\ faults = 0
      BY <1>W, <1>g, <1>e
    <3> QED BY <3>1 DEF SessionsInv, Worktrees
  <2>m. \A v \in DevWorkers : v # c => ~ concerns(v, b)
    <3>1. ~ meets(c, {b})
      BY <1>W, <1>g
    <3> QED BY <3>1 DEF meets
  <2>A. Alone'
    BY <1>W, <1>f, <1>g, <2>p, <2>m DEF Alone, concerns, holdsMap, devAt, meets
  <2>M. MapIsFresh'
    BY <1>W, <1>f, <1>g, <2>p, <2>m DEF MapIsFresh, Alone, concerns, holdsMap, devAt
  <2>O. Paired'
    BY <1>W, <1>f, <1>g, <2>p, <2>m DEF Paired, concerns, meets, devAt
  <2>G. Stages'
    <3>1. ASSUME NEW v \in DevWorkers, v # c, NEW x \in Branches, concerns(v, x)' PROVE Stage(v, x)'
      <4>1. concerns(v, x) /\ ~ concerns(c, x) /\ Stage(v, x) /\ devJob'[v] = devJob[v]
        BY <3>1, <1>f, <2>p, <2>m DEF concerns, Stages, Alone
      <4> QED BY <3>1, <4>1, <1>f, <1>g, <2>m DEF Stage, devAt, concerns
    <3>2. ASSUME NEW x \in Branches, concerns(c, x)' PROVE Stage(c, x)'
      BY <3>2, <1>W, <1>f, <1>g, <2>p, <2>m DEF Stage, Stages, Paired, concerns, devAt
    <3> QED BY <3>1, <3>2 DEF Stages
  <2> QED BY <2>A, <2>M, <2>O, <2>G
<1> QED BY <1>T, <1>S, <1>P, <1>C, <1>N, <1>H, <1>L, <1>W DEF SessionsInv, Worktrees

LEMMA PublishesSound ==
    ASSUME SessionsInv, faults \in Nat, NEW c \in DevCalls, NEW b \in Branches, NEW op \in {"pr", "end"}, Publishes(c, b, op), UNCHANGED faults
    PROVE  SessionsInv'
<1> DEFINE j == [DevIdle EXCEPT !.at = "pushing", !.op = op, !.branch = b, !.owner = sessions[b]]
<1>a. /\ j \in DevJob
      /\ j.at = "pushing" /\ j.op = op /\ j.branch = b /\ j.drop = {}
  BY CleanerWorks, DevIdleIsJob DEF SessionsInv, DevTyped, DevJob, DevIdle, NoSessions, Session, SomeBranch, DevStep
<1>b. c \in DevWorkers /\ devGoes(c, j)
  BY CleanerWorks DEF Publishes, calls
<1> HIDE DEF j
<1>f. /\ devJob' \in [DevWorkers -> DevJob] /\ c \in DevWorkers
      /\ devJob'[c] = j /\ j.at = "pushing" /\ j.op = op /\ j.branch = b /\ j.drop = {}
      /\ \A v \in DevWorkers : v # c => devJob'[v] = devJob[v]
  BY <1>a, <1>b, DevGoesTo DEF SessionsInv, DevTyped
<1>g. /\ sessions[b] # NoOwner /\ worktree[b].dir /\ entangled' = (entangled \/ meets(c, {b}))
      /\ change' = movedTo(changesOf(b, {"tree"}), "commits")
      /\ devJob[c].at = "idle" /\ devJob[c].op = "none" /\ devJob[c].drop = {} /\ c # Cleaner
      /\ UNCHANGED <<sessions, worktree, published, pull, doubled, blind, abandoned, faults>>
  BY CleanerWorks, <1>f DEF Publishes, calls, devAt, SessionsInv, Shapes, Shape
<1>c. \A x \in Changes : change'[x] = IF change[x].branch = b /\ change[x].place = "tree"
                                       THEN [change[x] EXCEPT !.place = "commits"] ELSE change[x]
  BY <1>g DEF movedTo, changesOf
<1>d. change' \in [Changes -> Change]
  BY <1>g, MovedToTyped DEF SessionsInv
<1>e. ~ entangled' => ~ entangled
  BY <1>g
<1>T. DevTyped'
  BY <1>f, <1>g, <1>d DEF SessionsInv, DevTyped, Session, SomeBranch, Worktree
<1>S. Shapes'
  BY <1>f, <1>g, <1>c DEF SessionsInv, Shapes, Shape, devAt
<1>P. ChangesArePushed'
  BY <1>f, <1>g, <1>c DEF SessionsInv, ChangesArePushed, Condemned, parting, concerns, devAt, changesOf, movedTo, unpublished, Change, DevTyped
<1>C. Condemned'
  BY <1>f, <1>g, <1>c DEF SessionsInv, Condemned, parting, concerns, devAt, changesOf, movedTo, unpublished, Change
<1>N. NoSecondPull'
  BY <1>f, <1>g, <1>c DEF SessionsInv, NoSecondPull, SearchHolds, devAt, parting, DevTyped, concerns
<1>H. SearchHolds'
  BY <1>f, <1>g, <1>c DEF SessionsInv, SearchHolds, devAt, Shapes, Shape
<1>L. Listed'
  BY <1>f, <1>g, <1>c DEF SessionsInv, Listed, DevTyped
<1>W. ASSUME ~ entangled', faults' = 0 PROVE (Alone /\ MapIsFresh /\ Paired /\ Stages)'
  <2>p. Alone /\ MapIsFresh /\ Paired /\ Stages
    <3>1. ~ entangled /\ faults = 0
      BY <1>W, <1>g, <1>e
    <3> QED BY <3>1 DEF SessionsInv, Worktrees
  <2>m. \A v \in DevWorkers : v # c => ~ concerns(v, b)
    <3>1. ~ meets(c, {b})
      BY <1>W, <1>g
    <3> QED BY <3>1 DEF meets
  <2>A. Alone'
    BY <1>W, <1>f, <1>g, <1>c, <2>p, <2>m DEF Alone, concerns, holdsMap, devAt, meets
  <2>M. MapIsFresh'
    BY <1>W, <1>f, <1>g, <1>c, <2>p, <2>m DEF MapIsFresh, Alone, concerns, holdsMap, devAt
  <2>O. Paired'
    BY <1>W, <1>f, <1>g, <1>c, <2>p, <2>m DEF Paired, concerns, meets, devAt
  <2>G. Stages'
    <3>1. ASSUME NEW v \in DevWorkers, v # c, NEW x \in Branches, concerns(v, x)' PROVE Stage(v, x)'
      <4>1. concerns(v, x) /\ ~ concerns(c, x) /\ Stage(v, x) /\ devJob'[v] = devJob[v]
        BY <3>1, <1>f, <2>p, <2>m DEF concerns, Stages, Alone
      <4> QED BY <3>1, <4>1, <1>f, <1>g, <1>c, <2>m DEF Stage, devAt, concerns
    <3>2. ASSUME NEW x \in Branches, concerns(c, x)' PROVE Stage(c, x)'
      BY <3>2, <1>W, <1>f, <1>g, <1>c, <2>p, <2>m DEF Stage, Stages, Paired, concerns, devAt
    <3> QED BY <3>1, <3>2 DEF Stages
  <2> QED BY <2>A, <2>M, <2>O, <2>G
<1> QED BY <1>T, <1>S, <1>P, <1>C, <1>N, <1>H, <1>L, <1>W DEF SessionsInv, Worktrees

LEMMA CancelSound ==
    ASSUME SessionsInv, faults \in Nat, NEW c \in DevCalls, NEW b \in Branches, dev_cancel(c, b), UNCHANGED faults
    PROVE  SessionsInv'
<1> DEFINE j == [DevIdle EXCEPT !.at = "removing", !.op = "cancel", !.branch = b, !.owner = sessions[b]]
<1>a. /\ j \in DevJob
      /\ j.at = "removing" /\ j.op = "cancel" /\ j.branch = b /\ j.drop = {}
  BY CleanerWorks, DevIdleIsJob DEF SessionsInv, DevTyped, DevJob, DevIdle, NoSessions, Session, SomeBranch, DevStep
<1>b. c \in DevWorkers /\ devGoes(c, j)
  BY CleanerWorks DEF dev_cancel, calls
<1> HIDE DEF j
<1>f. /\ devJob' \in [DevWorkers -> DevJob] /\ c \in DevWorkers
      /\ devJob'[c] = j /\ j.at = "removing" /\ j.op = "cancel" /\ j.branch = b /\ j.drop = {}
      /\ \A v \in DevWorkers : v # c => devJob'[v] = devJob[v]
  BY <1>a, <1>b, DevGoesTo DEF SessionsInv, DevTyped
<1>g. /\ sessions[b] # NoOwner /\ entangled' = (entangled \/ meets(c, {b}))
      /\ abandoned' = abandoned \cup unpublished(b)
      /\ devJob[c].at = "idle" /\ devJob[c].op = "none" /\ devJob[c].drop = {} /\ c # Cleaner
      /\ UNCHANGED <<sessions, worktree, change, published, pull, doubled, blind, faults>>
  BY CleanerWorks, <1>f DEF dev_cancel, calls, devAt, SessionsInv, Shapes, Shape
<1>e. ~ entangled' => ~ entangled
  BY <1>g
<1>T. DevTyped'
  BY <1>f, <1>g DEF SessionsInv, DevTyped, unpublished, changesOf, Session, SomeBranch, Worktree, Change
<1>S. Shapes'
  BY <1>f, <1>g DEF SessionsInv, Shapes, Shape, devAt
<1>P. ChangesArePushed'
  BY <1>f, <1>g DEF SessionsInv, ChangesArePushed, Condemned, parting, concerns, devAt, changesOf, movedTo, unpublished, Change, DevTyped
<1>C. Condemned'
  BY <1>f, <1>g DEF SessionsInv, Condemned, parting, concerns, devAt, changesOf, movedTo, unpublished, Change
<1>N. NoSecondPull'
  BY <1>f, <1>g DEF SessionsInv, NoSecondPull, SearchHolds, devAt, parting, DevTyped, concerns
<1>H. SearchHolds'
  BY <1>f, <1>g DEF SessionsInv, SearchHolds, devAt, Shapes, Shape
<1>L. Listed'
  BY <1>f, <1>g DEF SessionsInv, Listed, DevTyped
<1>W. ASSUME ~ entangled', faults' = 0 PROVE (Alone /\ MapIsFresh /\ Paired /\ Stages)'
  <2>p. Alone /\ MapIsFresh /\ Paired /\ Stages
    <3>1. ~ entangled /\ faults = 0
      BY <1>W, <1>g, <1>e
    <3> QED BY <3>1 DEF SessionsInv, Worktrees
  <2>m. \A v \in DevWorkers : v # c => ~ concerns(v, b)
    <3>1. ~ meets(c, {b})
      BY <1>W, <1>g
    <3> QED BY <3>1 DEF meets
  <2>A. Alone'
    BY <1>W, <1>f, <1>g, <2>p, <2>m DEF Alone, concerns, holdsMap, devAt, meets
  <2>M. MapIsFresh'
    BY <1>W, <1>f, <1>g, <2>p, <2>m DEF MapIsFresh, Alone, concerns, holdsMap, devAt
  <2>O. Paired'
    BY <1>W, <1>f, <1>g, <2>p, <2>m DEF Paired, concerns, meets, devAt
  <2>G. Stages'
    <3>1. ASSUME NEW v \in DevWorkers, v # c, NEW x \in Branches, concerns(v, x)' PROVE Stage(v, x)'
      <4>1. concerns(v, x) /\ ~ concerns(c, x) /\ Stage(v, x) /\ devJob'[v] = devJob[v]
        BY <3>1, <1>f, <2>p, <2>m DEF concerns, Stages, Alone
      <4> QED BY <3>1, <4>1, <1>f, <1>g, <2>m DEF Stage, devAt, concerns
    <3>2. ASSUME NEW x \in Branches, concerns(c, x)' PROVE Stage(c, x)'
      BY <3>2, <1>W, <1>f, <1>g, <2>p, <2>m DEF Stage, Stages, Paired, concerns, devAt
    <3> QED BY <3>1, <3>2 DEF Stages
  <2> QED BY <2>A, <2>M, <2>O, <2>G
<1> QED BY <1>T, <1>S, <1>P, <1>C, <1>N, <1>H, <1>L, <1>W DEF SessionsInv, Worktrees

-----------------------------------------------------------------------------
(* A call goes on, or returns with nothing listed.                         *)

LEMMA AddsSound ==
    ASSUME SessionsInv, faults \in Nat, NEW c \in DevCalls, StartAdds(c), UNCHANGED faults,
           NEW b, b = devJob[c].branch, worktreeAdd(b),
           worktree' = [worktree EXCEPT ![b] = [dir |-> TRUE, listed |-> TRUE, local |-> TRUE]],
           devSaves(c, [sessions EXCEPT ![b] = devJob[c].owner])
    PROVE  SessionsInv'
<1>i. c \in DevWorkers /\ devJob[c] \in DevJob /\ devAt(c, "adding") /\ devJob[c].op = "start" /\ b \in Branches
      /\ devJob[c].owner \in Owners /\ devJob[c].owner # NoOwner /\ devJob[c].drop = {} /\ c # Cleaner
  BY CleanerWorks DEF StartAdds, SessionsInv, Shapes, Shape, DevTyped, devAt, DevJob
<1> DEFINE j == [devJob[c] EXCEPT !.at = "saving", !.map = [sessions EXCEPT ![b] = devJob[c].owner]]
<1>a. /\ j \in DevJob
      /\ j.at = "saving" /\ j.op = "start" /\ j.branch = b /\ j.owner \in Owners /\ j.drop = {} /\ j.map[b] # NoOwner
      /\ \A x \in Branches : x # b => j.map[x] = sessions[x]
  BY CleanerWorks, DevIdleIsJob, <1>i DEF SessionsInv, DevTyped, DevJob, DevIdle, NoSessions, Session, SomeBranch, DevStep, devAt
<1>b. c \in DevWorkers /\ devGoes(c, j)
  BY CleanerWorks DEF devSaves
<1> HIDE DEF j
<1>f. /\ devJob' \in [DevWorkers -> DevJob] /\ c \in DevWorkers
      /\ devJob'[c] = j /\ j.at = "saving" /\ j.op = "start" /\ j.branch = b /\ j.owner \in Owners /\ j.drop = {} /\ j.map[b] # NoOwner
      /\ \A x \in Branches : x # b => j.map[x] = sessions[x]
      /\ \A v \in DevWorkers : v # c => devJob'[v] = devJob[v]
  BY <1>a, <1>b, DevGoesTo DEF SessionsInv, DevTyped
<1>g. /\ entangled' = (entangled \/ \E v \in DevWorkers \ {c} : holdsMap(v))
      /\ worktree' = [worktree EXCEPT ![b] = [dir |-> TRUE, listed |-> TRUE, local |-> TRUE]]
      /\ devJob[c].at = "adding" /\ devJob[c].op = "start" /\ b \in Branches
      /\ b = devJob[c].branch /\ devJob[c].drop = {} /\ c # Cleaner
      /\ UNCHANGED <<sessions, change, published, pull, doubled, blind, abandoned, faults>>
  BY CleanerWorks, <1>f, <1>i DEF StartAdds, devSaves, devAt
<1>k. worktree'[b].dir /\ \A x \in Branches : x # b => worktree'[x] = worktree[x]
  BY <1>g DEF SessionsInv, DevTyped
<1>e. ~ entangled' => ~ entangled
  BY <1>g
<1>T. DevTyped'
  BY <1>f, <1>g, <1>k DEF SessionsInv, DevTyped, unpublished, changesOf, Session, SomeBranch, Worktree, Change
<1>S. Shapes'
  BY <1>f, <1>g, <1>k DEF SessionsInv, Shapes, Shape, devAt
<1>P. ChangesArePushed'
  BY <1>f, <1>g, <1>k DEF SessionsInv, ChangesArePushed, Condemned, parting, concerns, devAt, changesOf, movedTo, unpublished, Change, DevTyped
<1>C. Condemned'
  BY <1>f, <1>g, <1>k DEF SessionsInv, Condemned, parting, concerns, devAt, changesOf, movedTo, unpublished, Change
<1>N. NoSecondPull'
  BY <1>f, <1>g, <1>k DEF SessionsInv, NoSecondPull, SearchHolds, devAt, parting, DevTyped, concerns
<1>H. SearchHolds'
  BY <1>f, <1>g, <1>k DEF SessionsInv, SearchHolds, devAt, Shapes, Shape
<1>L. Listed'
  BY <1>f, <1>g, <1>k DEF SessionsInv, Listed, DevTyped
<1>W. ASSUME ~ entangled', faults' = 0 PROVE (Alone /\ MapIsFresh /\ Paired /\ Stages)'
  <2>p. Alone /\ MapIsFresh /\ Paired /\ Stages
    <3>1. ~ entangled /\ faults = 0
      BY <1>W, <1>g, <1>e
    <3> QED BY <3>1 DEF SessionsInv, Worktrees
  <2>m. \A v \in DevWorkers : v # c => ~ holdsMap(v)
    <3>1. ~ \E v \in DevWorkers \ {c} : holdsMap(v)
      BY <1>W, <1>g
    <3> QED BY <3>1
  <2>A. Alone'
    BY <1>W, <1>f, <1>g, <1>k, <2>p, <2>m DEF Alone, concerns, holdsMap, devAt, meets
  <2>M. MapIsFresh'
    BY <1>W, <1>f, <1>g, <1>k, <2>p, <2>m DEF MapIsFresh, Alone, concerns, holdsMap, devAt
  <2>O. Paired'
    BY <1>W, <1>f, <1>g, <1>k, <2>p, <2>m DEF Paired, concerns, meets, devAt
  <2>G. Stages'
    <3>1. ASSUME NEW v \in DevWorkers, v # c, NEW x \in Branches, concerns(v, x)' PROVE Stage(v, x)'
      <4>1. concerns(v, x) /\ ~ concerns(c, x) /\ Stage(v, x) /\ devJob'[v] = devJob[v]
        BY <3>1, <1>f, <2>p, <2>m DEF concerns, Stages, Alone
      <4> QED BY <3>1, <4>1, <1>f, <1>g, <1>k, <2>m DEF Stage, devAt, concerns
    <3>2. ASSUME NEW x \in Branches, concerns(c, x)' PROVE Stage(c, x)'
      BY <3>2, <1>W, <1>f, <1>g, <1>k, <2>p, <2>m DEF Stage, Stages, Paired, concerns, devAt
    <3> QED BY <3>1, <3>2 DEF Stages
  <2> QED BY <2>A, <2>M, <2>O, <2>G
<1> QED BY <1>T, <1>S, <1>P, <1>C, <1>N, <1>H, <1>L, <1>W DEF SessionsInv, Worktrees

LEMMA ReturnsSound ==
    ASSUME SessionsInv, faults \in Nat, NEW c \in DevCalls, devReturns(c),
           devJob[c].at \in {"adding", "pushing", "finding", "creating", "removing"},
           pull' \in [Branches -> {"none", "open", "merged", "closed"}],
           \A b \in Branches : pull'[b] = "merged" => pull[b] = "merged",
           blind' \in BOOLEAN, blind => blind',
           UNCHANGED <<sessions, worktree, change, doubled, entangled, abandoned, faults>>
    PROVE  SessionsInv'
<1> DEFINE j == DevIdle
<1>a. /\ j \in DevJob
      /\ j.at = "idle" /\ j.op = "none" /\ j.drop = {}
  BY CleanerWorks, DevIdleIsJob DEF SessionsInv, DevTyped, DevJob, DevIdle, NoSessions, Session, SomeBranch, DevStep
<1>b. c \in DevWorkers /\ devGoes(c, j)
  BY CleanerWorks DEF devReturns
<1> HIDE DEF j
<1>f. /\ devJob' \in [DevWorkers -> DevJob] /\ c \in DevWorkers
      /\ devJob'[c] = j /\ j.at = "idle" /\ j.op = "none" /\ j.drop = {}
      /\ \A v \in DevWorkers : v # c => devJob'[v] = devJob[v]
  BY <1>a, <1>b, DevGoesTo DEF SessionsInv, DevTyped
<1>g. /\ devJob[c].at \in {"adding", "pushing", "finding", "creating", "removing"}
      /\ pull' \in [Branches -> {"none", "open", "merged", "closed"}]
      /\ \A b \in Branches : pull'[b] = "merged" => pull[b] = "merged"
      /\ blind' \in BOOLEAN /\ (blind => blind')
      /\ UNCHANGED <<sessions, worktree, change, doubled, entangled, abandoned, faults>>
      /\ c # Cleaner /\ devJob[c].drop = {} /\ devJob[c].op # "none"
  BY CleanerWorks, <1>f DEF SessionsInv, Shapes, Shape
<1>e. ~ entangled' => ~ entangled
  BY <1>g
<1>T. DevTyped'
  BY <1>f, <1>g DEF SessionsInv, DevTyped, unpublished, changesOf, Session, SomeBranch, Worktree, Change
<1>S. Shapes'
  BY <1>f, <1>g DEF SessionsInv, Shapes, Shape, devAt
<1>P. ChangesArePushed'
  BY <1>f, <1>g DEF SessionsInv, ChangesArePushed, Condemned, parting, concerns, devAt, changesOf, movedTo, unpublished, Change, DevTyped
<1>C. Condemned'
  BY <1>f, <1>g DEF SessionsInv, Condemned, parting, concerns, devAt, changesOf, movedTo, unpublished, Change
<1>N. NoSecondPull'
  BY <1>f, <1>g DEF SessionsInv, NoSecondPull, SearchHolds, devAt, parting, DevTyped, concerns
<1>H. SearchHolds'
  BY <1>f, <1>g DEF SessionsInv, SearchHolds, devAt, Shapes, Shape
<1>L. Listed'
  BY <1>f, <1>g DEF SessionsInv, Listed, DevTyped
<1>W. ASSUME ~ entangled', faults' = 0 PROVE (Alone /\ MapIsFresh /\ Paired /\ Stages)'
  <2>p. Alone /\ MapIsFresh /\ Paired /\ Stages
    <3>1. ~ entangled /\ faults = 0
      BY <1>W, <1>g, <1>e
    <3> QED BY <3>1 DEF SessionsInv, Worktrees
  <2>A. Alone'
    BY <1>W, <1>f, <1>g, <2>p DEF Alone, concerns, holdsMap, devAt, meets
  <2>M. MapIsFresh'
    BY <1>W, <1>f, <1>g, <2>p DEF MapIsFresh, Alone, concerns, holdsMap, devAt
  <2>O. Paired'
    <3> SUFFICES ASSUME NEW b \in Branches, \A v \in DevWorkers : ~ concerns(v, b)'
                 PROVE  ((sessions[b] # NoOwner) <=> worktree[b].dir)'
      BY DEF Paired
    <3>1. CASE concerns(c, b)
      BY <3>1, <1>f, <1>g, <2>p DEF Stages, Stage, devAt
    <3>2. CASE ~ concerns(c, b)
      <4>1. \A v \in DevWorkers : ~ concerns(v, b)
        BY <3>2, <1>f DEF concerns
      <4> QED BY <4>1, <1>g, <2>p DEF Paired
    <3> QED BY <3>1, <3>2
  <2>G. Stages'
    <3>1. ASSUME NEW v \in DevWorkers, v # c, NEW x \in Branches, concerns(v, x)' PROVE Stage(v, x)'
      <4>1. concerns(v, x) /\ ~ concerns(c, x) /\ Stage(v, x) /\ devJob'[v] = devJob[v]
        BY <3>1, <1>f, <2>p DEF concerns, Stages, Alone
      <4> QED BY <3>1, <4>1, <1>f, <1>g DEF Stage, devAt, concerns
    <3>2. ASSUME NEW x \in Branches, concerns(c, x)' PROVE Stage(c, x)'
      BY <3>2, <1>W, <1>f, <1>g, <2>p DEF Stage, Stages, Paired, concerns, devAt
    <3> QED BY <3>1, <3>2 DEF Stages
  <2> QED BY <2>A, <2>M, <2>O, <2>G
<1> QED BY <1>T, <1>S, <1>P, <1>C, <1>N, <1>H, <1>L, <1>W DEF SessionsInv, Worktrees

LEMMA PushSound ==
    ASSUME SessionsInv, faults \in Nat, NEW c \in DevCalls, gitPush(c), UNCHANGED faults, NEW b, b = devJob[c].branch,
           change' = movedTo(changesOf(b, {"commits"}), "pushed"), devMoves(c, "finding")
    PROVE  SessionsInv'
<1> DEFINE j == [devJob[c] EXCEPT !.at = "finding"]
<1>a. /\ j \in DevJob
      /\ j.at = "finding" /\ j.op = devJob[c].op /\ j.branch = b /\ j.drop = devJob[c].drop
  BY CleanerWorks, DevIdleIsJob DEF SessionsInv, DevTyped, DevJob, DevIdle, NoSessions, Session, SomeBranch, DevStep
<1>b. c \in DevWorkers /\ devGoes(c, j)
  BY CleanerWorks DEF devMoves
<1> HIDE DEF j
<1>f. /\ devJob' \in [DevWorkers -> DevJob] /\ c \in DevWorkers
      /\ devJob'[c] = j /\ j.at = "finding" /\ j.op = devJob[c].op /\ j.branch = b /\ j.drop = devJob[c].drop
      /\ \A v \in DevWorkers : v # c => devJob'[v] = devJob[v]
  BY <1>a, <1>b, DevGoesTo DEF SessionsInv, DevTyped
<1>g. /\ devJob[c].at = "pushing" /\ devJob[c].op \in {"pr", "end"} /\ devJob[c].branch = b /\ b \in Branches
      /\ change' = movedTo(changesOf(b, {"commits"}), "pushed")
      /\ UNCHANGED <<sessions, worktree, pull, doubled, blind, abandoned, faults, entangled>>
      /\ c # Cleaner /\ devJob[c].drop = {}
  BY CleanerWorks, <1>f DEF gitPush, devAt, devHistory, SessionsInv, Shapes, Shape, DevTyped, DevJob
<1>c. \A x \in Changes : change'[x] = IF change[x].branch = b /\ change[x].place = "commits"
                                       THEN [change[x] EXCEPT !.place = "pushed"] ELSE change[x]
  BY <1>g DEF movedTo, changesOf
<1>d. change' \in [Changes -> Change]
  BY <1>g, MovedToTyped DEF SessionsInv
<1>e. ~ entangled' => ~ entangled
  BY <1>g
<1>T. DevTyped'
  BY <1>f, <1>g, <1>d DEF SessionsInv, DevTyped, Session, SomeBranch, Worktree
<1>S. Shapes'
  BY <1>f, <1>g, <1>c DEF SessionsInv, Shapes, Shape, devAt
<1>P. ChangesArePushed'
  BY <1>f, <1>g, <1>c DEF SessionsInv, ChangesArePushed, Condemned, parting, concerns, devAt, changesOf, movedTo, unpublished, Change, DevTyped
<1>C. Condemned'
  BY <1>f, <1>g, <1>c DEF SessionsInv, Condemned, parting, concerns, devAt, changesOf, movedTo, unpublished, Change
<1>N. NoSecondPull'
  BY <1>f, <1>g, <1>c DEF SessionsInv, NoSecondPull, SearchHolds, devAt, parting, DevTyped, concerns
<1>H. SearchHolds'
  BY <1>f, <1>g, <1>c DEF SessionsInv, SearchHolds, devAt, Shapes, Shape
<1>L. Listed'
  BY <1>f, <1>g, <1>c DEF SessionsInv, Listed, DevTyped
<1>W. ASSUME ~ entangled', faults' = 0 PROVE (Alone /\ MapIsFresh /\ Paired /\ Stages)'
  <2>p. Alone /\ MapIsFresh /\ Paired /\ Stages
    <3>1. ~ entangled /\ faults = 0
      BY <1>W, <1>g, <1>e
    <3> QED BY <3>1 DEF SessionsInv, Worktrees
  <2>A. Alone'
    BY <1>W, <1>f, <1>g, <1>c, <2>p DEF Alone, concerns, holdsMap, devAt, meets
  <2>M. MapIsFresh'
    BY <1>W, <1>f, <1>g, <1>c, <2>p DEF MapIsFresh, Alone, concerns, holdsMap, devAt
  <2>O. Paired'
    BY <1>W, <1>f, <1>g, <1>c, <2>p DEF Paired, concerns, meets, devAt
  <2>G. Stages'
    <3>1. ASSUME NEW v \in DevWorkers, v # c, NEW x \in Branches, concerns(v, x)' PROVE Stage(v, x)'
      <4>1. concerns(v, x) /\ ~ concerns(c, x) /\ Stage(v, x) /\ devJob'[v] = devJob[v]
        BY <3>1, <1>f, <2>p DEF concerns, Stages, Alone
      <4> QED BY <3>1, <4>1, <1>f, <1>g, <1>c DEF Stage, devAt, concerns
    <3>2. ASSUME NEW x \in Branches, concerns(c, x)' PROVE Stage(c, x)'
      BY <3>2, <1>W, <1>f, <1>g, <1>c, <2>p DEF Stage, Stages, Paired, concerns, devAt
    <3> QED BY <3>1, <3>2 DEF Stages
  <2> QED BY <2>A, <2>M, <2>O, <2>G
<1> QED BY <1>T, <1>S, <1>P, <1>C, <1>N, <1>H, <1>L, <1>W DEF SessionsInv, Worktrees

LEMMA MovesSound ==
    ASSUME SessionsInv, faults \in Nat, NEW c \in DevCalls, NEW step \in {"creating", "removing"}, devMoves(c, step),
           devJob[c].at \in {"finding", "creating"}, step = "removing" => devJob[c].op = "end",
           pull' \in [Branches -> {"none", "open", "merged", "closed"}],
           \A b \in Branches : pull'[b] = "merged" => pull[b] = "merged",
           step = "creating" /\ devJob[c].op = "end" => blind' \/ pull'[devJob[c].branch] # "merged",
           blind' \in BOOLEAN, blind => blind', doubled' \in BOOLEAN, doubled' => doubled \/ blind,
           UNCHANGED <<sessions, worktree, change, entangled, abandoned, faults>>
    PROVE  SessionsInv'
<1> DEFINE j == [devJob[c] EXCEPT !.at = step]
<1>a. /\ j \in DevJob
      /\ j.at = step /\ j.op = devJob[c].op /\ j.branch = devJob[c].branch /\ j.drop = devJob[c].drop
  BY CleanerWorks, DevIdleIsJob DEF SessionsInv, DevTyped, DevJob, DevIdle, NoSessions, Session, SomeBranch, DevStep
<1>b. c \in DevWorkers /\ devGoes(c, j)
  BY CleanerWorks DEF devMoves
<1> HIDE DEF j
<1>f. /\ devJob' \in [DevWorkers -> DevJob] /\ c \in DevWorkers
      /\ devJob'[c] = j /\ j.at = step /\ j.op = devJob[c].op /\ j.branch = devJob[c].branch /\ j.drop = devJob[c].drop
      /\ \A v \in DevWorkers : v # c => devJob'[v] = devJob[v]
  BY <1>a, <1>b, DevGoesTo DEF SessionsInv, DevTyped
<1>g. /\ devJob[c].at \in {"finding", "creating"} /\ devJob[c].op \in {"pr", "end"}
      /\ (step = "removing" => devJob[c].op = "end") /\ step \in {"creating", "removing"}
      /\ (step = "creating" /\ devJob[c].op = "end" => blind' \/ pull'[devJob[c].branch] # "merged")
      /\ pull' \in [Branches -> {"none", "open", "merged", "closed"}]
      /\ \A b \in Branches : pull'[b] = "merged" => pull[b] = "merged"
      /\ blind' \in BOOLEAN /\ (blind => blind') /\ doubled' \in BOOLEAN /\ (doubled' => doubled \/ blind)
      /\ UNCHANGED <<sessions, worktree, change, entangled, abandoned, faults>>
      /\ c # Cleaner /\ devJob[c].drop = {}
  BY CleanerWorks, <1>f DEF SessionsInv, Shapes, Shape, DevTyped, DevJob
<1>e. ~ entangled' => ~ entangled
  BY <1>g
<1>T. DevTyped'
  BY <1>f, <1>g DEF SessionsInv, DevTyped, unpublished, changesOf, Session, SomeBranch, Worktree, Change
<1>S. Shapes'
  BY <1>f, <1>g DEF SessionsInv, Shapes, Shape, devAt
<1>P. ChangesArePushed'
  BY <1>f, <1>g DEF SessionsInv, ChangesArePushed, Condemned, parting, concerns, devAt, changesOf, movedTo, unpublished, Change, DevTyped
<1>C. Condemned'
  BY <1>f, <1>g DEF SessionsInv, Condemned, parting, concerns, devAt, changesOf, movedTo, unpublished, Change
<1>N. NoSecondPull'
  BY <1>f, <1>g DEF SessionsInv, NoSecondPull, SearchHolds, devAt, parting, DevTyped, concerns
<1>H. SearchHolds'
  BY <1>f, <1>g DEF SessionsInv, SearchHolds, devAt, Shapes, Shape
<1>L. Listed'
  BY <1>f, <1>g DEF SessionsInv, Listed, DevTyped
<1>W. ASSUME ~ entangled', faults' = 0 PROVE (Alone /\ MapIsFresh /\ Paired /\ Stages)'
  <2>p. Alone /\ MapIsFresh /\ Paired /\ Stages
    <3>1. ~ entangled /\ faults = 0
      BY <1>W, <1>g, <1>e
    <3> QED BY <3>1 DEF SessionsInv, Worktrees
  <2>A. Alone'
    BY <1>W, <1>f, <1>g, <2>p DEF Alone, concerns, holdsMap, devAt, meets
  <2>M. MapIsFresh'
    BY <1>W, <1>f, <1>g, <2>p DEF MapIsFresh, Alone, concerns, holdsMap, devAt
  <2>O. Paired'
    BY <1>W, <1>f, <1>g, <2>p DEF Paired, concerns, meets, devAt
  <2>G. Stages'
    <3>1. ASSUME NEW v \in DevWorkers, v # c, NEW x \in Branches, concerns(v, x)' PROVE Stage(v, x)'
      <4>1. concerns(v, x) /\ ~ concerns(c, x) /\ Stage(v, x) /\ devJob'[v] = devJob[v]
        BY <3>1, <1>f, <2>p DEF concerns, Stages, Alone
      <4> QED BY <3>1, <4>1, <1>f, <1>g DEF Stage, devAt, concerns
    <3>2. ASSUME NEW x \in Branches, concerns(c, x)' PROVE Stage(c, x)'
      BY <3>2, <1>W, <1>f, <1>g, <2>p DEF Stage, Stages, Paired, concerns, devAt
    <3> QED BY <3>1, <3>2 DEF Stages
  <2> QED BY <2>A, <2>M, <2>O, <2>G
<1> QED BY <1>T, <1>S, <1>P, <1>C, <1>N, <1>H, <1>L, <1>W DEF SessionsInv, Worktrees

-----------------------------------------------------------------------------
(* A worktree goes, and the map is listed and saved.                       *)

LEMMA RemovesSound ==
    ASSUME SessionsInv, faults \in Nat, NEW c \in DevCalls, devAt(c, "removing"), NEW b, b = devJob[c].branch,
           worktree' = [worktree EXCEPT ![b] = NoWorktree],
           change' = movedTo(unpublished(b), "lost"),
           devSaves(c, [sessions EXCEPT ![b] = NoOwner]),
           UNCHANGED <<sessions, pull, doubled, blind, abandoned, faults>>
    PROVE  SessionsInv'
<1>i. c \in DevWorkers /\ devJob[c] \in DevJob /\ devAt(c, "removing") /\ devJob[c].op \in {"end", "cancel"}
      /\ b \in Branches /\ devJob[c].drop = {} /\ c # Cleaner
  BY CleanerWorks DEF SessionsInv, Shapes, Shape, DevTyped, devAt, DevJob
<1> DEFINE j == [devJob[c] EXCEPT !.at = "saving", !.map = [sessions EXCEPT ![b] = NoOwner]]
<1>a. /\ j \in DevJob
      /\ j.at = "saving" /\ j.op = devJob[c].op /\ j.branch = b /\ j.owner = devJob[c].owner /\ j.drop = {} /\ j.map[b] = NoOwner
      /\ \A x \in Branches : x # b => j.map[x] = sessions[x]
  BY CleanerWorks, DevIdleIsJob, <1>i DEF SessionsInv, DevTyped, DevJob, DevIdle, NoSessions, Session, SomeBranch, DevStep, devAt
<1>b. c \in DevWorkers /\ devGoes(c, j)
  BY CleanerWorks DEF devSaves
<1> HIDE DEF j
<1>f. /\ devJob' \in [DevWorkers -> DevJob] /\ c \in DevWorkers
      /\ devJob'[c] = j /\ j.at = "saving" /\ j.op = devJob[c].op /\ j.branch = b /\ j.owner = devJob[c].owner /\ j.drop = {} /\ j.map[b] = NoOwner
      /\ \A x \in Branches : x # b => j.map[x] = sessions[x]
      /\ \A v \in DevWorkers : v # c => devJob'[v] = devJob[v]
  BY <1>a, <1>b, DevGoesTo DEF SessionsInv, DevTyped
<1>g. /\ entangled' = (entangled \/ \E v \in DevWorkers \ {c} : holdsMap(v))
      /\ worktree' = [worktree EXCEPT ![b] = NoWorktree]
      /\ change' = movedTo(unpublished(b), "lost")
      /\ devJob[c].at = "removing" /\ devJob[c].op \in {"end", "cancel"} /\ b \in Branches
      /\ b = devJob[c].branch /\ devJob[c].drop = {} /\ c # Cleaner
      /\ UNCHANGED <<sessions, pull, doubled, blind, abandoned, faults>>
  BY CleanerWorks, <1>f, <1>i DEF devSaves, devAt
<1>w. NoWorktree \in Worktree /\ NoWorktree.dir = FALSE
  BY DEF NoWorktree, Worktree
<1>k. ~ worktree'[b].dir /\ \A x \in Branches : x # b => worktree'[x] = worktree[x]
  BY <1>g, <1>w DEF SessionsInv, DevTyped
<1>c. \A x \in Changes : change'[x] = IF change[x].branch = b /\ change[x].place \in {"tree", "commits"}
                                       THEN [change[x] EXCEPT !.place = "lost"] ELSE change[x]
  BY <1>g DEF movedTo, unpublished, changesOf
<1>d. change' \in [Changes -> Change]
  BY <1>g, MovedToTyped DEF SessionsInv
<1>e. ~ entangled' => ~ entangled
  BY <1>g
<1>T. DevTyped'
  BY <1>f, <1>g, <1>w, <1>d DEF SessionsInv, DevTyped, Session, SomeBranch, Worktree
<1>S. Shapes'
  BY <1>f, <1>g, <1>c, <1>w, <1>k DEF SessionsInv, Shapes, Shape, devAt
<1>P. ChangesArePushed'
  BY <1>f, <1>g, <1>c, <1>w, <1>k DEF SessionsInv, ChangesArePushed, Condemned, parting, concerns, devAt, changesOf, movedTo, unpublished, Change, DevTyped
<1>C. Condemned'
  BY <1>f, <1>g, <1>c, <1>w, <1>k DEF SessionsInv, Condemned, parting, concerns, devAt, changesOf, movedTo, unpublished, Change
<1>N. NoSecondPull'
  BY <1>f, <1>g, <1>c, <1>w, <1>k DEF SessionsInv, NoSecondPull, SearchHolds, devAt, parting, DevTyped, concerns
<1>H. SearchHolds'
  BY <1>f, <1>g, <1>c, <1>w, <1>k DEF SessionsInv, SearchHolds, devAt, Shapes, Shape
<1>L. Listed'
  BY <1>f, <1>g, <1>c, <1>w, <1>k DEF SessionsInv, Listed, DevTyped
<1>W. ASSUME ~ entangled', faults' = 0 PROVE (Alone /\ MapIsFresh /\ Paired /\ Stages)'
  <2>p. Alone /\ MapIsFresh /\ Paired /\ Stages
    <3>1. ~ entangled /\ faults = 0
      BY <1>W, <1>g, <1>e
    <3> QED BY <3>1 DEF SessionsInv, Worktrees
  <2>m. \A v \in DevWorkers : v # c => ~ holdsMap(v)
    <3>1. ~ \E v \in DevWorkers \ {c} : holdsMap(v)
      BY <1>W, <1>g
    <3> QED BY <3>1
  <2>A. Alone'
    BY <1>W, <1>f, <1>g, <1>c, <1>w, <1>k, <2>p, <2>m DEF Alone, concerns, holdsMap, devAt, meets
  <2>M. MapIsFresh'
    BY <1>W, <1>f, <1>g, <1>c, <1>w, <1>k, <2>p, <2>m DEF MapIsFresh, Alone, concerns, holdsMap, devAt
  <2>O. Paired'
    BY <1>W, <1>f, <1>g, <1>c, <1>w, <1>k, <2>p, <2>m DEF Paired, concerns, meets, devAt
  <2>G. Stages'
    <3>1. ASSUME NEW v \in DevWorkers, v # c, NEW x \in Branches, concerns(v, x)' PROVE Stage(v, x)'
      <4>1. concerns(v, x) /\ ~ concerns(c, x) /\ Stage(v, x) /\ devJob'[v] = devJob[v]
        BY <3>1, <1>f, <2>p, <2>m DEF concerns, Stages, Alone
      <4> QED BY <3>1, <4>1, <1>f, <1>g, <1>c, <1>w, <1>k, <2>m DEF Stage, devAt, concerns
    <3>2. ASSUME NEW x \in Branches, concerns(c, x)' PROVE Stage(c, x)'
      BY <3>2, <1>W, <1>f, <1>g, <1>c, <1>w, <1>k, <2>p, <2>m DEF Stage, Stages, Paired, concerns, devAt
    <3> QED BY <3>1, <3>2 DEF Stages
  <2> QED BY <2>A, <2>M, <2>O, <2>G
<1> QED BY <1>T, <1>S, <1>P, <1>C, <1>N, <1>H, <1>L, <1>W DEF SessionsInv, Worktrees

LEMMA RemovesNothingSound ==
    ASSUME SessionsInv, faults \in Nat, NEW c \in DevCalls, devAt(c, "removing"), NEW b, b = devJob[c].branch,
           devJob[c].op = "end", ~ (worktree[b].dir /\ worktree[b].listed),
           devSaves(c, [sessions EXCEPT ![b] = NoOwner]),
           UNCHANGED <<sessions, worktree, change, pull, doubled, blind, abandoned, faults>>
    PROVE  SessionsInv'
<1>i. c \in DevWorkers /\ devJob[c] \in DevJob /\ devAt(c, "removing") /\ devJob[c].op \in {"end", "cancel"}
      /\ b \in Branches /\ devJob[c].drop = {} /\ c # Cleaner
  BY CleanerWorks DEF SessionsInv, Shapes, Shape, DevTyped, devAt, DevJob
<1> DEFINE j == [devJob[c] EXCEPT !.at = "saving", !.map = [sessions EXCEPT ![b] = NoOwner]]
<1>a. /\ j \in DevJob
      /\ j.at = "saving" /\ j.op = devJob[c].op /\ j.branch = b /\ j.owner = devJob[c].owner /\ j.drop = {} /\ j.map[b] = NoOwner
      /\ \A x \in Branches : x # b => j.map[x] = sessions[x]
  BY CleanerWorks, DevIdleIsJob, <1>i DEF SessionsInv, DevTyped, DevJob, DevIdle, NoSessions, Session, SomeBranch, DevStep, devAt
<1>b. c \in DevWorkers /\ devGoes(c, j)
  BY CleanerWorks DEF devSaves
<1> HIDE DEF j
<1>f. /\ devJob' \in [DevWorkers -> DevJob] /\ c \in DevWorkers
      /\ devJob'[c] = j /\ j.at = "saving" /\ j.op = devJob[c].op /\ j.branch = b /\ j.owner = devJob[c].owner /\ j.drop = {} /\ j.map[b] = NoOwner
      /\ \A x \in Branches : x # b => j.map[x] = sessions[x]
      /\ \A v \in DevWorkers : v # c => devJob'[v] = devJob[v]
  BY <1>a, <1>b, DevGoesTo DEF SessionsInv, DevTyped
<1>g. /\ entangled' = (entangled \/ \E v \in DevWorkers \ {c} : holdsMap(v))
      /\ ~ (worktree[b].dir /\ worktree[b].listed)
      /\ devJob[c].at = "removing" /\ devJob[c].op = "end" /\ b \in Branches
      /\ b = devJob[c].branch /\ devJob[c].drop = {} /\ c # Cleaner
      /\ UNCHANGED <<sessions, worktree, change, pull, doubled, blind, abandoned, faults>>
  BY CleanerWorks, <1>f, <1>i DEF devSaves, devAt
<1>l. ~ worktree[b].dir
  BY <1>g DEF SessionsInv, Listed
<1>e. ~ entangled' => ~ entangled
  BY <1>g
<1>T. DevTyped'
  BY <1>f, <1>g, <1>l DEF SessionsInv, DevTyped, unpublished, changesOf, Session, SomeBranch, Worktree, Change
<1>S. Shapes'
  BY <1>f, <1>g, <1>l DEF SessionsInv, Shapes, Shape, devAt
<1>P. ChangesArePushed'
  BY <1>f, <1>g, <1>l DEF SessionsInv, ChangesArePushed, Condemned, parting, concerns, devAt, changesOf, movedTo, unpublished, Change, DevTyped
<1>C. Condemned'
  BY <1>f, <1>g, <1>l DEF SessionsInv, Condemned, parting, concerns, devAt, changesOf, movedTo, unpublished, Change
<1>N. NoSecondPull'
  BY <1>f, <1>g, <1>l DEF SessionsInv, NoSecondPull, SearchHolds, devAt, parting, DevTyped, concerns
<1>H. SearchHolds'
  BY <1>f, <1>g, <1>l DEF SessionsInv, SearchHolds, devAt, Shapes, Shape
<1>L. Listed'
  BY <1>f, <1>g, <1>l DEF SessionsInv, Listed, DevTyped
<1>W. ASSUME ~ entangled', faults' = 0 PROVE (Alone /\ MapIsFresh /\ Paired /\ Stages)'
  <2>p. Alone /\ MapIsFresh /\ Paired /\ Stages
    <3>1. ~ entangled /\ faults = 0
      BY <1>W, <1>g, <1>e
    <3> QED BY <3>1 DEF SessionsInv, Worktrees
  <2>m. \A v \in DevWorkers : v # c => ~ holdsMap(v)
    <3>1. ~ \E v \in DevWorkers \ {c} : holdsMap(v)
      BY <1>W, <1>g
    <3> QED BY <3>1
  <2>A. Alone'
    BY <1>W, <1>f, <1>g, <1>l, <2>p, <2>m DEF Alone, concerns, holdsMap, devAt, meets
  <2>M. MapIsFresh'
    BY <1>W, <1>f, <1>g, <1>l, <2>p, <2>m DEF MapIsFresh, Alone, concerns, holdsMap, devAt
  <2>O. Paired'
    BY <1>W, <1>f, <1>g, <1>l, <2>p, <2>m DEF Paired, concerns, meets, devAt
  <2>G. Stages'
    <3>1. ASSUME NEW v \in DevWorkers, v # c, NEW x \in Branches, concerns(v, x)' PROVE Stage(v, x)'
      <4>1. concerns(v, x) /\ ~ concerns(c, x) /\ Stage(v, x) /\ devJob'[v] = devJob[v]
        BY <3>1, <1>f, <2>p, <2>m DEF concerns, Stages, Alone
      <4> QED BY <3>1, <4>1, <1>f, <1>g, <1>l, <2>m DEF Stage, devAt, concerns
    <3>2. ASSUME NEW x \in Branches, concerns(c, x)' PROVE Stage(c, x)'
      BY <3>2, <1>W, <1>f, <1>g, <1>l, <2>p, <2>m DEF Stage, Stages, Paired, concerns, devAt
    <3> QED BY <3>1, <3>2 DEF Stages
  <2> QED BY <2>A, <2>M, <2>O, <2>G
<1> QED BY <1>T, <1>S, <1>P, <1>C, <1>N, <1>H, <1>L, <1>W DEF SessionsInv, Worktrees

LEMMA SavedSound ==
    ASSUME SessionsInv, faults \in Nat, NEW c \in DevCalls, SessionsSaved(c), UNCHANGED faults
    PROVE  SessionsInv'
<1> DEFINE j == DevIdle
<1>a. /\ j \in DevJob
      /\ j.at = "idle" /\ j.op = "none" /\ j.drop = {}
  BY CleanerWorks, DevIdleIsJob DEF SessionsInv, DevTyped, DevJob, DevIdle, NoSessions, Session, SomeBranch, DevStep
<1>b. c \in DevWorkers /\ devGoes(c, j)
  BY CleanerWorks DEF SessionsSaved, devReturns
<1> HIDE DEF j
<1>f. /\ devJob' \in [DevWorkers -> DevJob] /\ c \in DevWorkers
      /\ devJob'[c] = j /\ j.at = "idle" /\ j.op = "none" /\ j.drop = {}
      /\ \A v \in DevWorkers : v # c => devJob'[v] = devJob[v]
  BY <1>a, <1>b, DevGoesTo DEF SessionsInv, DevTyped
<1>g. /\ devJob[c].at = "saving" /\ sessions' = devJob[c].map
      /\ UNCHANGED <<worktree, change, pull, doubled, blind, abandoned, entangled, faults>>
      /\ c # Cleaner /\ devJob[c].drop = {} /\ devJob[c].op \in {"start", "end", "cancel"}
      /\ devJob[c].branch \in Branches /\ devJob[c].map \in [Branches -> Session]
  BY CleanerWorks, <1>f DEF SessionsInv, Shapes, Shape, SessionsSaved, devAt, devHistory, DevTyped, DevJob
<1>e. ~ entangled' => ~ entangled
  BY <1>g
<1>T. DevTyped'
  BY <1>f, <1>g DEF SessionsInv, DevTyped, unpublished, changesOf, Session, SomeBranch, Worktree, Change
<1>S. Shapes'
  BY <1>f, <1>g DEF SessionsInv, Shapes, Shape, devAt
<1>P. ChangesArePushed'
  BY <1>f, <1>g DEF SessionsInv, ChangesArePushed, Condemned, parting, concerns, devAt, changesOf, movedTo, unpublished, Change, DevTyped
<1>C. Condemned'
  BY <1>f, <1>g DEF SessionsInv, Condemned, parting, concerns, devAt, changesOf, movedTo, unpublished, Change
<1>N. NoSecondPull'
  BY <1>f, <1>g DEF SessionsInv, NoSecondPull, SearchHolds, devAt, parting, DevTyped, concerns
<1>H. SearchHolds'
  BY <1>f, <1>g DEF SessionsInv, SearchHolds, devAt, Shapes, Shape
<1>L. Listed'
  BY <1>f, <1>g DEF SessionsInv, Listed, DevTyped
<1>W. ASSUME ~ entangled', faults' = 0 PROVE (Alone /\ MapIsFresh /\ Paired /\ Stages)'
  <2>p. Alone /\ MapIsFresh /\ Paired /\ Stages
    <3>1. ~ entangled /\ faults = 0
      BY <1>W, <1>g, <1>e
    <3> QED BY <3>1 DEF SessionsInv, Worktrees
  <2>m. /\ \A v \in DevWorkers : v # c => ~ holdsMap(v)
        /\ \A x \in Branches : x # devJob[c].branch => sessions'[x] = sessions[x]
        /\ devJob[c].op = "start" => sessions'[devJob[c].branch] # NoOwner /\ worktree[devJob[c].branch].dir
        /\ devJob[c].op # "start" => sessions'[devJob[c].branch] = NoOwner /\ ~ worktree[devJob[c].branch].dir
    BY <1>f, <1>g, <2>p, CleanerWorks DEF Alone, holdsMap, devAt, MapIsFresh, concerns, Stages, Stage
  <2>A. Alone'
    BY <1>W, <1>f, <1>g, <2>p, <2>m DEF Alone, concerns, holdsMap, devAt, meets
  <2>M. MapIsFresh'
    BY <1>W, <1>f, <1>g, <2>p, <2>m DEF MapIsFresh, Alone, concerns, holdsMap, devAt
  <2>O. Paired'
    BY <1>W, <1>f, <1>g, <2>p, <2>m DEF Paired, concerns, meets, devAt
  <2>G. Stages'
    <3>1. ASSUME NEW v \in DevWorkers, v # c, NEW x \in Branches, concerns(v, x)' PROVE Stage(v, x)'
      <4>1. concerns(v, x) /\ ~ concerns(c, x) /\ Stage(v, x) /\ devJob'[v] = devJob[v]
        BY <3>1, <1>f, <2>p, <2>m DEF concerns, Stages, Alone
      <4> QED BY <3>1, <4>1, <1>f, <1>g, <2>m DEF Stage, devAt, concerns
    <3>2. ASSUME NEW x \in Branches, concerns(c, x)' PROVE Stage(c, x)'
      BY <3>2, <1>W, <1>f, <1>g, <2>p, <2>m DEF Stage, Stages, Paired, concerns, devAt
    <3> QED BY <3>1, <3>2 DEF Stages
  <2> QED BY <2>A, <2>M, <2>O, <2>G
<1> QED BY <1>T, <1>S, <1>P, <1>C, <1>N, <1>H, <1>L, <1>W DEF SessionsInv, Worktrees

-----------------------------------------------------------------------------
(* The deletion of a channel.                                              *)

LEMMA CleanSound ==
    ASSUME SessionsInv, faults \in Nat, NEW ch \in Owners, cleanupDevSessionsForChannel(ch), UNCHANGED faults,
           NEW owned, owned = {b \in Branches : sessions[b] = ch}
    PROVE  SessionsInv'
<1> DEFINE j == [DevIdle EXCEPT !.at = "saving", !.op = "clean", !.owner = ch, !.drop = owned,
                         !.map = [b \in Branches |-> IF b \in owned THEN NoOwner ELSE sessions[b]]]
<1>a. /\ j \in DevJob
      /\ j.at = "saving" /\ j.op = "clean" /\ j.drop = owned
      /\ \A x \in Branches : j.map[x] = IF x \in owned THEN NoOwner ELSE sessions[x]
  BY CleanerWorks, DevIdleIsJob DEF SessionsInv, DevTyped, DevJob, DevIdle, NoSessions, Session, SomeBranch, DevStep
<1>b. Cleaner \in DevWorkers /\ devGoes(Cleaner, j)
  BY CleanerWorks DEF cleanupDevSessionsForChannel
<1> HIDE DEF j
<1>f. /\ devJob' \in [DevWorkers -> DevJob] /\ Cleaner \in DevWorkers
      /\ devJob'[Cleaner] = j /\ j.at = "saving" /\ j.op = "clean" /\ j.drop = owned
      /\ \A x \in Branches : j.map[x] = IF x \in owned THEN NoOwner ELSE sessions[x]
      /\ \A v \in DevWorkers : v # Cleaner => devJob'[v] = devJob[v]
  BY <1>a, <1>b, DevGoesTo DEF SessionsInv, DevTyped
<1>g. /\ entangled' = (entangled \/ meets(Cleaner, owned) \/ \E v \in DevCalls : holdsMap(v))
      /\ abandoned' = abandoned \cup UNION {unpublished(b) : b \in owned}
      /\ devJob[Cleaner].at = "idle" /\ devJob[Cleaner].op = "none" /\ devJob[Cleaner].drop = {}
      /\ owned \subseteq Branches /\ \A b \in owned : sessions[b] # NoOwner
      /\ UNCHANGED <<sessions, worktree, change, published, pull, doubled, blind, faults>>
  BY CleanerWorks, <1>f DEF cleanupDevSessionsForChannel, devAt, SessionsInv, Shapes, Shape
<1>c. \A x \in Changes : change[x].branch \in owned /\ change[x].place \in {"tree", "commits"} => x \in abandoned'
  BY <1>g DEF unpublished, changesOf
<1>k. abandoned \subseteq abandoned' /\ abandoned' \subseteq Changes
  BY <1>g DEF unpublished, changesOf, SessionsInv, DevTyped
<1>e. ~ entangled' => ~ entangled
  BY <1>g
<1>T. DevTyped'
  BY <1>f, <1>g, <1>k DEF SessionsInv, DevTyped, Session, SomeBranch, Worktree
<1>S. Shapes'
  BY <1>f, <1>g, <1>c, <1>k DEF SessionsInv, Shapes, Shape, devAt
<1>P. ChangesArePushed'
  BY <1>f, <1>g, <1>c, <1>k DEF SessionsInv, ChangesArePushed, Condemned, parting, concerns, devAt, changesOf, movedTo, unpublished, Change, DevTyped
<1>C. Condemned'
  BY <1>f, <1>g, <1>c, <1>k DEF SessionsInv, Condemned, parting, concerns, devAt, changesOf, movedTo, unpublished, Change
<1>N. NoSecondPull'
  BY <1>f, <1>g, <1>c, <1>k DEF SessionsInv, NoSecondPull, SearchHolds, devAt, parting, DevTyped, concerns
<1>H. SearchHolds'
  BY <1>f, <1>g, <1>c, <1>k DEF SessionsInv, SearchHolds, devAt, Shapes, Shape
<1>L. Listed'
  BY <1>f, <1>g, <1>c, <1>k DEF SessionsInv, Listed, DevTyped
<1>W. ASSUME ~ entangled', faults' = 0 PROVE (Alone /\ MapIsFresh /\ Paired /\ Stages)'
  <2>p. Alone /\ MapIsFresh /\ Paired /\ Stages
    <3>1. ~ entangled /\ faults = 0
      BY <1>W, <1>g, <1>e
    <3> QED BY <3>1 DEF SessionsInv, Worktrees
  <2>m. /\ \A v \in DevWorkers : v # Cleaner => ~ holdsMap(v)
        /\ \A v \in DevWorkers, b \in owned : v # Cleaner => ~ concerns(v, b)
    <3>1. ~ meets(Cleaner, owned) /\ ~ \E v \in DevCalls : holdsMap(v)
      BY <1>W, <1>g
    <3> QED BY <3>1 DEF meets, DevWorkers
  <2>A. Alone'
    BY <1>W, <1>f, <1>g, <1>c, <1>k, <2>p, <2>m DEF Alone, concerns, holdsMap, devAt, meets
  <2>M. MapIsFresh'
    BY <1>W, <1>f, <1>g, <1>c, <1>k, <2>p, <2>m DEF MapIsFresh, Alone, concerns, holdsMap, devAt
  <2>O. Paired'
    BY <1>W, <1>f, <1>g, <1>c, <1>k, <2>p, <2>m DEF Paired, concerns, meets, devAt
  <2>G. Stages'
    <3>1. ASSUME NEW v \in DevWorkers, v # Cleaner, NEW x \in Branches, concerns(v, x)' PROVE Stage(v, x)'
      <4>1. concerns(v, x) /\ ~ concerns(Cleaner, x) /\ Stage(v, x) /\ devJob'[v] = devJob[v]
        BY <3>1, <1>f, <2>p, <2>m DEF concerns, Stages, Alone
      <4> QED BY <3>1, <4>1, <1>f, <1>g, <1>c, <1>k, <2>m DEF Stage, devAt, concerns
    <3>2. ASSUME NEW x \in Branches, concerns(Cleaner, x)' PROVE Stage(Cleaner, x)'
      BY <3>2, <1>W, <1>f, <1>g, <1>c, <1>k, <2>p, <2>m DEF Stage, Stages, Paired, concerns, devAt
    <3> QED BY <3>1, <3>2 DEF Stages
  <2> QED BY <2>A, <2>M, <2>O, <2>G
<1> QED BY <1>T, <1>S, <1>P, <1>C, <1>N, <1>H, <1>L, <1>W DEF SessionsInv, Worktrees

LEMMA CleanSavedSound ==
    ASSUME SessionsInv, faults \in Nat, SessionsSaved(Cleaner), UNCHANGED faults
    PROVE  SessionsInv'
<1> DEFINE j == [devJob[Cleaner] EXCEPT !.at = "dropping"]
<1>a. /\ j \in DevJob
      /\ j.at = "dropping" /\ j.op = devJob[Cleaner].op /\ j.drop = devJob[Cleaner].drop
  BY CleanerWorks, DevIdleIsJob DEF SessionsInv, DevTyped, DevJob, DevIdle, NoSessions, Session, SomeBranch, DevStep
<1>b. Cleaner \in DevWorkers /\ devGoes(Cleaner, j)
  BY CleanerWorks DEF SessionsSaved, devMoves
<1> HIDE DEF j
<1>f. /\ devJob' \in [DevWorkers -> DevJob] /\ Cleaner \in DevWorkers
      /\ devJob'[Cleaner] = j /\ j.at = "dropping" /\ j.op = devJob[Cleaner].op /\ j.drop = devJob[Cleaner].drop
      /\ \A v \in DevWorkers : v # Cleaner => devJob'[v] = devJob[v]
  BY <1>a, <1>b, DevGoesTo DEF SessionsInv, DevTyped
<1>g. /\ devJob[Cleaner].at = "saving" /\ devJob[Cleaner].op = "clean" /\ sessions' = devJob[Cleaner].map
      /\ UNCHANGED <<worktree, change, pull, doubled, blind, abandoned, entangled, faults>>
      /\ devJob[Cleaner].map \in [Branches -> Session]
  BY CleanerWorks, <1>f DEF SessionsInv, Shapes, Shape, SessionsSaved, devAt, devHistory, DevTyped, DevJob
<1>e. ~ entangled' => ~ entangled
  BY <1>g
<1>T. DevTyped'
  BY <1>f, <1>g DEF SessionsInv, DevTyped, unpublished, changesOf, Session, SomeBranch, Worktree, Change
<1>S. Shapes'
  BY <1>f, <1>g DEF SessionsInv, Shapes, Shape, devAt
<1>P. ChangesArePushed'
  BY <1>f, <1>g DEF SessionsInv, ChangesArePushed, Condemned, parting, concerns, devAt, changesOf, movedTo, unpublished, Change, DevTyped
<1>C. Condemned'
  BY <1>f, <1>g DEF SessionsInv, Condemned, parting, concerns, devAt, changesOf, movedTo, unpublished, Change
<1>N. NoSecondPull'
  BY <1>f, <1>g DEF SessionsInv, NoSecondPull, SearchHolds, devAt, parting, DevTyped, concerns
<1>H. SearchHolds'
  BY <1>f, <1>g DEF SessionsInv, SearchHolds, devAt, Shapes, Shape
<1>L. Listed'
  BY <1>f, <1>g DEF SessionsInv, Listed, DevTyped
<1>W. ASSUME ~ entangled', faults' = 0 PROVE (Alone /\ MapIsFresh /\ Paired /\ Stages)'
  <2>p. Alone /\ MapIsFresh /\ Paired /\ Stages
    <3>1. ~ entangled /\ faults = 0
      BY <1>W, <1>g, <1>e
    <3> QED BY <3>1 DEF SessionsInv, Worktrees
  <2>m. /\ \A v \in DevWorkers : v # Cleaner => ~ holdsMap(v)
        /\ \A x \in Branches : x \notin devJob[Cleaner].drop => sessions'[x] = sessions[x]
        /\ \A x \in Branches : x \in devJob[Cleaner].drop => sessions'[x] = NoOwner
    BY <1>f, <1>g, <2>p, CleanerWorks DEF Alone, holdsMap, devAt, MapIsFresh, concerns, Stages, Stage
  <2>A. Alone'
    BY <1>W, <1>f, <1>g, <2>p, <2>m DEF Alone, concerns, holdsMap, devAt, meets
  <2>M. MapIsFresh'
    BY <1>W, <1>f, <1>g, <2>p, <2>m DEF MapIsFresh, Alone, concerns, holdsMap, devAt
  <2>O. Paired'
    BY <1>W, <1>f, <1>g, <2>p, <2>m DEF Paired, concerns, meets, devAt
  <2>G. Stages'
    <3>1. ASSUME NEW v \in DevWorkers, v # Cleaner, NEW x \in Branches, concerns(v, x)' PROVE Stage(v, x)'
      <4>1. concerns(v, x) /\ ~ concerns(Cleaner, x) /\ Stage(v, x) /\ devJob'[v] = devJob[v]
        BY <3>1, <1>f, <2>p, <2>m DEF concerns, Stages, Alone
      <4> QED BY <3>1, <4>1, <1>f, <1>g, <2>m DEF Stage, devAt, concerns
    <3>2. ASSUME NEW x \in Branches, concerns(Cleaner, x)' PROVE Stage(Cleaner, x)'
      BY <3>2, <1>W, <1>f, <1>g, <2>p, <2>m DEF Stage, Stages, Paired, concerns, devAt
    <3> QED BY <3>1, <3>2 DEF Stages
  <2> QED BY <2>A, <2>M, <2>O, <2>G
<1> QED BY <1>T, <1>S, <1>P, <1>C, <1>N, <1>H, <1>L, <1>W DEF SessionsInv, Worktrees

LEMMA DropsSound ==
    ASSUME SessionsInv, faults \in Nat, Drops, UNCHANGED faults, NEW drop, drop = devJob[Cleaner].drop
    PROVE  SessionsInv'
<1> DEFINE j == DevIdle
<1>a. /\ j \in DevJob
      /\ j.at = "idle" /\ j.op = "none" /\ j.drop = {}
  BY CleanerWorks, DevIdleIsJob DEF SessionsInv, DevTyped, DevJob, DevIdle, NoSessions, Session, SomeBranch, DevStep
<1>b. Cleaner \in DevWorkers /\ devGoes(Cleaner, j)
  BY CleanerWorks DEF Drops, devReturns
<1> HIDE DEF j
<1>f. /\ devJob' \in [DevWorkers -> DevJob] /\ Cleaner \in DevWorkers
      /\ devJob'[Cleaner] = j /\ j.at = "idle" /\ j.op = "none" /\ j.drop = {}
      /\ \A v \in DevWorkers : v # Cleaner => devJob'[v] = devJob[v]
  BY <1>a, <1>b, DevGoesTo DEF SessionsInv, DevTyped
<1>g. /\ devJob[Cleaner].at = "dropping" /\ devJob[Cleaner].op = "clean" /\ drop = devJob[Cleaner].drop
      /\ worktree' = [b \in Branches |-> IF b \in drop THEN [worktree[b] EXCEPT !.dir = FALSE] ELSE worktree[b]]
      /\ change' = movedTo(UNION {unpublished(b) : b \in drop}, "lost")
      /\ UNCHANGED <<sessions, pull, doubled, blind, abandoned, entangled, faults>>
      /\ drop \subseteq Branches
  BY CleanerWorks, <1>f DEF SessionsInv, Shapes, Shape, Drops, devAt, devHistory, DevTyped, DevJob
<1>w. \A b \in Branches : worktree[b] \in Worktree
  BY <1>g DEF SessionsInv, DevTyped
<1>k. /\ worktree' \in [Branches -> Worktree]
      /\ \A b \in Branches : worktree'[b].listed = worktree[b].listed
      /\ \A b \in Branches : worktree'[b].dir = (b \notin drop /\ worktree[b].dir)
  <2>1. ASSUME NEW e \in Worktree
        PROVE  LET shut == [e EXCEPT !.dir = FALSE] IN shut \in Worktree /\ shut.dir = FALSE /\ shut.listed = e.listed
    BY DEF Worktree
  <2>2. ASSUME NEW b \in Branches
        PROVE  /\ worktree'[b] \in Worktree /\ worktree'[b].listed = worktree[b].listed
               /\ worktree'[b].dir = (b \notin drop /\ worktree[b].dir)
    <3>1. PICK e \in Worktree : e = worktree[b]
      BY <1>w
    <3>2. worktree'[b] = IF b \in drop THEN [e EXCEPT !.dir = FALSE] ELSE e
      BY <1>g, <3>1
    <3>3. CASE b \in drop
      BY <2>1, <3>1, <3>2, <3>3
    <3>4. CASE b \notin drop
      BY <3>1, <3>2, <3>4 DEF Worktree
    <3> QED BY <3>3, <3>4
  <2>3. worktree' = [b \in Branches |-> worktree'[b]]
    BY <1>g
  <2> QED BY <2>2, <2>3
<1>u. \A x \in Changes : (x \in UNION {unpublished(b) : b \in drop})
                          <=> (change[x].branch \in drop /\ change[x].place \in {"tree", "commits"})
  BY <1>g DEF unpublished, changesOf
<1>c. \A x \in Changes : change'[x] = IF change[x].branch \in drop /\ change[x].place \in {"tree", "commits"}
                                       THEN [change[x] EXCEPT !.place = "lost"] ELSE change[x]
  BY <1>g, <1>u DEF movedTo
<1>d. change' \in [Changes -> Change]
  BY <1>g, MovedToTyped DEF SessionsInv
<1>e. ~ entangled' => ~ entangled
  BY <1>g
<1>T. DevTyped'
  BY <1>f, <1>g, <1>k, <1>d DEF SessionsInv, DevTyped, Session, SomeBranch
<1>S. Shapes'
  BY <1>f, <1>g, <1>c, <1>k DEF SessionsInv, Shapes, Shape, devAt
<1>P. ChangesArePushed'
  BY <1>f, <1>g, <1>c, <1>k DEF SessionsInv, ChangesArePushed, Condemned, parting, concerns, devAt, changesOf, movedTo, unpublished, Change, DevTyped
<1>C. Condemned'
  BY <1>f, <1>g, <1>c, <1>k DEF SessionsInv, Condemned, parting, concerns, devAt, changesOf, movedTo, unpublished, Change
<1>N. NoSecondPull'
  BY <1>f, <1>g, <1>c, <1>k DEF SessionsInv, NoSecondPull, SearchHolds, devAt, parting, DevTyped, concerns
<1>H. SearchHolds'
  BY <1>f, <1>g, <1>c, <1>k DEF SessionsInv, SearchHolds, devAt, Shapes, Shape
<1>L. Listed'
  BY <1>f, <1>g, <1>c, <1>k DEF SessionsInv, Listed, DevTyped
<1>W. ASSUME ~ entangled', faults' = 0 PROVE (Alone /\ MapIsFresh /\ Paired /\ Stages)'
  <2>p. Alone /\ MapIsFresh /\ Paired /\ Stages
    <3>1. ~ entangled /\ faults = 0
      BY <1>W, <1>g, <1>e
    <3> QED BY <3>1 DEF SessionsInv, Worktrees
  <2>A. Alone'
    BY <1>W, <1>f, <1>g, <1>c, <1>k, <2>p DEF Alone, concerns, holdsMap, devAt, meets
  <2>M. MapIsFresh'
    BY <1>W, <1>f, <1>g, <1>c, <1>k, <2>p DEF MapIsFresh, Alone, concerns, holdsMap, devAt
  <2>O. Paired'
    <3> SUFFICES ASSUME NEW b \in Branches, \A v \in DevWorkers : ~ concerns(v, b)'
                 PROVE  ((sessions[b] # NoOwner) <=> worktree[b].dir)'
      BY DEF Paired
    <3>1. CASE concerns(Cleaner, b)
      BY <3>1, <1>f, <1>g, <1>k, <2>p DEF Stages, Stage, devAt, concerns
    <3>2. CASE ~ concerns(Cleaner, b)
      <4>1. \A v \in DevWorkers : ~ concerns(v, b)
        BY <3>2, <1>f DEF concerns
      <4> QED BY <4>1, <3>2, <1>g, <1>k, <2>p DEF Paired, concerns
    <3> QED BY <3>1, <3>2
  <2>G. Stages'
    <3>1. ASSUME NEW v \in DevWorkers, v # Cleaner, NEW x \in Branches, concerns(v, x)' PROVE Stage(v, x)'
      <4>1. concerns(v, x) /\ ~ concerns(Cleaner, x) /\ Stage(v, x) /\ devJob'[v] = devJob[v]
        BY <3>1, <1>f, <2>p DEF concerns, Stages, Alone
      <4> QED BY <3>1, <4>1, <1>f, <1>g, <1>c, <1>k DEF Stage, devAt, concerns
    <3>2. ASSUME NEW x \in Branches, concerns(Cleaner, x)' PROVE Stage(Cleaner, x)'
      BY <3>2, <1>W, <1>f, <1>g, <1>c, <1>k, <2>p DEF Stage, Stages, Paired, concerns, devAt
    <3> QED BY <3>1, <3>2 DEF Stages
  <2> QED BY <2>A, <2>M, <2>O, <2>G
<1> QED BY <1>T, <1>S, <1>P, <1>C, <1>N, <1>H, <1>L, <1>W DEF SessionsInv, Worktrees

-----------------------------------------------------------------------------
(* The agent, the reviewers, and what ends without a word.                 *)
LEMMA ChangesSound ==
    ASSUME SessionsInv, NEW x \in Changes, NEW b \in Branches, AgentChanges(x, b), UNCHANGED faults
    PROVE  SessionsInv'
<1>1. /\ change[x].place = "none" /\ change' = [change EXCEPT ![x] = [branch |-> b, place |-> "tree"]]
      /\ abandoned \subseteq abandoned' /\ abandoned' \subseteq Changes
      /\ UNCHANGED <<sessions, worktree, pull, devJob, doubled, blind, entangled, faults>>
  BY DEF AgentChanges, SessionsInv, DevTyped
<1>2. \A w \in DevWorkers : parting(w) /\ concerns(w, b) => x \in abandoned'
  BY DEF AgentChanges, parting
<1>3. change' \in [Changes -> Change] /\ change'[x] = [branch |-> b, place |-> "tree"]
      /\ \A y \in Changes : y # x => change'[y] = change[y]
  <2>1. [branch |-> b, place |-> "tree"] \in Change
    BY DEF Change, SomeBranch
  <2> QED BY <1>1, <2>1 DEF SessionsInv, DevTyped
<1>4. DevTyped' /\ Shapes' /\ NoSecondPull' /\ SearchHolds' /\ Listed'
  BY <1>1, <1>3 DEF SessionsInv, DevTyped, Shapes, NoSecondPull, SearchHolds, Listed, devAt, DevWorkers
<1>5. ChangesArePushed'
  BY <1>1, <1>3 DEF SessionsInv, ChangesArePushed
<1>6. Condemned'
  BY <1>1, <1>2, <1>3 DEF SessionsInv, Condemned, parting, concerns, devAt
<1>7. Worktrees'
  BY <1>1 DEF SessionsInv, Worktrees, Alone, MapIsFresh, Paired, Stages, Stage, holdsMap, devAt, concerns, DevWorkers
<1> QED BY <1>4, <1>5, <1>6, <1>7 DEF SessionsInv

LEMMA ReviewedSound ==
    ASSUME SessionsInv, NEW b \in Branches, Reviewed(b), UNCHANGED faults
    PROVE  SessionsInv'
<1>1. /\ pull[b] = "open" /\ pull' \in [Branches -> {"none", "open", "merged", "closed"}]
      /\ \A d \in Branches : d # b => pull'[d] = pull[d]
      /\ blind' = (blind \/ \E c \in DevCalls : devAt(c, "creating") /\ devJob[c].branch = b)
      /\ UNCHANGED <<sessions, worktree, change, devJob, doubled, entangled, abandoned, faults>>
  BY DEF Reviewed, SessionsInv, DevTyped
<1>2. DevTyped' /\ Shapes' /\ ChangesArePushed' /\ Condemned' /\ NoSecondPull' /\ Listed'
  BY <1>1 DEF SessionsInv, DevTyped, Shapes, NoSecondPull, ChangesArePushed, Condemned, Listed, parting, concerns, devAt, DevWorkers
<1>3. SearchHolds'
  <2> SUFFICES ASSUME NEW w \in DevWorkers, devAt(w, "creating"), devJob[w].op = "end", ~ blind'
               PROVE  pull'[devJob[w].branch] # "merged"
    BY <1>1 DEF SearchHolds, devAt
  <2>1. ~ blind /\ (w \in DevCalls => devJob[w].branch # b)
    BY <1>1
  <2>2. w \in DevCalls /\ devJob[w].branch \in Branches /\ pull[devJob[w].branch] # "merged"
    BY <2>1 DEF SessionsInv, SearchHolds, Shapes, Shape, DevWorkers
  <2> QED BY <1>1, <2>1, <2>2
<1>4. Worktrees'
  BY <1>1 DEF SessionsInv, Worktrees, Alone, MapIsFresh, Paired, Stages, Stage, holdsMap, devAt, concerns, DevWorkers
<1> QED BY <1>2, <1>3, <1>4 DEF SessionsInv

LEMMA GivenUpSound ==
    ASSUME SessionsInv, faults \in Nat, faults' = faults + 1, devJob' \in [DevWorkers -> DevJob],
           \A w \in DevWorkers : devJob'[w] = devJob[w] \/ devJob'[w] = DevIdle,
           UNCHANGED <<sessions, worktree, change, pull, doubled, blind, entangled, abandoned>>
    PROVE  SessionsInv'
<1>1. DevTyped' /\ ChangesArePushed' /\ NoSecondPull' /\ Listed' /\ Worktrees'
  BY DEF SessionsInv, DevTyped, ChangesArePushed, NoSecondPull, Listed, Worktrees
<1>2. Shapes'
  BY DevIdleIsJob DEF SessionsInv, Shapes, Shape
<1>3. Condemned'
  BY DevIdleIsJob DEF SessionsInv, Condemned, parting, concerns, devAt
<1>4. SearchHolds'
  BY DevIdleIsJob DEF SessionsInv, SearchHolds, devAt
<1> QED BY <1>1, <1>2, <1>3, <1>4 DEF SessionsInv

LEMMA SessionsKept ==
    ASSUME SessionsInv, faults \in Nat, faults' \in {faults, faults + 1}, UNCHANGED <<devVars, devHistory>>
    PROVE  SessionsInv'
  BY DEF SessionsInv, devVars, devHistory, DevTyped, Shapes, ChangesArePushed, Condemned, NoSecondPull, SearchHolds, Listed,
         Worktrees, Alone, MapIsFresh, Paired, Stages, Stage, parting, concerns, holdsMap, devAt, DevWorkers

-----------------------------------------------------------------------------
LEMMA FaultsGrow == ASSUME faults \in Nat, RepoSteps PROVE faults' \in {faults, faults + 1}
<1>1. ASSUME NEW c \in Calls, Tools(c) PROVE UNCHANGED faults
  BY <1>1 DEF Tools, repo_add, repo_sync, repo_remove, repo_request_access, SyncReads, repoHistory
<1>2. ASSUME NEW w \in Workers, Fetches(w) \/ Saves(w) PROVE UNCHANGED faults
  BY <1>2 DEF Fetches, Saves, repoHistory
<1>3. ASSUME SweepSteps PROVE UNCHANGED faults
  BY <1>3 DEF SweepSteps, SweepBegins, SweepGoesOn, RefreshReads, expireGrant, dropUnusedClone, refreshRepo, repoHistory
<1>4. ASSUME Agent PROVE UNCHANGED faults
  BY <1>4 DEF Agent, NextTurn, AgentEdits, AgentCommits, Pushes, repoHistory
<1>5. ASSUME SyncBegins \/ SyncPulls \/ gitRebaseAbort \/ SyncPushes PROVE UNCHANGED faults
  BY <1>5 DEF SyncBegins, SyncPulls, gitRebaseAbort, SyncPushes, repoHistory
<1>6. ASSUME confirmRepoGrant \/ Declines \/ Ticks \/ \E r \in Repos : OthersPush(r) PROVE UNCHANGED faults
  BY <1>6 DEF confirmRepoGrant, Declines, Ticks, OthersPush, repoHistory
<1>7. ASSUME AbortTimesOut \/ \E w \in Workers : SaveFails(w) PROVE faults' = faults + 1
  BY <1>7 DEF AbortTimesOut, SaveFails, lapses
<1> QED BY <1>1, <1>2, <1>3, <1>4, <1>5, <1>6, <1>7 DEF RepoSteps, VaultSteps

LEMMA CallSteps ==
    ASSUME SessionsInv, faults \in Nat, UNCHANGED faults, NEW c \in DevCalls,
           StartAdds(c) \/ gitPush(c) \/ Finds(c) \/ Creates(c) \/ Removes(c)
    PROVE  SessionsInv'
<1> DEFINE b == devJob[c].branch
<1>0. c \in DevWorkers /\ devJob[c] \in DevJob /\ DevTyped
  BY CleanerWorks DEF SessionsInv, DevTyped
<1>1. CASE StartAdds(c)
  <2>1. CASE devReturns(c) /\ UNCHANGED <<worktree, entangled>>
    BY <1>1, <2>1, ReturnsSound, <1>0 DEF StartAdds, devAt, DevTyped
  <2> QED BY <1>1, <2>1, AddsSound DEF StartAdds
<1>2. CASE gitPush(c)
  <2>1. CASE devReturns(c) /\ UNCHANGED <<published, change>>
    BY <1>2, <2>1, ReturnsSound, <1>0 DEF gitPush, devAt, DevTyped, devHistory
  <2> QED BY <1>2, <2>1, PushSound DEF gitPush
<1>3. CASE Finds(c)
  <2>1. /\ devJob[c].at = "finding" /\ devJob[c].op \in {"pr", "end"} /\ b \in Branches
        /\ UNCHANGED <<sessions, worktree, change, pull, doubled, entangled, abandoned, faults>>
    BY <1>3, <1>0 DEF Finds, devAt, SessionsInv, Shapes, Shape, DevJob
  <2>2. PICK state \in {pull[b], "none"} :
          /\ blind' \in BOOLEAN /\ (blind => blind') /\ (state = pull[b] \/ blind')
          /\ \/ shouldCreate(devJob[c].op, state) /\ devGoes(c, [devJob[c] EXCEPT !.at = "creating"])
             \/ ~ shouldCreate(devJob[c].op, state) /\ devJob[c].op = "end" /\ devGoes(c, [devJob[c] EXCEPT !.at = "removing"])
             \/ devGoes(c, DevIdle)
    <3> DEFINE next(state) ==
                 CASE shouldCreate(devJob[c].op, state) -> [devJob[c] EXCEPT !.at = "creating"]
                   [] ~ shouldCreate(devJob[c].op, state) /\ devJob[c].op = "end" -> [devJob[c] EXCEPT !.at = "removing"]
                   [] OTHER -> DevIdle
    <3>1. ASSUME NEW state
          PROVE  \/ shouldCreate(devJob[c].op, state) /\ next(state) = [devJob[c] EXCEPT !.at = "creating"]
                 \/ ~ shouldCreate(devJob[c].op, state) /\ devJob[c].op = "end" /\ next(state) = [devJob[c] EXCEPT !.at = "removing"]
                 \/ next(state) = DevIdle
      OBVIOUS
    <3>2. \/ devGoes(c, next(pull[b])) /\ UNCHANGED blind
          \/ devGoes(c, next("none")) /\ blind' = TRUE
      BY <1>3 DEF Finds, ghPRFind
    <3> HIDE DEF next
    <3>3. CASE devGoes(c, next(pull[b])) /\ UNCHANGED blind
      BY <3>1, <3>3, <1>0 DEF DevTyped
    <3>4. CASE devGoes(c, next("none")) /\ blind' = TRUE
      BY <3>1, <3>4, <1>0 DEF DevTyped
    <3> QED BY <3>2, <3>3, <3>4
  <2>3. CASE devGoes(c, DevIdle)
    BY <2>1, <2>2, <2>3, ReturnsSound, <1>0 DEF devReturns, DevTyped
  <2>4. CASE shouldCreate(devJob[c].op, state) /\ devGoes(c, [devJob[c] EXCEPT !.at = "creating"])
    <3>1. devMoves(c, "creating")
      BY <2>4 DEF devMoves
    <3>2. devJob[c].op = "end" => blind' \/ pull'[b] # "merged"
      BY <2>1, <2>2, <2>4 DEF shouldCreate, shouldCreatePRForEnd
    <3> QED BY <2>1, <2>2, <3>1, <3>2, MovesSound, <1>0 DEF DevTyped
  <2>5. CASE devJob[c].op = "end" /\ devGoes(c, [devJob[c] EXCEPT !.at = "removing"])
    <3>1. devMoves(c, "removing")
      BY <2>5 DEF devMoves
    <3> QED BY <2>1, <2>2, <2>5, <3>1, MovesSound, <1>0 DEF DevTyped
  <2> QED BY <2>2, <2>3, <2>4, <2>5
<1>4. CASE Creates(c)
  <2>1. /\ devJob[c].at = "creating" /\ devJob[c].op \in {"pr", "end"} /\ b \in Branches
        /\ UNCHANGED <<sessions, worktree, change, blind, entangled, abandoned, faults>>
    BY <1>4, <1>0 DEF Creates, devAt, SessionsInv, Shapes, Shape, DevJob
  <2>2. CASE devReturns(c) /\ UNCHANGED <<pull, doubled>>
    BY <2>1, <2>2, ReturnsSound, <1>0 DEF DevTyped
  <2>3. CASE /\ pull' = [pull EXCEPT ![b] = "open"]
             /\ doubled' = (doubled \/ (pull[b] = "merged" /\ devJob[c].op = "end"))
             /\ IF devJob[c].op = "end" THEN devMoves(c, "removing") ELSE devReturns(c)
    <3>1. /\ pull' \in [Branches -> {"none", "open", "merged", "closed"}]
          /\ \A d \in Branches : pull'[d] = "merged" => pull[d] = "merged"
      BY <2>1, <2>3, <1>0 DEF DevTyped
    <3>2. CASE devJob[c].op = "end"
      <4>1. doubled' \in BOOLEAN /\ (doubled' => doubled \/ pull[b] = "merged")
        BY <2>3, <1>0 DEF DevTyped
      <4>2. pull[b] = "merged" => blind
        BY <2>1, <3>2, <1>0 DEF SessionsInv, SearchHolds, devAt
      <4> QED BY <2>1, <2>3, <3>1, <3>2, <4>1, <4>2, MovesSound, <1>0 DEF DevTyped
    <3>3. CASE devJob[c].op # "end"
      <4>1. UNCHANGED doubled
        BY <2>3, <3>3, <1>0 DEF DevTyped
      <4> QED BY <2>1, <2>3, <3>1, <3>3, <4>1, ReturnsSound, <1>0 DEF DevTyped
    <3> QED BY <3>2, <3>3
  <2> QED BY <1>4, <2>2, <2>3 DEF Creates
<1>5. CASE Removes(c)
  <2>1. devAt(c, "removing") /\ UNCHANGED <<sessions, pull, doubled, blind, abandoned, faults>>
    BY <1>5 DEF Removes
  <2>2. CASE /\ worktree' = [worktree EXCEPT ![b] = NoWorktree]
             /\ change' = movedTo(unpublished(b), "lost")
             /\ devSaves(c, [sessions EXCEPT ![b] = NoOwner])
    BY <2>1, <2>2, RemovesSound
  <2>3. CASE ~ (worktree[b].dir /\ worktree[b].listed) /\ devJob[c].op = "end" /\ UNCHANGED <<worktree, change>>
             /\ devSaves(c, [sessions EXCEPT ![b] = NoOwner])
    BY <2>1, <2>3, RemovesNothingSound
  <2>4. CASE devReturns(c) /\ UNCHANGED <<worktree, change, entangled>>
    BY <2>1, <2>4, ReturnsSound, <1>0 DEF devAt, DevTyped
  <2> QED BY <1>5, <2>2, <2>3, <2>4 DEF Removes
<1> QED BY <1>1, <1>2, <1>3, <1>4, <1>5

LEMMA SessionsStep ==
    ASSUME SessionsInv, faults \in Nat, [WorkspaceNext]_allVars
    PROVE  SessionsInv' /\ faults' \in Nat
<1>1. CASE RepoSteps /\ UNCHANGED <<devVars, devHistory>>
  BY <1>1, FaultsGrow, SessionsKept
<1>2. CASE Restarts /\ DevRestarts
  <2>1. faults' = faults + 1 /\ UNCHANGED <<sessions, worktree, change, pull, doubled, blind, entangled, abandoned>>
    BY <1>2 DEF Restarts, lapses, DevRestarts, devHistory
  <2>2. devJob' = [w \in DevWorkers |-> DevIdle]
    BY <1>2 DEF DevRestarts
  <2> QED BY <2>1, <2>2, DevIdleIsJob, GivenUpSound
<1>3. CASE DevBegins /\ reposKept /\ UNCHANGED faults
  BY <1>3, StartSound, PublishesSound, CancelSound, CleanSound DEF DevBegins, DevTools, dev_pr, dev_end
<1>4. CASE DevFails /\ reposKept /\ UNCHANGED begun
  <2>1. PICK w \in DevWorkers : SessionsNotSaved(w)
    BY <1>4 DEF DevFails
  <2>2. faults' = faults + 1 /\ UNCHANGED <<sessions, worktree, change, pull, doubled, blind, entangled, abandoned>>
        /\ devJob' = [devJob EXCEPT ![w] = DevIdle]
    BY <2>1 DEF SessionsNotSaved, lapses, devHistory, devReturns, devGoes
  <2> QED BY <2>1, <2>2, DevIdleIsJob, GivenUpSound DEF SessionsInv, DevTyped
<1>5. CASE DevSteps /\ reposKept /\ UNCHANGED <<begun, faults>>
  <2>1. ASSUME NEW w \in DevWorkers, SessionsSaved(w) PROVE SessionsInv'
    BY <1>5, <2>1, SavedSound, CleanSavedSound DEF DevWorkers
  <2> QED BY <1>5, <2>1, CallSteps, DropsSound, ChangesSound, ReviewedSound DEF DevSteps
<1>6. CASE UNCHANGED allVars
  BY <1>6, SessionsKept DEF allVars, vars, repoHistory
<1> QED BY <1>1, <1>2, <1>3, <1>4, <1>5, <1>6 DEF WorkspaceNext

LEMMA SessionsStart == ASSUME WorkspaceInit PROVE SessionsInv /\ faults \in Nat
<1> USE DevIdleIsJob DEF WorkspaceInit, Init, DevInit
<1>1. DevTyped
  BY DEF DevTyped, NoSessions, Session, NoWorktree, Worktree, SomeBranch, Change
<1>2. Shapes
  BY DEF Shapes, Shape
<1>3. ChangesArePushed /\ Condemned /\ NoSecondPull /\ SearchHolds /\ Listed
  BY DEF ChangesArePushed, Condemned, NoSecondPull, SearchHolds, Listed, NoWorktree, parting, devAt
<1>4. Alone /\ MapIsFresh /\ Paired /\ Stages
  BY DEF Alone, MapIsFresh, Paired, Stages, concerns, holdsMap, devAt, NoSessions, NoWorktree
<1> QED BY <1>1, <1>2, <1>3, <1>4 DEF SessionsInv, Worktrees

LEMMA SessionsInvImplies == ASSUME SessionsInv, faults \in Nat PROVE SessionsAreAccountedFor
<1>1. WorktreesAreOwned
  <2> SUFFICES ASSUME \A w \in DevWorkers : devAt(w, "idle"), faults = 0, ~ entangled, NEW b \in Branches
               PROVE  (sessions[b] # NoOwner) <=> worktree[b].dir
    BY DEF WorktreesAreOwned
  <2>1. \A w \in DevWorkers : ~ concerns(w, b)
    BY DEF concerns, SessionsInv, Shapes, Shape, devAt
  <2> QED BY <2>1 DEF SessionsInv, Worktrees, Paired
<1> QED BY <1>1 DEF SessionsInv, SessionsAreAccountedFor

(* The inductive invariant of the development sessions: the types, the     *)
(* steps of each call, what is abandoned with a session, what dev_end      *)
(* found, and, until an overlap or a fault, who is at a branch and that    *)
(* the session map in hand is the stored one.                              *)
THEOREM SessionsInvariance == WorkspaceSpec => [](SessionsInv /\ faults \in Nat)
<1>1. WorkspaceInit => SessionsInv /\ faults \in Nat
  BY SessionsStart
<1>2. SessionsInv /\ faults \in Nat /\ [WorkspaceNext]_allVars => (SessionsInv /\ faults \in Nat)'
  BY SessionsStep
<1> QED BY <1>1, <1>2, PTL DEF WorkspaceSpec

(* SessionsAreAccountedFor: a change leaves the session it was made in     *)
(* only pushed or knowingly abandoned, a branch gets no second pull        *)
(* request for what was merged, and sessions and worktrees agree.          *)
THEOREM SessionsAccounted == WorkspaceSpec => []SessionsAreAccountedFor
<1>1. SessionsInv /\ faults \in Nat => SessionsAreAccountedFor
  BY SessionsInvImplies
<1> QED BY <1>1, SessionsInvariance, PTL
=============================================================================
