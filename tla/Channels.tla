------------------------------- MODULE Channels -------------------------------
(***************************************************************************)
(* The life of a channel: the configuration file and its writer            *)
(* (config/writer.go), the registry, the reconciler and the Telegram       *)
(* provisioner that gives a channel its bot, the tools that create, edit,  *)
(* delete and close a channel (tool/channeltools), the teardown the user   *)
(* confirmed (router/done.go), the job that reaps idle ephemeral channels  *)
(* (router/ephemeral.go) and the part of a router iteration that turns     *)
(* configuration into live transports.                                     *)
(*                                                                         *)
(* Five kinds of durable state have to agree and no transaction spans      *)
(* them: the configuration, the token in the secret store, the teardown    *)
(* state in the runtime state, the bot at Telegram and, in memory, the     *)
(* registry.  Every operation is the sequence of its writes.  The writer   *)
(* and the runtime state store lock, so each write is one step.            *)
(*                                                                         *)
(* Channels are Telegram channels with auto-provisioning available; a bot  *)
(* is a number and its token names it.                                     *)
(***************************************************************************)
EXTENDS Integers, FiniteSets

CONSTANTS
    Names,        \* channel names
    Ephemeral,    \* those that are created as ephemeral channels
    Configured,   \* those a first boot finds configured, each with its bot
    Visible,      \* those that visible_to_channels of a configured repository names
    Callers,      \* tool calls that may run at the same time
    Bridge,       \* the router's interception of a confirming reply
    Reaper,       \* the cleanup goroutine
    Router,       \* the iteration loop
    Nothing,
    MaxBots,      \* bound on bots ever created
    MaxCalls,     \* bound on tool calls and confirmations
    MaxReaps,     \* bound on cleanup ticks that find something to do
    MaxFaults     \* bound on failures and crashes together

VARIABLES
    config,       \* the configuration file: per channel the targets of its links, or Nothing
    secret,       \* per name: the bot whose token the secret store holds
    runtime,      \* per name: the bot of the teardown state, and whether activity is recorded
    bots,         \* Telegram: the bots that exist
    minted,       \* how many bots were created
    registry,     \* the names the channel tools look up
    tracker,      \* ActivityTracker: what is known of each name
    signal,       \* channelChangeCh holds a token
    live,         \* per name: the bot its transport runs on
    bootList,     \* managedUser.configChannels: the channels read when the process started
    current,      \* currentChannels of the iteration
    phase,        \* where the router is
    work,         \* per process: the operation it is in
    calls, reaps, faults,
    ownerOf,      \* history: per bot, the name it was created for
    disturbed,    \* history: names an operation failed on, crashed on or met another one on
    spoken,       \* history: names with a message since they were last created
    inherited,    \* history: names created while a record of earlier activity was left
    unwanted,     \* history: names a bot was created for while they were not configured
    announced     \* history: channels whose creation was reported, not live since

storeVars == <<config, secret, runtime>>
botVars == <<bots, minted, ownerOf>>
memVars == <<registry, tracker, live>>
roundVars == <<bootList, current, phase>>
budget == <<calls, reaps, faults>>
lifeVars == <<spoken, inherited>>
channelVars == <<config, secret, runtime, bots, minted, ownerOf, registry, tracker, live, signal,
          bootList, current, phase, work, calls, reaps, faults, disturbed, spoken, inherited,
          unwanted, announced>>

Procs == Callers \cup {Bridge, Reaper, Router}
Bots == 1 .. MaxBots

ASSUME ChannelsAssumption ==
    /\ Ephemeral \subseteq Names /\ Configured \subseteq Names
    /\ Visible \subseteq Configured
    /\ IsFiniteSet(Names) /\ Cardinality(Configured) <= MaxBots
    /\ MaxBots \in Nat /\ MaxCalls \in Nat /\ MaxReaps \in Nat /\ MaxFaults \in Nat
    /\ {Bridge, Reaper, Router} \cap Callers = {}
    /\ Bridge # Reaper /\ Bridge # Router /\ Reaper # Router
    /\ Nothing \notin Bots \cup Names /\ \A l \in SUBSET Names : l # Nothing

NoState == [bot |-> Nothing, at |-> FALSE]
Rest == [at |-> "rest", kind |-> "none", name |-> Nothing, bot |-> Nothing, list |-> {}, done |-> {},
         stale |-> FALSE]

named(cfg) == {n \in Names : cfg[n] # Nothing}

(* validate of config.go.  What may stop a configuration the tools wrote     *)
(* from loading is a name in it that no channel has: the target of a link,   *)
(* or one that a repository is visible to.                                   *)
valid(cfg) == Visible \cup UNION {cfg[n] : n \in named(cfg)} \subseteq named(cfg)

worksOn(p, n) == work[p].name = n \/ n \in work[p].list

(* A name p takes up while another process is at work on it. *)
meets(p, n) == IF \E o \in Procs \ {p} : worksOn(o, n) THEN {n} ELSE {}

fault == faults < MaxFaults /\ faults' = faults + 1 /\ UNCHANGED <<calls, reaps>>

onChannelChange == signal' = TRUE

ChannelsInit ==
    /\ config = [n \in Names |-> IF n \in Configured THEN {} ELSE Nothing]
    /\ minted = Cardinality(Configured)
    /\ bots = 1 .. minted
    /\ \E f \in [Configured -> bots] :
           /\ {f[n] : n \in Configured} = bots
           /\ \A m, n \in Configured : f[m] = f[n] => m = n
           /\ secret = [n \in Names |-> IF n \in Configured THEN f[n] ELSE Nothing]
           /\ runtime = [n \in Names |->
                            IF n \in Configured THEN [bot |-> f[n], at |-> FALSE] ELSE NoState]
           /\ ownerOf = [b \in Bots |->
                            IF b \in bots THEN CHOOSE n \in Configured : f[n] = b ELSE Nothing]
    /\ registry = Configured
    /\ tracker = [n \in Names |-> "unknown"]
    /\ signal = FALSE
    /\ live = [n \in Names |-> Nothing]
    /\ bootList = Configured /\ current = Configured
    /\ phase = "reload"
    /\ work = [p \in Procs |-> Rest]
    /\ calls = 0 /\ reaps = 0 /\ faults = 0
    /\ disturbed = {} /\ spoken = {} /\ inherited = {} /\ unwanted = {} /\ announced = {}

-----------------------------------------------------------------------------
(* Provisioning: reconciler.Reconcile of one channel, for channel_create     *)
(* (ReconcileOne) and for the router.  at = "reconcile" when it starts.      *)

(* IsReady: the secret store has a token.  Else, when the configuration did  *)
(* not reload (SkipProvision), the channel has to wait.                      *)
Looks(p) ==
    LET n == work[p].name
    IN  /\ work[p].at = "reconcile"
        /\ \/ secret[n] # Nothing /\ work' = [work EXCEPT ![p].at = "ready"]
           \/ /\ secret[n] = Nothing /\ work[p].stale
              /\ work' = [work EXCEPT ![p].at = "unready"]
        /\ UNCHANGED <<storeVars, botVars, memVars, roundVars, budget, lifeVars, signal,
                       disturbed, unwanted, announced>>

provisions(p) == work[p].at = "reconcile" /\ secret[work[p].name] = Nothing /\ ~work[p].stale

(* BotFather creates the bot.  Provision holds its token, or the answer is   *)
(* lost and Provision fails.                                                 *)
Mints(p) ==
    LET n == work[p].name
    IN  /\ provisions(p) /\ minted < MaxBots
        /\ minted' = minted + 1
        /\ bots' = bots \cup {minted + 1}
        /\ ownerOf' = [ownerOf EXCEPT ![minted + 1] = n]
        /\ unwanted' = IF config[n] = Nothing THEN unwanted \cup {n} ELSE unwanted
        /\ \/ /\ work' = [work EXCEPT ![p].at = "minted", ![p].bot = minted + 1]
              /\ UNCHANGED <<budget, disturbed>>
           \/ /\ work' = [work EXCEPT ![p].at = "unready"]
              /\ disturbed' = disturbed \cup {n}
              /\ fault
        /\ UNCHANGED <<storeVars, memVars, roundVars, lifeVars, signal, announced>>

(* BotFather refuses: an account has a limit of bots. *)
MintRefused(p) ==
    /\ provisions(p) /\ minted = MaxBots
    /\ work' = [work EXCEPT ![p].at = "unready"]
    /\ UNCHANGED <<storeVars, botVars, memVars, roundVars, budget, lifeVars, signal, disturbed,
                   unwanted, announced>>

(* Seeded fault: the teardown state is not stored. *)
StoresTokenOnly(p) ==
    /\ work[p].at = "minted"
    /\ secret' = [secret EXCEPT ![work[p].name] = work[p].bot]
    /\ work' = [work EXCEPT ![p].at = "ready", ![p].bot = Nothing]
    /\ UNCHANGED <<config, runtime, botVars, memVars, roundVars, budget, lifeVars, signal,
                   disturbed, unwanted, announced>>

(* SecretStore.Set of the token: from here on IsReady is true.  Then         *)
(* RuntimeState.Update with the platform and the teardown state.             *)
Stores(p) ==
    /\ \/ /\ work[p].at = "minted"
          /\ secret' = [secret EXCEPT ![work[p].name] = work[p].bot]
          /\ work' = [work EXCEPT ![p].at = "sealed"]
          /\ UNCHANGED runtime
       \/ /\ work[p].at = "sealed"
          /\ runtime' = [runtime EXCEPT ![work[p].name].bot = work[p].bot]
          /\ work' = [work EXCEPT ![p].at = "ready", ![p].bot = Nothing]
          /\ UNCHANGED secret
    /\ UNCHANGED <<config, botVars, memVars, roundVars, budget, lifeVars, signal, disturbed,
                   unwanted, announced>>

(* Either write fails: of the token, which fails this channel, or of the     *)
(* runtime state, which ends the whole reconciliation.                       *)
StoreFails(p) ==
    /\ work[p].at \in {"minted", "sealed"}
    /\ work' = [work EXCEPT ![p].at = IF @ = "minted" THEN "unready" ELSE "aborted",
                            ![p].bot = Nothing]
    /\ disturbed' = disturbed \cup {work[p].name}
    /\ fault
    /\ UNCHANGED <<storeVars, botVars, memVars, roundVars, lifeVars, signal, unwanted,
                   announced>>

-----------------------------------------------------------------------------
(* channel_create and channel_edit. *)

callBegins(p) ==
    /\ work[p] = Rest /\ phase = "running"
    /\ calls < MaxCalls /\ calls' = calls + 1
    /\ UNCHANGED <<reaps, faults>>

(* The arguments pass, among them that no channel has the name.  A link may  *)
(* name any other channel, one that does not exist too.                      *)
CreateBegins(p, n, l) ==
    /\ callBegins(p)
    /\ n \notin registry /\ n \notin l
    /\ work' = [work EXCEPT ![p] = [Rest EXCEPT !.at = "adding", !.kind = "create", !.name = n,
                                                !.done = l]]
    /\ disturbed' = disturbed \cup meets(p, n)
    /\ UNCHANGED <<storeVars, botVars, memVars, roundVars, lifeVars, signal, unwanted,
                   announced>>

(* AddChannel refuses a name the file has; then Registry.Add. *)
CreateAdds(p) ==
    LET n == work[p].name
    IN  /\ work[p].at = "adding"
        /\ \/ /\ config[n] # Nothing
              /\ work' = [work EXCEPT ![p] = Rest]
              /\ UNCHANGED <<config, registry, lifeVars>>
           \/ /\ config[n] = Nothing
              /\ config' = [config EXCEPT ![n] = work[p].done]
              /\ registry' = registry \cup {n}
              /\ work' = [work EXCEPT ![p].at = "reconcile", ![p].done = {}]
              /\ spoken' = spoken \ {n}
              /\ inherited' = IF tracker[n] # "unknown" \/ runtime[n].at
                              THEN inherited \cup {n} ELSE inherited \ {n}
        /\ UNCHANGED <<secret, runtime, botVars, tracker, live, roundVars, budget, signal,
                       disturbed, unwanted, announced>>

(* Seeded fault: the router is not told of a new channel. *)
CreateReturnsQuietly(p) ==
    /\ work[p].kind = "create" /\ work[p].at \in {"ready", "unready", "aborted"}
    /\ announced' = IF work[p].at = "ready" THEN announced \cup {work[p].name} ELSE announced
    /\ work' = [work EXCEPT ![p] = Rest]
    /\ UNCHANGED <<storeVars, botVars, memVars, roundVars, budget, lifeVars, signal, disturbed,
                   unwanted>>

(* ReconcileOne returned.  An error is reported and nothing is signalled. *)
CreateReturns(p) ==
    /\ work[p].kind = "create"
    /\ \/ /\ work[p].at = "ready" /\ onChannelChange
          /\ announced' = announced \cup {work[p].name}
       \/ work[p].at \in {"unready", "aborted"} /\ UNCHANGED <<signal, announced>>
    /\ work' = [work EXCEPT ![p] = Rest]
    /\ UNCHANGED <<storeVars, botVars, memVars, roundVars, budget, lifeVars, disturbed,
                   unwanted>>

(* channel_edit replaces the links of a registered channel: UpdateChannel    *)
(* under the writer's lock, which fails when the file no longer has it.      *)
Edit(p, n, l) ==
    /\ callBegins(p)
    /\ n \in registry /\ n \notin l
    /\ \/ config[n] = Nothing /\ UNCHANGED <<config, signal>>
       \/ /\ config[n] # Nothing
          /\ config' = [config EXCEPT ![n] = l]
          /\ onChannelChange
    /\ UNCHANGED <<secret, runtime, botVars, memVars, roundVars, lifeVars, work, disturbed,
                   unwanted, announced>>

-----------------------------------------------------------------------------
(* Teardown: channel_delete, channel_done without a chat to ask in, the      *)
(* confirmed channel_done and the reaper run the same sequence; only the     *)
(* first two take the name out of the registry.                              *)

(* The runtime state is read; without teardown state there is nothing to     *)
(* tear down at Telegram.                                                    *)
tearing(w, k, n) ==
    [w EXCEPT !.at = IF runtime[n].bot # Nothing THEN "tearing" ELSE "unconfigure",
              !.kind = k, !.name = n, !.bot = runtime[n].bot, !.list = @ \ {n}]

(* channel_delete, or channel_done on a channel whose runtime state has no   *)
(* chat: the chat is recorded together with the bot.                         *)
DeleteBegins(p, n) ==
    /\ callBegins(p)
    /\ n \in registry
    /\ work' = [work EXCEPT ![p] = tearing(Rest, "delete", n)]
    /\ disturbed' = disturbed \cup meets(p, n)
    /\ UNCHANGED <<storeVars, botVars, memVars, roundVars, lifeVars, signal, unwanted,
                   announced>>

(* The user's yes to a pending channel_done, on a channel that is live. *)
ConfirmBegins(n) ==
    /\ callBegins(Bridge)
    /\ live[n] # Nothing /\ runtime[n].bot # Nothing
    /\ work' = [work EXCEPT ![Bridge] = tearing(Rest, "confirmed", n)]
    /\ disturbed' = disturbed \cup meets(Bridge, n)
    /\ UNCHANGED <<storeVars, botVars, memVars, roundVars, lifeVars, signal, unwanted,
                   announced>>

(* The cleanup tick: the ephemeral channels of the file as it is now. *)
ReaperTicks ==
    LET l == named(config) \cap Ephemeral
    IN  /\ work[Reaper] = Rest /\ phase # "down" /\ l # {}
        /\ reaps < MaxReaps /\ reaps' = reaps + 1 /\ UNCHANGED <<calls, faults>>
        /\ work' = [work EXCEPT ![Reaper] = [Rest EXCEPT !.at = "reaping", !.kind = "reap",
                                                         !.list = l]]
        /\ disturbed' = disturbed \cup UNION {meets(Reaper, n) : n \in l}
        /\ UNCHANGED <<storeVars, botVars, memVars, roundVars, lifeVars, signal, unwanted,
                       announced>>

(* Seeded fault: a channel nothing is known of counts as idle. *)
idleUnlessActive(n) == tracker[n] # "active"

(* IsBusyWithTimeout: an unknown channel and a busy one are left alone. *)
idleFor(n) == tracker[n] = "idle"

ReaperChecks(n) ==
    /\ work[Reaper].at = "reaping" /\ n \in work[Reaper].list
    /\ work' = [work EXCEPT ![Reaper] = IF idleFor(n) THEN tearing(@, "reap", n)
                                        ELSE [work[Reaper] EXCEPT !.list = @ \ {n}]]
    /\ UNCHANGED <<storeVars, botVars, memVars, roundVars, budget, lifeVars, signal, disturbed,
                   unwanted, announced>>

(* What follows the operation on one name: the next name, or nothing. *)
over(w) == IF w.kind = "reap" THEN [w EXCEPT !.at = "reaping", !.name = Nothing, !.bot = Nothing]
           ELSE Rest

(* Provisioner.Teardown: BotFather deletes the bot. *)
TearsDown(p) ==
    /\ work[p].at = "tearing" /\ work[p].bot \in bots
    /\ bots' = bots \ {work[p].bot}
    /\ work' = [work EXCEPT ![p].at = "unconfigure"]
    /\ UNCHANGED <<storeVars, minted, ownerOf, memVars, roundVars, budget, lifeVars, signal,
                   disturbed, unwanted, announced>>

(* It fails, always when the bot is gone: the channel is not deleted.  The   *)
(* answer may be lost after BotFather acted.                                 *)
TeardownFails(p) ==
    /\ work[p].at = "tearing"
    /\ \/ work[p].bot \notin bots /\ UNCHANGED <<bots, budget>>
       \/ work[p].bot \in bots /\ bots' \in {bots, bots \ {work[p].bot}} /\ fault
    /\ disturbed' = disturbed \cup {work[p].name}
    /\ work' = [work EXCEPT ![p] = over(@)]
    /\ UNCHANGED <<storeVars, minted, ownerOf, memVars, roundVars, lifeVars, signal, unwanted,
                   announced>>

(* RemoveChannel also takes out every link to the name. *)
without(cfg, n) == [m \in Names |-> IF m = n \/ cfg[m] = Nothing THEN Nothing ELSE cfg[m] \ {n}]

Unconfigures(p) ==
    LET n == work[p].name
    IN  /\ work[p].at = "unconfigure"
        /\ \/ /\ config[n] # Nothing
              /\ config' = without(config, n)
              /\ registry' = IF work[p].kind = "delete" THEN registry \ {n} ELSE registry
              /\ work' = [work EXCEPT ![p].at = "forget"]
           \/ /\ config[n] = Nothing
              /\ work' = [work EXCEPT ![p] = over(@)]
              /\ UNCHANGED <<config, registry>>
        /\ UNCHANGED <<secret, runtime, botVars, tracker, live, roundVars, budget, lifeVars,
                       signal, disturbed, unwanted, announced>>

(* The write fails: an error, and the bot is already gone. *)
UnconfigureFails(p) ==
    /\ work[p].at = "unconfigure"
    /\ disturbed' = disturbed \cup {work[p].name}
    /\ work' = [work EXCEPT ![p] = over(@)]
    /\ fault
    /\ UNCHANGED <<storeVars, botVars, memVars, roundVars, lifeVars, signal, unwanted,
                   announced>>

(* RuntimeState.Delete, then SecretStore.Delete. *)
Cleans(p) ==
    LET n == work[p].name
    IN  /\ \/ /\ work[p].at = "forget"
              /\ runtime' = [runtime EXCEPT ![n] = NoState]
              /\ work' = [work EXCEPT ![p].at = "unseal"]
              /\ UNCHANGED secret
           \/ /\ work[p].at = "unseal"
              /\ secret' = [secret EXCEPT ![n] = Nothing]
              /\ work' = [work EXCEPT ![p].at = "removed"]
              /\ UNCHANGED runtime
        /\ UNCHANGED <<config, botVars, memVars, roundVars, budget, lifeVars, signal,
                       disturbed, unwanted, announced>>

(* Either fails; it is logged and the rest goes on. *)
CleaningFails(p) ==
    /\ work[p].at \in {"forget", "unseal"}
    /\ work' = [work EXCEPT ![p].at = IF @ = "forget" THEN "unseal" ELSE "removed"]
    /\ disturbed' = disturbed \cup {work[p].name}
    /\ fault
    /\ UNCHANGED <<storeVars, botVars, memVars, roundVars, lifeVars, signal, unwanted,
                   announced>>

(* A call signals when its channel is gone, the reaper at the end of a tick  *)
(* that removed one.                                                         *)
TeardownReturns(p) ==
    /\ \/ /\ work[p].at = "removed" /\ work[p].kind # "reap"
          /\ onChannelChange
          /\ work' = [work EXCEPT ![p] = Rest]
       \/ /\ work[p].at = "removed" /\ work[p].kind = "reap"
          /\ work' = [work EXCEPT ![p] = [over(work[p]) EXCEPT !.done = @ \cup {work[p].name}]]
          /\ UNCHANGED signal
       \/ /\ work[p].at = "reaping" /\ work[p].list = {}
          /\ signal' = (signal \/ work[p].done # {})
          /\ work' = [work EXCEPT ![p] = Rest]
    /\ UNCHANGED <<storeVars, botVars, memVars, roundVars, budget, lifeVars, disturbed,
                   unwanted, announced>>

-----------------------------------------------------------------------------
(* The router's iteration. *)

iterates(l, old, missed) ==
    /\ phase = "reload" /\ phase' = "reconcile"
    /\ signal' = FALSE
    /\ current' = l
    /\ work' = [work EXCEPT ![Router] = [Rest EXCEPT !.at = "picking", !.kind = "iterate",
                                                     !.list = l, !.stale = old]]
    /\ disturbed' = disturbed \cup missed \cup UNION {meets(Router, n) : n \in l}
    /\ UNCHANGED <<storeVars, botVars, memVars, bootList, lifeVars, unwanted, announced>>

(* The stale signal is drained and the configuration read again.  One that   *)
(* does not load leaves the channels the process booted with, unprovisioned. *)
Reloads ==
    \/ valid(config) /\ iterates(named(config), FALSE, {}) /\ UNCHANGED budget
    \/ ~valid(config) /\ iterates(bootList, TRUE, {}) /\ UNCHANGED budget
    \/ valid(config) /\ iterates(bootList, TRUE, named(config) \ bootList) /\ fault

Picks(n) ==
    /\ work[Router].at = "picking" /\ n \in work[Router].list
    /\ work' = [work EXCEPT ![Router].at = "reconcile", ![Router].name = n,
                            ![Router].list = @ \ {n}]
    /\ UNCHANGED <<storeVars, botVars, memVars, roundVars, budget, lifeVars, signal, disturbed,
                   unwanted, announced>>

(* A runtime state that cannot be read ends the reconciliation. *)
PickFails ==
    /\ work[Router].at = "picking" /\ work[Router].list # {}
    /\ disturbed' = disturbed \cup work[Router].list \cup work[Router].done
    /\ work' = [work EXCEPT ![Router].list = {}, ![Router].done = {}]
    /\ fault
    /\ UNCHANGED <<storeVars, botVars, memVars, roundVars, lifeVars, signal, unwanted,
                   announced>>

(* The channel is ready, or needs setup, or the reconciliation returned an   *)
(* error and no channel is built.                                            *)
Reconciled ==
    LET w == work[Router]
        next == [w EXCEPT !.at = "picking", !.name = Nothing]
    IN  /\ w.kind = "iterate" /\ w.at \in {"ready", "unready", "aborted"}
        /\ work' = [work EXCEPT ![Router] =
                       CASE w.at = "ready" -> [next EXCEPT !.done = w.done \cup {w.name}]
                         [] w.at = "unready" -> next
                         [] w.at = "aborted" -> [next EXCEPT !.list = {}, !.done = {}]]
        /\ disturbed' = IF w.at = "aborted" THEN disturbed \cup w.list \cup w.done
                        ELSE disturbed
        /\ UNCHANGED <<storeVars, botVars, memVars, roundVars, budget, lifeVars, signal,
                       unwanted, announced>>

(* Registry.Reload, BuildChannels from the tokens, and the agent runs. *)
Builds ==
    LET w == work[Router]
    IN  /\ w.at = "picking" /\ w.list = {}
        /\ registry' = current
        /\ live' = [n \in Names |-> IF n \in w.done THEN secret[n] ELSE Nothing]
        /\ announced' = {n \in announced : live'[n] = Nothing}
        /\ phase' = "running"
        /\ work' = [work EXCEPT ![Router] = Rest]
        /\ UNCHANGED <<storeVars, botVars, tracker, bootList, current, budget, lifeVars, signal,
                       disturbed, unwanted>>

(* The agent exits: idle, or told of a channel change once its turns are     *)
(* over, or cancelled when they are not after two minutes.  The bridge is    *)
(* waited for, a call that was cut off runs on.                              *)
Restarts ==
    /\ phase = "running" /\ work[Bridge] = Rest
    /\ signal \/ \A c \in Callers : work[c] = Rest
    /\ phase' = "reload"
    /\ live' = [n \in Names |-> Nothing]
    /\ UNCHANGED <<storeVars, botVars, registry, tracker, bootList, current, budget, lifeVars,
                   signal, work, disturbed, unwanted, announced>>

(* A message reaches a live channel: its activity is tracked and persisted.  *)
(* Only the reaper asks for it here, so only ephemeral channels are tracked. *)
MessageReceived(n) ==
    /\ live[n] # Nothing /\ n \in Ephemeral
    /\ tracker' = [tracker EXCEPT ![n] = "active"]
    /\ runtime' = [runtime EXCEPT ![n].at = TRUE]
    /\ spoken' = spoken \cup {n}
    /\ UNCHANGED <<config, secret, botVars, registry, live, roundVars, budget, signal, work,
                   disturbed, inherited, unwanted, announced>>

(* A channel's idle timeout passes. *)
GoesIdle(n) ==
    /\ tracker[n] = "active"
    /\ tracker' = [tracker EXCEPT ![n] = "idle"]
    /\ UNCHANGED <<storeVars, botVars, registry, live, roundVars, budget, signal, work,
                   lifeVars, disturbed, unwanted, announced>>

(* The process dies.  What it was at work on may be half done. *)
Dies ==
    /\ phase # "down" /\ phase' = "down"
    /\ disturbed' = disturbed \cup ({work[p].name : p \in Procs} \ {Nothing})
    /\ work' = [p \in Procs |-> Rest]
    /\ registry' = {} /\ signal' = FALSE /\ announced' = {}
    /\ tracker' = [n \in Names |-> "unknown"]
    /\ live' = [n \in Names |-> Nothing]
    /\ fault
    /\ UNCHANGED <<storeVars, botVars, bootList, current, lifeVars, unwanted>>

(* A configuration that does not load does not boot. *)
Boot ==
    /\ phase = "down" /\ valid(config) /\ phase' = "reload"
    /\ bootList' = named(config) /\ registry' = named(config)
    /\ tracker' = [n \in Names |->
                      IF n \in named(config) /\ runtime[n].at THEN "active" ELSE "unknown"]
    /\ UNCHANGED <<storeVars, botVars, live, current, budget, lifeVars, signal, work,
                   disturbed, unwanted, announced>>

-----------------------------------------------------------------------------
Provisions(p) == Looks(p) \/ Mints(p) \/ MintRefused(p) \/ Stores(p) \/ StoreFails(p)

Creates(p) ==
    \/ \E n \in Names, l \in SUBSET Names : CreateBegins(p, n, l) \/ Edit(p, n, l)
    \/ CreateAdds(p) \/ CreateReturns(p)

Teardowns(p) ==
    \/ TearsDown(p) \/ TeardownFails(p) \/ Unconfigures(p) \/ UnconfigureFails(p)
    \/ Cleans(p) \/ CleaningFails(p) \/ TeardownReturns(p)

Iterates ==
    \/ Reloads \/ PickFails \/ Reconciled \/ Builds \/ Restarts \/ Dies \/ Boot
    \/ \E n \in Names : Picks(n) \/ MessageReceived(n) \/ GoesIdle(n)

ChannelsNext ==
    \/ \E p \in Callers : Creates(p) \/ (\E n \in Names : DeleteBegins(p, n))
    \/ \E p \in Procs : Provisions(p) \/ Teardowns(p)
    \/ \E n \in Names : ConfirmBegins(n) \/ ReaperChecks(n)
    \/ ReaperTicks
    \/ Iterates

(* A process in the middle of an operation goes on with it, and the router   *)
(* answers a signal.  Nothing is assumed of calls, messages and ticks that   *)
(* have not begun.                                                           *)
OperationsGoOn ==
    /\ \A p \in Procs : WF_channelVars(Provisions(p) \/ Teardowns(p))
    /\ \A p \in Callers : WF_channelVars(CreateAdds(p) \/ CreateReturns(p))
    /\ WF_channelVars(\E n \in Names : ReaperChecks(n) \/ Picks(n))
    /\ WF_channelVars(Reloads \/ Reconciled \/ Builds \/ (signal /\ Restarts))

ChannelsSpec == ChannelsInit /\ [][ChannelsNext]_channelVars /\ OperationsGoOn

-----------------------------------------------------------------------------
Work == [at : {"rest", "adding", "reconcile", "minted", "sealed", "ready", "unready", "aborted",
               "tearing", "unconfigure", "forget", "unseal", "removed", "reaping", "picking"},
         kind : {"none", "create", "delete", "confirmed", "reap", "iterate"},
         name : Names \cup {Nothing}, bot : Bots \cup {Nothing}, list : SUBSET Names,
         done : SUBSET Names, stale : BOOLEAN]

(* The state is of its type, a channel's transport runs on a bot that was    *)
(* created for that name, and so do its token and its teardown state.        *)
ChannelsTypeOK ==
    /\ \A n \in Names : config[n] = Nothing \/ config[n] \subseteq Names
    /\ \A f \in {secret, live, [n \in Names |-> runtime[n].bot]} :
           \A n \in Names : f[n] # Nothing => f[n] \in 1 .. minted /\ ownerOf[f[n]] = n
    /\ runtime \in [Names -> [bot : Bots \cup {Nothing}, at : BOOLEAN]]
    /\ minted \in 0 .. MaxBots /\ bots \subseteq 1 .. minted
    /\ registry \subseteq Names /\ bootList \subseteq Names /\ current \subseteq Names
    /\ tracker \in [Names -> {"unknown", "active", "idle"}]
    /\ signal \in BOOLEAN /\ phase \in {"reload", "reconcile", "running", "down"}
    /\ work \in [Procs -> Work]

(* No bot is lost: one that exists is named by the teardown state of its     *)
(* channel, which is all a later teardown goes by, or an operation holds it. *)
(* Only a failure, a crash or two operations at once on the name may leave   *)
(* one behind.                                                               *)
BotsAreTracked ==
    \A b \in bots :
        LET n == ownerOf[b]
        IN  n \notin disturbed => \/ runtime[n].bot = b
                                  \/ \E p \in Procs : work[p].name = n /\ work[p].bot = b

(* A deleted channel leaves nothing its name could pass on: a channel made   *)
(* under the same name would be ready with the token of a deleted bot.       *)
NothingLeftBehind ==
    \A n \in Names \ (named(config) \cup disturbed) :
        (\A p \in Procs : work[p].name # n) => secret[n] = Nothing /\ runtime[n].bot = Nothing

(* A bot is created only for a channel that is configured: the channels a    *)
(* process falls back to when its configuration does not load may be gone.   *)
MintsAreWanted == unwanted \subseteq disturbed

(* The transport of a deleted bot does not stay up: while the agent runs, a  *)
(* change it has not been told of is still being made, or signalled.         *)
DeadTransportIsDropped ==
    \A n \in Names \ disturbed :
        phase = "running" /\ live[n] # Nothing /\ live[n] \notin bots =>
            signal \/ \E p \in Procs : worksOn(p, n) \/ n \in work[Reaper].done

(* The reaper takes only a channel that had a message and then went idle,    *)
(* unless it was created under a name whose record had been left.            *)
ReapsOnlyTheIdle ==
    \A n \in Names :
        work[Reaper].name = n /\ work[Reaper].at \in {"tearing", "unconfigure"} =>
            n \in spoken \cup inherited \cup disturbed

(* A channel whose creation was reported comes up: the router is told, and   *)
(* its next iteration builds the transport.                                  *)
ComesUp ==
    \A n \in Names :
        n \in announced ~> \/ live[n] # Nothing \/ config[n] = Nothing \/ n \in disturbed
                           \/ ~valid(config) \/ phase = "down"

(* What is created for a channel is found again by its teardown: no bot is   *)
(* lost while its channel lives, and nothing of it is left afterwards.       *)
NothingLeaks == BotsAreTracked /\ NothingLeftBehind

(* Creation, restart and cleanup keep to the configuration: bots only for    *)
(* configured channels, no transport on a deleted bot, no busy channel       *)
(* reaped.                                                                   *)
LifecycleOK == ChannelsTypeOK /\ MintsAreWanted /\ DeadTransportIsDropped /\ ReapsOnlyTheIdle

=============================================================================
