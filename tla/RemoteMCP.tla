------------------------------ MODULE RemoteMCP ------------------------------
(***************************************************************************)
(* One remote MCP server, by its name: the registration and the separate   *)
(* secret of internal/remotemcpstore, the tools of internal/tool/remotemcp *)
(* (add, auth_wait, auth_complete, update, remove), the callback that ends *)
(* a hosted authorization (CallbackServer), the proxy that adds the token  *)
(* to each request and refreshes it (internal/remotemcpproxy), and what    *)
(* the router hands to the agent.                                          *)
(*                                                                         *)
(* Manager.mu covers the list of registrations and the refresh has a lock  *)
(* of its own; nothing covers the secret, so every Get ... Set of it is    *)
(* two steps here.  The name may be removed and added again: each AddRemote *)
(* MCP has a number, which also stands for the server's URL, the OAuth     *)
(* client registered for it and the state token of its flow.               *)
(***************************************************************************)
EXTENDS CallbackServer

CONSTANTS
    Channels,
    Calls,         \* tool calls that may be under way together
    Handlers,      \* callback requests
    Requests,      \* proxy requests
    MaxTokens,     \* bound on the tokens minted
    MaxAdds,       \* bound on the registrations
    MaxBusy        \* bound on the calls, callbacks and requests under way together

Nobody == "nobody"   \* who holds a free lock

ASSUME RemoteAssumption ==
    /\ {MaxTokens, MaxBusy} \subseteq Nat /\ MaxAdds \in 0..MaxFlows
    /\ Nobody \notin Calls \cup Requests
    /\ Calls \cap Handlers = {} /\ Calls \cap Requests = {} /\ Handlers \cap Requests = {}

-----------------------------------------------------------------------------
(* What remote_mcp_add finds out before it stores anything, from what the  *)
(* call asks for and how the server answers each request.                  *)

Server == [probe : {"2xx", "401", "else"}, metadata : BOOLEAN, registration : BOOLEAN,
           redirect : [{"hosted", "loopback"} -> {"taken", "refused", "unclear"}], lists : BOOLEAN]
AddArgs == [wellFormed : BOOLEAN, skip_auth_discovery : BOOLEAN, headers : BOOLEAN, manual_auth : BOOLEAN]

\* The URL, the pin and the headers are checked, and headers go only with
\* skip_auth_discovery.
validates(a) == a.wellFormed /\ (a.headers => a.skip_auth_discovery)

\* 401 leads on to the resource's and then to the authorization server's
\* metadata; everything but 401 and success is an error.
fetchesMetadata(s) == s.probe = "401" /\ s.metadata
DiscoverAuth(s) == CASE s.probe = "2xx" -> "none"
                     [] fetchesMetadata(s) -> "oauth"
                     [] OTHER -> "error"
ListTools(s) == s.lists
RegisterClient(s) == s.registration

\* Below 400 taken, below 500 refused, anything else is no answer.
RedirectURIAccepted(s, uri) == s.redirect[uri]

\* No answer about the hosted callback is taken for a yes, none about the
\* loopback address for a no.
chooseRedirectURI(s, a) ==
    CASE a.manual_auth -> "manual"
      [] ~ a.manual_auth /\ RedirectURIAccepted(s, "hosted") # "refused" -> "hosted"
      [] OTHER -> IF RedirectURIAccepted(s, "loopback") = "taken" THEN "manual" ELSE "error"

\* How the server will be authorized, or that nothing is registered.
authorization(s, a) ==
    CASE ~ validates(a) -> "error"
      [] validates(a) /\ a.skip_auth_discovery ->
            IF ~ ListTools(s) THEN "error" ELSE IF a.headers THEN "headers" ELSE "open"
      [] validates(a) /\ ~ a.skip_auth_discovery ->
            CASE DiscoverAuth(s) = "none" -> IF ListTools(s) THEN "open" ELSE "error"
              [] DiscoverAuth(s) = "oauth" /\ RegisterClient(s) -> chooseRedirectURI(s, a)
              [] OTHER -> "error"

\* A server whose demands could not be found out is not registered as one
\* that has none, and a callback it refuses is never waited for.
ASSUME DiscoveryAssumption ==
    \A s \in Server, a \in AddArgs :
        /\ authorization(s, a) \in {"open", "headers"} => s.lists
        /\ authorization(s, a) = "open" /\ ~ a.skip_auth_discovery => s.probe = "2xx"
        /\ authorization(s, a) = "hosted" => s.redirect["hosted"] # "refused"

Styles == {authorization(s, a) : s \in Server, a \in AddArgs} \ {"error"}

-----------------------------------------------------------------------------
VARIABLES
    registered,   \* the entry of the stored list
    secret,       \* RemoteMCPAuth in the secret store
    work,         \* what each tool call, callback and request is at
    listLock,     \* who holds Manager.mu between two steps
    refreshLock,  \* who holds refreshMu
    live,         \* the channels that exist
    changed,      \* the channel change signal is pending
    stale,        \* the running agent was built before the registration last changed
    redeemed,     \* authorization server: the codes exchanged
    spent,        \* authorization server: the refresh tokens used
    minted,       \* authorization server: tokens issued so far
    added,        \* history: registrations so far
    replayed,     \* history: a used refresh token was presented again
    straddled,    \* history: something was under way when the name was removed
    misdirected   \* history: a token was sent to a server it is not of

storeVars == <<registered, secret, listLock>>
serverVars == <<redeemed, spent, minted>>
agentVars == <<live, changed, stale>>
historyVars == <<added, budget, faults, replayed, straddled, misdirected>>
remoteVars == <<storeVars, work, refreshLock, agentVars, serverVars, added, replayed, straddled, misdirected>>

NoToken == [of |-> 0, n |-> 0]
NoAuth == [of |-> 0, token |-> NoToken, fresh |-> TRUE, exchange |-> "none"]
NoEntry == [of |-> 0, channels |-> {}, tools |-> 0]
Idle == [at |-> "idle", of |-> 0, copy |-> NoAuth, got |-> NoToken, style |-> "none"]

Token == [of : 0..MaxFlows, n : 0..MaxTokens]
RemoteMCPAuth == [of : 0..MaxFlows, token : Token, fresh : BOOLEAN, exchange : {"none", "open", "expired"}]
Entry == [of : 0..MaxFlows, channels : SUBSET Channels, tools : 0..MaxFlows]
Workers == Calls \cup Handlers \cup Requests
Steps == {"idle", "storing", "announcing", "reading", "listing", "naming", "finalized",
          "exchanging", "keeping", "loading", "failing", "resolving", "refreshing", "minting", "persisting",
          "removing"}
Work == [at : Steps, of : 0..MaxFlows, copy : RemoteMCPAuth, got : Token,
         style : Styles \cup {"none"}]

RemoteInit ==
    /\ registered = NoEntry
    /\ secret = NoAuth
    /\ work = [w \in Workers |-> Idle]
    /\ listLock = Nobody /\ refreshLock = Nobody
    /\ live = Channels
    /\ changed = FALSE
    /\ stale = FALSE
    /\ redeemed = {} /\ spent = {} /\ minted = 0
    /\ added = 0
    /\ replayed = FALSE /\ straddled = FALSE /\ misdirected = FALSE

at(w, step) == work[w].at = step
begins(w) ==
    /\ at(w, "idle") /\ spends("remote")
    /\ Cardinality({v \in Workers : ~ at(v, "idle")}) < MaxBusy
goes(w, record) == work' = [work EXCEPT ![w] = record]
moves(w, step) == goes(w, [work[w] EXCEPT !.at = step])
returns(w) == goes(w, Idle)
listFree == listLock = Nobody
registers == registered # NoEntry
mint(g) == [of |-> g, n |-> minted + 1]

-----------------------------------------------------------------------------
(* remote_mcp_add.  The channel list is checked and the server is asked    *)
(* over the network before anything is stored: an add that fails there or  *)
(* finds the name taken leaves no trace and is no step here.               *)

cleanChannels(names, scoped) == names # {} /\ names \subseteq live \cup scoped

AddRemoteMCP(c) ==
    LET g == added + 1
    IN  /\ begins(c) /\ listFree /\ ~ registers /\ added < MaxAdds
        /\ added' = g
        /\ \E names \in SUBSET Channels, style \in Styles :
              /\ cleanChannels(names, {})
              /\ registered' = [of |-> g, channels |-> names,
                                tools |-> IF style \in {"open", "headers"} THEN g ELSE 0]
              /\ goes(c, [Idle EXCEPT !.at = IF style = "open" THEN "announcing" ELSE "storing",
                                      !.of = g, !.style = style])
        /\ stale' = (stale \/ registered'.tools # 0)
        /\ UNCHANGED <<callbackVars, secret, listLock, refreshLock, live, changed, serverVars,
                       faults, replayed, straddled, misdirected>>

\* SetRemoteMCPAuth with the static headers or the OAuth client; a hosted
\* flow is registered with the callback server, a manual one keeps its
\* verifier and state in the secret.
AddStores(c) ==
    LET g == work[c].of
        style == work[c].style
    IN  /\ at(c, "storing") /\ c \in Calls
        /\ secret' = [NoAuth EXCEPT !.of = g, !.exchange = IF style = "manual" THEN "open" ELSE "none"]
        /\ IF style = "hosted" THEN RegisterFlow(g) ELSE UNCHANGED callbackVars
        /\ IF style = "headers" THEN moves(c, "announcing") ELSE returns(c)
        /\ UNCHANGED <<registered, listLock, refreshLock, agentVars, serverVars, historyVars>>

\* ConfigUpdater rewrites the file of the servers without a channel list;
\* a scoped one reaches the agent when the signal restarts it.
Announces(c) ==
    /\ at(c, "announcing") \/ at(c, "finalized")
    /\ changed' = TRUE
    /\ returns(c)
    /\ UNCHANGED <<callbackVars, storeVars, refreshLock, live, stale, serverVars, historyVars>>

\* A write or the ConfigUpdater failed: the call returns the error.  After
\* an authorization the ConfigUpdater's error is only logged.
CallFails(c) ==
    /\ work[c].at \in {"storing", "announcing", "keeping", "naming", "listing"}
    /\ lapses
    /\ returns(c)
    /\ UNCHANGED <<callbackVars, storeVars, refreshLock, agentVars, serverVars,
                   added, budget, replayed, straddled, misdirected>>

-----------------------------------------------------------------------------
(* remote_mcp_auth_wait and remote_mcp_auth_complete, and what both end in. *)

\* The wait reads the secret every two seconds for up to five minutes; one
\* that finds no token, runs out of time or is cancelled changes nothing.
WaitPolls(c) ==
    /\ begins(c)
    /\ secret.token # NoToken
    /\ goes(c, [Idle EXCEPT !.at = "reading", !.copy = secret])
    /\ UNCHANGED <<callbackVars, storeVars, refreshLock, agentVars, serverVars,
                   added, faults, replayed, straddled, misdirected>>

\* The pasted URL carries the state of the pending exchange; every other
\* paste is refused without a change.
CompleteBegins(c) ==
    /\ begins(c) /\ listFree /\ registers
    /\ \/ /\ secret.token # NoToken /\ secret.exchange = "none"
          /\ goes(c, [Idle EXCEPT !.at = "reading", !.copy = secret])
       \/ /\ secret.exchange = "open"
          /\ goes(c, [Idle EXCEPT !.at = "exchanging", !.copy = secret, !.of = secret.of])
    /\ UNCHANGED <<callbackVars, storeVars, refreshLock, agentVars, serverVars, added, faults, replayed, straddled, misdirected>>

\* The authorization server takes each code once, and may fail.
exchanges(w, next, otherwise) ==
    LET g == work[w].of
    IN  \/ /\ g \notin redeemed /\ minted < MaxTokens
           /\ redeemed' = redeemed \cup {g}
           /\ minted' = minted + 1
           /\ goes(w, [work[w] EXCEPT !.at = next, !.got = mint(g)])
        \/ /\ goes(w, otherwise)
           /\ UNCHANGED <<redeemed, minted>>

CompleteExchanges(c) ==
    /\ at(c, "exchanging") /\ c \in Calls
    /\ exchanges(c, "keeping", Idle)
    /\ UNCHANGED <<callbackVars, storeVars, refreshLock, agentVars, spent, historyVars>>

withToken(auth, token) == [auth EXCEPT !.token = token, !.fresh = TRUE]

CompleteStores(c) ==
    LET auth == [withToken(work[c].copy, work[c].got) EXCEPT !.exchange = "none"]
    IN  /\ at(c, "keeping") /\ c \in Calls
        /\ secret' = auth
        /\ goes(c, [Idle EXCEPT !.at = "reading", !.copy = auth])
        /\ UNCHANGED <<callbackVars, registered, listLock, refreshLock, agentVars, serverVars, historyVars>>

\* finalizeAuthorized: the tool list is fetched once, with the token in hand.
FinalizeReads(c) ==
    /\ at(c, "reading") /\ listFree
    /\ CASE ~ registers -> returns(c)
         [] registers /\ registered.tools # 0 -> moves(c, "finalized")
         [] OTHER -> goes(c, [work[c] EXCEPT !.at = "listing", !.of = registered.of])
    /\ UNCHANGED <<callbackVars, storeVars, refreshLock, agentVars, serverVars, historyVars>>

\* The server refuses a token it did not issue.
FinalizeLists(c) ==
    /\ at(c, "listing")
    /\ IF work[c].copy.token.of = work[c].of THEN moves(c, "naming") ELSE returns(c)
    /\ UNCHANGED <<callbackVars, storeVars, refreshLock, agentVars, serverVars, historyVars>>

\* SetToolNames and SetInstructions find the registration by its name.
FinalizeNames(c) ==
    /\ at(c, "naming") /\ listFree
    /\ IF registers
         THEN /\ registered' = [registered EXCEPT !.tools = work[c].of]
              /\ stale' = TRUE
              /\ moves(c, "finalized")
         ELSE returns(c) /\ UNCHANGED <<registered, stale>>
    /\ UNCHANGED <<callbackVars, secret, listLock, refreshLock, live, changed, serverVars, historyVars>>

-----------------------------------------------------------------------------
(* The callback of a hosted flow: handleCallback and the flow's Complete.  *)

\* A flow past its TTL, a refusal and a callback without a code are failed.
CallbackTakes(h) ==
    /\ begins(h)
    /\ \E f \in pending \cap 1..MaxAdds, next \in {"exchanging", "failing"} :
          /\ f \in aged => next = "failing"
          /\ TakesOut(f)
          /\ goes(h, [Idle EXCEPT !.at = next, !.of = f])
    /\ UNCHANGED <<aged, reaping, closed, storeVars, refreshLock, agentVars, serverVars, added, faults, replayed, straddled, misdirected>>

CallbackExchanges(h) ==
    /\ at(h, "exchanging") /\ h \in Handlers
    /\ exchanges(h, "loading", [work[h] EXCEPT !.at = "failing"])
    /\ UNCHANGED <<callbackVars, storeVars, refreshLock, agentVars, spent, historyVars>>

CallbackLoads(h) ==
    /\ at(h, "loading")
    /\ IF secret = NoAuth
         THEN moves(h, "failing")
         ELSE goes(h, [work[h] EXCEPT !.at = "storing", !.copy = secret])
    /\ UNCHANGED <<callbackVars, storeVars, refreshLock, agentVars, serverVars, historyVars>>

CallbackStores(h) ==
    /\ at(h, "storing") /\ h \in Handlers
    /\ secret' = withToken(work[h].copy, work[h].got)
    /\ Closes(work[h].of)
    /\ returns(h)
    /\ UNCHANGED <<pending, aged, reaping, registered, listLock, refreshLock, agentVars, serverVars, historyVars>>

\* The write failed, or it succeeded and the ConfigUpdater failed.
CallbackStoreFails(h) ==
    /\ at(h, "storing") /\ h \in Handlers
    /\ lapses
    /\ secret' \in {secret, withToken(work[h].copy, work[h].got)}
    /\ moves(h, "failing")
    /\ UNCHANGED <<callbackVars, registered, listLock, refreshLock, agentVars, serverVars,
                   added, budget, replayed, straddled, misdirected>>

CallbackFails(h) ==
    /\ at(h, "failing")
    /\ Closes(work[h].of)
    /\ returns(h)
    /\ UNCHANGED <<pending, aged, reaping, storeVars, refreshLock, agentVars, serverVars, historyVars>>

-----------------------------------------------------------------------------
(* The proxy: handle, resolveAuthHeaders and refreshToken.                 *)

needsRefresh(auth) == auth.token # NoToken /\ ~ auth.fresh

\* The request leaves for the server it looked up, with this token.
forwards(r, token) ==
    misdirected' = (misdirected \/ (token # NoToken /\ token.of # work[r].of))

RequestBegins(r) ==
    /\ begins(r) /\ listFree /\ registers
    /\ goes(r, [Idle EXCEPT !.at = "resolving", !.of = registered.of])
    /\ UNCHANGED <<callbackVars, storeVars, refreshLock, agentVars, serverVars, added, faults, replayed, straddled, misdirected>>

Resolves(r) ==
    /\ at(r, "resolving")
    /\ IF needsRefresh(secret)
         THEN goes(r, [work[r] EXCEPT !.at = "refreshing", !.copy = secret]) /\ UNCHANGED misdirected
         ELSE returns(r) /\ forwards(r, secret.token)
    /\ UNCHANGED <<callbackVars, storeVars, refreshLock, agentVars, serverVars, added, budget, faults, replayed, straddled>>

\* Under the lock the secret is read again: another request may have
\* refreshed it meanwhile, or the name is gone and the old token goes out.
RefreshLocks(r) ==
    /\ at(r, "refreshing") /\ refreshLock = Nobody
    /\ IF needsRefresh(secret)
         THEN /\ refreshLock' = r
              /\ goes(r, [work[r] EXCEPT !.at = "minting", !.copy = secret])
              /\ UNCHANGED misdirected
         ELSE /\ returns(r)
              /\ forwards(r, IF secret = NoAuth THEN work[r].copy.token ELSE secret.token)
              /\ UNCHANGED refreshLock
    /\ UNCHANGED <<callbackVars, storeVars, agentVars, serverVars, added, budget, faults, replayed, straddled>>

\* The server rotates: a refresh token is good once, for the client it was
\* issued to.  After an error the request goes out with the old token.
Refreshes(r) ==
    LET auth == work[r].copy
        good == auth.token.n \notin spent /\ auth.token.of = auth.of
    IN  /\ at(r, "minting")
        /\ replayed' = (replayed \/ auth.token.n \in spent)
        /\ \/ /\ good /\ minted < MaxTokens
              /\ minted' = minted + 1
              /\ spent' = spent \cup {auth.token.n}
              /\ goes(r, [work[r] EXCEPT !.at = "persisting", !.got = mint(auth.of)])
              /\ UNCHANGED <<refreshLock, misdirected>>
           \/ /\ refreshLock' = Nobody
              /\ returns(r)
              /\ forwards(r, auth.token)
              /\ UNCHANGED <<minted, spent>>
        /\ UNCHANGED <<callbackVars, storeVars, agentVars, redeemed, added, budget, faults, straddled>>

Persists(r) ==
    /\ at(r, "persisting")
    /\ secret' = withToken(work[r].copy, work[r].got)
    /\ refreshLock' = Nobody
    /\ returns(r)
    /\ forwards(r, work[r].got)
    /\ UNCHANGED <<callbackVars, registered, listLock, agentVars, serverVars, added, budget, faults, replayed, straddled>>

PersistFails(r) ==
    /\ at(r, "persisting")
    /\ lapses
    /\ refreshLock' = Nobody
    /\ returns(r)
    /\ forwards(r, work[r].copy.token)
    /\ UNCHANGED <<callbackVars, storeVars, agentVars, serverVars, added, budget, replayed, straddled>>

-----------------------------------------------------------------------------
(* remote_mcp_remove, remote_mcp_update and the channels' deletion.        *)

\* A worker that holds something of the registration it began with.
holds(w) == work[w].at \notin {"idle", "announcing", "finalized"}

\* The fault of a removal that leaves the secret behind.
RemoveKeepsSecret(c) ==
    /\ begins(c) /\ listFree /\ registers
    /\ listLock' = c
    /\ moves(c, "removing")
    /\ straddled' = (straddled \/ pending \cap 1..MaxAdds # {} \/ \E w \in Workers : holds(w))
    /\ UNCHANGED <<callbackVars, registered, secret, refreshLock, agentVars, serverVars,
                   added, faults, replayed, misdirected>>

RemoveDeletes(c) ==
    /\ begins(c) /\ listFree /\ registers
    /\ listLock' = c
    /\ secret' = NoAuth
    /\ moves(c, "removing")
    /\ straddled' = (straddled \/ pending \cap 1..MaxAdds # {} \/ \E w \in Workers : holds(w))
    /\ UNCHANGED <<callbackVars, registered, refreshLock, agentVars, serverVars, added, faults, replayed, misdirected>>

RemoveSaves(c) ==
    /\ at(c, "removing")
    /\ registered' = NoEntry
    /\ listLock' = Nobody
    /\ stale' = TRUE
    /\ moves(c, "announcing")
    /\ UNCHANGED <<callbackVars, secret, refreshLock, live, changed, serverVars, historyVars>>

RemoveFails(c) ==
    /\ at(c, "removing")
    /\ lapses
    /\ listLock' = Nobody
    /\ returns(c)
    /\ UNCHANGED <<callbackVars, registered, secret, refreshLock, agentVars, serverVars,
                   added, budget, replayed, straddled, misdirected>>

\* A name the registration already has passes though its channel is gone.
SetChannels(c) ==
    /\ begins(c) /\ listFree /\ registers
    /\ \E names \in SUBSET Channels :
          /\ cleanChannels(names, registered.channels)
          /\ registered' = [registered EXCEPT !.channels = names]
    /\ stale' = TRUE
    /\ moves(c, "announcing")
    /\ UNCHANGED <<callbackVars, secret, listLock, refreshLock, live, changed, serverVars,
                   added, faults, replayed, straddled, misdirected>>

\* The only channel of a registration stays: an empty list reaches them all.
pruned(channels, ch) == IF channels \ {ch} = {} THEN channels ELSE channels \ {ch}

\* A channel is deleted, by a tool, by the user's confirmation or by the
\* cleanup job, and taken off the registration before the agent restarts.
RemoveChannelFromAll(ch) ==
    /\ ch \in live /\ listFree
    /\ live' = live \ {ch}
    /\ registered' = [registered EXCEPT !.channels = IF registers THEN pruned(@, ch) ELSE @]
    /\ stale' = TRUE
    /\ changed' = TRUE
    /\ UNCHANGED <<callbackVars, secret, listLock, work, refreshLock, serverVars, historyVars>>

-----------------------------------------------------------------------------
(* Time, the router's restart of the agent, and the process.               *)

TokenExpires ==
    /\ secret.token # NoToken /\ secret.fresh
    /\ secret' = [secret EXCEPT !.fresh = FALSE]
    /\ UNCHANGED <<callbackVars, registered, listLock, work, refreshLock, agentVars, serverVars, historyVars>>

ExchangeExpires ==
    /\ secret.exchange = "open"
    /\ secret' = [secret EXCEPT !.exchange = "expired"]
    /\ UNCHANGED <<callbackVars, registered, listLock, work, refreshLock, agentVars, serverVars, historyVars>>

AgentRestarts ==
    /\ changed /\ listFree
    /\ changed' = FALSE
    /\ stale' = FALSE
    /\ UNCHANGED <<callbackVars, storeVars, work, refreshLock, live, serverVars, historyVars>>

\* The process ends and starts again: all but the two stores is lost, and
\* the agent is built from what they hold.
RemoteRestart ==
    /\ work' = [w \in Workers |-> Idle]
    /\ listLock' = Nobody /\ refreshLock' = Nobody
    /\ changed' = FALSE
    /\ stale' = FALSE
    /\ UNCHANGED <<registered, secret, live, serverVars, added, replayed, straddled, misdirected>>

-----------------------------------------------------------------------------
Adds(c) == AddRemoteMCP(c) \/ AddStores(c) \/ Announces(c) \/ CallFails(c)
Authorizes(c) ==
    \/ WaitPolls(c) \/ CompleteBegins(c) \/ CompleteExchanges(c) \/ CompleteStores(c)
    \/ FinalizeReads(c) \/ FinalizeLists(c) \/ FinalizeNames(c)
Changes(c) ==
    RemoveDeletes(c) \/ RemoveSaves(c) \/ RemoveFails(c) \/ SetChannels(c)
Callback(h) ==
    \/ CallbackTakes(h) \/ CallbackExchanges(h) \/ CallbackLoads(h)
    \/ CallbackStores(h) \/ CallbackStoreFails(h) \/ CallbackFails(h)
Proxies(r) ==
    \/ RequestBegins(r) \/ Resolves(r) \/ RefreshLocks(r)
    \/ Refreshes(r) \/ Persists(r) \/ PersistFails(r)

RemoteNext ==
    \/ \E c \in Calls : Adds(c) \/ Authorizes(c) \/ Changes(c)
    \/ \E h \in Handlers : Callback(h)
    \/ \E r \in Requests : Proxies(r)
    \/ \E ch \in Channels : RemoveChannelFromAll(ch)
    \/ TokenExpires \/ ExchangeExpires \/ AgentRestarts

-----------------------------------------------------------------------------
(* The types, and who may hold the two locks: a call that is removing, a   *)
(* request that is refreshing.                                             *)
LocksOK ==
    /\ CallbackTypeOK
    /\ registered \in Entry
    /\ secret \in RemoteMCPAuth
    /\ work \in [Workers -> Work]
    /\ listLock \in {Nobody} \cup {c \in Calls : at(c, "removing")}
    /\ refreshLock \in {Nobody} \cup {r \in Requests : work[r].at \in {"minting", "persisting"}}
    /\ live \subseteq Channels
    /\ {changed, stale, replayed, straddled, misdirected} \subseteq BOOLEAN
    /\ redeemed \subseteq Flows /\ spent \subseteq 1..MaxTokens
    /\ minted \in 0..MaxTokens /\ added \in 0..MaxFlows
    /\ faults \in 0..MaxFaults

(* Refreshing is serialised and looks again under the lock: requests that  *)
(* find the token expired together present its refresh token once.  A      *)
(* server that rotates would revoke the grant otherwise.  Only a failed    *)
(* write or a crash loses the new token and leaves the used one.           *)
RefreshedOnce == replayed => faults > 0

(* What is kept under the name is of one server: the OAuth client, the     *)
(* token, the tool list, and what the proxy sends where; and no secret     *)
(* stays without a registration.  Get ... Set of the secret is not under a *)
(* lock and the callback server keeps a removed server's flow, so this is  *)
(* said of names that were not removed under something still under way.    *)
OneServer ==
    straddled \/
    /\ secret # NoAuth => secret.of = registered.of /\ secret.token.of \in {0, registered.of}
    /\ registered.tools \in {0, registered.of}
    /\ ~ misdirected

(* An empty channel list means every channel: no sequence of adds, updates *)
(* and channel deletions leaves a registration with one.                   *)
NeverEverywhere == registers => registered.channels # {}

(* The agent is never left with tools, or a channel list, that the         *)
(* registration no longer has, without a restart coming: the signal is     *)
(* pending or the call that sends it is still at work.  A failed ConfigUpdater returns before  *)
(* the signal, so this too holds until a write fails.                      *)
ChangeIsAnnounced ==
    stale =>
        \/ changed
        \/ faults > 0
        \/ \E c \in Calls : work[c].at \in {"announcing", "finalized", "storing"}
=============================================================================
