------------------------------ MODULE Credentials ------------------------------
(***************************************************************************)
(* The credential sets of one OAuth tool package: internal/credential, its *)
(* tools (credential_add, _remove, _clear), the secret form that fills a   *)
(* set's fields from a browser (internal/tool/secretform), the callback    *)
(* that brings its tokens (CallbackServer), their refresh, and the tools   *)
(* the router registers for the sets that are ready.                       *)
(*                                                                         *)
(* credential.Manager has no lock: every load ... save of the list, every  *)
(* refresh and every notification is two steps here, and "overlapped"      *)
(* remembers that two of a kind were under way together.  A grant is named *)
(* by the number of its refresh token.                                     *)
(***************************************************************************)
EXTENDS CallbackServer

CONSTANTS
    Labels,       \* the sets the package may have
    Declared,     \* those declared as slots in the configuration
    Seeded,       \* those whose fields the configuration supplies
    Fields,       \* the fields a set needs
    Clerks,       \* tool calls that may be under way together
    Visits,       \* HTTP requests: callbacks and submissions of the form
    SignIns,      \* the flows of the callback server that are of credentials
    MaxGrants,    \* bound on the refresh tokens issued
    MaxAtDesk     \* bound on the calls and requests under way together

ASSUME CredentialsAssumption ==
    /\ Seeded \subseteq Declared /\ Declared \subseteq Labels /\ "none" \notin Labels
    /\ SignIns \subseteq Flows
    /\ Clerks \cap Visits = {}
    /\ {MaxGrants, MaxAtDesk} \subseteq Nat

VARIABLES
    sets,         \* the stored list
    filled,       \* per label: the fields in the secret store
    grants,       \* per label: the _oauth entry of the secret store
    tools,        \* the sets the registered tools know
    form,         \* the secret form
    desk,         \* what each call and request is at
    flowOf,       \* per flow: the set it is for
    issued,       \* authorization server: refresh tokens so far
    rotated,      \* authorization server: refresh tokens that were replaced
    lagging,      \* history: sets a form has filled since the tools were registered
    overlapped,   \* history: two load ... saves, refreshes or notifications overlapped
    outlived      \* history: a set was removed under a flow or a request for it

NoGrant == [n |-> -1, fresh |-> TRUE]
NoForm == [of |-> "none", at |-> "none"]
AtRest == [at |-> "idle", of |-> "none", seen |-> {}, got |-> 0, flow |-> 0, left |-> {}]
Desks == Clerks \cup Visits

storeOfSets == <<sets, filled, grants>>
credentialVars == <<storeOfSets, tools, form, desk, flowOf, issued, rotated, lagging, overlapped, outlived>>

ready(s, f, g) == {l \in s : f[l] = Fields /\ g[l] # NoGrant}

\* seedCredentialSlots and SeedCredentials, on every start: the values the
\* configuration supplies replace what is stored.
seeded(f) == [l \in Labels |-> IF l \in Seeded THEN Fields ELSE f[l]]

CredentialsInit ==
    /\ sets = Declared
    /\ filled = seeded([l \in Labels |-> {}])
    /\ grants = [l \in Labels |-> NoGrant]
    /\ tools = {}
    /\ form = NoForm
    /\ desk = [d \in Desks |-> AtRest]
    /\ flowOf = [f \in SignIns |-> "none"]
    /\ issued = 0 /\ rotated = {}
    /\ lagging = {} /\ overlapped = FALSE /\ outlived = FALSE

is(d, step) == desk[d].at = step
resting(d) == is(d, "idle")
comes(d) ==
    /\ resting(d) /\ spends("credential")
    /\ Cardinality({e \in Desks : ~ resting(e)}) < MaxAtDesk
puts(d, record) == desk' = [desk EXCEPT ![d] = record]
turns(d, step) == puts(d, [desk[d] EXCEPT !.at = step])
leaves(d) == puts(d, AtRest)

\* Others hold something of the same kind that they read before.
overlaps(d, steps) == overlapped' = (overlapped \/ \E e \in Desks \ {d} : desk[e].at \in steps)

Listing == {"adding", "dropping", "removing"}
Refreshing == {"refreshing", "keeping"}
Notifying == {"registering"}

-----------------------------------------------------------------------------
(* credential_add, credential_remove and credential_clear.                 *)

\* Manager.Add refuses a set that exists.
AddLists(c, l) ==
    /\ comes(c) /\ l \notin sets
    /\ puts(c, [AtRest EXCEPT !.at = "adding", !.of = l, !.seen = sets])
    /\ overlaps(c, Listing)
    /\ UNCHANGED <<callbackVars, faults, storeOfSets, tools, form, flowOf, issued, rotated, lagging, outlived>>

freeFlows == {f \in SignIns : flowOf[f] = "none"}

\* The set is saved; with its fields in place a flow begins, otherwise the
\* caller is told to collect them.
AddSaves(c) ==
    LET l == desk[c].of
    IN  /\ is(c, "adding")
        /\ sets' = desk[c].seen \cup {l}
        /\ leaves(c)
        /\ IF filled[l] = Fields /\ freeFlows # {}
             THEN \E f \in freeFlows :
                    /\ f = CHOOSE g \in freeFlows : \A h \in freeFlows : g <= h
                    /\ RegisterFlow(f)
                    /\ flowOf' = [flowOf EXCEPT ![f] = l]
             ELSE UNCHANGED <<callbackVars, flowOf>>
        /\ UNCHANGED <<budget, faults, filled, grants, tools, form, issued, rotated, lagging, overlapped, outlived>>

\* Something for the set is on its way: a flow, its callback, a form, a refresh.
expected(l) ==
    \/ \E f \in pending \cap SignIns : flowOf[f] = l
    \/ \E d \in Desks : desk[d].of = l /\ desk[d].at \in {"exchanging", "storing", "posting"} \cup Refreshing
    \/ form.at = "open" /\ form.of = l

RemoveLists(c, l) ==
    /\ comes(c) /\ l \in sets
    /\ puts(c, [AtRest EXCEPT !.at = "dropping", !.of = l, !.seen = sets])
    /\ overlaps(c, Listing)
    /\ UNCHANGED <<callbackVars, faults, storeOfSets, tools, form, flowOf, issued, rotated, lagging, outlived>>

\* The tokens go first, the fields stay.
RemoveDropsTokens(c) ==
    /\ is(c, "dropping")
    /\ grants' = [grants EXCEPT ![desk[c].of] = NoGrant]
    /\ turns(c, "removing")
    /\ outlived' = (outlived \/ expected(desk[c].of))
    /\ UNCHANGED <<callbackVars, budget, faults, sets, filled, tools, form, flowOf, issued, rotated, lagging, overlapped>>

RemoveSavesSets(c) ==
    /\ is(c, "removing")
    /\ sets' = desk[c].seen \ {desk[c].of}
    /\ turns(c, "notifying")
    /\ outlived' = (outlived \/ expected(desk[c].of))
    /\ UNCHANGED <<callbackVars, budget, faults, filled, grants, tools, form, flowOf, issued, rotated, lagging, overlapped>>

\* The fault of clearing a field without a word.
ClearsQuietly(c, l, field) ==
    /\ comes(c) /\ l \in sets
    /\ filled' = [filled EXCEPT ![l] = @ \ {field}]
    /\ UNCHANGED <<callbackVars, faults, sets, grants, tools, form, desk, flowOf, issued, rotated, lagging, overlapped, outlived>>

Clears(c, l, field) ==
    /\ comes(c) /\ l \in sets
    /\ filled' = [filled EXCEPT ![l] = @ \ {field}]
    /\ puts(c, [AtRest EXCEPT !.at = "notifying", !.of = l])
    /\ UNCHANGED <<callbackVars, faults, sets, grants, tools, form, flowOf, issued, rotated, lagging, overlapped, outlived>>

-----------------------------------------------------------------------------
(* notifyCredentialChange: which sets are ready, and the tools for them.   *)

NotifyReads(d) ==
    /\ is(d, "notifying")
    /\ puts(d, [desk[d] EXCEPT !.at = "registering", !.seen = ready(sets, filled, grants)])
    /\ lagging' = {}
    /\ overlaps(d, Notifying)
    /\ UNCHANGED <<callbackVars, budget, faults, storeOfSets, tools, form, flowOf, issued, rotated, outlived>>

\* BuildDepsMap: what the tools know is what was found ready, and no tools
\* are registered for none.
depsMap(d) == desk[d].seen

\* A callback is answered when the tools are there.
NotifyRegisters(d) ==
    /\ is(d, "registering")
    /\ tools' = depsMap(d)
    /\ leaves(d)
    /\ IF desk[d].flow # 0 THEN Closes(desk[d].flow) /\ UNCHANGED <<pending, aged, reaping>>
                           ELSE UNCHANGED callbackVars
    /\ UNCHANGED <<budget, faults, storeOfSets, form, flowOf, issued, rotated, lagging, overlapped, outlived>>

-----------------------------------------------------------------------------
(* The callback of a flow.                                                 *)

RedirectTakes(v) ==
    /\ comes(v)
    /\ \E f \in pending \cap SignIns, next \in {"exchanging", "refusing"} :
          /\ f \in aged => next = "refusing"
          /\ TakesOut(f)
          /\ puts(v, [AtRest EXCEPT !.at = next, !.of = flowOf[f], !.flow = f])
    /\ UNCHANGED <<aged, reaping, closed, faults, storeOfSets, tools, form, flowOf, issued, rotated, lagging, overlapped, outlived>>

\* A code is good once, and a flow is taken out once.
RedirectExchanges(v) ==
    /\ is(v, "exchanging")
    /\ \/ /\ issued < MaxGrants /\ issued' = issued + 1
          /\ puts(v, [desk[v] EXCEPT !.at = "storing", !.got = issued'])
       \/ turns(v, "refusing") /\ UNCHANGED issued
    /\ UNCHANGED <<callbackVars, budget, faults, storeOfSets, tools, form, flowOf, rotated, lagging, overlapped, outlived>>

\* SetOAuthTokens does not ask whether the set still exists.
RedirectStores(v) ==
    /\ is(v, "storing")
    /\ grants' = [grants EXCEPT ![desk[v].of] = [n |-> desk[v].got, fresh |-> TRUE]]
    /\ turns(v, "notifying")
    /\ UNCHANGED <<callbackVars, budget, faults, sets, filled, tools, form, flowOf, issued, rotated, lagging, overlapped, outlived>>

RedirectRefuses(v) ==
    /\ is(v, "refusing")
    /\ Closes(desk[v].flow)
    /\ leaves(v)
    /\ UNCHANGED <<pending, aged, reaping, budget, faults, storeOfSets, tools, form, flowOf, issued, rotated, lagging, overlapped, outlived>>

-----------------------------------------------------------------------------
(* RefreshIfNeeded, on behalf of a tool of the package.                    *)

RefreshReads(c, l) ==
    /\ comes(c) /\ l \in tools
    /\ grants[l] # NoGrant /\ ~ grants[l].fresh
    /\ puts(c, [AtRest EXCEPT !.at = "refreshing", !.of = l, !.got = grants[l].n])
    /\ overlaps(c, Refreshing)
    /\ UNCHANGED <<callbackVars, faults, storeOfSets, tools, form, flowOf, issued, rotated, lagging, outlived>>

\* The fault of storing what the server sent, though it sent no refresh token.
preserveNone(old) == 0

\* A server need not send a new refresh token: then the old one is kept.
preserve(old) == old

RefreshExchanges(c) ==
    LET old == desk[c].got
    IN  /\ is(c, "refreshing")
        /\ \/ /\ old \notin rotated
              /\ puts(c, [desk[c] EXCEPT !.at = "keeping", !.got = preserve(old)])
              /\ UNCHANGED <<issued, rotated>>
           \/ /\ old \notin rotated /\ issued < MaxGrants
              /\ issued' = issued + 1 /\ rotated' = rotated \cup {old}
              /\ puts(c, [desk[c] EXCEPT !.at = "keeping", !.got = issued'])
           \/ leaves(c) /\ UNCHANGED <<issued, rotated>>
        /\ UNCHANGED <<callbackVars, budget, faults, storeOfSets, tools, form, flowOf, lagging, overlapped, outlived>>

RefreshKeeps(c) ==
    /\ is(c, "keeping")
    /\ grants' = [grants EXCEPT ![desk[c].of] = [n |-> desk[c].got, fresh |-> TRUE]]
    /\ leaves(c)
    /\ UNCHANGED <<callbackVars, budget, faults, sets, filled, tools, form, flowOf, issued, rotated, lagging, overlapped, outlived>>

GrantExpires(l) ==
    /\ grants[l] # NoGrant /\ grants[l].fresh
    /\ grants' = [grants EXCEPT ![l].fresh = FALSE]
    /\ UNCHANGED <<callbackVars, budget, faults, sets, filled, tools, form, desk, flowOf, issued, rotated, lagging, overlapped, outlived>>

-----------------------------------------------------------------------------
(* The secret form.  It may ask for the fields of a set that exists when   *)
(* it is made; one form is open at a time here.                            *)

\* A credential target must be a set that exists.
resolveTarget(l) == l \in sets

FormRequested(c, l) ==
    /\ comes(c) /\ form.at # "open" /\ resolveTarget(l)
    /\ form' = [of |-> l, at |-> "open"]
    /\ UNCHANGED <<callbackVars, faults, storeOfSets, tools, desk, flowOf, issued, rotated, lagging, overlapped, outlived>>

FormPosted(v) ==
    /\ comes(v) /\ form.at = "open"
    /\ puts(v, [AtRest EXCEPT !.at = "posting", !.of = form.of, !.left = Fields])
    /\ UNCHANGED <<callbackVars, faults, storeOfSets, tools, form, flowOf, issued, rotated, lagging, overlapped, outlived>>

\* The values are stored one by one, then the form is done.  Nobody is told.
FormStores(v) ==
    /\ is(v, "posting") /\ desk[v].left # {}
    /\ \E field \in desk[v].left :
          /\ filled' = [filled EXCEPT ![desk[v].of] = @ \cup {field}]
          /\ puts(v, [desk[v] EXCEPT !.left = @ \ {field}])
    /\ lagging' = lagging \cup {desk[v].of}
    /\ UNCHANGED <<callbackVars, budget, faults, sets, grants, tools, form, flowOf, issued, rotated, overlapped, outlived>>

FormSubmitted(v) ==
    /\ is(v, "posting") /\ desk[v].left = {}
    /\ form' = IF form.of = desk[v].of THEN [form EXCEPT !.at = "done"] ELSE form
    /\ leaves(v)
    /\ UNCHANGED <<callbackVars, budget, faults, storeOfSets, tools, flowOf, issued, rotated, lagging, overlapped, outlived>>

FormAges ==
    /\ form.at = "open"
    /\ form' = [form EXCEPT !.at = "expired"]
    /\ UNCHANGED <<callbackVars, budget, faults, storeOfSets, tools, desk, flowOf, issued, rotated, lagging, overlapped, outlived>>

-----------------------------------------------------------------------------
\* A write fails: the call returns the error, a callback is failed, a form
\* stays open with some of its values stored.  A removal goes on when the
\* tokens could not be deleted.
DeskFails(d) ==
    /\ lapses
    /\ \/ desk[d].at \in {"adding", "removing", "keeping", "posting"} /\ leaves(d)
       \/ is(d, "storing") /\ turns(d, "refusing")
       \/ is(d, "dropping") /\ turns(d, "removing")
    /\ UNCHANGED <<callbackVars, budget, storeOfSets, tools, form, flowOf, issued, rotated, lagging, overlapped, outlived>>

\* The process starts again: the slots are seeded and the tools registered.
CredentialsRestart ==
    /\ sets' = sets \cup Declared
    /\ filled' = seeded(filled)
    /\ tools' = ready(sets', filled', grants)
    /\ form' = NoForm
    /\ desk' = [d \in Desks |-> AtRest]
    /\ lagging' = {}
    /\ UNCHANGED <<grants, flowOf, issued, rotated, overlapped, outlived>>

Clerk(c) ==
    \/ \E l \in Labels :
          \/ AddLists(c, l) \/ RemoveLists(c, l) \/ RefreshReads(c, l) \/ FormRequested(c, l)
          \/ \E field \in Fields : Clears(c, l, field)
    \/ AddSaves(c) \/ RemoveDropsTokens(c) \/ RemoveSavesSets(c)
    \/ RefreshExchanges(c) \/ RefreshKeeps(c)

Visit(v) ==
    \/ RedirectTakes(v) \/ RedirectExchanges(v) \/ RedirectStores(v) \/ RedirectRefuses(v)
    \/ FormPosted(v) \/ FormStores(v) \/ FormSubmitted(v)

CredentialsNext ==
    \/ \E c \in Clerks : Clerk(c)
    \/ \E v \in Visits : Visit(v)
    \/ \E d \in Desks : NotifyReads(d) \/ NotifyRegisters(d) \/ DeskFails(d)
    \/ \E l \in Labels : GrantExpires(l)
    \/ FormAges

-----------------------------------------------------------------------------
quietDesk == \A d \in Desks : resting(d)

(* The tools follow the sets: whenever nothing is under way, the package's *)
(* tools know exactly the sets that are ready, after any sequence of adds, *)
(* removals, cleared fields, callbacks and restarts.  A form that fills a  *)
(* set tells nobody, and notifications or list changes that overlap may be *)
(* applied in the wrong order.                                             *)
ToolsFollowSets ==
    quietDesk /\ ~ overlapped /\ ~ outlived /\ faults = 0
        => /\ tools \subseteq ready(sets, filled, grants)
           /\ ready(sets, filled, grants) \subseteq tools \cup lagging

(* A grant survives its refreshes: the refresh token in the store is one   *)
(* the server still takes, whether the server sends a new one each time or *)
(* never, as long as no two refreshes overlap and no write fails.          *)
GrantSurvives ==
    ~ overlapped /\ faults = 0 =>
        \A l \in Labels :
            grants[l] # NoGrant /\ ~ (\E d \in Desks : desk[d].of = l /\ desk[d].at \in Refreshing)
                => grants[l].n \notin rotated \cup {0}

(* A removed set leaves no tokens behind for the next set of its name: a   *)
(* grant belongs to a set in the list, unless something for the set was    *)
(* under way when it was removed or the tokens could not be deleted.       *)
NoOrphanGrant ==
    ~ overlapped /\ ~ outlived /\ faults = 0 =>
        \A l \in Labels : grants[l] # NoGrant => l \in sets
=============================================================================
