-------------------------------- MODULE Turns --------------------------------
(***************************************************************************)
(* What the agent does with one message: the dispatch, the turn and its    *)
(* retries of RunWithMessages (internal/agent/agent.go), the interactive   *)
(* flows of flows.go, flow_auth.go, flow_approval.go and auth.go, and the  *)
(* session records of internal/channel/session_store.go that decide which  *)
(* conversation a turn carries on.                                         *)
(*                                                                         *)
(*   message --> a command, an answer to the channel's open flow, or a     *)
(*   turn --> the CLI: done, failed, rate limited, or a flow is opened     *)
(*   (sign-in, tool approval) that keeps the message for a retry           *)
(*                                                                         *)
(* The agent is one goroutine, so each of its steps is atomic here; the    *)
(* CLI, `claude setup-token` and the people writing run beside it.  The    *)
(* queue keeps what MessageQueue shows of it: user messages go first.  A   *)
(* flow's number is both its prompt ID and the name of its OAuth process.  *)
(***************************************************************************)
EXTENDS Selections, Integers, FiniteSets, SequencesExt

CONSTANTS
    Channels,
    Texts,           \* what the user may say, see Commands and Answers
    OtherTexts,      \* what schedules and other channels may say
    Builtins,        \* the commands that act: the channels' tool lists allow them
    Local,           \* Env.IsLocal: OAuth needs a browser
    HasProd,         \* HasProdConfig: a sign-in asks whether to deploy
    AsksMidTurn,     \* a permission prompt tool answers the user's own turns
    MaxRetries,      \* rateLimitMaxRetries
    NotifyCap,       \* capacity of OAuthNotify (4 in the code)
    MaxMessages,     \* bound on messages sent
    MaxQueue,        \* bound on the queue when one is sent
    MaxFlows,        \* bound on flows opened
    MaxAgents        \* bound on agents started

Commands == {"stop", "new", "login", "status"}
Presses == {"pressYes", "pressNo"}
Answers == {"yes", "no", "oauth", "api", "key", "cancel"}

ASSUME TurnsAssumption ==
    /\ Texts \subseteq {"hello"} \cup Commands \cup Presses \cup Answers
    /\ OtherTexts \subseteq Texts \ Presses
    /\ Builtins \subseteq Commands \ {"status"}
    /\ {Local, HasProd, AsksMidTurn} \subseteq BOOLEAN
    /\ {MaxRetries, MaxMessages, MaxQueue, MaxFlows, MaxAgents} \subseteq Nat
    /\ NotifyCap \in Nat \ {0}
    /\ IsFiniteSet(Channels)

VARIABLES
    alive,      \* an agent runs
    cred,       \* its Options hold a credential
    turn,       \* the turn it is in
    override,   \* the channels whose tool list is expanded
    flow,       \* per channel: the flow of FlowManager
    open,       \* OpenPrompts, which outlives the agent
    proc,       \* per flow: the goroutine of startSetupToken
    notify,     \* OAuthNotify
    queue,      \* the message queue
    records,    \* per channel: the records of the session store
    stored,     \* the secret store holds a credential
    sent,       \* history: messages sent so far
    opened,     \* history: flows opened so far
    agents,     \* history: agents started so far
    runs,       \* history: per message: the turns it had
    asked,      \* history: per flow: the message it keeps
    answered,   \* history: the flows a user's answer ended with a retry
    revoked     \* history: the sessions a fresh-session command ended

agentVars == <<alive, cred, agents>>
flowVars == <<flow, open, opened, asked>>
turnVars == <<turn, override, runs>>

vars == <<alive, cred, turn, override, flow, open, proc, notify, queue, records, stored,
          sent, opened, agents, runs, asked, answered, revoked>>

Ids == 1..MaxMessages
Flows == 1..MaxFlows
NoMessage == [id |-> 0]
Message == [id : Ids, ch : Channels, user : BOOLEAN, text : Texts, prompt : 0..MaxFlows]

NoFlow == [kind |-> "none"]
Auth == [kind : {"auth"}, st : {"choosing", "key", "oauth", "deploy"}, id : Flows,
         orig : Message \cup {NoMessage}]
Approval == [kind : {"approval"}, id : Flows, orig : Message, sess : Nat]

NoTurn == [on |-> FALSE]
Turn == [on : {TRUE}, msg : Message, by : Message \cup {NoMessage}, sess : Nat, left : Nat,
         attempt : 0..MaxRetries, cut : BOOLEAN]

NoProcess == [st |-> "none", cancelled |-> FALSE]
Process == [st : {"running", "sent"}, told : BOOLEAN, ok : BOOLEAN, cancelled : BOOLEAN,
            ch : Channels]

idle == alive /\ ~turn.on

-----------------------------------------------------------------------------
(* The session store.  A record is old when it started before the cutoff. *)

Record == [sess : Nat, cleared : BOOLEAN, old : BOOLEAN]

(* Current: the last record, unless it was cleared; 0 when there is none. *)
Current(rs) == IF rs = <<>> \/ Last(rs).cleared THEN 0 ELSE Last(rs).sess

(* Seeded fault: a reset drops the last record instead of marking it. *)
clearedByRemoval(rs) == IF rs = <<>> THEN rs ELSE Front(rs)

(* A reset marks the latest record that is not cleared yet. *)
cleared(rs) ==
    LET live == {i \in DOMAIN rs : ~rs[i].cleared}
    IN IF live = {} THEN rs ELSE [rs EXCEPT ![Max(live)].cleared = TRUE]

(* SetCurrent(c, s): bump the current session or append a new one; *)
(* the agent never calls it with an empty ID at the end of a turn.  *)
SetCurrent(c, s) ==
    records' = IF s = 0 \/ s = Current(records[c])
               THEN records
               ELSE [records EXCEPT ![c] =
                       Append(@, [sess |-> s, cleared |-> FALSE, old |-> FALSE])]

activeSessions == {Current(records[c]) : c \in Channels} \ {0}

(* pruneSessionStoreRecords, at the start of every iteration. *)
pruned(rs) ==
    elementsAt(rs, {i \in DOMAIN rs : rs[i].sess \in activeSessions \/ ~rs[i].old})

(***************************************************************************)
(* lookupSession through the router's SessionResolver: the current session *)
(* or, when it aged past the channel's timeout or could not be read, none. *)
(* The agent's own sessions map is not consulted.                          *)
(***************************************************************************)
lookupSession(c) == {Current(records[c]), 0}

-----------------------------------------------------------------------------
(* FlowManager. *)

mirror(f) == open' = [c \in Channels |-> IF f[c] = flow[c] THEN open[c] ELSE f[c] # NoFlow]

(* Complete: the flow is over; its process, if any, has answered. *)
Complete(c) ==
    /\ flow' = [flow EXCEPT ![c] = NoFlow]
    /\ mirror(flow')
    /\ UNCHANGED <<opened, asked, proc>>

cancelled(c) ==
    IF flow[c].kind = "auth" /\ flow[c].st = "oauth"
    THEN [proc EXCEPT ![flow[c].id].cancelled = TRUE]
    ELSE proc

(* Cancel: cleanup stops the OAuth process of the flow that is dropped. *)
Cancel(c) ==
    /\ flow' = [flow EXCEPT ![c] = NoFlow]
    /\ mirror(flow')
    /\ proc' = cancelled(c)
    /\ UNCHANGED <<opened, asked>>

(* StartAuth, StartToolApproval: the new flow f replaces what was open. *)
start(c, f) ==
    /\ opened < MaxFlows
    /\ opened' = opened + 1
    /\ asked' = [asked EXCEPT ![opened + 1] = f.orig.id]
    /\ flow' = [flow EXCEPT ![c] = f]
    /\ open' = [open EXCEPT ![c] = TRUE]
    /\ proc' = cancelled(c)

newAuth(orig) == [kind |-> "auth", st |-> "choosing", id |-> opened + 1, orig |-> orig]

newApproval(orig, s) == [kind |-> "approval", id |-> opened + 1, orig |-> orig, sess |-> s]

enters(c, st) ==
    /\ flow' = [flow EXCEPT ![c].st = st]
    /\ UNCHANGED <<open, opened, asked>>

-----------------------------------------------------------------------------
(* The goroutine of startSetupToken. *)

startSetupToken(c) ==
    proc' = [proc EXCEPT ![flow[c].id] =
               [st |-> "running", told |-> FALSE, ok |-> FALSE, cancelled |-> FALSE, ch |-> c]]

(* The CLI ends: with a token, a failure, its timeout or its cancellation. *)
(* Exactly one result is put on the flow's oauthDone.                      *)
OAuthEnds(f) ==
    /\ proc[f].st = "running"
    /\ \E ok \in BOOLEAN :
         /\ ok => ~proc[f].cancelled
         /\ proc' = [proc EXCEPT ![f].st = "sent", ![f].ok = ok]
    /\ UNCHANGED <<agentVars, turnVars, flowVars, notify, queue, records, stored, sent, answered,
                   revoked>>

(* Seeded fault: the channel's ID is sent without waiting for the result. *)
mayNotifyEarly(f) == proc[f].st \in {"running", "sent"}

mayNotify(f) == proc[f].st = "sent"

(* The deferred send on OAuthNotify, which waits while it is full. *)
OAuthNotifies(f) ==
    /\ mayNotify(f) /\ ~proc[f].told /\ Len(notify) < NotifyCap
    /\ proc' = [proc EXCEPT ![f].told = TRUE]
    /\ notify' = Append(notify, proc[f].ch)
    /\ UNCHANGED <<agentVars, turnVars, flowVars, queue, records, stored, sent, answered, revoked>>

-----------------------------------------------------------------------------
(* The dispatch of a message. *)

(* Queue.Next: the first user message, else any that waits for its channel. *)
next ==
    LET users == {i \in DOMAIN queue : queue[i].user}
    IN IF users # {} THEN {Min(users)} ELSE DOMAIN queue

(* The agent takes message i, to answer it without a turn. *)
takes(i) == idle /\ i \in next /\ queue' = RemoveAt(queue, i)

noTurn == UNCHANGED <<agentVars, turnVars, notify, sent>>

isPress(m) == m.text \in Presses

(* The press is for the tool approval that is open on its channel. *)
answersOpenApproval(m) == flow[m.ch].kind = "approval" /\ flow[m.ch].id = m.prompt

(* help, the sign-in status, and a command this channel does not allow. *)
OnlyReplies(i) ==
    /\ takes(i) /\ queue[i].text \in Commands \ Builtins
    /\ noTurn /\ UNCHANGED <<flowVars, proc, records, stored, answered, revoked>>

StopsFlow(i) ==
    /\ takes(i) /\ queue[i].text = "stop" /\ "stop" \in Builtins
    /\ Cancel(queue[i].ch)
    /\ noTurn /\ UNCHANGED <<records, stored, answered, revoked>>

(* new, reset, clear, delete: clearChannelSession, whoever sent it.  What *)
(* the channel had talked about until then is revoked.                   *)
StartsFresh(i) ==
    LET c == queue[i].ch IN
    /\ takes(i) /\ queue[i].text = "new" /\ "new" \in Builtins
    /\ Cancel(c)
    /\ records' = [records EXCEPT ![c] = cleared(@)]
    /\ revoked' = revoked \cup {records[c][j].sess : j \in DOMAIN records[c]}
    /\ noTurn /\ UNCHANGED <<stored, answered>>

(* login: the flow opens once the prompt is sent. *)
Login(i) ==
    /\ takes(i) /\ queue[i].text = "login" /\ "login" \in Builtins
    /\ \/ start(queue[i].ch, newAuth(NoMessage))
       \/ UNCHANGED <<flowVars, proc>>
    /\ noTurn /\ UNCHANGED <<records, stored, answered, revoked>>

(* A press nothing waits for gets a notice and is dropped. *)
StalePress(i) ==
    /\ takes(i) /\ isPress(queue[i]) /\ ~answersOpenApproval(queue[i])
    /\ noTurn /\ UNCHANGED <<flowVars, proc, records, stored, answered, revoked>>

-----------------------------------------------------------------------------
(* handleAuthFlow: rest is the queue without the message that says text. *)

waits(rest) == queue' = rest /\ UNCHANGED <<flowVars, proc, stored, answered>>

(* Complete, and retryResult: the message the flow kept goes to the queue. *)
retries(c, rest) ==
    /\ queue' = IF flow[c].orig = NoMessage THEN rest ELSE Append(rest, flow[c].orig)
    /\ answered' = answered \cup {flow[c].id}
    /\ Complete(c)

handleAuthChoosing(c, text, rest) ==
    CASE text = "oauth" /\ Local -> /\ startSetupToken(c) /\ enters(c, "oauth")
                                    /\ queue' = rest /\ UNCHANGED <<stored, answered>>
      [] text = "api" -> /\ enters(c, "key")
                         /\ queue' = rest /\ UNCHANGED <<proc, stored, answered>>
      [] text = "cancel" -> Complete(c) /\ queue' = rest /\ UNCHANGED <<stored, answered>>
      [] OTHER -> waits(rest)

(* The token is for the store; a failed write is only logged.  Options are *)
(* passed by value, so the agent's own credential stays as it was.         *)
handleAuthOAuthActive(c, rest) ==
    LET p == proc[flow[c].id] IN
    CASE p.st = "running" -> waits(rest)
      [] p.st = "sent" /\ ~p.ok -> Complete(c) /\ queue' = rest /\ UNCHANGED <<stored, answered>>
      [] OTHER -> /\ stored' \in {stored, TRUE}
                  /\ IF HasProd
                     THEN enters(c, "deploy") /\ queue' = rest /\ UNCHANGED <<proc, answered>>
                     ELSE retries(c, rest)

(* Whether the deployment succeeds changes nothing here. *)
handleAuthDeployConfirm(c, text, rest) ==
    IF text \in {"yes", "no"} THEN retries(c, rest) /\ UNCHANGED stored ELSE waits(rest)

(* An invalid key, or one that could not be saved, is asked for again. *)
handleAuthAPIKeyEntry(c, text, rest) ==
    \/ text = "key" /\ stored' = TRUE /\ retries(c, rest)
    \/ waits(rest)

handleAuthFlow(c, text, rest) ==
    CASE flow[c].st = "choosing" -> handleAuthChoosing(c, text, rest)
      [] flow[c].st = "oauth" -> handleAuthOAuthActive(c, rest)
      [] flow[c].st = "deploy" -> handleAuthDeployConfirm(c, text, rest)
      [] flow[c].st = "key" -> handleAuthAPIKeyEntry(c, text, rest)

AnswersAuth(i) ==
    LET m == queue[i] IN
    /\ idle /\ i \in next
    /\ flow[m.ch].kind = "auth" /\ m.user /\ m.text \notin Commands \cup Presses
    /\ handleAuthFlow(m.ch, m.text, RemoveAt(queue, i))
    /\ noTurn /\ UNCHANGED <<records, revoked>>

(* OAuthNotify: an empty message of the user's, if a sign-in is still open. *)
TakesNotify ==
    LET c == Head(notify) IN
    /\ idle /\ notify # <<>>
    /\ notify' = Tail(notify)
    /\ IF flow[c].kind = "auth" THEN handleAuthFlow(c, "", queue) ELSE waits(queue)
    /\ UNCHANGED <<agentVars, turnVars, records, sent, revoked>>

-----------------------------------------------------------------------------
(* The turn. *)

(***************************************************************************)
(* A turn for m on its channel.  by is the answer that approved it, left   *)
(* the session the message's last attempt ran in (0: it had none).         *)
(***************************************************************************)
beginTurn(m, by, left) ==
    /\ \E s \in lookupSession(m.ch) :
         turn' = [on |-> TRUE, msg |-> m, by |-> by, sess |-> s, left |-> left, attempt |-> 0,
                  cut |-> FALSE]
    /\ runs' = [runs EXCEPT ![m.id] = @ + 1]
    /\ UNCHANGED <<agentVars, notify, records, stored, sent, revoked>>

(* The message is neither a command, nor a press, nor an answer. *)
BeginTurn(i) ==
    LET m == queue[i] IN
    /\ takes(i) /\ m.text \notin Commands \cup Presses
    /\ m.user => flow[m.ch] = NoFlow
    /\ beginTurn(m, NoMessage, 0)
    /\ UNCHANGED <<override, flowVars, proc, answered>>

(* Seeded fault: a press counts whatever prompt it was for. *)
approvesAny(m) == m.text \in {"yes", "pressYes"}

(* approve, yes, y, or the prompt's own button. *)
approves(m) == m.text = "yes" \/ (m.text = "pressYes" /\ answersOpenApproval(m))

declines(m) == m.text \in {"no", "cancel"} \/ (m.text = "pressNo" /\ answersOpenApproval(m))

(* buildApprovalOverride: the message the flow kept, with its tools allowed. *)
Approves(i) ==
    LET m == queue[i] IN
    /\ takes(i) /\ flow[m.ch].kind = "approval" /\ m.user /\ approves(m)
    /\ beginTurn(flow[m.ch].orig, m, flow[m.ch].sess)
    /\ override' = override \cup {m.ch}
    /\ answered' = answered \cup {flow[m.ch].id}
    /\ Complete(m.ch)

Declines(i) ==
    LET m == queue[i] IN
    /\ takes(i) /\ flow[m.ch].kind = "approval" /\ m.user /\ declines(m)
    /\ Complete(m.ch)
    /\ noTurn /\ UNCHANGED <<records, stored, answered, revoked>>

(* Any other message ends the approval and has a turn of its own. *)
MovesOn(i) ==
    LET m == queue[i] IN
    /\ takes(i) /\ flow[m.ch].kind = "approval" /\ m.user
    /\ m.text \notin Commands \cup Presses /\ ~approves(m) /\ ~declines(m)
    /\ Complete(m.ch)
    /\ beginTurn(m, NoMessage, 0)
    /\ UNCHANGED <<override, answered>>

(* Sessions something still refers to; a new one has another ID. *)
known ==
    revoked \cup {turn.left} \cup {flow[c].sess : c \in {d \in Channels : flow[d].kind = "approval"}}
    \cup UNION {{records[c][i].sess : i \in DOMAIN records[c]} : c \in Channels}

newSession == Min((1..(Cardinality(known) + 1)) \ known)

(* The session the CLI runs in: the one it resumes or, unless it dies first, a new one. *)
cliSessions == IF turn.sess # 0 THEN {turn.sess} ELSE {0, newSession}

(* restoreOverride, set by the approval this turn began with. *)
restoreOverride ==
    override' = IF turn.by = NoMessage THEN override ELSE override \ {turn.msg.ch}

(* The label done, which every turn reaches. *)
done ==
    /\ turn' = NoTurn
    /\ restoreOverride
    /\ UNCHANGED <<agentVars, runs, notify, queue, stored, sent, answered, revoked>>

(* The reply is complete, or the turn failed, was stopped or used up its *)
(* attempts: the session is kept either way.                             *)
TurnCompletes ==
    /\ alive /\ turn.on
    /\ \E s \in cliSessions : SetCurrent(turn.msg.ch, s)
    /\ done /\ UNCHANGED <<flowVars, proc>>

(***************************************************************************)
(* Rate limited: the same message again after a delay.  handle returns an  *)
(* empty session ID with every error, so the retry resumes what the first  *)
(* attempt resumed.                                                        *)
(***************************************************************************)
RateLimited ==
    /\ alive /\ turn.on /\ ~turn.cut /\ turn.attempt < MaxRetries
    /\ \E s \in cliSessions :
            turn' = [turn EXCEPT !.attempt = @ + 1, !.left = s]
    /\ UNCHANGED <<agentVars, override, runs, flowVars, proc, notify, queue, records,
                   stored, sent, answered, revoked>>

(* Seeded fault: every turn may open its prompt. *)
replacesNone == FALSE

(* Nobody started this turn and the user has a prompt to answer. *)
wouldReplaceOpenPrompt == ~turn.msg.user /\ flow[turn.msg.ch] # NoFlow

(* ErrAuthRequired.  The flow is dropped again if its prompt cannot be sent. *)
AuthRequired ==
    LET c == turn.msg.ch IN
    /\ alive /\ turn.on
    /\ IF wouldReplaceOpenPrompt
       THEN UNCHANGED <<flowVars, proc>>
       ELSE \/ start(c, newAuth(turn.msg))
            \/ Cancel(c)
    /\ done /\ UNCHANGED records

(* ToolsDeniedError.  The flow stays open even if its prompt was not sent. *)
ToolsDenied ==
    LET c == turn.msg.ch IN
    /\ alive /\ turn.on /\ ~(AsksMidTurn /\ turn.msg.user)
    /\ IF wouldReplaceOpenPrompt
       THEN UNCHANGED <<flowVars, proc>>
       ELSE \E s \in cliSessions : start(c, newApproval(turn.msg, s))
    /\ done /\ UNCHANGED records

-----------------------------------------------------------------------------
(* Messages arrive, agents come and go, records age. *)

newMessage(m) ==
    /\ sent < MaxMessages /\ Len(queue) < MaxQueue /\ m.id = sent + 1
    /\ ~m.user => m.text \in OtherTexts
    /\ IF isPress(m) THEN m.prompt \in 1..opened ELSE m.prompt = 0
    /\ sent' = sent + 1

Arrives(m) ==
    /\ newMessage(m) /\ ~turn.on
    /\ queue' = Append(queue, m)
    /\ UNCHANGED <<agentVars, turnVars, flowVars, proc, notify, records, stored, answered, revoked>>

(* stop, on whatever channel, cancels the turn; a stale press is refused; *)
(* everything else waits in the queue.                                    *)
ArrivesMidTurn(m) ==
    /\ newMessage(m) /\ turn.on
    /\ CASE m.text = "stop" -> turn' = [turn EXCEPT !.cut = TRUE] /\ UNCHANGED queue
         [] isPress(m) /\ ~answersOpenApproval(m) -> UNCHANGED <<turn, queue>>
         [] OTHER -> queue' = Append(queue, m) /\ UNCHANGED turn
    /\ UNCHANGED <<agentVars, override, runs, flowVars, proc, notify, records, stored,
                   answered, revoked>>

(* Idle timeout, channel change, shutdown: the flows go with the agent and *)
(* nothing tells OpenPrompts.                                              *)
AgentExits ==
    /\ alive
    /\ alive' = FALSE
    /\ turn' = NoTurn /\ override' = {}
    /\ flow' = [c \in Channels |-> NoFlow]
    /\ proc' = [f \in Flows |-> NoProcess] /\ notify' = <<>>
    /\ UNCHANGED <<cred, agents, runs, open, opened, asked, queue, records, stored, sent,
                   answered, revoked>>

(* A message wakes the router: it prunes the session records, but for the *)
(* lists it fails to read or write, and the next agent loads the persisted *)
(* credential.                                                             *)
AgentStarts ==
    /\ ~alive /\ agents < MaxAgents /\ queue # <<>>
    /\ alive' = TRUE /\ agents' = agents + 1
    /\ cred' = stored
    /\ \E kept \in SUBSET Channels :
         records' = [c \in Channels |-> IF c \in kept THEN records[c] ELSE pruned(records[c])]
    /\ UNCHANGED <<turnVars, flowVars, proc, notify, queue, stored, sent, answered, revoked>>

(* Time passes; only the next iteration's cleanup looks at it. *)
RecordsAge ==
    /\ ~alive
    /\ records' = [c \in Channels |-> [i \in DOMAIN records[c] |->
                     [records[c][i] EXCEPT !.old = TRUE]]]
    /\ UNCHANGED <<agentVars, turnVars, flowVars, proc, notify, queue, stored, sent, answered,
                   revoked>>

-----------------------------------------------------------------------------
Init ==
    /\ alive = FALSE /\ cred = FALSE /\ agents = 0
    /\ turn = NoTurn /\ override = {}
    /\ flow = [c \in Channels |-> NoFlow] /\ open = [c \in Channels |-> FALSE]
    /\ proc = [f \in Flows |-> NoProcess] /\ notify = <<>>
    /\ queue = <<>> /\ records = [c \in Channels |-> <<>>]
    /\ stored = FALSE
    /\ sent = 0 /\ opened = 0
    /\ runs = [m \in Ids |-> 0] /\ asked = [f \in Flows |-> 0]
    /\ answered = {} /\ revoked = {}

Commanded == \E i \in DOMAIN queue :
    OnlyReplies(i) \/ StopsFlow(i) \/ StartsFresh(i) \/ Login(i) \/ StalePress(i)

Answered == \E i \in DOMAIN queue : AnswersAuth(i) \/ Approves(i) \/ Declines(i) \/ MovesOn(i)

Begins == \E i \in DOMAIN queue : BeginTurn(i)

Ends == TurnCompletes \/ RateLimited \/ AuthRequired \/ ToolsDenied

OAuth == \E f \in Flows : OAuthEnds(f) \/ OAuthNotifies(f)

Sends == \E m \in Message : Arrives(m) \/ ArrivesMidTurn(m)

Next == Commanded \/ Answered \/ Begins \/ Ends \/ OAuth \/ TakesNotify \/ Sends
        \/ AgentExits \/ AgentStarts \/ RecordsAge

Spec == Init /\ [][Next]_vars

(***************************************************************************)
(* setup-token ends, at the latest by its timeout, and its goroutine goes  *)
(* on; the agent's select takes what is ready; the CLI ends its turns.     *)
(***************************************************************************)
FairSpec ==
    Spec /\ WF_vars(OAuth) /\ WF_vars(TakesNotify) /\ WF_vars(Ends)

-----------------------------------------------------------------------------
(* Every variable keeps its type. *)
TypeOK ==
    /\ {alive, cred, stored} \subseteq BOOLEAN
    /\ turn \in Turn \cup {NoTurn}
    /\ override \subseteq Channels
    /\ flow \in [Channels -> Auth \cup Approval \cup {NoFlow}]
    /\ open \in [Channels -> BOOLEAN]
    /\ proc \in [Flows -> Process \cup {NoProcess}]
    /\ notify \in Seq(Channels) /\ Len(notify) <= NotifyCap
    /\ queue \in Seq(Message)
    /\ records \in [Channels -> Seq(Record)]
    /\ sent \in 0..MaxMessages /\ opened \in 0..MaxFlows
    /\ agents \in 0..MaxAgents
    /\ runs \in [Ids -> Nat] /\ asked \in [Flows -> 0..MaxMessages]
    /\ answered \subseteq Flows /\ revoked \subseteq Nat

(***************************************************************************)
(* A tool approval covers one turn: a channel's tool list is expanded only *)
(* during the turn of the very message the denied prompt was about, after  *)
(* the user answered on that channel, and by a button only by that         *)
(* prompt's own button.                                                    *)
(***************************************************************************)
GrantIsForOneTurn ==
    \A c \in override :
        /\ turn.on /\ turn.msg.ch = c
        /\ turn.by # NoMessage /\ turn.by.user /\ turn.by.ch = c
        /\ isPress(turn.by) => asked[turn.by.prompt] = turn.msg.id

(* A message has one turn, and one more for each prompt about it that the *)
(* user answered with a sign-in or an approval: no step retries it twice. *)
RunsArePaidFor ==
    \A m \in Ids : runs[m] <= 1 + Cardinality({f \in answered : asked[f] = m})

(* A setup-token process that was not cancelled is the one the channel's *)
(* open sign-in waits for: no replaced or finished flow leaves one behind. *)
OneSignIn ==
    \A f \in Flows :
        proc[f].st = "running" /\ ~proc[f].cancelled =>
            LET g == flow[proc[f].ch] IN g.kind = "auth" /\ g.st = "oauth" /\ g.id = f

(* A conversation the user ended with a fresh-session command never comes *)
(* back: no later turn resumes it, and it is no channel's current session. *)
ClearedStaysCleared ==
    /\ turn.on => turn.sess \notin revoked
    /\ activeSessions \cap revoked = {}

(* A prompt is closed or replaced by the agent's exit, by the end of a turn *)
(* the user started on its channel, by a message of the user's or a command *)
(* there, or by its own sign-in process: never by a turn nobody started.    *)
PromptsAreTheUsers ==
    [][\A c \in Channels :
         flow[c] # NoFlow /\ (flow'[c] = NoFlow \/ flow'[c].id # flow[c].id) =>
            \/ ~alive'
            \/ turn.on /\ turn.msg.ch = c /\ turn.msg.user
            \/ ~turn.on /\ \E i \in next : /\ queue[i].ch = c
                                           /\ queue[i].user \/ queue[i].text \in Commands
            \/ ~turn.on /\ notify # <<>> /\ Head(notify) = c]_vars

(* A sign-in in the browser is always followed up: once setup-token ended, *)
(* the channel's flow moves on, though only a bare channel ID says so.     *)
SignInSettles ==
    \A c \in Channels :
        LET signingIn == flow[c].kind = "auth" /\ flow[c].st = "oauth"
        IN signingIn ~> ~signingIn

(* A turn is run, with more tools or again, because the user asked for it, *)
(* and a sign-in runs because its prompt is open.                          *)
TurnsAreAskedFor == TypeOK /\ GrantIsForOneTurn /\ RunsArePaidFor /\ OneSignIn

=============================================================================
