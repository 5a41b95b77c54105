---------------------------- MODULE Confirmations ----------------------------
(***************************************************************************)
(* The questions tclaw puts to the user itself, on one channel.            *)
(*                                                                         *)
(*  - A confirmation (close this channel, grant repository access, save a  *)
(*    rulebook): a tool call writes a PendingAction into the channel's     *)
(*    runtime state, sends the prompt and returns.  The router's bridge    *)
(*    looks at every message before the agent does, and a yes performs the *)
(*    action (router/done.go, rule_write.go, repo_grant.go,                *)
(*    channel/runtime_state.go).                                           *)
(*  - An approval of a tool call during a turn: the call waits, for four   *)
(*    minutes, for a press the bridge hands it (permission_prompt.go).     *)
(*  - The agent's own flow (sign-in, tool approval), which starts and ends *)
(*    at its own pace.  The bridge asks OpenPrompts about it once for each *)
(*    message (agent/flows.go, channel/prompt.go); the answer is left open.*)
(*                                                                         *)
(* The bridge exists while the agent runs.  Without an agent the router    *)
(* itself reads the message that starts one.                               *)
(***************************************************************************)
EXTENDS Integers, FiniteSets, Sequences

CONSTANTS
    Prompts,       \* confirmations, each asked for by one tool call
    Teardown,      \* those of them that close the channel
    Approvals,     \* tool calls that need the user's approval
    HasButtons,    \* the channel is a Prompter
    None,
    MaxSaid,       \* bound on inbound messages
    MaxFailures    \* bound on failing writes and prompts, torn reads and crashes together

ASSUME ConfirmationsAssumption ==
    /\ Teardown \subseteq Prompts
    /\ Prompts \cap Approvals = {}
    /\ None \notin Prompts \cup Approvals
    /\ HasButtons \in BOOLEAN
    /\ MaxSaid \in Nat /\ MaxFailures \in Nat

VARIABLES
    pendingAction, \* PendingAction of the runtime state, by its prompt
    expired,     \* prompts whose ExpiresAt has passed
    tool,        \* per prompt: the tool call that asks for it
    shown,       \* prompts the user can see
    said,        \* the inbound messages, in order
    read,        \* how many of them the router has read
    running,     \* the agent, and with it the bridge, is running
    turn,        \* it is in a turn
    bpc, got,    \* the bridge, and the pending action it found
    appr,        \* per approval: the call of askPermission
    waiting,     \* permissionPrompts.waiting
    reply,       \* per approval: its one-slot reply channel
    cut,         \* approvals whose turn has ended
    unanswered,  \* permissionPrompts.unanswered
    settled,     \* history: what replies did to the prompts
    unclear,     \* history: prompts that clearPendingAction failed to clear
    bypassed,    \* history: the refusals that started an agent, past the bridge
    failures

promptVars == <<pendingAction, expired, tool, shown>>
bridgeVars == <<bpc, got>>
turnVars == <<running, turn>>
approvalVars == <<appr, waiting, reply, cut, unanswered>>
histVars == <<settled, unclear, bypassed>>

vars == <<pendingAction, expired, tool, shown, said, read, running, turn, bpc, got,
          appr, waiting, reply, cut, unanswered, settled, unclear, bypassed, failures>>

(* What the bridge is looking at: the message read last. *)
msg == said[read]

failure == failures < MaxFailures /\ failures' = failures + 1

-----------------------------------------------------------------------------
(* Inbound messages. *)

Kinds == {"yes", "text", "auto", "pressYes", "pressNo"}
isPress(s) == s.kind \in {"pressYes", "pressNo"}

Says(kind, prompt) ==
    /\ Len(said) < MaxSaid
    /\ said' = Append(said, [kind |-> kind, prompt |-> prompt,
                              seen |-> IF kind = "text" THEN shown \cap {pendingAction} ELSE {}])
    /\ UNCHANGED <<promptVars, read, bridgeVars, turnVars, approvalVars, histVars, failures>>

(* The user has p's open prompt before them and refuses it. *)
declines(s, p) == (s.kind = "text" /\ p \in s.seen) \/ (s.kind = "pressNo" /\ s.prompt = p)

(* The user types yes or something else, or an automated message arrives. *)
Arrives == \E kind \in {"yes", "text", "auto"} : Says(kind, None)

(* A button under any prompt the user can see, also one long answered. *)
Presses ==
    /\ HasButtons
    /\ \E p \in shown, kind \in {"pressYes", "pressNo"} : Says(kind, p)

-----------------------------------------------------------------------------
(* A tool call asks for a confirmation. *)

(* Update holds the store's lock; a failing write may leave an empty file. *)
updateFails == failure /\ pendingAction' \in {pendingAction, None}

(* Seeded fault: an open confirmation is replaced. *)
armsAlways(p) == TRUE

(* ArmPendingAction *)
arms(p) == pendingAction = None \/ pendingAction \in expired

ToolArms(p) ==
    /\ turn /\ tool[p] = "new"
    /\ \/ /\ arms(p) /\ pendingAction' = p
          /\ tool' = [tool EXCEPT ![p] = "ask"]
          /\ UNCHANGED failures
       \/ /\ ~arms(p) /\ tool' = [tool EXCEPT ![p] = "returned"]
          /\ UNCHANGED <<pendingAction, failures>>
       \/ updateFails /\ tool' = [tool EXCEPT ![p] = "returned"]
    /\ UNCHANGED <<expired, shown, said, read, bridgeVars, turnVars, approvalVars, histVars>>

(* The prompt is sent after the action was armed; a failing call may show it. *)
ToolAsks(p) ==
    /\ tool[p] = "ask"
    /\ \/ /\ tool' = [tool EXCEPT ![p] = "returned"] /\ shown' = shown \cup {p}
          /\ UNCHANGED failures
       \/ /\ failure /\ tool' = [tool EXCEPT ![p] = "rollback"]
          /\ shown' \in {shown, shown \cup {p}}
    /\ UNCHANGED <<pendingAction, expired, said, read, bridgeVars, turnVars, approvalVars, histVars>>

(* The rollback clears whatever is armed by now. *)
ToolRollsBack(p) ==
    /\ tool[p] = "rollback" /\ tool' = [tool EXCEPT ![p] = "returned"]
    /\ \/ pendingAction' = None /\ UNCHANGED failures
       \/ updateFails
    /\ UNCHANGED <<expired, shown, said, read, bridgeVars, turnVars, approvalVars, histVars>>

(* PendingConfirmationTTL passes, for a prompt that anybody still looks at. *)
Expires(p) ==
    /\ p \in {pendingAction, got} /\ p \notin expired
    /\ expired' = expired \cup {p}
    /\ UNCHANGED <<pendingAction, tool, shown, said, read, bridgeVars, turnVars, approvalVars,
                   histVars, failures>>

-----------------------------------------------------------------------------
(* The bridge. *)

reads == read < Len(said) /\ read' = read + 1

(* Seeded fault: a press answers whichever approval waits. *)
resolvesAny(s, a) == isPress(s) /\ a \in waiting

(* resolve: the press names an approval that still waits. *)
resolves(s, a) == isPress(s) /\ a = s.prompt /\ a \in waiting

replyOf(s) == IF s.kind = "pressYes" THEN "yes" ELSE "no"

BridgeReads ==
    LET s == said[read + 1]
    IN  /\ running /\ bpc = "idle" /\ reads
        /\ \/ \E a \in Approvals :
                /\ resolves(s, a)
                /\ waiting' = waiting \ {a}
                /\ reply' = [reply EXCEPT ![a] = replyOf(s)]
                /\ UNCHANGED bpc
           \/ /\ ~\E a \in Approvals : resolves(s, a)
              /\ bpc' = "get"
              /\ UNCHANGED <<waiting, reply>>
        /\ UNCHANGED <<promptVars, said, got, turnVars, appr, cut, unanswered, histVars,
                       failures>>

(***************************************************************************)
(* Get does not take the store's lock: while another goroutine writes the  *)
(* runtime state it may find the file empty or cut short.  Automated       *)
(* traffic, and a message with nothing pending, is handed on.              *)
(***************************************************************************)
othersWrite == turn \/ \E p \in Prompts : tool[p] \in {"ask", "rollback"}

BridgeGets ==
    /\ bpc = "get"
    /\ \/ /\ pendingAction # None /\ msg.kind # "auto"
          /\ bpc' = "judge" /\ got' = pendingAction
          /\ UNCHANGED failures
       \/ /\ pendingAction = None \/ msg.kind = "auto"
          /\ bpc' = "idle" /\ UNCHANGED <<got, failures>>
       \/ /\ othersWrite /\ failure
          /\ bpc' = "idle" /\ UNCHANGED got
    /\ UNCHANGED <<promptVars, said, read, turnVars, approvalVars, histVars>>

(* Seeded fault: a press on any prompt counts. *)
otherPromptIgnored == FALSE

(* A button of another prompt is no answer to this one. *)
otherPrompt == isPress(msg) /\ msg.prompt # got

(* A typed yes could be meant for the agent's own prompt, if one is open. *)
ambiguous(open) == msg.kind = "yes" /\ open /\ HasButtons

(***************************************************************************)
(* The message is judged with the clock and the open prompts of this       *)
(* moment: "drop" clears the action, "approve" clears it and performs it.  *)
(***************************************************************************)
Judge ==
    /\ bpc = "judge"
    /\ \E open \in BOOLEAN :
         \/ got \in expired /\ bpc' = "drop"
         \/ got \notin expired /\ (otherPrompt \/ ambiguous(open)) /\ bpc' = "idle"
         \/ /\ got \notin expired /\ ~otherPrompt /\ ~ambiguous(open)
            /\ bpc' = IF msg.kind \in {"text", "pressNo"} THEN "drop" ELSE "approve"
    /\ got' = IF bpc' = "idle" THEN None ELSE got
    /\ UNCHANGED <<promptVars, said, read, turnVars, approvalVars, histVars, failures>>

(* Seeded fault: the action stays armed. *)
clearedNot == UNCHANGED <<pendingAction, unclear, failures>>

(* clearPendingAction clears whatever is armed; a failure is only logged. *)
cleared ==
    \/ pendingAction' = None /\ UNCHANGED <<unclear, failures>>
    \/ updateFails /\ unclear' = unclear \cup {got}

settles(how) == settled' = settled \cup {[prompt |-> got, reply |-> read, how |-> how]}

Drop ==
    /\ bpc = "drop" /\ cleared
    /\ bpc' = "idle" /\ got' = None
    /\ settles("dropped")
    /\ UNCHANGED <<expired, tool, shown, said, read, turnVars, approvalVars, bypassed>>

Approve ==
    /\ bpc = "approve" /\ cleared
    /\ bpc' = "perform"
    /\ UNCHANGED <<expired, tool, shown, said, read, got, turnVars, approvalVars, settled,
                   bypassed>>

(***************************************************************************)
(* The handler of the action.  Closing the channel also deletes its        *)
(* runtime state, unless it fails half way.                                *)
(***************************************************************************)
Perform ==
    /\ bpc = "perform" /\ bpc' = "idle" /\ got' = None
    /\ settles("performed")
    /\ pendingAction' \in IF got \in Teardown THEN {pendingAction, None} ELSE {pendingAction}
    /\ UNCHANGED <<expired, tool, shown, said, read, turnVars, approvalVars, unclear,
                   bypassed, failures>>

-----------------------------------------------------------------------------
(* Approvals during a turn. *)

(***************************************************************************)
(* The call is refused at once when an earlier prompt of the turn went     *)
(* unanswered, without buttons, and when the input is too long to show.    *)
(***************************************************************************)
AskPermission(a) ==
    /\ turn /\ appr[a] = "new"
    /\ \/ appr' = [appr EXCEPT ![a] = "denied"] /\ UNCHANGED waiting
       \/ /\ ~unanswered /\ HasButtons
          /\ appr' = [appr EXCEPT ![a] = "ask"] /\ waiting' = waiting \cup {a}
    /\ UNCHANGED <<promptVars, said, read, bridgeVars, turnVars, reply, cut, unanswered,
                   histVars, failures>>

(* A failing SendPrompt refuses the call; it may have been shown. *)
SendPrompt(a) ==
    /\ appr[a] = "ask"
    /\ \/ /\ appr' = [appr EXCEPT ![a] = "wait"] /\ shown' = shown \cup {a}
          /\ UNCHANGED <<waiting, failures>>
       \/ /\ failure /\ shown' \in {shown, shown \cup {a}}
          /\ appr' = [appr EXCEPT ![a] = "denied"] /\ waiting' = waiting \ {a}
    /\ UNCHANGED <<pendingAction, expired, tool, said, read, bridgeVars, turnVars, reply, cut,
                   unanswered, histVars>>

decides(a, decision) ==
    /\ appr' = [appr EXCEPT ![a] = decision]
    /\ waiting' = waiting \ {a} /\ cut' = cut \ {a}
    /\ reply' = [reply EXCEPT ![a] = None]
    /\ UNCHANGED <<promptVars, said, read, bridgeVars, turnVars, unanswered, histVars, failures>>

Answered(a) ==
    /\ appr[a] = "wait" /\ reply[a] # None
    /\ decides(a, IF reply[a] = "yes" THEN "allowed" ELSE "denied")

TurnIsOver(a) == appr[a] = "wait" /\ a \in cut /\ decides(a, "denied")

(* permissionPromptTimeout passes; the prompt is forgotten a moment later. *)
TimesOut(a) ==
    /\ appr[a] = "wait"
    /\ appr' = [appr EXCEPT ![a] = "late"] /\ unanswered' = TRUE
    /\ UNCHANGED <<promptVars, said, read, bridgeVars, turnVars, waiting, reply, cut,
                   histVars, failures>>

Forget(a) == appr[a] = "late" /\ decides(a, "denied")

ApprovalStep(a) == SendPrompt(a) \/ Answered(a) \/ TurnIsOver(a) \/ TimesOut(a) \/ Forget(a)

-----------------------------------------------------------------------------
(* The agent. *)

(* OnTurnStart calls newTurn. *)
TurnStarts ==
    /\ running /\ ~turn /\ turn' = TRUE
    /\ unanswered' = FALSE
    /\ UNCHANGED <<promptVars, said, read, bridgeVars, running, appr, waiting,
                   reply, cut, histVars, failures>>

TurnEnds ==
    /\ turn /\ turn' = FALSE
    /\ cut' = cut \cup {a \in Approvals : appr[a] \in {"ask", "wait", "late"}}
    /\ UNCHANGED <<promptVars, said, read, bridgeVars, running, appr, waiting,
                   reply, unanswered, histVars, failures>>

(* An idle timeout or a channel change; the router waits for the bridge. *)
AgentExits ==
    /\ running /\ ~turn /\ bpc = "idle"
    /\ running' = FALSE
    /\ UNCHANGED <<promptVars, said, read, bridgeVars, turn, approvalVars, histVars,
                   failures>>

(***************************************************************************)
(* A message of this channel starts the agent: the router puts it into     *)
(* bridgeCh, past the bridge.  Or another channel, or queued work, does.   *)
(***************************************************************************)
FirstMessage ==
    /\ ~running /\ running' = TRUE
    /\ reads
    /\ bypassed' = IF \E p \in Prompts : declines(said[read'], p)
                   THEN bypassed \cup {read'} ELSE bypassed
    /\ UNCHANGED <<promptVars, said, bridgeVars, turn, approvalVars, settled,
                   unclear, failures>>

AgentStarts ==
    /\ ~running /\ running' = TRUE
    /\ UNCHANGED <<promptVars, said, read, bridgeVars, turn, approvalVars,
                   histVars, failures>>

(***************************************************************************)
(* The process dies.  The pending action is on disk, unless the crash cut  *)
(* a write short; messages it had received are lost.                       *)
(***************************************************************************)
Crash ==
    /\ failure
    /\ pendingAction' \in {pendingAction, None}
    /\ tool' = [p \in Prompts |-> IF tool[p] \in {"ask", "rollback"} THEN "returned" ELSE tool[p]]
    /\ read' \in read..Len(said)
    /\ running' = FALSE /\ turn' = FALSE
    /\ bpc' = "idle" /\ got' = None
    /\ appr' = [a \in Approvals |-> IF appr[a] \in {"ask", "wait", "late"} THEN "denied" ELSE appr[a]]
    /\ waiting' = {} /\ reply' = [a \in Approvals |-> None]
    /\ cut' = {} /\ unanswered' = FALSE
    /\ UNCHANGED <<expired, shown, said, histVars>>

-----------------------------------------------------------------------------
Init ==
    /\ pendingAction = None /\ expired = {} /\ shown = {}
    /\ tool = [p \in Prompts |-> "new"]
    /\ said = <<>> /\ read = 0
    /\ running = FALSE /\ turn = FALSE
    /\ bpc = "idle" /\ got = None
    /\ appr = [a \in Approvals |-> "new"] /\ waiting = {}
    /\ reply = [a \in Approvals |-> None] /\ cut = {} /\ unanswered = FALSE
    /\ settled = {} /\ unclear = {} /\ bypassed = {}
    /\ failures = 0

BridgeStep == BridgeReads \/ BridgeGets \/ Judge \/ Drop \/ Approve \/ Perform

ToolStep(p) == ToolArms(p) \/ ToolAsks(p) \/ ToolRollsBack(p) \/ Expires(p)

AgentStep ==
    \/ TurnStarts \/ TurnEnds
    \/ AgentExits \/ FirstMessage \/ AgentStarts

Next ==
    \/ Arrives \/ Presses
    \/ \E p \in Prompts : ToolStep(p)
    \/ BridgeStep
    \/ \E a \in Approvals : AskPermission(a) \/ ApprovalStep(a)
    \/ AgentStep
    \/ Crash

Spec == Init /\ [][Next]_vars

-----------------------------------------------------------------------------
(* Properties. *)

Said == [kind: Kinds, prompt: Prompts \cup Approvals \cup {None},
         seen: SUBSET Prompts]

(* Every variable keeps its type. *)
TypeOK ==
    /\ pendingAction \in Prompts \cup {None} /\ got \in Prompts \cup {None}
    /\ expired \subseteq Prompts /\ shown \subseteq Prompts \cup Approvals
    /\ tool \in [Prompts -> {"new", "ask", "rollback", "returned"}]
    /\ said \in Seq(Said) /\ read \in 0..Len(said)
    /\ running \in BOOLEAN /\ turn \in BOOLEAN
    /\ bpc \in {"idle", "get", "judge", "drop", "approve", "perform"}
    /\ appr \in [Approvals -> {"new", "ask", "wait", "late", "allowed", "denied"}]
    /\ waiting \subseteq Approvals /\ cut \subseteq Approvals
    /\ reply \in [Approvals -> {"yes", "no", None}]
    /\ unanswered \in BOOLEAN
    /\ settled \subseteq [prompt: Prompts, reply: 1..Len(said), how: {"performed", "dropped"}]
    /\ unclear \subseteq Prompts /\ bypassed \subseteq 1..Len(said)
    /\ failures \in Nat

(* What the user must have sent for an action to be performed. *)
consents(s, p) == s.kind = "yes" \/ (s.kind = "pressYes" /\ s.prompt = p)

(***************************************************************************)
(* Nothing is performed without the user: each action that was performed   *)
(* has a yes of its own, typed or pressed under its own prompt, and no yes *)
(* approves two things.  Messages of schedules, notifications and other    *)
(* channels never do, whatever prompts come, go and expire meanwhile.      *)
(***************************************************************************)
ConsentIsGenuine ==
    \A x \in settled : x.how = "performed" =>
        /\ consents(said[x.reply], x.prompt)
        /\ \A y \in settled : y.reply = x.reply => y = x

(***************************************************************************)
(* A prompt is settled once: what was performed or dropped never comes     *)
(* back, over restarts of the agent, crashes, and tool calls that arm and  *)
(* roll back at any moment.  Only a failing clear can break that.          *)
(***************************************************************************)
SettledOnce ==
    \A x, y \in settled : x.prompt = y.prompt => x = y \/ x.prompt \in unclear

(***************************************************************************)
(* A confirmation that is open is not replaced by another ("replacing it   *)
(* would change the question under the user"), neither by a tool call nor  *)
(* by a rollback, a reply or a crash.                                      *)
(***************************************************************************)
QuestionStands ==
    [][(pendingAction \in Prompts \ expired) => pendingAction' \in {pendingAction, None}]_vars

(***************************************************************************)
(* A tool call is allowed only if the user pressed yes under that call's   *)
(* own prompt: no late, stale or foreign press approves it.                *)
(***************************************************************************)
AllowedWasPressed ==
    \A a \in Approvals : appr[a] = "allowed" =>
        \E i \in DOMAIN said : said[i].kind = "pressYes" /\ said[i].prompt = a

(***************************************************************************)
(* A refusal is final ("anything else: clear the action"): no action is    *)
(* performed for a yes that came after the user had refused it, unless the *)
(* refusal was the message that started an agent and never met the bridge. *)
(***************************************************************************)
DeclineIsFinal ==
    failures = 0 => \A x \in settled : x.how = "performed" =>
        \A i \in 1..(x.reply - 1) : declines(said[i], x.prompt) => i \in bypassed

=============================================================================
