------------------------------- MODULE Telegram -------------------------------
(***************************************************************************)
(* The transport of a Telegram channel, internal/channel/telegramchannel:  *)
(* the bot that hands the user's updates to the router one at a time, and  *)
(* the calls that show, edit and draft what the agent writes.  The channel *)
(* is registered by webhook; its allowlist names the user.                 *)
(*                                                                         *)
(* What goes out waits in the outbox, which keeps the order and gives an   *)
(* operation up when its attempts run out (module Outbox); here it is a    *)
(* queue whose head is delivered or given up.  A text is the sequence of   *)
(* the pieces it is made of, 0 being a blank.                              *)
(***************************************************************************)
EXTENDS Integers, FiniteSets, SequencesExt

CONSTANTS
    Chats,            \* the chats the bot may be written to from
    RichMemory,       \* richMessageMemory
    WebhookRetries,   \* webhookSetupRetries
    PlainLimit,       \* plainMessageLimit, in pieces
    MaxUpdates,       \* bound on the updates of the users and the prompts
    MaxRebuilds,      \* bound on the rebuilds of the channel
    MaxFaults         \* bound on calls and writes that fail

ASSUME TelegramAssumption ==
    /\ Chats \subseteq Nat \ {0}
    /\ RichMemory \in Nat \ {0} /\ WebhookRetries \in Nat \ {0} /\ PlainLimit \in Nat \ {0}
    /\ {MaxUpdates, MaxRebuilds, MaxFaults} \subseteq Nat

VARIABLES
    listen,      \* Messages: "off", "registering", "on" or "dead"
    tries,       \* calls of SetWebhook that were rate limited
    updates,     \* what Telegram holds for the bot
    held,        \* the update the handler offers to the router
    blocked,     \* the router does not take messages
    heard,       \* the kinds of what the router got, of which only a stop matters here
    chatID,      \* currentChatID, 0 for none
    saved,       \* the chat under the chatid_ key
    buttons,     \* of a prompt: "none", "shown" or "answered"
    richOrder,   \* the messages remembered as rich, oldest first
    outgoing,    \* the outbox: operations not yet delivered
    screen,      \* the messages of the chats
    incoming,        \* history: the updates and prompts so far
    givenUp,     \* history: operations given up
    repeated,    \* history: a message was shown by a call that reported an error
    rebuilds, faults

inbound == <<listen, tries, updates, held, blocked, heard, buttons, incoming>>
outbound == <<richOrder, outgoing, screen, givenUp, repeated>>
telegramVars == <<inbound, outbound, chatID, saved, rebuilds, faults>>

NoUpdate == [kind |-> "none", chat |-> 0]
Kinds == {"text", "media", "stop", "press", "stranger"}

\* The bot is up when a turn begins; it knows its chat unless it was never
\* written to.
TelegramInit ==
    /\ listen = "on" /\ tries = 0
    /\ updates = <<>> /\ held = NoUpdate /\ blocked = FALSE /\ heard = {}
    /\ chatID \in Chats \cup {0} /\ saved = chatID
    /\ buttons = "none"
    /\ richOrder = <<>> /\ outgoing = <<>> /\ screen = <<>>
    /\ incoming = 0 /\ givenUp = {} /\ repeated = FALSE
    /\ rebuilds = 0 /\ faults = 0

fails == faults < MaxFaults /\ faults' = faults + 1

-----------------------------------------------------------------------------
(* Messages: the bot, its webhook and its handler.                         *)

\* bot.New asks Telegram who it is; when that fails the channel stays deaf.
BotStarts ==
    /\ listen = "off"
    /\ tries' = 0
    /\ \/ listen' = "registering" /\ UNCHANGED faults
       \/ listen' = "dead" /\ fails
    /\ UNCHANGED <<updates, held, blocked, heard, buttons, incoming, outbound, chatID, saved, rebuilds>>

\* The webhook is set anew, and what Telegram still held is dropped with it.
registerWebhook ==
    /\ listen = "registering"
    /\ \/ listen' = "on" /\ updates' = <<>> /\ UNCHANGED <<tries, faults>>
       \/ /\ fails
          /\ tries' = tries + 1
          /\ listen' = IF tries' = WebhookRetries THEN "dead" ELSE "registering"
          /\ UNCHANGED updates
       \/ /\ fails
          /\ listen' = "dead"
          /\ UNCHANGED <<tries, updates>>
    /\ UNCHANGED <<held, blocked, heard, buttons, incoming, outbound, chatID, saved, rebuilds>>

\* Someone writes, or presses Stop or a prompt's button.
UserSends(kind, c) ==
    /\ incoming < MaxUpdates /\ incoming' = incoming + 1
    /\ kind = "press" => buttons = "shown"
    /\ updates' = Append(updates, [kind |-> kind, chat |-> c])
    /\ UNCHANGED <<listen, tries, held, blocked, heard, buttons, outbound, chatID, saved, rebuilds, faults>>

userAllowed(u) == u.kind # "stranger"

\* What is attached is downloaded first; when that fails, the message says so.
downloadMedia(u) ==
    IF u.kind = "media" THEN {[u EXCEPT !.kind = "file"], [u EXCEPT !.kind = "missing"]} ELSE {u}

\* A message moves the channel to the chat it came from, which is saved when
\* it is another; a press and a stop do not.
Handles ==
    LET u == Head(updates)
    IN  /\ listen = "on" /\ held = NoUpdate /\ updates # <<>>
        /\ updates' = Tail(updates)
        /\ IF userAllowed(u) THEN held' \in downloadMedia(u) ELSE held' = NoUpdate
        /\ IF u.kind \in {"text", "media"} /\ chatID # u.chat
             THEN /\ chatID' = u.chat
                  /\ \/ saved' = u.chat /\ UNCHANGED faults
                     \/ fails /\ UNCHANGED saved
             ELSE UNCHANGED <<chatID, saved, faults>>
        /\ UNCHANGED <<listen, tries, blocked, heard, buttons, incoming, outbound, rebuilds>>

\* The buttons go once the press is on its way, if Telegram lets them.
buttonsAfter(u) == IF u.kind = "press" THEN {"answered", buttons} ELSE {buttons}

HandsOn ==
    /\ held # NoUpdate /\ ~ blocked
    /\ heard' = heard \cup ({held.kind} \cap {"stop"})
    /\ buttons' \in buttonsAfter(held)
    /\ held' = NoUpdate
    /\ UNCHANGED <<listen, tries, updates, blocked, incoming, outbound, chatID, saved, rebuilds, faults>>

\* The fault of waiting as long as it takes.
handsOffNever == FALSE
handsOff == held # NoUpdate

\* After thirty seconds, ten for a press, the update is dropped.
HandoffTimesOut ==
    /\ handsOff
    /\ held' = NoUpdate
    /\ UNCHANGED <<listen, tries, updates, blocked, heard, buttons, incoming, outbound, chatID, saved, rebuilds, faults>>

\* The router stops taking messages.
PipelineBlocks ==
    /\ held # NoUpdate /\ ~ blocked /\ blocked' = TRUE
    /\ UNCHANGED <<listen, tries, updates, held, heard, buttons, incoming, outbound, chatID, saved, rebuilds, faults>>

\* SendPrompt goes straight to Telegram and needs the bot and its chat.
SendPrompt ==
    /\ listen \in {"registering", "on"} /\ chatID # 0 /\ buttons = "none"
    /\ buttons' = "shown"
    /\ incoming < MaxUpdates /\ incoming' = incoming + 1
    /\ UNCHANGED <<listen, tries, updates, held, blocked, heard, outbound, chatID, saved, rebuilds, faults>>

-----------------------------------------------------------------------------
(* Send and Edit.                                                          *)

rememberRich(order, id) ==
    LET grown == Append(order, id)
    IN  IF Len(grown) > RichMemory THEN Tail(grown) ELSE grown

isRich(id) == id \in ToSet(richOrder)

\* A rich message that Telegram refuses goes out as plain text, cut to fit.
plainFallback(text) == [form |-> "plain", text |-> text, cut |-> Len(text) > PlainLimit]
asRich(text) == [form |-> "rich", text |-> text, cut |-> FALSE]
asHTML(text) == [form |-> "html", text |-> text, cut |-> FALSE]
shown(rich, text, body) ==
    \/ body = (IF rich THEN asRich(text) ELSE asHTML(text)) /\ UNCHANGED faults
    \/ rich /\ fails /\ body = plainFallback(text)
bodies(text) == {asRich(text), asHTML(text), plainFallback(text)}

message(op, body) == [id |-> op.id, kind |-> op.kind, chat |-> chatID,
                      form |-> body.form, text |-> body.text, cut |-> body.cut]
delivered == outgoing' = Tail(outgoing)

\* Without a chat a message waits for one, while its attempts last.
Send ==
    LET op == Head(outgoing)
    IN  /\ outgoing # <<>> /\ op.op = "send" /\ chatID # 0
        /\ \E body \in bodies(op.text) :
              shown(op.rich, op.text, body) /\ screen' = Append(screen, message(op, body))
        /\ richOrder' = IF op.rich THEN rememberRich(richOrder, op.id) ELSE richOrder
        /\ delivered
        /\ UNCHANGED <<inbound, chatID, saved, givenUp, repeated, rebuilds>>

\* The rich form fails but was shown: the plain one goes out as well.
SendRepeats ==
    LET op == Head(outgoing)
    IN  /\ outgoing # <<>> /\ op.op = "send" /\ op.rich /\ chatID # 0 /\ fails
        /\ screen' = screen \o <<message(op, asRich(op.text)), message(op, plainFallback(op.text))>>
        /\ richOrder' = rememberRich(richOrder, op.id)
        /\ repeated' = TRUE
        /\ delivered
        /\ UNCHANGED <<inbound, chatID, saved, givenUp, rebuilds>>

\* The message an id stands for: the last that went out under it.
places(id) == {i \in DOMAIN screen : screen[i].id = id /\ \A j \in DOMAIN screen : screen[j].id = id => j <= i}

\* The edit names the message by its number in the chat the channel is in
\* now; in another chat there is none.
Edit ==
    LET op == Head(outgoing)
    IN  /\ outgoing # <<>> /\ op.op = "edit"
        /\ \E i \in places(op.id) :
              /\ screen[i].chat = chatID
              /\ \E body \in bodies(op.text) :
                    shown(isRich(op.id), op.text, body) /\ screen' = [screen EXCEPT ![i] = message(op, body)]
        /\ delivered
        /\ UNCHANGED <<inbound, chatID, saved, richOrder, givenUp, repeated, rebuilds>>

\* The attempts run out, or there is nothing to edit.
GivesUp ==
    LET op == Head(outgoing)
    IN  /\ outgoing # <<>>
        /\ \/ op.op = "send" /\ chatID = 0 /\ UNCHANGED faults
           \/ op.op = "edit" /\ ~ (\E i \in places(op.id) : screen[i].chat = chatID) /\ UNCHANGED faults
           \/ fails
        /\ givenUp' = givenUp \cup {op.id}
        /\ delivered
        /\ UNCHANGED <<inbound, chatID, saved, richOrder, screen, repeated, rebuilds>>

-----------------------------------------------------------------------------
\* The channel is built again: a new bot with the saved chat and no memory
\* of its messages; the update in hand is lost.
Build ==
    /\ rebuilds < MaxRebuilds /\ rebuilds' = rebuilds + 1
    /\ listen' = "off" /\ held' = NoUpdate
    /\ chatID' = saved
    /\ richOrder' = <<>>
    /\ UNCHANGED <<tries, updates, blocked, heard, buttons, incoming, outgoing, screen,
                   givenUp, repeated, saved, faults>>

Listens == BotStarts \/ registerWebhook \/ Handles \/ HandsOn \/ HandoffTimesOut
Users == \E kind \in Kinds, c \in Chats : UserSends(kind, c)
Shows == Send \/ SendRepeats \/ Edit \/ GivesUp

-----------------------------------------------------------------------------
(* A message keeps the form it was sent in: a reply is edited as a rich    *)
(* message or as its plain fallback, a status message as HTML, for as long *)
(* as edits of it are under way, though the transport remembers only the   *)
(* last few.  Building the channel anew forgets them all.                  *)
FormIsKept ==
    rebuilds = 0 => \A i \in DOMAIN screen :
        screen[i].form \in IF screen[i].kind = "reply" THEN {"rich", "plain"} ELSE {"html"}

(* A router that stops taking messages does not wedge the bot: everything  *)
(* Telegram holds for it is taken in the end, unless the bot never came up. *)
InboxDrains ==
    <>[](held = NoUpdate /\ (updates = <<>> \/ listen = "dead"))
=============================================================================
