------------------------------ MODULE TurnStream ------------------------------
(***************************************************************************)
(* One turn's output, internal/agent/handle.go: streamResponse reads the   *)
(* events of the claude CLI, turnWriter lays them out as status and reply  *)
(* messages, showing a reply as a draft while it is written, and the       *)
(* transport of module Telegram shows them.                                *)
(*                                                                         *)
(* What the CLI says is a sequence of numbered pieces, of a reply or of    *)
(* the status; piece 0 is tclaw's own: the blank between two blocks of     *)
(* text and the first lines of the status.  Lengths are counted in pieces. *)
(* A subagent's stream and the fragments of a tool call's input write      *)
(* nothing and are no step, and a block of text is not empty.              *)
(***************************************************************************)
EXTENDS Telegram

CONSTANTS
    StatusLimit,   \* maxMessageLen, in pieces
    ReplyLimit,    \* MaxRichReplyLen, in pieces
    MaxEvents,     \* bound on pieces, updates, prompts, faults, breaks and rebuilds together
    MaxBreaks      \* bound on the streams that break off

ASSUME StreamAssumption ==
    /\ StatusLimit \in Nat \ {0} /\ ReplyLimit \in Nat \ {0}
    /\ MaxEvents \in Nat /\ MaxBreaks \in Nat

VARIABLES
    cli,         \* the CLI: "none", "start", "between", "message", "opened" or
                 \* "text" (a block of text, empty or not), "thinking", "tool" or "over"
    breaks,
    streaming,   \* streamingMessage
    hadText,     \* hadTextBlock
    tw,          \* the turnWriter
    outcome,     \* "running", "done" or "failed", by a write
    stopped,     \* the turn's context is cancelled
    said,        \* history: the kind of each piece
    unseen,      \* history: pieces taken for a copy of the stream
    nextID       \* message ids are numbered

streamVars == <<cli, breaks, streaming, hadText, tw, outcome, stopped, said, unseen, nextID>>
outputVars == <<telegramVars, streamVars>>

newTurnWriter(drafts) ==
    [statusID |-> 0, statusBuf |-> <<>>, statusSealed |-> FALSE,
     respID |-> 0, respBuf |-> <<>>, respSealed |-> FALSE,
     drafts |-> drafts, drafting |-> FALSE]

StreamInit ==
    /\ TelegramInit
    /\ cli = "none" /\ breaks = 0 /\ streaming = FALSE /\ hadText = FALSE
    /\ tw \in {newTurnWriter(d) : d \in BOOLEAN}
    /\ outcome = "running" /\ stopped = FALSE
    /\ said = <<>> /\ unseen = {} /\ nextID = 1

-----------------------------------------------------------------------------
(* turnWriter.  A write yields the writer, the operations it put into the  *)
(* outbox and whether it reports an error.  A send that reports an error   *)
(* is in the outbox all the same; "bad" names the one that does.           *)

piecesOf(text) == ToSet(text) \ {0}

written(w, ops, err) == [w |-> w, ops |-> ops, err |-> err]
send(id, kind, text) == [op |-> "send", id |-> id, kind |-> kind, rich |-> kind = "reply", text |-> text]
edit(id, kind, text) == [op |-> "edit", id |-> id, kind |-> kind, rich |-> FALSE, text |-> text]

\* The fault of dropping the draft.
flushDraftNot(w, id, ok) == written([w EXCEPT !.drafting = FALSE], <<>>, FALSE)

flushDraft(w, id, ok) ==
    IF ~ w.drafting THEN written(w, <<>>, FALSE)
    ELSE written([w EXCEPT !.drafting = FALSE, !.respID = IF ok THEN id ELSE @],
                 <<send(id, "reply", w.respBuf)>>, ~ ok)

\* Text of a reply has appeared since: the status goes on in a new message.
freshStatus(w) ==
    IF w.statusSealed THEN [w EXCEPT !.statusBuf = <<>>, !.statusID = 0, !.statusSealed = FALSE] ELSE w

withStatus(w, p) ==
    IF w.statusID # 0 /\ Len(w.statusBuf) + 1 > StatusLimit
      THEN [w EXCEPT !.statusBuf = <<p>>, !.statusID = 0]
      ELSE [w EXCEPT !.statusBuf = Append(@, p)]

\* The fault of going on with the reply above the status.
sealedNot(w) == w.respSealed

\* A status message below the reply ends it.
sealed(w) == w.respSealed \/ w.respID # 0

\* A status that cannot be sent is let go.
writeStatus(w, id, p, bad) ==
    LET flushed == flushDraft(w, id, bad # "reply")
        following == id + Len(flushed.ops)
        s == withStatus(freshStatus(flushed.w), p)
    IN  CASE flushed.err -> flushed
          [] ~ flushed.err /\ s.statusID # 0 ->
                written(s, Append(flushed.ops, edit(s.statusID, "status", s.statusBuf)), FALSE)
          [] OTHER ->
                written(IF bad = "status" THEN s
                        ELSE [s EXCEPT !.statusID = following, !.respSealed = sealed(s)],
                        Append(flushed.ops, send(following, "status", s.statusBuf)), FALSE)

\* A status message appeared below the reply: the reply goes on in a new one.
freshReply(w) ==
    IF w.respSealed THEN [w EXCEPT !.respBuf = <<>>, !.respID = 0, !.respSealed = FALSE] ELSE w
sealsStatus(w) == IF w.respID = 0 THEN [w EXCEPT !.statusSealed = TRUE] ELSE w
full(w) == w.respBuf # <<>> /\ Len(w.respBuf) + 1 > ReplyLimit
blank(text) == piecesOf(text) = {}

\* A draft that the channel shows, or that is not due yet, stands for the
\* reply; one that it refuses is the last.
shows(w, draft) == w.drafts /\ w.respID = 0 /\ draft
refuses(w, draft) == w.drafts /\ w.respID = 0 /\ ~ draft

writeResponse(w, id, p, bad, draft) ==
    LET begun == sealsStatus(freshReply(w))
        flushed == IF full(begun) THEN flushDraft(begun, id, bad # "reply") ELSE written(begun, <<>>, FALSE)
        following == id + Len(flushed.ops)
        r == IF full(begun) THEN [flushed.w EXCEPT !.respBuf = <<p>>, !.respID = 0]
                            ELSE [begun EXCEPT !.respBuf = Append(@, p)]
        q == IF refuses(r, draft) THEN [r EXCEPT !.drafts = FALSE, !.drafting = FALSE] ELSE r
    IN  CASE flushed.err -> flushed
          [] ~ flushed.err /\ blank(r.respBuf) -> written(r, flushed.ops, FALSE)
          [] ~ flushed.err /\ ~ blank(r.respBuf) /\ shows(r, draft) ->
                written([r EXCEPT !.drafting = TRUE], flushed.ops, FALSE)
          [] ~ flushed.err /\ ~ blank(r.respBuf) /\ r.respID # 0 ->
                written(r, Append(flushed.ops, edit(r.respID, "reply", r.respBuf)), FALSE)
          [] OTHER ->
                written([q EXCEPT !.respID = IF bad = "reply" THEN 0 ELSE following],
                        Append(flushed.ops, send(following, "reply", q.respBuf)), bad = "reply")

-----------------------------------------------------------------------------
(* streamResponse: one action per event.                                   *)

reads == outcome = "running" /\ ~ stopped
sends(ops) == Cardinality({i \in DOMAIN ops : ops[i].op = "send"})

\* What a write did; one that reports an error ends the turn.
applies(out, how) ==
    /\ tw' = out.w
    /\ outgoing' = outgoing \o out.ops
    /\ nextID' = nextID + sends(out.ops)
    /\ outcome' = IF out.err THEN "failed" ELSE how

\* A failing send is a fault; "none" fails nothing.
writesStatus(p) ==
    LET out(bad) == writeStatus(tw, nextID, p, bad)
    IN  \/ applies(out("none"), outcome) /\ UNCHANGED faults
        \/ \E bad \in {"reply", "status"} :
              out(bad) # out("none") /\ fails /\ applies(out(bad), outcome)

writesReply(p) ==
    \E draft \in BOOLEAN :
        LET out(bad) == writeResponse(tw, nextID, p, bad, draft)
        IN  \/ applies(out("none"), outcome) /\ UNCHANGED faults
            \/ out("reply").err /\ fails /\ applies(out("reply"), outcome)

\* A reply that is still a draft is sent when the turn ends, after a stop too.
ends ==
    \/ applies(flushDraft(tw, nextID, TRUE), "done") /\ UNCHANGED faults
    \/ tw.drafting /\ fails /\ applies(flushDraft(tw, nextID, FALSE), "done")

transportKept == UNCHANGED <<inbound, chatID, saved, richOrder, screen, givenUp, repeated, rebuilds>>

says(kind) == said' = Append(said, kind)
piece == Len(said) + 1
quiet == UNCHANGED <<outgoing, tw, nextID, outcome, said, faults>>

\* handle: a first line of status before the CLI is started.
HandleStarts ==
    /\ reads /\ cli = "none"
    /\ cli' = "start"
    /\ writesStatus(0)
    /\ transportKept /\ UNCHANGED <<breaks, streaming, hadText, stopped, said, unseen>>

\* system/init, with the session.
SystemInit ==
    /\ reads /\ cli = "start"
    /\ cli' = "between"
    /\ writesStatus(0)
    /\ transportKept /\ UNCHANGED <<breaks, streaming, hadText, stopped, said, unseen>>

\* Notices, retries, refusals, a compaction, a tool's result, a rate limit, a
\* subagent's message: status.
StatusEvent ==
    /\ reads /\ cli \in {"between", "message"} /\ says("status")
    /\ writesStatus(piece)
    /\ transportKept /\ UNCHANGED <<cli, breaks, streaming, hadText, stopped, unseen>>

MessageStart ==
    /\ reads /\ cli = "between"
    /\ cli' = "message" /\ streaming' = TRUE
    /\ quiet /\ transportKept /\ UNCHANGED <<breaks, hadText, stopped, unseen>>

MessageStop ==
    /\ reads /\ cli = "message"
    /\ cli' = "between" /\ streaming' = FALSE
    /\ quiet /\ transportKept /\ UNCHANGED <<breaks, hadText, stopped, unseen>>

\* A block of text after another begins with a blank.
ContentBlockStart(block) ==
    /\ reads /\ cli = "message"
    /\ cli' = block
    /\ IF block = "opened" /\ hadText
         THEN writesReply(0) /\ UNCHANGED said
         ELSE quiet
    /\ transportKept /\ UNCHANGED <<breaks, streaming, hadText, stopped, unseen>>

ContentBlockDelta ==
    /\ reads
    /\ \/ cli \in {"opened", "text"} /\ cli' = "text" /\ says("reply") /\ writesReply(piece)
       \/ cli = "thinking" /\ UNCHANGED cli /\ says("status") /\ writesStatus(piece)
    /\ transportKept /\ UNCHANGED <<breaks, streaming, hadText, stopped, unseen>>

\* The line of a tool call is written once its input is complete.
ContentBlockStop ==
    /\ reads /\ cli \in {"text", "thinking", "tool"}
    /\ cli' = "message"
    /\ hadText' = (hadText \/ cli = "text")
    /\ IF cli = "tool" THEN says("status") /\ writesStatus(piece) ELSE quiet
    /\ transportKept /\ UNCHANGED <<breaks, streaming, stopped, unseen>>

\* A message in the middle of a streamed one is a copy, unless it is an error.
alreadyWritten(error) == streaming /\ ~ error

\* The CLI repeats a streamed block of text whole.
AssistantCopies ==
    /\ reads /\ cli = "message" /\ hadText /\ said # <<>> /\ Last(said) = "reply"
    /\ IF alreadyWritten(FALSE) THEN quiet ELSE writesReply(Len(said)) /\ UNCHANGED said
    /\ transportKept /\ UNCHANGED <<cli, breaks, streaming, hadText, stopped, unseen>>

\* A whole message that was not streamed: a command's answer or an error.
AssistantAnswers(error) ==
    /\ reads /\ cli = "between" /\ says("reply")
    /\ IF alreadyWritten(error)
         THEN /\ unseen' = unseen \cup {piece}
              /\ UNCHANGED <<outgoing, tw, nextID, outcome, faults, hadText>>
         ELSE /\ writesReply(piece)
              /\ hadText' = TRUE
              /\ UNCHANGED unseen
    /\ transportKept /\ UNCHANGED <<cli, breaks, streaming, stopped>>

\* The stream of a message breaks off, and no event says so.
StreamBreaks ==
    /\ reads /\ cli \in {"message", "opened", "text", "thinking", "tool"}
    /\ breaks < MaxBreaks /\ breaks' = breaks + 1
    /\ cli' = "between"
    /\ quiet /\ transportKept /\ UNCHANGED <<streaming, hadText, stopped, unseen>>

\* A result that is no error ends with the figures of the turn; the tools
\* that were refused make it a denied one.
ResultEvent ==
    /\ reads /\ cli = "between"
    /\ says("status")
    /\ cli' = "over"
    /\ writesStatus(piece)
    /\ transportKept /\ UNCHANGED <<breaks, streaming, hadText, stopped, unseen>>

\* Nothing more to read, a CLI that does not start, an error result, a failed
\* sign-in, or a stop: the turn returns (module Turns tells them apart).
StreamEnds ==
    /\ outcome = "running"
    /\ \/ cli \in {"start", "between", "over"} \/ stopped
       \/ breaks < MaxBreaks
    /\ breaks' = IF cli \in {"start", "between", "over"} \/ stopped THEN breaks ELSE breaks + 1
    /\ ends
    /\ cli' = "over"
    /\ transportKept /\ UNCHANGED <<streaming, hadText, stopped, said, unseen>>

\* The router hands the stop to the agent, which cancels the turn.
Stops ==
    /\ reads /\ "stop" \in heard
    /\ stopped' = TRUE
    /\ UNCHANGED <<telegramVars, cli, breaks, streaming, hadText, tw, outcome, said, unseen, nextID>>

-----------------------------------------------------------------------------
Reads ==
    \/ HandleStarts \/ SystemInit \/ StatusEvent \/ MessageStart \/ MessageStop
    \/ \E block \in {"opened", "thinking", "tool"} : ContentBlockStart(block)
    \/ ContentBlockDelta \/ ContentBlockStop
    \/ AssistantCopies \/ \E error \in BOOLEAN : AssistantAnswers(error)
    \/ StreamBreaks \/ ResultEvent
    \/ StreamEnds \/ Stops

bounded == Len(said) + incoming + faults + breaks + rebuilds <= MaxEvents

\* The channel is built anew between turns only.
StreamNext ==
    /\ \/ Reads
       \/ (Listens \/ Shows \/ PipelineBlocks \/ Users \/ SendPrompt) /\ UNCHANGED streamVars
       \/ outcome # "running" /\ Build /\ UNCHANGED streamVars
    /\ bounded'

\* The bot's goroutines run; nobody has to write or to take anything.
StreamSpec ==
    /\ StreamInit /\ [][StreamNext]_outputVars
    /\ WF_outputVars(Listens /\ UNCHANGED streamVars)

-----------------------------------------------------------------------------
(* Types.                                                                  *)

PieceTexts == Seq(Nat)
Messages == [id : Nat \ {0}, kind : {"reply", "status"}, chat : Chats \cup {0},
             form : {"rich", "html", "plain"}, text : PieceTexts, cut : BOOLEAN]
Operations == [op : {"send", "edit"}, id : Nat \ {0}, kind : {"reply", "status"}, rich : BOOLEAN, text : PieceTexts]
Updates == [kind : Kinds \cup {"none", "file", "missing"}, chat : Chats \cup {0}]
TurnWriters == [statusID : Nat, statusBuf : PieceTexts, statusSealed : BOOLEAN,
                respID : Nat, respBuf : PieceTexts, respSealed : BOOLEAN,
                drafts : BOOLEAN, drafting : BOOLEAN]

StreamTypeOK ==
    /\ listen \in {"off", "registering", "on", "dead"} /\ tries \in 0 .. WebhookRetries
    /\ listen = "registering" => tries < WebhookRetries
    /\ updates \in Seq(Updates) /\ held \in Updates
    /\ blocked \in BOOLEAN /\ heard \subseteq {"stop"} /\ buttons \in {"none", "shown", "answered"}
    /\ chatID \in Chats \cup {0} /\ saved \in Chats \cup {0}
    /\ richOrder \in Seq(Nat \ {0}) /\ Len(richOrder) <= RichMemory
    /\ outgoing \in Seq(Operations) /\ screen \in Seq(Messages)
    /\ givenUp \subseteq Nat /\ repeated \in BOOLEAN
    /\ {incoming, rebuilds, faults, breaks} \subseteq Nat
    /\ cli \in {"none", "start", "between", "message", "opened", "text", "thinking", "tool", "over"}
    /\ {streaming, hadText, stopped} \subseteq BOOLEAN
    /\ tw \in TurnWriters /\ outcome \in {"running", "done", "failed"}
    /\ said \in Seq({"reply", "status"}) /\ unseen \subseteq DOMAIN said
    /\ nextID \in Nat \ {0}

-----------------------------------------------------------------------------
replies == {i \in DOMAIN screen : screen[i].kind = "reply"}
saidPieces == {p \in DOMAIN said : said[p] = "reply" /\ p \notin unseen}
shownPieces == UNION {piecesOf(screen[i].text) : i \in replies}
rises(text) == \A k, l \in DOMAIN text : k < l /\ text[k] # 0 /\ text[l] # 0 => text[k] < text[l]
precedes(a, b) == \A p \in piecesOf(a), q \in piecesOf(b) : p < q
settled == outcome # "running" /\ outgoing = <<>>

(* The reply reaches the user whole: once the turn is over and the outbox  *)
(* is empty, the reply messages hold every piece of the reply once and in  *)
(* order, however it was cut into messages, shown as a draft, interrupted  *)
(* by status messages, refused as a draft or stopped half way.  Excepted   *)
(* are operations the outbox gave up, a plain fallback that was cut, a     *)
(* call that failed after it took effect, an answer the CLI gave whole     *)
(* after a stream had broken off, and the last piece of a turn that ended  *)
(* because a write failed.                                                 *)
ReplyIsWhole ==
    settled /\ givenUp = {} /\ ~ repeated /\ (\A i \in DOMAIN screen : ~ screen[i].cut) =>
        /\ shownPieces \in {saidPieces} \cup (IF outcome = "failed" THEN {saidPieces \ {Len(said)}} ELSE {})
        /\ \A i \in replies : rises(screen[i].text)
        /\ \A i, j \in replies : i < j => precedes(screen[i].text, screen[j].text)

(* The chat reads in the order things were said: a status message below a  *)
(* reply holds what came after it, and the other way round, while both are *)
(* still edited.  A failed write or call may turn two of them round.       *)
ChatReadsInOrder ==
    faults = 0 => \A i, j \in DOMAIN screen : i < j => precedes(screen[i].text, screen[j].text)

(* The chat shows what was said, in its order and each message in its own  *)
(* form.                                                                   *)
ChatIsFaithful == StreamTypeOK /\ ChatReadsInOrder /\ FormIsKept

=============================================================================
