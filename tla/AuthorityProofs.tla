----------------------------- MODULE AuthorityProofs -----------------------------
(***************************************************************************)
(* Proofs about what the agent does on the user's authority: the actions   *)
(* the user must confirm (Confirmations) and the outside services the user *)
(* connects (Connections), for any prompts, approvals, workers, credential *)
(* sets and bounds.                                                        *)
(*                                                                         *)
(* First: consent is genuine and settled once, Confirmations implements    *)
(* Consent, and a refusal is final.  Then: a remote server's registration  *)
(* is one server's, what may be used once is used once, and the tokens and *)
(* the tools of a package follow its sets of credentials.                  *)
(***************************************************************************)
EXTENDS ConfirmationsConsent, Connections, TLAPS

-----------------------------------------------------------------------------
(* The user's consent.                                                     *)

(* The bridge holds an action exactly while it judges or performs one, and *)
(* the message it holds is newer than every message that settled something.*)
Holding ==
    /\ bpc \in {"idle", "get"} => got = None
    /\ bpc \notin {"idle", "get"} => got \in Prompts
    /\ bpc # "idle" => read >= 1
    /\ \A x \in settled : x.reply <= read /\ (bpc # "idle" => x.reply < read)

(* The bridge holds nothing without an agent. *)
Attended == ~running => bpc = "idle"

(* What is armed, held or settled was asked for by a call that cannot ask  *)
(* for it again.                                                           *)
AskedFor ==
    /\ pendingAction \in Prompts => tool[pendingAction] # "new"
    /\ got \in Prompts => tool[got] # "new"
    /\ \A x \in settled : tool[x.prompt] # "new"

(* Unless a clear failed, what is settled is neither armed nor held, and   *)
(* what is being performed is no longer armed.                             *)
Gone ==
    /\ \A x \in settled : x.prompt \notin unclear => x.prompt # pendingAction /\ x.prompt # got
    /\ bpc = "perform" /\ got \notin unclear => pendingAction # got

(* Automated traffic is never judged, and the message that approves the    *)
(* action is a yes to that action.                                         *)
Judged ==
    /\ bpc = "judge" => msg.kind # "auto"
    /\ bpc \in {"approve", "perform"} => consents(msg, got)

(* The inductive invariant. *)
Inv == TypeOK /\ Holding /\ Attended /\ AskedFor /\ Gone /\ Judged /\ ConsentIsGenuine
       /\ SettledOnce

(* A yes in an approval's reply channel was pressed under its prompt. *)
Pressed ==
    \A a \in Approvals : (reply[a] # None /\ reply[a] = "yes") \/ appr[a] = "allowed" =>
        \E i \in DOMAIN said : said[i].kind = "pressYes" /\ said[i].prompt = a

-----------------------------------------------------------------------------
(* Initially, every variable has its type. *)
LEMMA InitType == ASSUME Init PROVE TypeOK
<1>1. said \in Seq(Said) /\ read \in 0..Len(said)
  BY DEF Init
<1>2. running \in BOOLEAN /\ turn \in BOOLEAN /\ unanswered \in BOOLEAN
  BY DEF Init
<1>3. /\ tool \in [Prompts -> {"new", "ask", "rollback", "returned"}]
      /\ appr \in [Approvals -> {"new", "ask", "wait", "late", "allowed", "denied"}]
      /\ reply \in [Approvals -> {"yes", "no", None}]
  BY DEF Init
<1>4. settled \subseteq [prompt: Prompts, reply: 1..Len(said), how: {"performed", "dropped"}]
  BY DEF Init
<1> QED BY <1>1, <1>2, <1>3, <1>4 DEF Init, TypeOK

(* A message is appended to what was said, and nothing else changes. *)
LEMMA SaysAppends ==
    ASSUME TypeOK, Arrives \/ Presses
    PROVE  /\ said' \in Seq(Said) /\ Len(said') = Len(said) + 1
           /\ \A i \in 1..Len(said) : said'[i] = said[i]
           /\ UNCHANGED <<promptVars, read, bridgeVars, turnVars, approvalVars, histVars,
                          failures>>
<1>1. PICK k \in Kinds, p \in Prompts \cup Approvals \cup {None} : Says(k, p)
  BY DEF Arrives, Presses, Kinds, TypeOK
<1> DEFINE s == [kind |-> k, prompt |-> p,
                 seen |-> IF k = "text" THEN shown \cap {pendingAction} ELSE {}]
<1>2. s \in Said
  BY ConfirmationsAssumption DEF Said, TypeOK
<1>3. said' = Append(said, s)
  BY <1>1 DEF Says
<1> HIDE DEF s
<1>4. said' \in Seq(Said) /\ Len(said') = Len(said) + 1
  BY <1>2, <1>3 DEF TypeOK
<1>5. \A i \in 1..Len(said) : said'[i] = said[i]
  BY <1>3 DEF TypeOK
<1> QED BY <1>1, <1>4, <1>5 DEF Says

(* A step keeps the types, given what the bridge holds. *)
LEMMA TypeStep == ASSUME TypeOK, Holding, [Next]_vars PROVE TypeOK'
<1>1. CASE UNCHANGED vars
  BY <1>1 DEF vars, TypeOK
<1>2. CASE Arrives \/ Presses
  <2>1. said' \in Seq(Said) /\ Len(said') = Len(said) + 1
    BY <1>2, SaysAppends
  <2>2. UNCHANGED <<promptVars, read, bridgeVars, turnVars, approvalVars, histVars, failures>>
    BY <1>2, SaysAppends
  <2>3. Len(said) \in Nat
    BY DEF TypeOK
  <2>4. 1..Len(said) \subseteq 1..Len(said') /\ read \in 0..Len(said')
    BY <2>1, <2>3 DEF TypeOK
  <2>5. settled' \subseteq [prompt: Prompts, reply: 1..Len(said'), how: {"performed", "dropped"}]
    BY <2>2, <2>4 DEF TypeOK, histVars
  <2> QED
    BY <2>1, <2>2, <2>4, <2>5 DEF TypeOK, promptVars, bridgeVars, turnVars, approvalVars,
                                  histVars
<1>3. ASSUME NEW p \in Prompts, ToolStep(p) PROVE TypeOK'
  <2>1. CASE ToolArms(p)
    BY <2>1 DEF ToolArms, updateFails, failure, TypeOK, bridgeVars, turnVars, approvalVars,
                histVars
  <2>2. CASE ToolAsks(p)
    BY <2>2 DEF ToolAsks, failure, TypeOK, bridgeVars, turnVars, approvalVars, histVars
  <2>3. CASE ToolRollsBack(p)
    BY <2>3 DEF ToolRollsBack, updateFails, failure, TypeOK, bridgeVars, turnVars,
                approvalVars, histVars
  <2>4. CASE Expires(p)
    BY <2>4 DEF Expires, TypeOK, bridgeVars, turnVars, approvalVars, histVars
  <2> QED BY <1>3, <2>1, <2>2, <2>3, <2>4 DEF ToolStep
<1>4. CASE BridgeStep
  <2>1. CASE BridgeReads
    BY <2>1 DEF BridgeReads, reads, replyOf, TypeOK, promptVars, turnVars, histVars
  <2>2. CASE BridgeGets
    BY <2>2 DEF BridgeGets, failure, TypeOK, promptVars, turnVars, approvalVars, histVars
  <2>3. CASE Judge
    BY <2>3 DEF Judge, TypeOK, promptVars, turnVars, approvalVars, histVars
  <2>4. CASE Drop
    <3>1. got \in Prompts /\ read \in 1..Len(said)
      BY <2>4 DEF Drop, Holding, TypeOK
    <3> QED
      BY <2>4, <3>1 DEF Drop, cleared, updateFails, failure, settles, TypeOK, turnVars,
                        approvalVars
  <2>5. CASE Approve
    <3>1. got \in Prompts
      BY <2>5 DEF Approve, Holding
    <3> QED
      BY <2>5, <3>1 DEF Approve, cleared, updateFails, failure, TypeOK, turnVars, approvalVars
  <2>6. CASE Perform
    <3>1. got \in Prompts /\ read \in 1..Len(said)
      BY <2>6 DEF Perform, Holding, TypeOK
    <3> QED
      BY <2>6, <3>1 DEF Perform, settles, TypeOK, turnVars, approvalVars
  <2> QED BY <1>4, <2>1, <2>2, <2>3, <2>4, <2>5, <2>6 DEF BridgeStep
<1>5. ASSUME NEW a \in Approvals, AskPermission(a) \/ ApprovalStep(a) PROVE TypeOK'
  <2>1. CASE AskPermission(a)
    BY <2>1 DEF AskPermission, TypeOK, promptVars, bridgeVars, turnVars, histVars
  <2>2. CASE SendPrompt(a)
    BY <2>2 DEF SendPrompt, failure, TypeOK, bridgeVars, turnVars, histVars
  <2>3. CASE Answered(a) \/ TurnIsOver(a) \/ Forget(a)
    <3>1. PICK d \in {"allowed", "denied"} : decides(a, d)
      BY <2>3 DEF Answered, TurnIsOver, Forget
    <3> QED
      BY <3>1 DEF decides, TypeOK, promptVars, bridgeVars, turnVars, histVars
  <2>4. CASE TimesOut(a)
    BY <2>4 DEF TimesOut, TypeOK, promptVars, bridgeVars, turnVars, histVars
  <2> QED BY <1>5, <2>1, <2>2, <2>3, <2>4 DEF ApprovalStep
<1>6. CASE AgentStep
  <2>1. CASE TurnStarts
    BY <2>1 DEF TurnStarts, TypeOK, promptVars, bridgeVars, histVars
  <2>2. CASE TurnEnds
    BY <2>2 DEF TurnEnds, TypeOK, promptVars, bridgeVars, histVars
  <2>3. CASE AgentExits
    BY <2>3 DEF AgentExits, TypeOK, promptVars, bridgeVars, approvalVars, histVars
  <2>4. CASE FirstMessage
    BY <2>4 DEF FirstMessage, reads, TypeOK, promptVars, bridgeVars, approvalVars
  <2>5. CASE AgentStarts
    BY <2>5 DEF AgentStarts, TypeOK, promptVars, bridgeVars, approvalVars, histVars
  <2> QED BY <1>6, <2>1, <2>2, <2>3, <2>4, <2>5 DEF AgentStep
<1>7. CASE Crash
  <2>1. /\ tool' \in [Prompts -> {"new", "ask", "rollback", "returned"}]
        /\ appr' \in [Approvals -> {"new", "ask", "wait", "late", "allowed", "denied"}]
        /\ reply' \in [Approvals -> {"yes", "no", None}]
    BY <1>7 DEF Crash, TypeOK
  <2>2. running' \in BOOLEAN /\ turn' \in BOOLEAN /\ unanswered' \in BOOLEAN
    BY <1>7 DEF Crash
  <2> QED BY <1>7, <2>1, <2>2 DEF Crash, failure, TypeOK, histVars
<1> QED BY <1>1, <1>2, <1>3, <1>4, <1>5, <1>6, <1>7 DEF Next

-----------------------------------------------------------------------------
(* Steps that leave the pending action, the bridge and the history alone.  *)
LEMMA Frame ==
    ASSUME Inv, TypeOK', Attended',
           UNCHANGED <<pendingAction, tool, said, read, bpc, got, settled, unclear>>
    PROVE  Inv'
BY DEF Inv, Holding, AskedFor, Gone, Judged, msg, consents, ConsentIsGenuine, SettledOnce

(* A reply that settles the action the bridge holds. *)
LEMMA Settling ==
    ASSUME Inv, TypeOK', NEW how \in {"performed", "dropped"},
           bpc \in {"drop", "perform"}, settles(how),
           how = "performed" => bpc = "perform",
           unclear \subseteq unclear', UNCHANGED <<said, read>>
    PROVE  ConsentIsGenuine' /\ SettledOnce'
<1> DEFINE new == [prompt |-> got, reply |-> read, how |-> how]
<1>1. settled' = settled \cup {new}
  BY DEF settles
<1>2. new.prompt = got /\ new.reply = read /\ new.how = how
  OBVIOUS
<1>3. \A x \in settled : x.reply < read
  BY DEF Inv, Holding
<1>4. how = "performed" => consents(said[read], got)
  BY DEF Inv, Judged, msg
<1>5. \A x \in settled : x.reply \in Nat
  BY DEF Inv, TypeOK
<1>6. got \notin unclear => \A x \in settled : x.prompt # got
  BY DEF Inv, Gone
<1> HIDE DEF new
<1>7. ConsentIsGenuine'
  <2>1. \A x, y \in settled' : x.how = "performed" /\ y.reply = x.reply => y = x
    BY <1>1, <1>2, <1>3, <1>5 DEF Inv, ConsentIsGenuine, TypeOK
  <2>2. \A x \in settled' : x.how = "performed" => consents(said[x.reply], x.prompt)
    BY <1>1, <1>2, <1>4 DEF Inv, ConsentIsGenuine
  <2> QED BY <2>1, <2>2 DEF ConsentIsGenuine, consents
<1>8. SettledOnce'
  BY <1>1, <1>2, <1>6 DEF Inv, SettledOnce
<1> QED BY <1>7, <1>8

(* The agent waits for its bridge before it exits. *)
LEMMA AttendedStep == ASSUME TypeOK, Attended, [Next]_vars PROVE Attended'
<1>1. CASE UNCHANGED vars
  BY <1>1 DEF vars, Attended
<1>2. CASE Arrives \/ Presses
  BY <1>2, SaysAppends DEF Attended, bridgeVars, turnVars
<1>3. ASSUME NEW p \in Prompts, ToolStep(p) PROVE Attended'
  BY <1>3 DEF ToolStep, ToolArms, ToolAsks, ToolRollsBack, Expires, Attended, bridgeVars,
              turnVars
<1>4. CASE BridgeStep
  BY <1>4 DEF BridgeStep, BridgeReads, BridgeGets, Judge, Drop, Approve, Perform, Attended,
              turnVars
<1>5. ASSUME NEW a \in Approvals, AskPermission(a) \/ ApprovalStep(a) PROVE Attended'
  BY <1>5 DEF AskPermission, ApprovalStep, SendPrompt, Answered, TurnIsOver, TimesOut,
              Forget, decides, Attended, bridgeVars, turnVars
<1>6. CASE AgentStep
  BY <1>6 DEF AgentStep, TurnStarts, TurnEnds, AgentExits, FirstMessage, AgentStarts,
              Attended, bridgeVars
<1>7. CASE Crash
  BY <1>7 DEF Crash, Attended
<1> QED BY <1>1, <1>2, <1>3, <1>4, <1>5, <1>6, <1>7 DEF Next

(* The invariant is inductive. *)
LEMMA InvStep == ASSUME Inv, [Next]_vars PROVE Inv'
<1>0. TypeOK' /\ Attended'
  BY TypeStep, AttendedStep DEF Inv
<1>1. CASE UNCHANGED vars
  BY <1>0, <1>1, Frame DEF vars
<1>2. CASE Arrives \/ Presses
  <2>1. /\ \A i \in 1..Len(said) : said'[i] = said[i]
        /\ UNCHANGED <<pendingAction, tool, read, bpc, got, settled, unclear>>
    BY <1>2, SaysAppends DEF Inv, promptVars, bridgeVars, histVars
  <2>2. bpc # "idle" => msg' = msg
    BY <2>1 DEF Inv, Holding, TypeOK, msg
  <2>3. \A x \in settled : said'[x.reply] = said[x.reply]
    BY <2>1 DEF Inv, TypeOK
  <2>4. Judged'
    BY <2>1, <2>2 DEF Inv, Judged, consents
  <2>5. ConsentIsGenuine'
    BY <2>1, <2>3 DEF Inv, ConsentIsGenuine, consents
  <2> QED
    BY <1>0, <2>1, <2>4, <2>5 DEF Inv, Holding, AskedFor, Gone, SettledOnce
<1>3. ASSUME NEW p \in Prompts, ToolStep(p) PROVE Inv'
  <2>1. UNCHANGED <<said, read, bpc, got, settled, unclear>>
    BY <1>3 DEF ToolStep, ToolArms, ToolAsks, ToolRollsBack, Expires, bridgeVars, histVars
  <2>2. /\ pendingAction' \in {pendingAction, None} \/ (pendingAction' = p /\ tool[p] = "new")
        /\ \A q \in Prompts : tool[q] # "new" => tool'[q] # "new"
        /\ pendingAction' = p => tool'[p] # "new" \/ (pendingAction = p /\ tool' = tool)
    BY <1>3 DEF ToolStep, ToolArms, ToolAsks, ToolRollsBack, Expires, updateFails, Inv, TypeOK
  <2>3. AskedFor'
    BY <2>1, <2>2, ConfirmationsAssumption DEF Inv, AskedFor, TypeOK
  <2>4. Gone'
    BY <2>1, <2>2, ConfirmationsAssumption DEF Inv, Gone, AskedFor, Holding, TypeOK
  <2> QED
    BY <1>0, <2>1, <2>3, <2>4 DEF Inv, Holding, Judged, msg, consents, ConsentIsGenuine,
                                  SettledOnce
<1>4. CASE BridgeStep
  <2>1. CASE BridgeReads
    <3>1. /\ UNCHANGED <<pendingAction, tool, said, got, settled, unclear>>
          /\ read' = read + 1 /\ bpc = "idle" /\ bpc' \in {"idle", "get"}
      BY <2>1 DEF BridgeReads, reads, promptVars, histVars
    <3>2. Holding'
      BY <3>1 DEF Inv, Holding, TypeOK
    <3> QED
      BY <1>0, <3>1, <3>2 DEF Inv, AskedFor, Gone, Judged, consents, ConsentIsGenuine,
                              SettledOnce
  <2>2. CASE BridgeGets
    <3>1. /\ UNCHANGED <<pendingAction, tool, said, read, settled, unclear>>
          /\ bpc = "get"
          /\ \/ bpc' = "judge" /\ got' = pendingAction /\ pendingAction # None /\ msg.kind # "auto"
             \/ bpc' = "idle" /\ got' = got
      BY <2>2 DEF BridgeGets, promptVars, histVars
    <3>2. Holding' /\ AskedFor' /\ Gone'
      BY <3>1 DEF Inv, Holding, AskedFor, Gone, TypeOK
    <3> QED
      BY <1>0, <3>1, <3>2 DEF Inv, Judged, msg, consents, ConsentIsGenuine, SettledOnce
  <2>3. CASE Judge
    <3>1. /\ UNCHANGED <<pendingAction, tool, said, read, settled, unclear>>
          /\ bpc = "judge" /\ got' = IF bpc' = "idle" THEN None ELSE got
          /\ bpc' \in {"idle", "drop", "approve"}
          /\ bpc' = "approve" => ~otherPrompt /\ msg.kind \notin {"text", "pressNo"}
      BY <2>3 DEF Judge, promptVars, histVars
    <3>2. Holding' /\ AskedFor' /\ Gone'
      BY <3>1, ConfirmationsAssumption DEF Inv, Holding, AskedFor, Gone, TypeOK
    <3>3. msg.kind \in Kinds
      <4>1. said \in Seq(Said) /\ read \in 1..Len(said)
        BY <3>1 DEF Inv, Holding, TypeOK
      <4>2. said[read] \in Said
        BY <4>1
      <4> QED BY <4>2 DEF msg, Said
    <3>4. Judged'
      BY <3>1, <3>3 DEF Inv, Judged, otherPrompt, isPress, msg, consents, Kinds
    <3> QED
      BY <1>0, <3>1, <3>2, <3>4 DEF Inv, consents, ConsentIsGenuine, SettledOnce
  <2>4. CASE Drop
    <3>1. /\ UNCHANGED <<tool, said, read>>
          /\ bpc = "drop" /\ bpc' = "idle" /\ got' = None
          /\ settles("dropped") /\ unclear \subseteq unclear'
          /\ pendingAction' = None \/ (pendingAction' = pendingAction /\ got \in unclear')
      BY <2>4 DEF Drop, cleared, updateFails
    <3>2. ConsentIsGenuine' /\ SettledOnce'
      BY <1>0, <3>1, Settling
    <3>3. got \in Prompts /\ read >= 1
      BY <3>1 DEF Inv, Holding
    <3>4. Holding' /\ AskedFor' /\ Gone'
      BY <3>1, <3>3, ConfirmationsAssumption
         DEF Inv, Holding, AskedFor, Gone, settles, TypeOK
    <3> QED BY <1>0, <3>1, <3>2, <3>4 DEF Inv, Judged
  <2>5. CASE Approve
    <3>1. /\ UNCHANGED <<tool, said, read, got, settled>>
          /\ bpc = "approve" /\ bpc' = "perform" /\ unclear \subseteq unclear'
          /\ pendingAction' = None \/ (pendingAction' = pendingAction /\ got \in unclear')
      BY <2>5 DEF Approve, cleared, updateFails
    <3>2. Holding' /\ AskedFor' /\ Gone'
      BY <3>1, ConfirmationsAssumption DEF Inv, Holding, AskedFor, Gone, TypeOK
    <3> QED
      BY <1>0, <3>1, <3>2 DEF Inv, Judged, msg, consents, ConsentIsGenuine, SettledOnce
  <2>6. CASE Perform
    <3>1. /\ UNCHANGED <<tool, said, read, unclear>>
          /\ bpc = "perform" /\ bpc' = "idle" /\ got' = None
          /\ settles("performed") /\ pendingAction' \in {pendingAction, None}
      BY <2>6 DEF Perform
    <3>2. ConsentIsGenuine' /\ SettledOnce'
      BY <1>0, <3>1, Settling
    <3>3. got \in Prompts /\ read >= 1
      BY <3>1 DEF Inv, Holding
    <3>4. Holding' /\ AskedFor' /\ Gone'
      BY <3>1, <3>3, ConfirmationsAssumption
         DEF Inv, Holding, AskedFor, Gone, settles, TypeOK
    <3> QED BY <1>0, <3>1, <3>2, <3>4 DEF Inv, Judged
  <2> QED BY <1>4, <2>1, <2>2, <2>3, <2>4, <2>5, <2>6 DEF BridgeStep
<1>5. ASSUME NEW a \in Approvals, AskPermission(a) \/ ApprovalStep(a) PROVE Inv'
  <2>1. UNCHANGED <<pendingAction, tool, said, read, bpc, got, settled, unclear>>
    BY <1>5 DEF AskPermission, ApprovalStep, SendPrompt, Answered, TurnIsOver, TimesOut,
                Forget, decides, promptVars, bridgeVars, histVars
  <2> QED BY <1>0, <2>1, Frame
<1>6. CASE AgentStep
  <2>1. CASE FirstMessage
    <3>1. /\ UNCHANGED <<pendingAction, tool, said, bpc, got, settled, unclear>>
          /\ read' = read + 1 /\ bpc = "idle"
      BY <2>1 DEF FirstMessage, reads, promptVars, bridgeVars, Inv, Attended
    <3>2. Holding'
      BY <3>1 DEF Inv, Holding, TypeOK
    <3> QED
      BY <1>0, <3>1, <3>2 DEF Inv, AskedFor, Gone, Judged, consents, ConsentIsGenuine,
                              SettledOnce
  <2>2. CASE TurnStarts \/ TurnEnds \/ AgentExits \/ AgentStarts
    <3>1. UNCHANGED <<pendingAction, tool, said, read, bpc, got, settled, unclear>>
      BY <2>2 DEF TurnStarts, TurnEnds, AgentExits, AgentStarts, promptVars, bridgeVars,
                  histVars
    <3> QED BY <1>0, <3>1, Frame
  <2> QED BY <1>6, <2>1, <2>2 DEF AgentStep
<1>7. CASE Crash
  <2>1. /\ UNCHANGED <<said, settled, unclear>>
        /\ bpc' = "idle" /\ got' = None /\ pendingAction' \in {pendingAction, None}
        /\ read' \in read..Len(said)
    BY <1>7 DEF Crash, histVars
  <2>2. \A p \in Prompts : tool[p] # "new" => tool'[p] # "new"
    BY <1>7 DEF Crash
  <2>3. Holding' /\ AskedFor' /\ Gone'
    BY <2>1, <2>2, ConfirmationsAssumption DEF Inv, Holding, AskedFor, Gone, TypeOK
  <2> QED
    BY <1>0, <2>1, <2>3 DEF Inv, Judged, consents, ConsentIsGenuine, SettledOnce
<1> QED BY <1>1, <1>2, <1>3, <1>4, <1>5, <1>6, <1>7 DEF Next

(* The invariant holds initially. *)
LEMMA InitInv == ASSUME Init PROVE Inv
<1>1. settled = {} /\ pendingAction \notin Prompts /\ got = None /\ bpc = "idle"
  BY ConfirmationsAssumption DEF Init
<1> QED
  BY <1>1, InitType, ConfirmationsAssumption
     DEF Inv, Holding, Attended, AskedFor, Gone, Judged, ConsentIsGenuine, SettledOnce

(* So it holds always. *)
THEOREM Invariance == Spec => []Inv
BY InitInv, InvStep, PTL DEF Spec

(* Every variable keeps its type, in every step of the system. *)
THEOREM TypeCorrect == Spec => []TypeOK
<1>1. Inv => TypeOK
  BY DEF Inv
<1> QED BY <1>1, Invariance, PTL

(***************************************************************************)
(* Nothing is performed without a yes of its own (interceptPendingConfir-  *)
(* mation, clearPendingAction): for any number of prompts, messages, tool  *)
(* calls, failing writes, restarts and crashes.                            *)
(***************************************************************************)
THEOREM Consent == Spec => []ConsentIsGenuine
<1>1. Inv => ConsentIsGenuine
  BY DEF Inv
<1> QED BY <1>1, Invariance, PTL

(***************************************************************************)
(* A prompt is settled once, unless clearing it failed: the action is      *)
(* cleared before it is performed, and a call never arms it again.         *)
(***************************************************************************)
THEOREM Settlement == Spec => []SettledOnce
<1>1. Inv => SettledOnce
  BY DEF Inv
<1> QED BY <1>1, Invariance, PTL

-----------------------------------------------------------------------------
(* ArmPendingAction refuses while a confirmation is open, and nothing else *)
(* puts an action in its place: an open question is never replaced.        *)
THEOREM StandingQuestion == Spec => QuestionStands
<1>1. ASSUME Inv, [Next]_vars
      PROVE  (pendingAction \in Prompts \ expired) => pendingAction' \in {pendingAction, None}
  <2> SUFFICES ASSUME pendingAction \in Prompts \ expired
               PROVE  pendingAction' \in {pendingAction, None}
    OBVIOUS
  <2>1. pendingAction # None /\ pendingAction \notin expired
    BY ConfirmationsAssumption
  <2>2. CASE UNCHANGED vars
    BY <2>2 DEF vars
  <2>3. CASE Arrives \/ Presses
    <3>1. TypeOK
      BY <1>1 DEF Inv
    <3>2. UNCHANGED promptVars
      BY <2>3, <3>1, SaysAppends
    <3> QED BY <3>2 DEF promptVars
  <2>4. ASSUME NEW p \in Prompts, ToolStep(p) PROVE pendingAction' \in {pendingAction, None}
    BY <2>1, <2>4 DEF ToolStep, ToolArms, arms, ToolAsks, ToolRollsBack, Expires, updateFails
  <2>5. CASE BridgeStep
    BY <2>5 DEF BridgeStep, BridgeReads, BridgeGets, Judge, Drop, Approve, Perform, cleared,
                updateFails, promptVars
  <2>6. ASSUME NEW a \in Approvals, AskPermission(a) \/ ApprovalStep(a)
        PROVE  pendingAction' \in {pendingAction, None}
    BY <2>6 DEF AskPermission, ApprovalStep, SendPrompt, Answered, TurnIsOver, TimesOut,
                Forget, decides, promptVars
  <2>7. CASE AgentStep
    BY <2>7 DEF AgentStep, TurnStarts, TurnEnds, AgentExits, FirstMessage, AgentStarts,
                promptVars
  <2>8. CASE Crash
    BY <2>8 DEF Crash
  <2> QED BY <1>1, <2>2, <2>3, <2>4, <2>5, <2>6, <2>7, <2>8 DEF Next
<1>2. Inv /\ [Next]_vars
        => [(pendingAction \in Prompts \ expired) => pendingAction' \in {pendingAction, None}]_vars
  BY <1>1
<1> QED BY <1>2, Invariance, PTL DEF Spec, QuestionStands

-----------------------------------------------------------------------------
(* Steps that leave the messages, the replies and the decisions alone.     *)
LEMMA PressedFrame ==
    ASSUME Pressed, UNCHANGED <<said, reply, appr>> PROVE Pressed'
BY DEF Pressed

(* A step keeps the presses behind every yes and every permission. *)
LEMMA PressedStep == ASSUME TypeOK, Pressed, [Next]_vars PROVE Pressed'
<1>1. CASE UNCHANGED vars
  BY <1>1, PressedFrame DEF vars
<1>2. CASE Arrives \/ Presses
  <2>1. /\ said' \in Seq(Said) /\ Len(said') = Len(said) + 1
        /\ \A i \in 1..Len(said) : said'[i] = said[i]
        /\ UNCHANGED <<reply, appr>>
    BY <1>2, SaysAppends DEF approvalVars
  <2>2. DOMAIN said = 1..Len(said) /\ DOMAIN said' = 1..Len(said')
    BY <2>1 DEF TypeOK
  <2>3. \A i \in DOMAIN said : i \in DOMAIN said' /\ said'[i] = said[i]
    BY <2>1, <2>2 DEF TypeOK
  <2> QED BY <2>1, <2>3 DEF Pressed
<1>3. ASSUME NEW p \in Prompts, ToolStep(p) PROVE Pressed'
  BY <1>3, PressedFrame DEF ToolStep, ToolArms, ToolAsks, ToolRollsBack, Expires, approvalVars
<1>4. CASE BridgeStep
  <2>1. CASE BridgeReads
    <3> DEFINE s == said[read + 1]
    <3>1. read + 1 \in DOMAIN said
      BY <2>1 DEF BridgeReads, reads, TypeOK
    <3>2. UNCHANGED <<said, appr>>
      BY <2>1 DEF BridgeReads
    <3>3. \/ UNCHANGED reply
          \/ \E a \in Approvals : resolves(s, a) /\ reply' = [reply EXCEPT ![a] = replyOf(s)]
      BY <2>1 DEF BridgeReads
    <3> HIDE DEF s
    <3>4. ASSUME NEW a \in Approvals, resolves(s, a),
                 reply' = [reply EXCEPT ![a] = replyOf(s)]
          PROVE  Pressed'
      <4>1. reply'[a] = "yes" => s.kind = "pressYes"
        BY <3>4 DEF replyOf, TypeOK
      <4>2. s.prompt = a
        BY <3>4 DEF resolves
      <4>3. \A b \in Approvals \ {a} : reply'[b] = reply[b]
        BY <3>4 DEF TypeOK
      <4>4. reply'[a] = "yes" =>
              \E i \in DOMAIN said : said[i].kind = "pressYes" /\ said[i].prompt = a
        BY <3>1, <4>1, <4>2 DEF s
      <4> QED BY <3>2, <4>3, <4>4 DEF Pressed
    <3> QED BY <3>2, <3>3, <3>4, PressedFrame
  <2>2. CASE BridgeGets \/ Judge \/ Drop \/ Approve \/ Perform
    BY <2>2, PressedFrame DEF BridgeGets, Judge, Drop, Approve, Perform, approvalVars
  <2> QED BY <1>4, <2>1, <2>2 DEF BridgeStep
<1>5. ASSUME NEW a \in Approvals, AskPermission(a) \/ ApprovalStep(a) PROVE Pressed'
  <2>1. UNCHANGED said
    BY <1>5 DEF AskPermission, ApprovalStep, SendPrompt, Answered, TurnIsOver, TimesOut,
                Forget, decides
  <2>2. \A b \in Approvals : reply'[b] \in {reply[b], None}
    BY <1>5 DEF AskPermission, ApprovalStep, SendPrompt, Answered, TurnIsOver, TimesOut,
                Forget, decides, TypeOK
  <2>3. \A b \in Approvals : appr'[b] = "allowed" =>
            appr[b] = "allowed" \/ (reply[b] # None /\ reply[b] = "yes")
    BY <1>5 DEF AskPermission, ApprovalStep, SendPrompt, Answered, TurnIsOver, TimesOut,
                Forget, decides, TypeOK
  <2> QED BY <2>1, <2>2, <2>3 DEF Pressed
<1>6. CASE AgentStep
  BY <1>6, PressedFrame DEF AgentStep, TurnStarts, TurnEnds, AgentExits, FirstMessage,
                            AgentStarts, approvalVars
<1>7. CASE Crash
  <2>1. /\ UNCHANGED said /\ \A a \in Approvals : reply'[a] = None
        /\ \A a \in Approvals : appr'[a] = "allowed" => appr[a] = "allowed"
    BY <1>7 DEF Crash, TypeOK
  <2> QED BY <2>1 DEF Pressed
<1> QED BY <1>1, <1>2, <1>3, <1>4, <1>5, <1>6, <1>7 DEF Next

(***************************************************************************)
(* A tool call that askPermission allows was allowed by a press under its  *)
(* own prompt, however presses, timeouts, ends of turns and crashes race.  *)
(***************************************************************************)
THEOREM Permission == Spec => []AllowedWasPressed
<1>1. Init => Pressed
  BY DEF Init, Pressed
<1>2. TypeOK /\ Pressed /\ [Next]_vars => Pressed'
  BY PressedStep
<1>3. Pressed => AllowedWasPressed
  BY DEF Pressed, AllowedWasPressed
<1> QED BY <1>1, <1>2, <1>3, TypeCorrect, PTL DEF Spec

-----------------------------------------------------------------------------
(* The refinement of Consent. *)

(* What was performed or dropped so far. *)
settledPrompts == settledAs("performed") \cup settledAs("dropped")

-----------------------------------------------------------------------------
(* The question that is open, if any, is a prompt. *)
LEMMA QuestionType == ASSUME TypeOK PROVE openQuestion \in Prompts \cup {None}
BY ConfirmationsAssumption DEF openQuestion, TypeOK

(* What replies decided is what the history holds. *)
LEMMA SettledPrompts ==
    ASSUME TypeOK PROVE settledPrompts = {x.prompt : x \in settled}
<1>1. \A x \in settled : x.how \in {"performed", "dropped"}
  BY DEF TypeOK
<1> QED BY <1>1 DEF settledPrompts, settledAs

(* One more message is one more set of questions it says yes to. *)
LEMMA YessesAppend ==
    ASSUME TypeOK, said' \in Seq(Said), Len(said') = Len(said) + 1,
           \A i \in 1..Len(said) : said'[i] = said[i]
    PROVE  /\ DOMAIN yesses' # DOMAIN yesses
           /\ yesses' = Append(yesses, yesses'[Len(yesses')])
           /\ yesses'[Len(yesses')] \subseteq Prompts
<1>1. DOMAIN said = 1..Len(said) /\ DOMAIN said' = 1..(Len(said) + 1) /\ Len(said) \in Nat
  BY DEF TypeOK
<1>2. yesses = [i \in 1..Len(said) |-> {p \in Prompts : consents(said[i], p)}]
  BY <1>1 DEF yesses
<1>3. yesses' = [i \in 1..(Len(said) + 1) |-> {p \in Prompts : consents(said'[i], p)}]
  BY <1>1 DEF yesses, consents
<1>4. yesses \in Seq(SUBSET Prompts) /\ Len(yesses) = Len(said)
  BY <1>1, <1>2
<1>5. yesses' \in Seq(SUBSET Prompts) /\ Len(yesses') = Len(said) + 1
  BY <1>1, <1>3
<1>6. \A i \in 1..Len(said) : yesses'[i] = yesses[i]
  BY <1>1, <1>2, <1>3 DEF consents
<1>7. yesses'[Len(yesses')] \subseteq Prompts
  BY <1>1, <1>3, <1>5
<1>8. yesses' = Append(yesses, yesses'[Len(yesses')])
  BY <1>1, <1>4, <1>5, <1>6
<1>9. DOMAIN yesses' # DOMAIN yesses
  <2>1. DOMAIN yesses = 1..Len(said) /\ DOMAIN yesses' = 1..(Len(said) + 1)
    BY <1>2, <1>3
  <2>2. Len(said) + 1 \in 1..(Len(said) + 1) /\ Len(said) + 1 \notin 1..Len(said)
    BY <1>1
  <2> QED BY <2>1, <2>2
<1> QED BY <1>7, <1>8, <1>9

(* A step that at most makes the question go away. *)
LEMMA GoesAway ==
    ASSUME TypeOK, pendingAction' \in {pendingAction, None}, expired \subseteq expired',
           UNCHANGED <<said, settled, unclear>>
    PROVE  [Promise!ConsentNext]_Promise!consentVars
<1>1. openQuestion' \in {openQuestion, None}
  BY ConfirmationsAssumption DEF openQuestion, TypeOK
<1>2. UNCHANGED <<yesses, usedReplies, settledAs("performed"), settledAs("dropped"), unclear>>
  BY DEF yesses, usedReplies, settledAs, consents
<1> QED
  BY <1>1, <1>2 DEF Promise!ConsentNext, Promise!Withdraw, Promise!consentVars

(* A reply that settles what the bridge holds. *)
LEMMA Decides ==
    ASSUME Inv, NEW how \in {"performed", "dropped"},
           bpc \in {"drop", "perform"}, how = "performed" <=> bpc = "perform", settles(how),
           pendingAction' \in {pendingAction, None}, UNCHANGED <<said, expired>>,
           how = "performed" => UNCHANGED unclear,
           unclear' \in {unclear, unclear \cup {got}}
    PROVE  Promise!ConsentNext
<1> DEFINE new == [prompt |-> got, reply |-> read, how |-> how]
<1>1. settled' = settled \cup {new} /\ new.prompt = got /\ new.reply = read /\ new.how = how
  BY DEF settles
<1>2. got \in Prompts /\ read \in DOMAIN yesses
  BY DEF Inv, Holding, TypeOK, yesses
<1> HIDE DEF new
<1>3. usedReplies' = usedReplies \cup {read} /\ read \notin usedReplies
  BY <1>1 DEF usedReplies, Inv, Holding, TypeOK
<1>4. got \in settledPrompts => got \in unclear
  BY SettledPrompts DEF Inv, Gone
<1>5. \A h \in {"performed", "dropped"} :
        settledAs(h)' = IF h = how THEN settledAs(h) \cup {got} ELSE settledAs(h)
  BY <1>1 DEF settledAs
<1>6. openQuestion' \in {openQuestion, None}
  BY ConfirmationsAssumption DEF openQuestion, Inv, TypeOK
<1>7. UNCHANGED yesses
  BY DEF yesses, consents
<1>8. how = "performed" => got \in yesses[read]
  BY <1>2 DEF Inv, Judged, yesses, msg
<1>9. \/ Promise!Performs(got, read)
      \/ Promise!Drops(got)
  <2>1. CASE how = "performed"
    BY <2>1, <1>5, <1>8 DEF Promise!Performs
  <2>2. CASE how = "dropped"
    BY <2>2, <1>5 DEF Promise!Drops
  <2> QED BY <2>1, <2>2
<1>10. Promise!Decide(read)
  BY <1>2, <1>3, <1>4, <1>6, <1>7, <1>9
     DEF Promise!Decide, Promise!goesAway, Promise!decided, settledPrompts
<1> QED BY <1>2, <1>10 DEF Promise!ConsentNext

(* Every step is one of Consent's, or changes nothing it speaks of. *)
LEMMA StepImplements ==
    ASSUME Inv, [Next]_vars PROVE [Promise!ConsentNext]_Promise!consentVars
<1>0. TypeOK
  BY DEF Inv
<1>1. CASE UNCHANGED vars
  BY <1>0, <1>1, GoesAway DEF vars
<1>2. CASE Arrives \/ Presses
  <2>1. /\ said' \in Seq(Said) /\ Len(said') = Len(said) + 1
        /\ \A i \in 1..Len(said) : said'[i] = said[i]
        /\ UNCHANGED <<pendingAction, expired, settled, unclear>>
    BY <1>0, <1>2, SaysAppends DEF promptVars, histVars
  <2>2. UNCHANGED <<openQuestion, usedReplies, settledAs("performed"), settledAs("dropped")>>
    BY <2>1 DEF openQuestion, usedReplies, settledAs
  <2> QED
    BY <1>0, <2>1, <2>2, YessesAppend DEF Promise!ConsentNext, Promise!Reply
<1>3. ASSUME NEW p \in Prompts, ToolStep(p)
      PROVE  [Promise!ConsentNext]_Promise!consentVars
  <2>1. CASE ToolArms(p) /\ arms(p) /\ pendingAction' = p
    <3>1. tool[p] = "new" /\ UNCHANGED <<expired, said, settled, unclear>>
      BY <2>1 DEF ToolArms, histVars
    <3>2. openQuestion = None
      BY <2>1 DEF arms, openQuestion
    <3>3. p \notin settledPrompts
      BY <1>0, <3>1, SettledPrompts DEF Inv, AskedFor
    <3>4. openQuestion' = p \/ openQuestion' = openQuestion
      BY <2>1, <3>2 DEF openQuestion
    <3>5. UNCHANGED <<yesses, usedReplies, settledAs("performed"), settledAs("dropped"),
                      unclear>>
      BY <3>1 DEF yesses, usedReplies, settledAs, consents
    <3> QED
      BY <3>2, <3>3, <3>4, <3>5 DEF Promise!ConsentNext, Promise!Ask, Promise!decided,
                                    Promise!consentVars, settledPrompts
  <2>2. CASE ~(ToolArms(p) /\ arms(p) /\ pendingAction' = p)
    <3>1. /\ pendingAction' \in {pendingAction, None} /\ expired \subseteq expired'
          /\ UNCHANGED <<said, settled, unclear>>
      BY <1>3, <2>2 DEF ToolStep, ToolArms, ToolAsks, ToolRollsBack, Expires, updateFails,
                        histVars
    <3> QED BY <1>0, <3>1, GoesAway
  <2> QED BY <2>1, <2>2
<1>4. CASE BridgeStep
  <2>1. CASE BridgeReads \/ BridgeGets \/ Judge
    <3>1. UNCHANGED <<pendingAction, expired, said, settled, unclear>>
      BY <2>1 DEF BridgeReads, BridgeGets, Judge, promptVars, histVars
    <3> QED BY <1>0, <3>1, GoesAway
  <2>2. CASE Drop
    <3>1. /\ bpc = "drop" /\ settles("dropped") /\ UNCHANGED <<said, expired>>
          /\ pendingAction' \in {pendingAction, None} /\ unclear' \in {unclear, unclear \cup {got}}
      BY <2>2 DEF Drop, cleared, updateFails
    <3> QED BY <3>1, Decides
  <2>3. CASE Approve
    <3>1. /\ bpc = "approve" /\ pendingAction' \in {pendingAction, None}
          /\ unclear' \in {unclear, unclear \cup {got}}
          /\ UNCHANGED <<said, expired, settled>>
      BY <2>3 DEF Approve, cleared, updateFails
    <3>2. CASE UNCHANGED unclear
      BY <1>0, <3>1, <3>2, GoesAway
    <3>3. CASE unclear' = unclear \cup {got} /\ got \notin unclear
      <4>1. got \in Prompts
        BY <3>1 DEF Inv, Holding
      <4>2. openQuestion' \in {openQuestion, None}
        BY <1>0, <3>1, ConfirmationsAssumption DEF openQuestion, TypeOK
      <4>3. UNCHANGED <<yesses, usedReplies, settledAs("performed"), settledAs("dropped")>>
        BY <3>1 DEF yesses, usedReplies, settledAs, consents
      <4> QED
        BY <3>3, <4>1, <4>2, <4>3 DEF Promise!ConsentNext, Promise!Stays, Promise!goesAway
    <3> QED BY <3>1, <3>2, <3>3
  <2>4. CASE Perform
    <3>1. /\ bpc = "perform" /\ settles("performed") /\ UNCHANGED <<said, expired, unclear>>
          /\ pendingAction' \in {pendingAction, None}
      BY <2>4 DEF Perform
    <3> QED BY <3>1, Decides
  <2> QED BY <1>4, <2>1, <2>2, <2>3, <2>4 DEF BridgeStep
<1>5. ASSUME NEW a \in Approvals, AskPermission(a) \/ ApprovalStep(a)
      PROVE  [Promise!ConsentNext]_Promise!consentVars
  <2>1. UNCHANGED <<pendingAction, expired, said, settled, unclear>>
    BY <1>5 DEF AskPermission, ApprovalStep, SendPrompt, Answered, TurnIsOver, TimesOut,
                Forget, decides, promptVars, histVars
  <2> QED BY <1>0, <2>1, GoesAway
<1>6. CASE AgentStep
  <2>1. UNCHANGED <<pendingAction, expired, said, settled, unclear>>
    BY <1>6 DEF AgentStep, TurnStarts, TurnEnds, AgentExits, FirstMessage, AgentStarts,
                promptVars, histVars
  <2> QED BY <1>0, <2>1, GoesAway
<1>7. CASE Crash
  <2>1. pendingAction' \in {pendingAction, None} /\ UNCHANGED <<expired, said, settled, unclear>>
    BY <1>7 DEF Crash, histVars
  <2> QED BY <1>0, <2>1, GoesAway
<1> QED BY <1>1, <1>2, <1>3, <1>4, <1>5, <1>6, <1>7 DEF Next

(* At first there is no question and nothing was said or settled. *)
LEMMA InitImplements == ASSUME Init PROVE Promise!ConsentInit
<1>1. openQuestion = None /\ usedReplies = {}
  BY DEF Init, openQuestion, usedReplies
<1>2. settledAs("performed") = {} /\ settledAs("dropped") = {}
  BY DEF Init, settledAs
<1>3. yesses = <<>>
  <2>1. said = <<>> /\ DOMAIN said = {}
    BY DEF Init
  <2> QED BY <2>1 DEF yesses
<1>4. unclear = {}
  BY DEF Init
<1> QED BY <1>1, <1>2, <1>3, <1>4 DEF Promise!ConsentInit

(***************************************************************************)
(* What the tool calls, the bridge, the agent and the clock do, with any   *)
(* failing writes and crashes, implements Consent: one question at a time, *)
(* nothing without a yes to it, no reply used twice, no decision repeated  *)
(* unless it could not be cleared from the disk.                           *)
(***************************************************************************)
THEOREM Refinement == Spec => ImplementsConsent
<1>1. Init => Promise!ConsentInit
  BY InitImplements
<1>2. Inv /\ [Next]_vars => [Promise!ConsentNext]_Promise!consentVars
  BY StepImplements
<1> QED BY <1>1, <1>2, Invariance, PTL DEF Spec, ImplementsConsent, Promise!ConsentSpec

-----------------------------------------------------------------------------
(* A prompt the user can see, or has refused, was asked for. *)
SeenWasAsked ==
    /\ \A p \in shown \cap Prompts : tool[p] # "new"
    /\ \A i \in DOMAIN said : \A p \in Prompts : declines(said[i], p) => tool[p] # "new"

(* A refusal the bridge has read is still being judged, or what it refused *)
(* is neither armed nor held.                                              *)
RefusalTaken ==
    \A i \in 1..read : \A p \in Prompts :
        declines(said[i], p) /\ i \notin bypassed =>
            \/ p \notin {pendingAction, got}
            \/ i = read /\ bpc = "get"
            \/ i = read /\ bpc \in {"judge", "drop"} /\ got = p

RefusalInv == failures = 0 => RefusalTaken /\ DeclineIsFinal

(* Tool calls never become new again, and the refusals stay what they are. *)
LEMMA SeenStep == ASSUME Inv, SeenWasAsked, [Next]_vars PROVE SeenWasAsked'
<1>0. TypeOK
  BY DEF Inv
<1>1. CASE Arrives \/ Presses
  <2>1. PICK k \in Kinds, q \in Prompts \cup Approvals \cup {None} :
          Says(k, q) /\ (k = "pressNo" => q \in shown)
    BY <1>0, <1>1 DEF Arrives, Presses, Kinds, TypeOK
  <2> DEFINE s == [kind |-> k, prompt |-> q,
                   seen |-> IF k = "text" THEN shown \cap {pendingAction} ELSE {}]
  <2>2. said' = Append(said, s) /\ UNCHANGED <<shown, tool>>
    BY <2>1 DEF Says, promptVars
  <2>3. \A p \in Prompts : declines(s, p) => p \in shown
    BY <2>1 DEF declines
  <2> HIDE DEF s
  <2>4. \A i \in DOMAIN said' : (i \in DOMAIN said /\ said'[i] = said[i]) \/ said'[i] = s
    BY <1>0, <2>2 DEF TypeOK
  <2>5. \A i \in DOMAIN said' : \A p \in Prompts : declines(said'[i], p) => tool[p] # "new"
    BY <2>3, <2>4 DEF SeenWasAsked
  <2> QED BY <2>2, <2>5 DEF SeenWasAsked, declines
<1>2. ASSUME UNCHANGED said, \A p \in Prompts : tool[p] # "new" => tool'[p] # "new",
             \A p \in (shown' \ shown) \cap Prompts : tool'[p] # "new"
      PROVE  SeenWasAsked'
  BY <1>2 DEF SeenWasAsked, declines
<1>3. CASE UNCHANGED vars
  BY <1>2, <1>3 DEF vars
<1>4. ASSUME NEW p \in Prompts, ToolStep(p) PROVE SeenWasAsked'
  BY <1>0, <1>2, <1>4 DEF ToolStep, ToolArms, ToolAsks, ToolRollsBack, Expires, TypeOK
<1>5. CASE BridgeStep
  BY <1>2, <1>5 DEF BridgeStep, BridgeReads, BridgeGets, Judge, Drop, Approve, Perform,
                    promptVars
<1>6. ASSUME NEW a \in Approvals, AskPermission(a) \/ ApprovalStep(a) PROVE SeenWasAsked'
  <2>1. UNCHANGED <<said, tool>> /\ shown' \subseteq shown \cup {a}
    BY <1>6 DEF AskPermission, ApprovalStep, SendPrompt, Answered, TurnIsOver, TimesOut,
                Forget, decides, promptVars
  <2> QED BY <1>2, <2>1, ConfirmationsAssumption
<1>7. CASE AgentStep
  BY <1>2, <1>7 DEF AgentStep, TurnStarts, TurnEnds, AgentExits, FirstMessage, AgentStarts,
                    promptVars
<1>8. CASE Crash
  BY <1>2, <1>8 DEF Crash
<1> QED BY <1>1, <1>3, <1>4, <1>5, <1>6, <1>7, <1>8 DEF Next

(* Steps that leave alone what the bridge reads and what it did.           *)
LEMMA RefusalFrame ==
    ASSUME RefusalTaken, DeclineIsFinal, failures = 0, failures' = 0,
           pendingAction' \in {pendingAction, None}, None \notin Prompts,
           UNCHANGED <<said, read, bpc, got, settled, bypassed>>
    PROVE  RefusalTaken' /\ DeclineIsFinal'
BY DEF RefusalTaken, DeclineIsFinal, declines

(* Without failures, a refusal the bridge read takes its question away.    *)
LEMMA RefusalStep ==
    ASSUME Inv, Inv', SeenWasAsked, RefusalInv, [Next]_vars PROVE RefusalInv'
<1> SUFFICES ASSUME failures' = 0 PROVE RefusalTaken' /\ DeclineIsFinal'
  BY DEF RefusalInv
<1>0. TypeOK /\ None \notin Prompts
  BY ConfirmationsAssumption DEF Inv
<1>a. ~failure
  BY <1>0 DEF failure, TypeOK
<1>b. failures = 0
  BY <1>0, <1>a DEF Next, vars, Arrives, Presses, Says, ToolStep, ToolArms, ToolAsks,
        ToolRollsBack, Expires, updateFails, BridgeStep, BridgeReads, BridgeGets, Judge, Drop,
        Approve, Perform, cleared, AskPermission, ApprovalStep, SendPrompt, Answered,
        TurnIsOver, TimesOut, Forget, decides, AgentStep, TurnStarts, TurnEnds, AgentExits,
        FirstMessage, AgentStarts, Crash
<1>c. RefusalTaken /\ DeclineIsFinal
  BY <1>b DEF RefusalInv
<1>1. CASE UNCHANGED vars
  BY <1>0, <1>b, <1>c, <1>1, RefusalFrame DEF vars
<1>2. CASE Arrives \/ Presses
  <2>1. /\ \A i \in 1..Len(said) : said'[i] = said[i]
        /\ UNCHANGED <<pendingAction, read, bpc, got, settled, bypassed, failures>>
    BY <1>0, <1>2, SaysAppends DEF promptVars, bridgeVars, histVars
  <2>2. \A i \in 1..read : said'[i] = said[i]
    BY <1>0, <2>1 DEF TypeOK
  <2>3. \A x \in settled : \A i \in 1..(x.reply - 1) : said'[i] = said[i]
    BY <1>0, <2>1 DEF TypeOK
  <2>4. RefusalTaken'
    BY <1>c, <2>1, <2>2 DEF RefusalTaken, declines
  <2>5. DeclineIsFinal'
    BY <1>b, <1>c, <2>1, <2>3 DEF DeclineIsFinal, declines
  <2> QED BY <2>4, <2>5
<1>3. ASSUME NEW p \in Prompts, ToolStep(p) PROVE RefusalTaken' /\ DeclineIsFinal'
  <2>1. /\ UNCHANGED <<said, read, bpc, got, settled, bypassed>>
        /\ pendingAction' \in {pendingAction, None} \/ (pendingAction' = p /\ tool[p] = "new")
    BY <1>3 DEF ToolStep, ToolArms, ToolAsks, ToolRollsBack, Expires, updateFails, bridgeVars,
                histVars
  <2>2. CASE pendingAction' \in {pendingAction, None}
    BY <1>0, <1>b, <1>c, <2>1, <2>2, RefusalFrame
  <2>3. CASE pendingAction' = p /\ tool[p] = "new"
    <3>1. \A i \in 1..read : ~declines(said[i], p)
      BY <1>0, <2>3 DEF SeenWasAsked, TypeOK
    <3>2. RefusalTaken'
      BY <1>c, <2>1, <2>3, <3>1 DEF RefusalTaken, declines
    <3>3. DeclineIsFinal'
      BY <1>b, <1>c, <2>1 DEF DeclineIsFinal, declines
    <3> QED BY <3>2, <3>3
  <2> QED BY <2>1, <2>2, <2>3
<1>4. CASE BridgeStep
  <2>1. CASE BridgeReads
    <3>1. /\ UNCHANGED <<pendingAction, said, got, settled, bypassed>>
          /\ read' = read + 1 /\ bpc = "idle" /\ got = None
      BY <2>1 DEF BridgeReads, reads, promptVars, histVars, Inv, Holding
    <3>2. \/ bpc' = "get"
          \/ \E a \in Approvals : isPress(said[read']) /\ said[read'].prompt = a
      BY <2>1 DEF BridgeReads, reads, resolves
    <3>3. bpc' = "get" \/ \A p \in Prompts : ~declines(said[read'], p)
      BY <3>2, ConfirmationsAssumption DEF isPress, declines
    <3>4. \A i \in 1..read' : i \in 1..read \/ i = read'
      BY <1>0, <3>1 DEF TypeOK
    <3>5. RefusalTaken'
      BY <1>c, <3>1, <3>3, <3>4 DEF RefusalTaken, declines
    <3>6. DeclineIsFinal'
      BY <1>b, <1>c, <3>1 DEF DeclineIsFinal, declines
    <3> QED BY <3>5, <3>6
  <2>2. CASE BridgeGets
    <3>1. /\ UNCHANGED <<pendingAction, said, read, settled, bypassed>>
          /\ bpc = "get" /\ got = None
          /\ \/ bpc' = "judge" /\ got' = pendingAction
             \/ bpc' = "idle" /\ got' = None /\ (pendingAction = None \/ msg.kind = "auto")
      BY <1>a, <2>2 DEF BridgeGets, promptVars, histVars, Inv, Holding
    <3>2. msg.kind = "auto" => \A p \in Prompts : ~declines(said[read], p)
      BY DEF msg, declines
    <3>3. RefusalTaken'
      BY <1>0, <1>c, <3>1, <3>2 DEF RefusalTaken, declines
    <3>4. DeclineIsFinal'
      BY <1>b, <1>c, <3>1 DEF DeclineIsFinal, declines
    <3> QED BY <3>3, <3>4
  <2>3. CASE Judge
    <3>1. /\ UNCHANGED <<pendingAction, said, read, settled, bypassed>>
          /\ bpc = "judge" /\ got' = IF bpc' = "idle" THEN None ELSE got
          /\ \/ bpc' = "drop"
             \/ bpc' = "idle" /\ (otherPrompt \/ msg.kind = "yes")
             \/ bpc' = "approve" /\ msg.kind \notin {"text", "pressNo"}
      BY <2>3 DEF Judge, ambiguous, promptVars, histVars
    <3>2. bpc' # "drop" => ~declines(said[read], got)
      BY <3>1 DEF otherPrompt, isPress, msg, declines
    <3>3. RefusalTaken'
      BY <1>0, <1>c, <3>1, <3>2 DEF RefusalTaken, declines
    <3>4. DeclineIsFinal'
      BY <1>b, <1>c, <3>1 DEF DeclineIsFinal, declines
    <3> QED BY <3>3, <3>4
  <2>4. CASE Drop
    <3>1. /\ UNCHANGED <<said, read, bypassed>> /\ settles("dropped")
          /\ pendingAction' = None /\ got' = None
      BY <1>a, <2>4 DEF Drop, cleared, updateFails
    <3>2. RefusalTaken'
      BY <1>0, <3>1 DEF RefusalTaken
    <3>3. \A x \in settled' : x.how = "performed" => x \in settled
      BY <3>1 DEF settles
    <3>4. DeclineIsFinal'
      BY <1>b, <1>c, <3>1, <3>3 DEF DeclineIsFinal, declines
    <3> QED BY <3>2, <3>4
  <2>5. CASE Approve
    <3>1. /\ UNCHANGED <<said, read, got, settled, bypassed>>
          /\ bpc = "approve" /\ bpc' = "perform" /\ pendingAction' = None
      BY <1>a, <2>5 DEF Approve, cleared, updateFails
    <3>2. RefusalTaken'
      BY <1>0, <1>c, <3>1 DEF RefusalTaken, declines
    <3>3. DeclineIsFinal'
      BY <1>b, <1>c, <3>1 DEF DeclineIsFinal, declines
    <3> QED BY <3>2, <3>3
  <2>6. CASE Perform
    <3>1. /\ UNCHANGED <<said, read, bypassed>> /\ settles("performed")
          /\ bpc = "perform" /\ pendingAction' \in {pendingAction, None} /\ got' = None
          /\ got \in Prompts /\ read \in Nat
      BY <1>0, <2>6 DEF Perform, Inv, Holding, TypeOK
    <3>2. RefusalTaken'
      BY <1>0, <1>c, <3>1 DEF RefusalTaken, declines
    <3> DEFINE new == [prompt |-> got, reply |-> read, how |-> "performed"]
    <3>3. settled' = settled \cup {new} /\ new.prompt = got /\ new.reply = read
      BY <3>1 DEF settles
    <3> HIDE DEF new
    <3>4. \A i \in 1..(read - 1) : declines(said[i], got) => i \in bypassed
      BY <1>c, <3>1 DEF RefusalTaken
    <3>5. DeclineIsFinal'
      BY <1>b, <1>c, <3>1, <3>3, <3>4 DEF DeclineIsFinal, declines
    <3> QED BY <3>2, <3>5
  <2> QED BY <1>4, <2>1, <2>2, <2>3, <2>4, <2>5, <2>6 DEF BridgeStep
<1>5. ASSUME NEW a \in Approvals, AskPermission(a) \/ ApprovalStep(a)
      PROVE  RefusalTaken' /\ DeclineIsFinal'
  <2>1. UNCHANGED <<pendingAction, said, read, bpc, got, settled, bypassed>>
    BY <1>5 DEF AskPermission, ApprovalStep, SendPrompt, Answered, TurnIsOver, TimesOut,
                Forget, decides, promptVars, bridgeVars, histVars
  <2> QED BY <1>0, <1>b, <1>c, <2>1, RefusalFrame
<1>6. CASE AgentStep
  <2>1. CASE FirstMessage
    <3>1. /\ UNCHANGED <<pendingAction, said, bpc, got, settled>>
          /\ read' = read + 1 /\ bypassed \subseteq bypassed'
          /\ (\E p \in Prompts : declines(said[read'], p)) => read' \in bypassed'
          /\ bpc = "idle" /\ got = None
      BY <2>1 DEF FirstMessage, reads, promptVars, bridgeVars, Inv, Attended, Holding
    <3>2. \A i \in 1..read' : i \in 1..read \/ i = read'
      BY <1>0, <3>1 DEF TypeOK
    <3>3. RefusalTaken'
      BY <1>c, <3>1, <3>2 DEF RefusalTaken, declines
    <3>4. DeclineIsFinal'
      BY <1>b, <1>c, <3>1 DEF DeclineIsFinal, declines
    <3> QED BY <3>3, <3>4
  <2>2. CASE TurnStarts \/ TurnEnds \/ AgentExits \/ AgentStarts
    <3>1. UNCHANGED <<pendingAction, said, read, bpc, got, settled, bypassed>>
      BY <2>2 DEF TurnStarts, TurnEnds, AgentExits, AgentStarts, promptVars, bridgeVars,
                  histVars
    <3> QED BY <1>0, <1>b, <1>c, <3>1, RefusalFrame
  <2> QED BY <1>6, <2>1, <2>2 DEF AgentStep
<1>7. CASE Crash
  BY <1>a, <1>7 DEF Crash
<1> QED BY <1>1, <1>2, <1>3, <1>4, <1>5, <1>6, <1>7 DEF Next

(***************************************************************************)
(* A refusal is final (interceptPendingConfirmation clears the action on   *)
(* anything but a yes): as long as no write, prompt or read fails, nothing *)
(* is performed after the user refused it, unless the refusal started the  *)
(* agent and never met the bridge.                                         *)
(***************************************************************************)
THEOREM Refusal == Spec => []DeclineIsFinal
<1>1. Init => SeenWasAsked /\ RefusalInv
  <2> SUFFICES ASSUME Init PROVE SeenWasAsked /\ RefusalInv
    OBVIOUS
  <2>1. said = <<>> /\ DOMAIN said = {} /\ 1..read = {} /\ shown = {} /\ settled = {}
    BY DEF Init
  <2> QED BY <2>1 DEF SeenWasAsked, RefusalInv, RefusalTaken, DeclineIsFinal
<1>2. Inv /\ Inv' /\ SeenWasAsked /\ RefusalInv /\ [Next]_vars
        => SeenWasAsked' /\ RefusalInv'
  BY SeenStep, RefusalStep
<1>3. RefusalInv => DeclineIsFinal
  BY DEF RefusalInv, DeclineIsFinal
<1> QED BY <1>1, <1>2, <1>3, Invariance, PTL DEF Spec

-----------------------------------------------------------------------------
(***************************************************************************)
(* The outside services: one remote MCP server and one package's sets of   *)
(* credentials, on the one callback server                                 *)
(***************************************************************************)

(* A step of one worker of the remote server, and what becomes of it. *)
Alone(w) == work' \in [Workers -> Work] /\ \A v \in Workers : v # w => work'[v] = work[v]

Becomes(w, step, of, copy, has, style) ==
    /\ Alone(w)
    /\ work'[w].at = step /\ work'[w].of = of /\ work'[w].copy = copy
    /\ work'[w].got = has /\ work'[w].style = style

LEMMA NothingTyped ==
    /\ NoAuth \in RemoteMCPAuth /\ NoToken \in Token /\ NoEntry \in Entry /\ Idle \in Work
    /\ NoAuth.of = 0 /\ NoAuth.token = NoToken /\ NoAuth.exchange = "none"
    /\ Idle.at = "idle" /\ Idle.of = 0 /\ Idle.copy = NoAuth /\ Idle.got = NoToken /\ Idle.style = "none"
  BY FlowsAssumption, RemoteAssumption
     DEF NoAuth, NoToken, NoEntry, RemoteMCPAuth, Token, Entry, Idle, Work, Steps

LEMMA NothingBegins ==
    /\ NoToken \in Token /\ NoToken.of = 0 /\ NoToken.n = 0
    /\ NoEntry.of = 0 /\ NoEntry.tools = 0
  BY NothingTyped DEF NoToken, NoEntry

LEMMA GoesTo ==
    ASSUME work \in [Workers -> Work], NEW w \in Workers, NEW rec \in Work, goes(w, rec)
    PROVE  Becomes(w, rec.at, rec.of, rec.copy, rec.got, rec.style)
  BY DEF Becomes, Alone, goes

LEMMA ReturnsTo ==
    ASSUME work \in [Workers -> Work], NEW w \in Workers, returns(w)
    PROVE  Becomes(w, "idle", 0, NoAuth, NoToken, "none")
  BY GoesTo, NothingTyped DEF returns

LEMMA MovesTo ==
    ASSUME work \in [Workers -> Work], NEW w \in Workers, NEW step \in Steps, moves(w, step)
    PROVE  Becomes(w, step, work[w].of, work[w].copy, work[w].got, work[w].style)
<1>1. [work[w] EXCEPT !.at = step] \in Work
  BY DEF Work
<1> QED BY <1>1, GoesTo DEF moves, Work

LEMMA GoesWithFlow ==
    ASSUME work \in [Workers -> Work], NEW w \in Workers, NEW i \in Work,
           NEW step \in Steps, NEW g \in 0 .. MaxFlows, goes(w, [i EXCEPT !.at = step, !.of = g])
    PROVE  Becomes(w, step, g, i.copy, i.got, i.style)
<1> DEFINE rec == [i EXCEPT !.at = step, !.of = g]
<1>1. /\ rec \in Work /\ rec.at = step /\ rec.of = g /\ rec.copy = i.copy
      /\ rec.got = i.got /\ rec.style = i.style
  BY DEF Work
<1> HIDE DEF rec
<1> QED BY <1>1, GoesTo DEF rec

LEMMA GoesWithCopy ==
    ASSUME work \in [Workers -> Work], NEW w \in Workers, NEW i \in Work,
           NEW step \in Steps, NEW copy \in RemoteMCPAuth, goes(w, [i EXCEPT !.at = step, !.copy = copy])
    PROVE  Becomes(w, step, i.of, copy, i.got, i.style)
<1> DEFINE rec == [i EXCEPT !.at = step, !.copy = copy]
<1>1. /\ rec \in Work /\ rec.at = step /\ rec.of = i.of /\ rec.copy = copy
      /\ rec.got = i.got /\ rec.style = i.style
  BY DEF Work
<1> HIDE DEF rec
<1> QED BY <1>1, GoesTo DEF rec

LEMMA GoesWithCopyOf ==
    ASSUME work \in [Workers -> Work], NEW w \in Workers, NEW i \in Work, NEW step \in Steps,
           NEW g \in 0 .. MaxFlows, NEW copy \in RemoteMCPAuth,
           goes(w, [i EXCEPT !.at = step, !.copy = copy, !.of = g])
    PROVE  Becomes(w, step, g, copy, i.got, i.style)
<1> DEFINE rec == [i EXCEPT !.at = step, !.copy = copy, !.of = g]
<1>1. /\ rec \in Work /\ rec.at = step /\ rec.of = g /\ rec.copy = copy
      /\ rec.got = i.got /\ rec.style = i.style
  BY DEF Work
<1> HIDE DEF rec
<1> QED BY <1>1, GoesTo DEF rec

LEMMA GoesWithStyle ==
    ASSUME work \in [Workers -> Work], NEW w \in Workers, NEW i \in Work, NEW step \in Steps,
           NEW g \in 0 .. MaxFlows, NEW style \in Styles,
           goes(w, [i EXCEPT !.at = step, !.of = g, !.style = style])
    PROVE  Becomes(w, step, g, i.copy, i.got, style)
<1> DEFINE rec == [i EXCEPT !.at = step, !.of = g, !.style = style]
<1>1. /\ rec \in Work /\ rec.at = step /\ rec.of = g /\ rec.copy = i.copy
      /\ rec.got = i.got /\ rec.style = style
  BY DEF Work
<1> HIDE DEF rec
<1> QED BY <1>1, GoesTo DEF rec

LEMMA GoesWithToken ==
    ASSUME work \in [Workers -> Work], NEW w \in Workers, NEW i \in Work,
           NEW step \in Steps, NEW token \in Token, goes(w, [i EXCEPT !.at = step, !.got = token])
    PROVE  Becomes(w, step, i.of, i.copy, token, i.style)
<1> DEFINE rec == [i EXCEPT !.at = step, !.got = token]
<1>1. /\ rec \in Work /\ rec.at = step /\ rec.of = i.of /\ rec.copy = i.copy
      /\ rec.got = token /\ rec.style = i.style
  BY DEF Work
<1> HIDE DEF rec
<1> QED BY <1>1, GoesTo DEF rec

LEMMA WithToken ==
    ASSUME NEW auth \in RemoteMCPAuth, NEW token \in Token
    PROVE  /\ withToken(auth, token) \in RemoteMCPAuth
           /\ withToken(auth, token).of = auth.of /\ withToken(auth, token).token = token
           /\ withToken(auth, token).exchange = auth.exchange
  BY DEF withToken, RemoteMCPAuth

LEMMA Completed ==
    ASSUME NEW auth \in RemoteMCPAuth, NEW token \in Token
    PROVE  /\ [withToken(auth, token) EXCEPT !.exchange = "none"] \in RemoteMCPAuth
           /\ [withToken(auth, token) EXCEPT !.exchange = "none"].of = auth.of
           /\ [withToken(auth, token) EXCEPT !.exchange = "none"].token = token
           /\ [withToken(auth, token) EXCEPT !.exchange = "none"].exchange = "none"
  BY WithToken DEF RemoteMCPAuth

-----------------------------------------------------------------------------
(* The types, with what the steps need.                                    *)

(* Which steps a call, a callback and a request take. *)
stepsOf(w) ==
    \/ w \in Calls /\ work[w].at \in {"idle", "storing", "announcing", "reading", "listing", "naming",
                                      "finalized", "exchanging", "keeping", "removing"}
    \/ w \in Handlers /\ work[w].at \in {"idle", "exchanging", "loading", "storing", "failing"}
    \/ w \in Requests /\ work[w].at \in {"idle", "resolving", "refreshing", "minting", "persisting"}

(* It holds a token that no store has yet. *)
carrying(w) ==
    \/ work[w].at \in {"keeping", "loading", "persisting"}
    \/ w \in Handlers /\ at(w, "storing")

(* A token was minted, and an exchange is of some registration. *)
sound(auth) ==
    /\ auth.token = NoToken \/ auth.token.n \in 1 .. minted
    /\ auth.exchange # "none" => auth.of \in Flows

workSound(w) ==
    /\ stepsOf(w) /\ sound(work[w].copy)
    /\ carrying(w) => work[w].got.n \in 1 .. minted
    /\ work[w].at \in {"refreshing", "minting", "persisting"} => work[w].copy.token # NoToken
    /\ work[w].at \in {"storing", "exchanging", "loading", "listing", "naming"} => work[w].of \in Flows

Numbers ==
    /\ minted \in 0 .. MaxTokens /\ added \in 0 .. MaxAdds /\ faults \in 0 .. MaxFaults
    /\ redeemed \subseteq Flows /\ spent \subseteq 1 .. minted

Switches ==
    /\ live \subseteq Channels
    /\ changed \in BOOLEAN /\ stale \in BOOLEAN /\ replayed \in BOOLEAN
    /\ straddled \in BOOLEAN /\ misdirected \in BOOLEAN

(* The registration: with it, a number and a channel. *)
registrationSound ==
    /\ registered \in Entry
    /\ registers => registered.of \in 1 .. added /\ registered.channels # {}

Works == work \in [Workers -> Work] /\ \A w \in Workers : workSound(w)

(* A lock has its holder, and nobody is past it without. *)
Locked ==
    /\ listLock = Nobody \/ (listLock \in Calls /\ at(listLock, "removing"))
    /\ refreshLock = Nobody \/ (refreshLock \in Requests /\ work[refreshLock].at \in {"minting", "persisting"})
    /\ \A w \in Workers :
          /\ at(w, "removing") => listLock = w
          /\ work[w].at \in {"minting", "persisting"} => refreshLock = w

(* A call that will send the change signal. *)
mends(c) ==
    \/ work[c].at \in {"announcing", "finalized"}
    \/ at(c, "storing") /\ work[c].style = "headers"

Mended == stale => changed \/ faults > 0 \/ \E c \in Calls : mends(c)

RemoteInv ==
    /\ CallbackTypeOK /\ Numbers /\ Switches /\ registrationSound
    /\ secret \in RemoteMCPAuth /\ sound(secret)
    /\ Works /\ Locked /\ Mended

-----------------------------------------------------------------------------
(* What the steps that go on with something do to their worker.            *)

LEMMA ConstantsAre ==
    /\ MaxFlows \in Nat \ {0} /\ MaxFaults \in Nat \ {0} /\ MaxTokens \in Nat
    /\ MaxAdds \in Nat /\ MaxAdds <= MaxFlows
    /\ Nobody \notin Calls /\ Nobody \notin Requests
    /\ Calls \cap Handlers = {} /\ Calls \cap Requests = {} /\ Handlers \cap Requests = {}
    /\ Calls \subseteq Workers /\ Handlers \subseteq Workers /\ Requests \subseteq Workers
  BY FlowsAssumption, RemoteAssumption DEF Workers

LEMMA AddRemoteMCPMoves ==
    ASSUME RemoteInv, NEW c \in Calls, AddRemoteMCP(c)
    PROVE  /\ at(c, "idle") /\ listFree /\ ~ registers /\ added' = added + 1 /\ added' \in 1 .. MaxAdds
           /\ registered'.of = added + 1 /\ registered'.channels # {} /\ registered' \in Entry
           /\ stale' = (stale \/ registered'.tools # 0)
           /\ \E style \in Styles :
                 /\ registered'.tools = IF style \in {"open", "headers"} THEN added + 1 ELSE 0
                 /\ Becomes(c, IF style = "open" THEN "announcing" ELSE "storing",
                            added + 1, NoAuth, NoToken, style)
<1> USE ConstantsAre
<1>1. at(c, "idle") /\ listFree /\ ~ registers /\ added < MaxAdds /\ added' = added + 1
  BY DEF AddRemoteMCP, begins
<1>2. added \in 0 .. MaxAdds /\ added + 1 \in 1 .. MaxAdds /\ added + 1 \in 0 .. MaxFlows
  BY <1>1 DEF RemoteInv, Numbers
<1>3. PICK names \in SUBSET Channels, style \in Styles :
          /\ cleanChannels(names, {})
          /\ registered' = [of |-> added + 1, channels |-> names,
                            tools |-> IF style \in {"open", "headers"} THEN added + 1 ELSE 0]
          /\ goes(c, [Idle EXCEPT !.at = IF style = "open" THEN "announcing" ELSE "storing",
                                  !.of = added + 1, !.style = style])
  BY DEF AddRemoteMCP
<1>4. PICK step \in Steps : step = IF style = "open" THEN "announcing" ELSE "storing"
  BY DEF Steps
<1>5. Becomes(c, step, added + 1, NoAuth, NoToken, style)
  <2>1. goes(c, [Idle EXCEPT !.at = step, !.of = added + 1, !.style = style])
    BY <1>3, <1>4
  <2>2. Becomes(c, step, added + 1, Idle.copy, Idle.got, style)
    BY <1>2, <2>1, GoesWithStyle, NothingTyped DEF RemoteInv, Works
  <2> QED BY <2>2, NothingTyped
<1>6. registered'.of = added + 1 /\ registered'.channels # {} /\ registered' \in Entry
      /\ registered'.tools = IF style \in {"open", "headers"} THEN added + 1 ELSE 0
  BY <1>2, <1>3 DEF cleanChannels, Entry
<1>7. stale' = (stale \/ registered'.tools # 0)
  BY DEF AddRemoteMCP
<1> QED BY <1>1, <1>2, <1>4, <1>5, <1>6, <1>7

LEMMA WaitPollsMoves ==
    ASSUME RemoteInv, NEW c \in Calls, WaitPolls(c)
    PROVE  at(c, "idle") /\ Becomes(c, "reading", 0, secret, NoToken, "none")
  BY GoesWithCopy, NothingTyped, ConstantsAre DEF WaitPolls, begins, RemoteInv, Works, Steps

LEMMA CompleteBeginsMoves ==
    ASSUME RemoteInv, NEW c \in Calls, CompleteBegins(c)
    PROVE  /\ at(c, "idle") /\ listFree /\ registers
           /\ \/ Becomes(c, "reading", 0, secret, NoToken, "none")
              \/ /\ secret.exchange = "open"
                 /\ Becomes(c, "exchanging", secret.of, secret, NoToken, "none")
<1> USE ConstantsAre, NothingTyped DEF RemoteInv, Works
<1>1. at(c, "idle") /\ listFree /\ registers
  BY DEF CompleteBegins, begins
<1>2. CASE goes(c, [Idle EXCEPT !.at = "reading", !.copy = secret])
  BY <1>1, <1>2, GoesWithCopy DEF Steps
<1>3. CASE secret.exchange = "open" /\ goes(c, [Idle EXCEPT !.at = "exchanging", !.copy = secret, !.of = secret.of])
  <2>1. secret.of \in 0 .. MaxFlows
    BY DEF RemoteMCPAuth
  <2>2. Becomes(c, "exchanging", secret.of, secret, Idle.got, Idle.style)
    BY <1>3, <2>1, GoesWithCopyOf DEF Steps
  <2> QED BY <1>1, <1>3, <2>2
<1> QED BY <1>2, <1>3 DEF CompleteBegins

LEMMA Minted ==
    ASSUME RemoteInv, NEW g \in 0 .. MaxFlows, minted < MaxTokens
    PROVE  mint(g) \in Token /\ mint(g).of = g /\ mint(g).n = minted + 1
  BY ConstantsAre DEF mint, Token, RemoteInv, Numbers

LEMMA ExchangesMoves ==
    ASSUME RemoteInv, NEW w \in Workers, NEW next \in Steps, NEW otherwise \in Work,
           exchanges(w, next, otherwise)
    PROVE  \/ /\ minted < MaxTokens /\ minted' = minted + 1
              /\ redeemed' = redeemed \cup {work[w].of}
              /\ mint(work[w].of) \in Token /\ mint(work[w].of).of = work[w].of
              /\ mint(work[w].of).n = minted + 1
              /\ Becomes(w, next, work[w].of, work[w].copy, mint(work[w].of), work[w].style)
           \/ /\ UNCHANGED <<redeemed, minted>>
              /\ goes(w, otherwise)
<1>1. work[w] \in Work /\ work[w].of \in 0 .. MaxFlows
  BY DEF RemoteInv, Works, Work
<1>2. CASE /\ minted < MaxTokens /\ redeemed' = redeemed \cup {work[w].of} /\ minted' = minted + 1
           /\ goes(w, [work[w] EXCEPT !.at = next, !.got = mint(work[w].of)])
  <2>1. mint(work[w].of) \in Token /\ mint(work[w].of).of = work[w].of /\ mint(work[w].of).n = minted + 1
    BY <1>1, <1>2, Minted
  <2>2. Becomes(w, next, work[w].of, work[w].copy, mint(work[w].of), work[w].style)
    BY <1>1, <1>2, <2>1, GoesWithToken DEF RemoteInv, Works
  <2> QED BY <1>2, <2>1, <2>2
<1> QED BY <1>2 DEF exchanges

LEMMA CompleteStoresMoves ==
    ASSUME RemoteInv, NEW c \in Calls, CompleteStores(c)
    PROVE  /\ secret' \in RemoteMCPAuth /\ secret'.of = work[c].copy.of /\ secret'.token = work[c].got
           /\ secret'.exchange = "none"
           /\ Becomes(c, "reading", 0, secret', NoToken, "none")
<1> USE ConstantsAre, NothingTyped
<1>1. work[c] \in Work /\ work[c].copy \in RemoteMCPAuth /\ work[c].got \in Token
  BY DEF RemoteInv, Works, Work
<1>2. secret' = [withToken(work[c].copy, work[c].got) EXCEPT !.exchange = "none"]
  BY DEF CompleteStores
<1>3. /\ secret' \in RemoteMCPAuth /\ secret'.of = work[c].copy.of /\ secret'.token = work[c].got
      /\ secret'.exchange = "none"
  BY <1>1, <1>2, Completed
<1>4. goes(c, [Idle EXCEPT !.at = "reading", !.copy = secret'])
  BY DEF CompleteStores
<1>5. Becomes(c, "reading", 0, secret', NoToken, "none")
  BY <1>3, <1>4, GoesWithCopy DEF Steps, RemoteInv, Works
<1> QED BY <1>3, <1>5

LEMMA FinalizeReadsMoves ==
    ASSUME RemoteInv, NEW c \in Calls, FinalizeReads(c)
    PROVE  /\ at(c, "reading") /\ listFree
           /\ \/ returns(c)
              \/ moves(c, "finalized")
              \/ registers /\ Becomes(c, "listing", registered.of, work[c].copy, work[c].got, work[c].style)
<1> USE ConstantsAre
<1>1. at(c, "reading") /\ listFree
  BY DEF FinalizeReads
<1>2. CASE ~ registers
  BY <1>1, <1>2, Zenon DEF FinalizeReads
<1>3. CASE registers /\ registered.tools # 0
  BY <1>1, <1>3, Zenon DEF FinalizeReads
<1>4. CASE registers /\ registered.tools = 0
  <2>1. goes(c, [work[c] EXCEPT !.at = "listing", !.of = registered.of])
    BY <1>4, Zenon DEF FinalizeReads
  <2>2. work[c] \in Work /\ registered.of \in 0 .. MaxFlows
    BY DEF RemoteInv, Works, registrationSound, Entry
  <2>3. Becomes(c, "listing", registered.of, work[c].copy, work[c].got, work[c].style)
    BY <2>1, <2>2, GoesWithFlow DEF Steps, RemoteInv, Works
  <2> QED BY <1>1, <1>4, <2>3
<1> QED BY <1>2, <1>3, <1>4

LEMMA CallbackTakesMoves ==
    ASSUME RemoteInv, NEW h \in Handlers, CallbackTakes(h)
    PROVE  /\ at(h, "idle")
           /\ \E f \in pending \cap 1 .. MaxAdds, next \in {"exchanging", "failing"} :
                 /\ pending' = pending \ {f}
                 /\ Becomes(h, next, f, NoAuth, NoToken, "none")
<1> USE ConstantsAre
<1>1. at(h, "idle")
  BY DEF CallbackTakes, begins
<1>2. PICK f \in pending \cap 1 .. MaxAdds, next \in {"exchanging", "failing"} :
          TakesOut(f) /\ goes(h, [Idle EXCEPT !.at = next, !.of = f])
  BY DEF CallbackTakes
<1>3. pending' = pending \ {f} /\ f \in 0 .. MaxFlows /\ next \in Steps
  BY <1>2 DEF TakesOut, Steps
<1>4. Becomes(h, next, f, Idle.copy, Idle.got, Idle.style)
  BY <1>2, <1>3, GoesWithFlow, NothingTyped DEF RemoteInv, Works
<1> QED BY <1>1, <1>2, <1>3, <1>4, NothingTyped

LEMMA FailingMoves ==
    ASSUME RemoteInv, NEW h \in Workers
    PROVE  /\ [work[h] EXCEPT !.at = "failing"] \in Work
           /\ goes(h, [work[h] EXCEPT !.at = "failing"]) =>
                 Becomes(h, "failing", work[h].of, work[h].copy, work[h].got, work[h].style)
<1>1. [work[h] EXCEPT !.at = "failing"] \in Work
  BY DEF RemoteInv, Works, Work, Steps
<1>2. ASSUME goes(h, [work[h] EXCEPT !.at = "failing"])
      PROVE  Becomes(h, "failing", work[h].of, work[h].copy, work[h].got, work[h].style)
  BY <1>2, MovesTo DEF moves, RemoteInv, Works, Steps
<1> QED BY <1>1, <1>2

LEMMA CallbackLoadsMoves ==
    ASSUME RemoteInv, NEW h \in Handlers, CallbackLoads(h)
    PROVE  /\ at(h, "loading")
           /\ \/ Becomes(h, "failing", work[h].of, work[h].copy, work[h].got, work[h].style)
              \/ /\ secret # NoAuth
                 /\ Becomes(h, "storing", work[h].of, secret, work[h].got, work[h].style)
<1> USE ConstantsAre
<1>1. at(h, "loading")
  BY DEF CallbackLoads
<1>2. CASE secret = NoAuth /\ moves(h, "failing")
  BY <1>1, <1>2, MovesTo DEF RemoteInv, Works, Steps
<1>3. CASE secret # NoAuth /\ goes(h, [work[h] EXCEPT !.at = "storing", !.copy = secret])
  <2>1. work[h] \in Work /\ secret \in RemoteMCPAuth
    BY DEF RemoteInv, Works
  <2>2. Becomes(h, "storing", work[h].of, secret, work[h].got, work[h].style)
    BY <1>3, <2>1, GoesWithCopy DEF Steps, RemoteInv, Works
  <2> QED BY <1>1, <1>3, <2>2
<1> QED BY <1>2, <1>3 DEF CallbackLoads

LEMMA RequestBeginsMoves ==
    ASSUME RemoteInv, NEW r \in Requests, RequestBegins(r)
    PROVE  /\ at(r, "idle") /\ listFree /\ registers
           /\ Becomes(r, "resolving", registered.of, NoAuth, NoToken, "none")
<1> USE ConstantsAre
<1>1. at(r, "idle") /\ listFree /\ registers /\ goes(r, [Idle EXCEPT !.at = "resolving", !.of = registered.of])
  BY DEF RequestBegins, begins
<1>2. registered.of \in 0 .. MaxFlows
  BY DEF RemoteInv, registrationSound, Entry
<1>3. Becomes(r, "resolving", registered.of, Idle.copy, Idle.got, Idle.style)
  BY <1>1, <1>2, GoesWithFlow, NothingTyped DEF RemoteInv, Works, Steps
<1> QED BY <1>1, <1>3, NothingTyped

LEMMA CopiesSecret ==
    ASSUME RemoteInv, NEW r \in Requests, NEW step \in Steps,
           goes(r, [work[r] EXCEPT !.at = step, !.copy = secret])
    PROVE  Becomes(r, step, work[r].of, secret, work[r].got, work[r].style)
<1>1. work[r] \in Work /\ secret \in RemoteMCPAuth /\ r \in Workers
  BY ConstantsAre DEF RemoteInv, Works
<1> QED BY <1>1, GoesWithCopy DEF RemoteInv, Works

LEMMA ResolvesMoves ==
    ASSUME RemoteInv, NEW r \in Requests, Resolves(r)
    PROVE  /\ at(r, "resolving")
           /\ \/ /\ secret.token # NoToken /\ UNCHANGED misdirected
                 /\ Becomes(r, "refreshing", work[r].of, secret, work[r].got, work[r].style)
              \/ returns(r) /\ forwards(r, secret.token)
  BY CopiesSecret DEF Resolves, Steps, needsRefresh

LEMMA RefreshLocksMoves ==
    ASSUME RemoteInv, NEW r \in Requests, RefreshLocks(r)
    PROVE  /\ at(r, "refreshing") /\ refreshLock = Nobody
           /\ \/ /\ secret.token # NoToken /\ UNCHANGED misdirected /\ refreshLock' = r
                 /\ Becomes(r, "minting", work[r].of, secret, work[r].got, work[r].style)
              \/ /\ returns(r) /\ UNCHANGED refreshLock
                 /\ forwards(r, IF secret = NoAuth THEN work[r].copy.token ELSE secret.token)
  BY CopiesSecret DEF RefreshLocks, Steps, needsRefresh

LEMMA RefreshesMoves ==
    ASSUME RemoteInv, NEW r \in Requests, Refreshes(r)
    PROVE  /\ at(r, "minting") /\ refreshLock = r
           /\ replayed' = (replayed \/ work[r].copy.token.n \in spent)
           /\ \/ \E token \in Token :
                 /\ work[r].copy.token.of = work[r].copy.of
                 /\ minted < MaxTokens /\ minted' = minted + 1
                 /\ spent' = spent \cup {work[r].copy.token.n}
                 /\ token.of = work[r].copy.of /\ token.n = minted + 1
                 /\ Becomes(r, "persisting", work[r].of, work[r].copy, token, work[r].style)
                 /\ UNCHANGED <<refreshLock, misdirected>>
              \/ /\ refreshLock' = Nobody /\ returns(r) /\ forwards(r, work[r].copy.token)
                 /\ UNCHANGED <<minted, spent>>
<1> USE ConstantsAre
<1>1. /\ at(r, "minting") /\ refreshLock = r
      /\ replayed' = (replayed \/ work[r].copy.token.n \in spent)
  BY DEF Refreshes, RemoteInv, Locked, at
<1>2. CASE /\ work[r].copy.token.of = work[r].copy.of /\ minted < MaxTokens /\ minted' = minted + 1
           /\ spent' = spent \cup {work[r].copy.token.n}
           /\ goes(r, [work[r] EXCEPT !.at = "persisting", !.got = mint(work[r].copy.of)])
           /\ UNCHANGED <<refreshLock, misdirected>>
  <2>1. work[r] \in Work /\ work[r].copy.of \in 0 .. MaxFlows
    BY DEF RemoteInv, Works, Work, RemoteMCPAuth
  <2>2. PICK token \in Token : token = mint(work[r].copy.of) /\ token.of = work[r].copy.of /\ token.n = minted + 1
    BY <1>2, <2>1, Minted
  <2>3. goes(r, [work[r] EXCEPT !.at = "persisting", !.got = token])
    BY <1>2, <2>2
  <2>4. Becomes(r, "persisting", work[r].of, work[r].copy, token, work[r].style)
    BY <2>1, <2>3, GoesWithToken DEF RemoteInv, Works, Steps
  <2> QED BY <1>1, <1>2, <2>2, <2>4
<1> QED BY <1>1, <1>2 DEF Refreshes

-----------------------------------------------------------------------------
(* Every step keeps the types.                                             *)

LEMMA OthersSound ==
    ASSUME RemoteInv, NEW w \in Workers, Alone(w), workSound(w)', minted' \in Nat, minted <= minted'
    PROVE  Works'
<1>1. ASSUME NEW v \in Workers, v # w
      PROVE  workSound(v)'
  <2>1. work'[v] = work[v] /\ workSound(v) /\ minted \in Nat
    BY <1>1, ConstantsAre DEF Alone, RemoteInv, Works, Numbers
  <2>2. work'[v].got.n = work[v].got.n /\ work'[v].copy = work[v].copy
    BY <2>1
  <2>3. sound(work[v].copy)'
    BY <2>1, <2>2 DEF workSound, sound
  <2> QED BY <2>1, <2>2, <2>3 DEF workSound, stepsOf, carrying, at
<1> QED BY <1>1 DEF Works, Alone

LEMMA OthersMend ==
    ASSUME RemoteInv, NEW w \in Workers, Alone(w), stale' => stale, changed => changed',
           faults' \in Nat, faults <= faults',
           w \in Calls /\ mends(w) => mends(w)' \/ changed' \/ faults' > 0
    PROVE  Mended'
<1> SUFFICES ASSUME stale', ~ changed', ~ (faults' > 0)
             PROVE  \E c \in Calls : mends(c)'
  BY DEF Mended
<1>1. PICK c \in Calls : mends(c)
  BY ConstantsAre DEF RemoteInv, Mended, Numbers
<1>2. CASE c = w
  BY <1>1, <1>2
<1>3. CASE c # w
  BY <1>1, <1>3, ConstantsAre DEF mends, at, Alone
<1> QED BY <1>2, <1>3

LEMMA OthersLocked ==
    ASSUME RemoteInv, NEW w \in Workers, Alone(w), UNCHANGED <<listLock, refreshLock>>,
           work[w].at \notin {"removing", "minting", "persisting"},
           work'[w].at \notin {"removing", "minting", "persisting"}
    PROVE  Locked'
<1>1. \A v \in Workers : v # w => work'[v] = work[v]
  BY DEF Alone
<1>2. listLock # Nobody => listLock \in Calls /\ listLock # w /\ at(listLock, "removing")
  BY DEF RemoteInv, Locked, at
<1>3. refreshLock # Nobody =>
          refreshLock \in Requests /\ refreshLock # w /\ work[refreshLock].at \in {"minting", "persisting"}
  BY DEF RemoteInv, Locked
<1> QED BY <1>1, <1>2, <1>3, ConstantsAre DEF RemoteInv, Locked, at

(* A step that leaves the registration and the locks alone. *)
LEMMA QuietTyped ==
    ASSUME RemoteInv, NEW w \in Workers, Alone(w), workSound(w)',
           work[w].at \notin {"removing", "minting", "persisting"},
           work'[w].at \notin {"removing", "minting", "persisting"},
           UNCHANGED <<registered, listLock, refreshLock, live, stale, added, replayed, straddled, spent>>,
           CallbackTypeOK', secret' \in RemoteMCPAuth, sound(secret)',
           minted' \in minted .. MaxTokens, redeemed' \subseteq Flows, misdirected' \in BOOLEAN,
           changed' \in BOOLEAN, changed => changed', faults' \in faults .. MaxFaults,
           w \in Calls /\ mends(w) => mends(w)' \/ changed' \/ faults' > 0
    PROVE  RemoteInv'
<1> USE ConstantsAre
<1>1. minted \in Nat /\ minted' \in Nat /\ minted <= minted' /\ faults \in Nat /\ faults' \in Nat /\ faults <= faults'
  BY DEF RemoteInv, Numbers
<1>2. Works'
  BY <1>1, OthersSound
<1>3. Locked'
  BY OthersLocked
<1>4. Mended'
  BY <1>1, OthersMend
<1>5. Numbers'
  BY <1>1 DEF RemoteInv, Numbers
<1>6. Switches' /\ registrationSound'
  BY DEF RemoteInv, Switches, registrationSound, registers
<1> QED BY <1>2, <1>3, <1>4, <1>5, <1>6 DEF RemoteInv

LEMMA IdleSound == ASSUME NEW w \in Workers, work'[w].at = "idle", work'[w].copy = NoAuth PROVE workSound(w)'
  BY NothingTyped, ConstantsAre DEF workSound, stepsOf, sound, carrying, at, Workers

LEMMA Lapses == ASSUME RemoteInv, lapses PROVE faults' \in faults .. MaxFaults /\ faults' > 0
  BY ConstantsAre DEF lapses, RemoteInv, Numbers

LEMMA AddStoresMoves ==
    ASSUME RemoteInv, NEW c \in Calls, AddStores(c)
    PROVE  /\ at(c, "storing") /\ work[c].of \in Flows
           /\ secret' \in RemoteMCPAuth /\ secret'.of = work[c].of /\ secret'.token = NoToken
           /\ \/ /\ work[c].style = "headers"
                 /\ Becomes(c, "announcing", work[c].of, work[c].copy, work[c].got, work[c].style)
              \/ work[c].style # "headers" /\ Becomes(c, "idle", 0, NoAuth, NoToken, "none")
           /\ pending' = IF work[c].style = "hosted" THEN pending \cup {work[c].of} ELSE pending
           /\ UNCHANGED <<aged, reaping, closed>>
<1> USE ConstantsAre
<1>1. at(c, "storing") /\ work[c].of \in Flows
  BY DEF AddStores, RemoteInv, Works, workSound, at
<1>2. /\ secret' \in RemoteMCPAuth /\ secret'.of = work[c].of /\ secret'.token = NoToken
  <2>1. PICK g \in Flows, e \in {"none", "open"} : g = work[c].of /\ secret' = [NoAuth EXCEPT !.of = g, !.exchange = e]
    BY <1>1 DEF AddStores
  <2>2. g \in 0 .. MaxFlows
    BY DEF Flows
  <2> QED BY <2>1, <2>2, NothingTyped DEF RemoteMCPAuth
<1>3. IF work[c].style = "headers" THEN moves(c, "announcing") ELSE returns(c)
  BY DEF AddStores
<1>4. \/ /\ work[c].style = "headers"
         /\ Becomes(c, "announcing", work[c].of, work[c].copy, work[c].got, work[c].style)
      \/ work[c].style # "headers" /\ Becomes(c, "idle", 0, NoAuth, NoToken, "none")
  BY <1>3, MovesTo, ReturnsTo DEF RemoteInv, Works, Steps
<1>5. /\ pending' = IF work[c].style = "hosted" THEN pending \cup {work[c].of} ELSE pending
      /\ UNCHANGED <<aged, reaping, closed>>
  BY DEF AddStores, RegisterFlow, callbackVars
<1> QED BY <1>1, <1>2, <1>3, <1>4, <1>5

LEMMA AddStoresTyped == ASSUME RemoteInv, NEW c \in Calls, AddStores(c) PROVE RemoteInv'
<1> USE ConstantsAre
<1>1. /\ UNCHANGED <<registered, listLock, refreshLock, live, stale, added, replayed, straddled, spent,
                     minted, redeemed, misdirected, changed, faults>>
  BY DEF AddStores, agentVars, serverVars, historyVars
<1>2. Alone(c) /\ work'[c].at \in {"announcing", "idle"} /\ (mends(c) => mends(c)')
  BY AddStoresMoves DEF Becomes, mends, at
<1>3. workSound(c)'
  <2>1. CASE work'[c].at = "idle"
    BY <2>1, AddStoresMoves, IdleSound DEF Becomes
  <2>2. CASE Becomes(c, "announcing", work[c].of, work[c].copy, work[c].got, work[c].style)
    <3>1. sound(work[c].copy)
      BY DEF RemoteInv, Works, workSound
    <3> QED BY <1>1, <2>2, <3>1 DEF workSound, stepsOf, sound, carrying, at, Becomes
  <2> QED BY <2>1, <2>2, AddStoresMoves DEF Becomes
<1>4. secret' \in RemoteMCPAuth /\ sound(secret)'
  BY <1>1, AddStoresMoves DEF sound
<1>5. CallbackTypeOK'
  BY AddStoresMoves DEF CallbackTypeOK, RemoteInv
<1>6. work[c].at = "storing"
  BY AddStoresMoves DEF at
<1> QED BY <1>1, <1>2, <1>3, <1>4, <1>5, <1>6, QuietTyped DEF RemoteInv, Numbers, Switches

(* The callback server is left alone. *)
LEMMA CallbackKept == ASSUME RemoteInv, UNCHANGED callbackVars PROVE CallbackTypeOK'
  BY DEF CallbackTypeOK, callbackVars, RemoteInv

LEMMA AnnouncesTyped == ASSUME RemoteInv, NEW c \in Calls, Announces(c) PROVE RemoteInv'
<1> USE ConstantsAre
<1>1. /\ UNCHANGED <<registered, listLock, refreshLock, live, stale, added, replayed, straddled, spent,
                     minted, redeemed, misdirected, faults, secret>>
      /\ changed' = TRUE /\ CallbackTypeOK'
  BY CallbackKept DEF Announces, agentVars, serverVars, historyVars, storeVars
<1>2. Becomes(c, "idle", 0, NoAuth, NoToken, "none") /\ work[c].at \in {"announcing", "finalized"}
  BY ReturnsTo DEF Announces, RemoteInv, Works, at
<1>3. Alone(c) /\ workSound(c)' /\ work'[c].at = "idle"
  BY <1>2, IdleSound DEF Becomes
<1>4. secret' \in RemoteMCPAuth /\ sound(secret)'
  BY <1>1 DEF sound, RemoteInv
<1> QED BY <1>1, <1>2, <1>3, <1>4, QuietTyped DEF RemoteInv, Numbers, Switches

LEMMA CallFailsTyped == ASSUME RemoteInv, NEW c \in Calls, CallFails(c) PROVE RemoteInv'
<1> USE ConstantsAre
<1>1. /\ UNCHANGED <<registered, listLock, refreshLock, live, stale, added, replayed, straddled, spent,
                     minted, redeemed, misdirected, changed, secret>>
      /\ CallbackTypeOK' /\ faults' \in faults .. MaxFaults /\ faults' > 0
  BY CallbackKept, Lapses DEF CallFails, agentVars, serverVars, historyVars, storeVars
<1>2. /\ Becomes(c, "idle", 0, NoAuth, NoToken, "none")
      /\ work[c].at \in {"storing", "announcing", "keeping", "naming", "listing"}
  BY ReturnsTo DEF CallFails, RemoteInv, Works, at
<1>3. Alone(c) /\ workSound(c)' /\ work'[c].at = "idle"
  BY <1>2, IdleSound DEF Becomes
<1>4. secret' \in RemoteMCPAuth /\ sound(secret)'
  BY <1>1 DEF sound, RemoteInv
<1> QED BY <1>1, <1>2, <1>3, <1>4, QuietTyped DEF RemoteInv, Numbers, Switches

(* Reads leave everything but their worker alone. *)
LEMMA ReadsTyped ==
    ASSUME RemoteInv, NEW w \in Workers, Alone(w), workSound(w)',
           work[w].at \notin {"removing", "minting", "persisting"},
           work'[w].at \notin {"removing", "minting", "persisting"},
           UNCHANGED <<callbackVars, storeVars, refreshLock, agentVars, serverVars,
                       added, faults, replayed, straddled>>,
           misdirected' \in BOOLEAN, w \in Calls /\ mends(w) => mends(w)'
    PROVE  RemoteInv'
<1> USE ConstantsAre DEF storeVars, agentVars, serverVars
<1>1. sound(secret)' /\ CallbackTypeOK' /\ secret' \in RemoteMCPAuth
  BY CallbackKept DEF RemoteInv, sound
<1> QED BY <1>1, QuietTyped DEF RemoteInv, Numbers, Switches

LEMMA WaitPollsTyped == ASSUME RemoteInv, NEW c \in Calls, WaitPolls(c) PROVE RemoteInv'
<1> USE ConstantsAre
<1>1. at(c, "idle") /\ Becomes(c, "reading", 0, secret, NoToken, "none")
  BY WaitPollsMoves
<1>2. UNCHANGED <<callbackVars, storeVars, refreshLock, agentVars, serverVars,
                  added, faults, replayed, straddled, misdirected>>
  BY DEF WaitPolls
<1>3. workSound(c)'
  BY <1>1, <1>2 DEF workSound, stepsOf, sound, carrying, at, Becomes, RemoteInv, serverVars
<1> QED BY <1>1, <1>2, <1>3, ReadsTyped DEF Becomes, mends, at, RemoteInv, Switches

LEMMA CompleteBeginsTyped == ASSUME RemoteInv, NEW c \in Calls, CompleteBegins(c) PROVE RemoteInv'
<1> USE ConstantsAre
<1>1. UNCHANGED <<callbackVars, storeVars, refreshLock, agentVars, serverVars,
                  added, faults, replayed, straddled, misdirected>>
  BY DEF CompleteBegins
<1>2. at(c, "idle") /\ Alone(c) /\ work'[c].at \in {"reading", "exchanging"}
  BY CompleteBeginsMoves DEF Becomes
<1>3. workSound(c)'
  BY <1>1, CompleteBeginsMoves DEF workSound, stepsOf, sound, carrying, at, Becomes, RemoteInv, serverVars
<1> QED BY <1>1, <1>2, <1>3, ReadsTyped DEF mends, at, RemoteInv, Switches

LEMMA FinalizeReadsTyped == ASSUME RemoteInv, NEW c \in Calls, FinalizeReads(c) PROVE RemoteInv'
<1> USE ConstantsAre
<1>1. UNCHANGED <<callbackVars, storeVars, refreshLock, agentVars, serverVars,
                  added, faults, replayed, straddled, misdirected>>
  BY DEF FinalizeReads, historyVars
<1>2. at(c, "reading") /\ sound(work[c].copy)
  BY FinalizeReadsMoves DEF RemoteInv, Works, workSound
<1>3. CASE returns(c)
  <2>1. Becomes(c, "idle", 0, NoAuth, NoToken, "none")
    BY <1>3, ReturnsTo DEF RemoteInv, Works
  <2>2. workSound(c)'
    BY <2>1, IdleSound DEF Becomes
  <2> QED BY <1>1, <1>2, <2>1, <2>2, ReadsTyped DEF Becomes, mends, at, RemoteInv, Switches
<1>4. CASE moves(c, "finalized")
  <2>1. Becomes(c, "finalized", work[c].of, work[c].copy, work[c].got, work[c].style)
    BY <1>4, MovesTo DEF RemoteInv, Works, Steps
  <2>2. workSound(c)'
    BY <1>1, <1>2, <2>1 DEF workSound, stepsOf, sound, carrying, at, Becomes, serverVars
  <2> QED BY <1>1, <1>2, <2>1, <2>2, ReadsTyped DEF Becomes, mends, at, RemoteInv, Switches
<1>5. CASE registers /\ Becomes(c, "listing", registered.of, work[c].copy, work[c].got, work[c].style)
  <2>1. registered.of \in Flows
    BY <1>5 DEF RemoteInv, registrationSound, Numbers, Flows
  <2>2. workSound(c)'
    BY <1>1, <1>2, <1>5, <2>1 DEF workSound, stepsOf, sound, carrying, at, Becomes, serverVars
  <2> QED BY <1>1, <1>2, <1>5, <2>2, ReadsTyped DEF Becomes, mends, at, RemoteInv, Switches
<1> QED BY <1>3, <1>4, <1>5, FinalizeReadsMoves

LEMMA FinalizeListsMoves ==
    ASSUME RemoteInv, NEW c \in Calls, FinalizeLists(c)
    PROVE  /\ at(c, "listing")
           /\ \/ /\ work[c].copy.token.of = work[c].of
                 /\ Becomes(c, "naming", work[c].of, work[c].copy, work[c].got, work[c].style)
              \/ Becomes(c, "idle", 0, NoAuth, NoToken, "none")
<1>1. /\ at(c, "listing")
      /\ IF work[c].copy.token.of = work[c].of THEN moves(c, "naming") ELSE returns(c)
  BY DEF FinalizeLists
<1> QED BY <1>1, MovesTo, ReturnsTo, ConstantsAre DEF RemoteInv, Works, Steps

LEMMA FinalizeListsTyped == ASSUME RemoteInv, NEW c \in Calls, FinalizeLists(c) PROVE RemoteInv'
<1> USE ConstantsAre
<1>1. UNCHANGED <<callbackVars, storeVars, refreshLock, agentVars, serverVars,
                  added, faults, replayed, straddled, misdirected>>
  BY DEF FinalizeLists, historyVars
<1>2. at(c, "listing") /\ sound(work[c].copy) /\ work[c].of \in Flows
  BY FinalizeListsMoves DEF RemoteInv, Works, workSound, at
<1>3. CASE Becomes(c, "naming", work[c].of, work[c].copy, work[c].got, work[c].style)
  <2>1. workSound(c)'
    BY <1>1, <1>2, <1>3 DEF workSound, stepsOf, sound, carrying, at, Becomes, serverVars
  <2> QED BY <1>1, <1>2, <1>3, <2>1, ReadsTyped DEF Becomes, mends, at, RemoteInv, Switches
<1>4. CASE Becomes(c, "idle", 0, NoAuth, NoToken, "none")
  <2>1. workSound(c)'
    BY <1>4, IdleSound DEF Becomes
  <2> QED BY <1>1, <1>2, <1>4, <2>1, ReadsTyped DEF Becomes, mends, at, RemoteInv, Switches
<1> QED BY <1>3, <1>4, FinalizeListsMoves

LEMMA CallbackLoadsTyped == ASSUME RemoteInv, NEW h \in Handlers, CallbackLoads(h) PROVE RemoteInv'
<1> USE ConstantsAre
<1>1. UNCHANGED <<callbackVars, storeVars, refreshLock, agentVars, serverVars,
                  added, faults, replayed, straddled, misdirected>>
  BY DEF CallbackLoads, historyVars
<1>2. at(h, "loading") /\ work[h].of \in Flows /\ sound(work[h].copy) /\ work[h].got.n \in 1 .. minted /\ sound(secret)
  BY CallbackLoadsMoves DEF RemoteInv, Works, workSound, carrying, at
<1>3. CASE Becomes(h, "failing", work[h].of, work[h].copy, work[h].got, work[h].style)
  <2>1. workSound(h)'
    BY <1>1, <1>2, <1>3 DEF workSound, stepsOf, sound, carrying, at, Becomes, serverVars
  <2> QED BY <1>1, <1>2, <1>3, <2>1, ReadsTyped DEF Becomes, at, RemoteInv, Switches
<1>4. CASE Becomes(h, "storing", work[h].of, secret, work[h].got, work[h].style)
  <2>1. workSound(h)'
    BY <1>1, <1>2, <1>4 DEF workSound, stepsOf, sound, carrying, at, Becomes, serverVars
  <2> QED BY <1>1, <1>2, <1>4, <2>1, ReadsTyped DEF Becomes, at, RemoteInv, Switches
<1> QED BY <1>3, <1>4, CallbackLoadsMoves

LEMMA RequestBeginsTyped == ASSUME RemoteInv, NEW r \in Requests, RequestBegins(r) PROVE RemoteInv'
<1> USE ConstantsAre
<1>1. at(r, "idle") /\ Becomes(r, "resolving", registered.of, NoAuth, NoToken, "none")
  BY RequestBeginsMoves
<1>2. UNCHANGED <<callbackVars, storeVars, refreshLock, agentVars, serverVars,
                  added, faults, replayed, straddled, misdirected>>
  BY DEF RequestBegins
<1>3. workSound(r)'
  BY <1>1, NothingTyped DEF workSound, stepsOf, sound, carrying, at, Becomes
<1> QED BY <1>1, <1>2, <1>3, ReadsTyped DEF Becomes, at, RemoteInv, Switches

LEMMA ResolvesTyped == ASSUME RemoteInv, NEW r \in Requests, Resolves(r) PROVE RemoteInv'
<1> USE ConstantsAre
<1>1. UNCHANGED <<callbackVars, storeVars, refreshLock, agentVars, serverVars,
                  added, faults, replayed, straddled>>
  BY DEF Resolves
<1>2. at(r, "resolving")
  BY ResolvesMoves
<1>3. CASE /\ secret.token # NoToken /\ UNCHANGED misdirected
           /\ Becomes(r, "refreshing", work[r].of, secret, work[r].got, work[r].style)
  <2>1. workSound(r)'
    BY <1>1, <1>3 DEF workSound, stepsOf, sound, carrying, at, Becomes, serverVars, RemoteInv
  <2> QED BY <1>1, <1>2, <1>3, <2>1, ReadsTyped DEF Becomes, at, RemoteInv, Switches
<1>4. CASE returns(r) /\ forwards(r, secret.token)
  <2>1. Becomes(r, "idle", 0, NoAuth, NoToken, "none")
    BY <1>4, ReturnsTo DEF RemoteInv, Works
  <2>2. workSound(r)'
    BY <2>1, IdleSound DEF Becomes
  <2>3. misdirected' \in BOOLEAN
    BY <1>4 DEF forwards
  <2> QED BY <1>1, <1>2, <2>1, <2>2, <2>3, ReadsTyped DEF Becomes, at
<1> QED BY <1>3, <1>4, ResolvesMoves

LEMMA CompleteExchangesMoves ==
    ASSUME RemoteInv, NEW c \in Calls, CompleteExchanges(c)
    PROVE  /\ at(c, "exchanging")
           /\ \/ \E token \in Token :
                    /\ minted < MaxTokens /\ minted' = minted + 1 /\ redeemed' = redeemed \cup {work[c].of}
                    /\ token.of = work[c].of /\ token.n = minted + 1
                    /\ Becomes(c, "keeping", work[c].of, work[c].copy, token, work[c].style)
              \/ UNCHANGED <<redeemed, minted>> /\ Becomes(c, "idle", 0, NoAuth, NoToken, "none")
<1> USE ConstantsAre, NothingTyped
<1>1. at(c, "exchanging") /\ exchanges(c, "keeping", Idle)
  BY DEF CompleteExchanges
<1>2. goes(c, Idle) => Becomes(c, "idle", 0, NoAuth, NoToken, "none")
  BY ReturnsTo DEF returns, RemoteInv, Works
<1> QED BY <1>1, <1>2, ExchangesMoves DEF Steps

LEMMA CallbackExchangesMoves ==
    ASSUME RemoteInv, NEW h \in Handlers, CallbackExchanges(h)
    PROVE  /\ at(h, "exchanging")
           /\ \/ \E token \in Token :
                    /\ minted < MaxTokens /\ minted' = minted + 1 /\ redeemed' = redeemed \cup {work[h].of}
                    /\ token.of = work[h].of /\ token.n = minted + 1
                    /\ Becomes(h, "loading", work[h].of, work[h].copy, token, work[h].style)
              \/ /\ UNCHANGED <<redeemed, minted>>
                 /\ Becomes(h, "failing", work[h].of, work[h].copy, work[h].got, work[h].style)
<1> USE ConstantsAre
<1>1. at(h, "exchanging") /\ exchanges(h, "loading", [work[h] EXCEPT !.at = "failing"])
  BY DEF CallbackExchanges
<1>2. PICK otherwise \in Work : otherwise = [work[h] EXCEPT !.at = "failing"]
  BY FailingMoves
<1>3. goes(h, otherwise) => Becomes(h, "failing", work[h].of, work[h].copy, work[h].got, work[h].style)
  BY <1>2, FailingMoves
<1>4. exchanges(h, "loading", otherwise)
  BY <1>1, <1>2
<1> QED BY <1>1, <1>3, <1>4, ExchangesMoves DEF Steps

LEMMA ExchangeTyped ==
    ASSUME RemoteInv, NEW w \in Workers, at(w, "exchanging"), Alone(w), workSound(w)',
           work'[w].at \in {"keeping", "idle", "loading", "failing"},
           UNCHANGED <<callbackVars, storeVars, refreshLock, agentVars, spent, historyVars>>,
           \/ minted < MaxTokens /\ minted' = minted + 1 /\ redeemed' = redeemed \cup {work[w].of}
           \/ UNCHANGED <<redeemed, minted>>
    PROVE  RemoteInv'
<1> USE ConstantsAre DEF storeVars, agentVars, historyVars
<1>1. minted' \in minted .. MaxTokens /\ redeemed' \subseteq Flows
  BY DEF RemoteInv, Numbers, Works, workSound, at
<1>2. CallbackTypeOK' /\ secret' \in RemoteMCPAuth /\ sound(secret)'
  BY <1>1, CallbackKept DEF sound, RemoteInv, Numbers
<1> QED BY <1>1, <1>2, QuietTyped DEF at, mends, RemoteInv, Numbers, Switches

LEMMA CompleteExchangesTyped == ASSUME RemoteInv, NEW c \in Calls, CompleteExchanges(c) PROVE RemoteInv'
<1> USE ConstantsAre
<1>1. /\ UNCHANGED <<callbackVars, storeVars, refreshLock, agentVars, spent, historyVars>>
      /\ at(c, "exchanging") /\ sound(work[c].copy) /\ minted \in Nat
  BY DEF CompleteExchanges, RemoteInv, Works, workSound, Numbers
<1>2. CASE Becomes(c, "idle", 0, NoAuth, NoToken, "none") /\ UNCHANGED <<redeemed, minted>>
  BY <1>1, <1>2, IdleSound, ExchangeTyped DEF Becomes
<1>3. ASSUME NEW token \in Token, minted < MaxTokens /\ minted' = minted + 1,
             redeemed' = redeemed \cup {work[c].of}, token.of = work[c].of /\ token.n = minted + 1,
             Becomes(c, "keeping", work[c].of, work[c].copy, token, work[c].style)
      PROVE  RemoteInv'
  <2>1. workSound(c)'
    BY <1>1, <1>3 DEF workSound, stepsOf, sound, carrying, at, Becomes
  <2> QED BY <1>1, <1>3, <2>1, ExchangeTyped DEF Becomes
<1> QED BY <1>2, <1>3, CompleteExchangesMoves

LEMMA CallbackExchangesTyped == ASSUME RemoteInv, NEW h \in Handlers, CallbackExchanges(h) PROVE RemoteInv'
<1> USE ConstantsAre
<1>1. /\ UNCHANGED <<callbackVars, storeVars, refreshLock, agentVars, spent, historyVars>>
      /\ at(h, "exchanging") /\ work[h].of \in Flows /\ sound(work[h].copy) /\ minted \in Nat
  BY DEF CallbackExchanges, RemoteInv, Works, workSound, Numbers, at
<1>2. CASE /\ Becomes(h, "failing", work[h].of, work[h].copy, work[h].got, work[h].style)
           /\ UNCHANGED <<redeemed, minted>>
  <2>1. workSound(h)'
    BY <1>1, <1>2 DEF workSound, stepsOf, sound, carrying, at, Becomes
  <2> QED BY <1>1, <1>2, <2>1, ExchangeTyped DEF Becomes
<1>3. ASSUME NEW token \in Token, minted < MaxTokens /\ minted' = minted + 1,
             redeemed' = redeemed \cup {work[h].of}, token.of = work[h].of /\ token.n = minted + 1,
             Becomes(h, "loading", work[h].of, work[h].copy, token, work[h].style)
      PROVE  RemoteInv'
  <2>1. workSound(h)'
    BY <1>1, <1>3 DEF workSound, stepsOf, sound, carrying, at, Becomes
  <2> QED BY <1>1, <1>3, <2>1, ExchangeTyped DEF Becomes
<1> QED BY <1>2, <1>3, CallbackExchangesMoves

LEMMA CompleteStoresTyped == ASSUME RemoteInv, NEW c \in Calls, CompleteStores(c) PROVE RemoteInv'
<1> USE ConstantsAre
<1>1. /\ UNCHANGED <<registered, listLock, refreshLock, live, stale, added, replayed, straddled, spent,
                     minted, redeemed, misdirected, changed, faults>>
      /\ CallbackTypeOK'
  BY CallbackKept DEF CompleteStores, agentVars, serverVars, historyVars
<1>2. /\ secret' \in RemoteMCPAuth /\ secret'.token = work[c].got /\ secret'.exchange = "none"
      /\ Becomes(c, "reading", 0, secret', NoToken, "none")
  BY CompleteStoresMoves
<1>3. work[c].at = "keeping" /\ work[c].got.n \in 1 .. minted
  BY DEF CompleteStores, at, RemoteInv, Works, workSound, carrying
<1>4. sound(secret)' /\ Alone(c) /\ workSound(c)' /\ work'[c].at = "reading"
  BY <1>1, <1>2, <1>3 DEF sound, Becomes, workSound, stepsOf, carrying, at
<1> QED BY <1>1, <1>2, <1>3, <1>4, QuietTyped DEF RemoteInv, Numbers, Switches, mends, at

LEMMA CallbackTakesTyped == ASSUME RemoteInv, NEW h \in Handlers, CallbackTakes(h) PROVE RemoteInv'
<1> USE ConstantsAre
<1>1. /\ UNCHANGED <<registered, secret, listLock, refreshLock, live, stale, added, replayed, straddled, spent,
                     minted, redeemed, misdirected, changed, faults, aged, reaping, closed>>
  BY DEF CallbackTakes, agentVars, serverVars, storeVars
<1>2. PICK f \in pending \cap 1 .. MaxAdds, next \in {"exchanging", "failing"} :
          pending' = pending \ {f} /\ Becomes(h, next, f, NoAuth, NoToken, "none")
  BY CallbackTakesMoves
<1>3. work[h].at = "idle" /\ f \in Flows
  BY CallbackTakesMoves DEF at, RemoteInv, CallbackTypeOK
<1>4. sound(secret)' /\ Alone(h) /\ workSound(h)' /\ work'[h].at \in {"exchanging", "failing"}
  BY <1>1, <1>2, <1>3, NothingTyped DEF sound, Becomes, workSound, stepsOf, carrying, at, RemoteInv
<1>5. CallbackTypeOK'
  BY <1>1, <1>2 DEF CallbackTypeOK, RemoteInv
<1> QED BY <1>1, <1>3, <1>4, <1>5, QuietTyped DEF RemoteInv, Numbers, Switches

LEMMA ClosesTyped ==
    ASSUME CallbackTypeOK, NEW f, Closes(f)
    PROVE  /\ closed' \in [Flows -> 0 .. 2]
           /\ \A g \in Flows : g # f => closed'[g] = closed[g]
           /\ f \in Flows /\ closed[f] = 0 => closed'[f] = 1
<1>1. PICK n : n = IF closed[f] = 2 THEN 2 ELSE closed[f] + 1
  OBVIOUS
<1>2. closed' = [closed EXCEPT ![f] = n]
  BY <1>1 DEF Closes
<1>3. f \in Flows => n \in 0 .. 2
  BY <1>1 DEF CallbackTypeOK
<1>4. closed \in [Flows -> 0 .. 2]
  BY DEF CallbackTypeOK
<1>5. closed' \in [Flows -> 0 .. 2]
  BY <1>2, <1>3, <1>4
<1>6. f \in Flows /\ closed[f] = 0 => closed'[f] = 1
  BY <1>1, <1>2, <1>4
<1> QED BY <1>2, <1>4, <1>5, <1>6

LEMMA CallbackStoresTyped == ASSUME RemoteInv, NEW h \in Handlers, CallbackStores(h) PROVE RemoteInv'
<1> USE ConstantsAre
<1>1. /\ UNCHANGED <<registered, listLock, refreshLock, live, stale, added, replayed, straddled, spent,
                     minted, redeemed, misdirected, changed, faults, pending, aged, reaping>>
      /\ secret' = withToken(work[h].copy, work[h].got) /\ Closes(work[h].of) /\ at(h, "storing")
  BY DEF CallbackStores, agentVars, serverVars, historyVars
<1>2. Becomes(h, "idle", 0, NoAuth, NoToken, "none")
  BY ReturnsTo DEF CallbackStores, RemoteInv, Works
<1>3. /\ work[h].copy \in RemoteMCPAuth /\ work[h].got \in Token /\ sound(work[h].copy)
      /\ work[h].got.n \in 1 .. minted
  BY <1>1 DEF RemoteInv, Works, Work, workSound, carrying
<1>4. secret' \in RemoteMCPAuth /\ sound(secret)'
  BY <1>1, <1>3, WithToken DEF sound
<1>5. Alone(h) /\ workSound(h)' /\ work'[h].at = "idle"
  BY <1>2, IdleSound DEF Becomes
<1>6. CallbackTypeOK'
  BY <1>1, ClosesTyped DEF CallbackTypeOK, RemoteInv
<1> QED BY <1>1, <1>4, <1>5, <1>6, QuietTyped DEF RemoteInv, Numbers, Switches, at

LEMMA CallbackStoreFailsTyped == ASSUME RemoteInv, NEW h \in Handlers, CallbackStoreFails(h) PROVE RemoteInv'
<1> USE ConstantsAre
<1>1. /\ UNCHANGED <<registered, listLock, refreshLock, live, stale, added, replayed, straddled, spent,
                     minted, redeemed, misdirected, changed>>
      /\ CallbackTypeOK'
      /\ secret' \in {secret, withToken(work[h].copy, work[h].got)} /\ at(h, "storing")
  BY CallbackKept DEF CallbackStoreFails, agentVars, serverVars
<1>2. faults' \in faults .. MaxFaults
  BY Lapses DEF CallbackStoreFails
<1>3. Becomes(h, "failing", work[h].of, work[h].copy, work[h].got, work[h].style)
  BY MovesTo DEF CallbackStoreFails, RemoteInv, Works, Steps
<1>4. /\ work[h].copy \in RemoteMCPAuth /\ work[h].got \in Token /\ sound(work[h].copy)
      /\ work[h].got.n \in 1 .. minted
  BY <1>1 DEF RemoteInv, Works, Work, workSound, carrying
<1>5. secret' \in RemoteMCPAuth /\ sound(secret)'
  BY <1>1, <1>4, WithToken DEF sound, RemoteInv
<1>6. Alone(h) /\ workSound(h)' /\ work'[h].at = "failing"
  BY <1>1, <1>3, <1>4 DEF Becomes, workSound, stepsOf, carrying, at, sound
<1> QED BY <1>1, <1>2, <1>5, <1>6, QuietTyped DEF RemoteInv, Numbers, Switches, at

LEMMA CallbackFailsTyped == ASSUME RemoteInv, NEW h \in Handlers, CallbackFails(h) PROVE RemoteInv'
<1> USE ConstantsAre
<1>1. /\ UNCHANGED <<registered, secret, listLock, refreshLock, live, stale, added, replayed, straddled, spent,
                     minted, redeemed, misdirected, changed, faults, pending, aged, reaping>>
      /\ Closes(work[h].of) /\ at(h, "failing")
  BY DEF CallbackFails, agentVars, serverVars, historyVars, storeVars
<1>2. Becomes(h, "idle", 0, NoAuth, NoToken, "none")
  BY ReturnsTo DEF CallbackFails, RemoteInv, Works
<1>3. Alone(h) /\ workSound(h)' /\ work'[h].at = "idle"
  BY <1>2, IdleSound DEF Becomes
<1>4. CallbackTypeOK' /\ secret' \in RemoteMCPAuth /\ sound(secret)'
  BY <1>1, ClosesTyped DEF CallbackTypeOK, RemoteInv, sound
<1> QED BY <1>1, <1>3, <1>4, QuietTyped DEF RemoteInv, Numbers, Switches, at

LEMMA AddRemoteMCPTyped == ASSUME RemoteInv, NEW c \in Calls, AddRemoteMCP(c) PROVE RemoteInv'
<1> USE ConstantsAre, AddRemoteMCPMoves
<1>1. /\ UNCHANGED <<callbackVars, secret, listLock, refreshLock, live, changed, serverVars,
                     faults, replayed, straddled, misdirected>>
  BY DEF AddRemoteMCP
<1>2. PICK style \in Styles :
          /\ registered'.tools = IF style \in {"open", "headers"} THEN added + 1 ELSE 0
          /\ Becomes(c, IF style = "open" THEN "announcing" ELSE "storing", added + 1, NoAuth, NoToken, style)
  OBVIOUS
<1>3. /\ work[c].at = "idle" /\ added' = added + 1 /\ added + 1 \in Flows /\ added' \in 0 .. MaxAdds
  BY DEF at, Flows
<1>4. Alone(c) /\ workSound(c)' /\ work'[c].at \in {"announcing", "storing"}
  BY <1>1, <1>2, <1>3, NothingTyped DEF Becomes, workSound, stepsOf, carrying, at, sound
<1>5. Works' /\ Locked'
  BY <1>1, <1>3, <1>4, OthersSound, OthersLocked DEF RemoteInv, Numbers, serverVars
<1>6. Mended'
  <2>1. CASE style \in {"open", "headers"}
    BY <1>2, <1>3, <2>1 DEF Mended, mends, at, Becomes
  <2>2. CASE style \notin {"open", "headers"}
    <3>1. registered'.tools = 0
      BY <1>2, <2>2
    <3>2. stale' => stale
      BY <3>1
    <3> QED BY <1>1, <1>3, <1>4, <3>2, OthersMend DEF mends, at, RemoteInv, Numbers, Switches
  <2> QED BY <2>1, <2>2
<1>7. Numbers' /\ Switches'
  BY <1>1, <1>3 DEF RemoteInv, Numbers, Switches, serverVars
<1>8. registrationSound'
  BY <1>3 DEF registrationSound, registers
<1>9. CallbackTypeOK' /\ secret' \in RemoteMCPAuth /\ sound(secret)'
  BY <1>1, CallbackKept DEF RemoteInv, sound, serverVars
<1> QED BY <1>5, <1>6, <1>7, <1>8, <1>9 DEF RemoteInv

(* A change of the stored registration by a call. *)
LEMMA SavesTyped ==
    ASSUME RemoteInv, NEW c \in Calls, Alone(c), workSound(c)',
           UNCHANGED <<callbackVars, secret, refreshLock, live, changed, serverVars,
                       added, faults, replayed, straddled, misdirected>>,
           Locked', registrationSound', stale' \in BOOLEAN, mends(c)'
    PROVE  RemoteInv'
<1> USE ConstantsAre
<1>1. Works'
  BY OthersSound DEF RemoteInv, Numbers, serverVars
<1>2. Mended'
  BY DEF Mended
<1>3. CallbackTypeOK' /\ secret' \in RemoteMCPAuth /\ sound(secret)'
  BY CallbackKept DEF RemoteInv, sound, serverVars
<1>4. Numbers' /\ Switches'
  BY DEF RemoteInv, Numbers, Switches, serverVars
<1> QED BY <1>1, <1>2, <1>3, <1>4 DEF RemoteInv

LEMMA FinalizeNamesMoves ==
    ASSUME RemoteInv, NEW c \in Calls, FinalizeNames(c)
    PROVE  /\ at(c, "naming") /\ listFree
           /\ \/ /\ registers /\ registered' \in Entry /\ registered'.of = registered.of
                 /\ registered'.channels = registered.channels /\ registered'.tools = work[c].of
                 /\ stale' = TRUE
                 /\ Becomes(c, "finalized", work[c].of, work[c].copy, work[c].got, work[c].style)
              \/ /\ ~ registers /\ Becomes(c, "idle", 0, NoAuth, NoToken, "none")
                 /\ UNCHANGED <<registered, stale>>
<1> USE ConstantsAre
<1>1. at(c, "naming") /\ listFree
  BY DEF FinalizeNames
<1>2. CASE registers
  <2>1. registered' = [registered EXCEPT !.tools = work[c].of] /\ stale' = TRUE /\ moves(c, "finalized")
    BY <1>2 DEF FinalizeNames
  <2>2. work[c].of \in 0 .. MaxFlows /\ registered \in Entry
    BY DEF RemoteInv, Works, Work, registrationSound
  <2>3. /\ registered' \in Entry /\ registered'.of = registered.of
        /\ registered'.channels = registered.channels /\ registered'.tools = work[c].of
    BY <2>1, <2>2 DEF Entry
  <2>4. Becomes(c, "finalized", work[c].of, work[c].copy, work[c].got, work[c].style)
    BY <2>1, MovesTo DEF RemoteInv, Works, Steps
  <2> QED BY <1>1, <1>2, <2>1, <2>3, <2>4
<1>3. CASE ~ registers
  BY <1>1, <1>3, ReturnsTo DEF FinalizeNames, RemoteInv, Works
<1> QED BY <1>2, <1>3

LEMMA FinalizeNamesTyped == ASSUME RemoteInv, NEW c \in Calls, FinalizeNames(c) PROVE RemoteInv'
<1> USE ConstantsAre
<1>1. UNCHANGED <<callbackVars, secret, listLock, refreshLock, live, changed, serverVars,
                  added, faults, replayed, straddled, misdirected>>
  BY DEF FinalizeNames, historyVars
<1>2. work[c].at = "naming" /\ sound(work[c].copy)
  BY FinalizeNamesMoves DEF at, RemoteInv, Works, workSound
<1>3. CASE /\ registers /\ registered' \in Entry /\ registered'.of = registered.of
           /\ registered'.channels = registered.channels /\ stale' = TRUE
           /\ Becomes(c, "finalized", work[c].of, work[c].copy, work[c].got, work[c].style)
  <2>1. Alone(c) /\ workSound(c)' /\ work'[c].at = "finalized" /\ mends(c)'
    BY <1>1, <1>2, <1>3 DEF Becomes, workSound, stepsOf, carrying, at, sound, mends, serverVars
  <2>2. Locked'
    BY <1>1, <1>2, <2>1, OthersLocked
  <2>3. registrationSound'
    BY <1>1, <1>3 DEF registrationSound, RemoteInv, registers
  <2> QED BY <1>1, <1>3, <2>1, <2>2, <2>3, SavesTyped
<1>4. CASE /\ Becomes(c, "idle", 0, NoAuth, NoToken, "none") /\ UNCHANGED <<registered, stale>>
  <2>1. Alone(c) /\ workSound(c)' /\ work'[c].at = "idle"
    BY <1>4, IdleSound DEF Becomes
  <2> QED BY <1>1, <1>2, <1>4, <2>1, ReadsTyped DEF mends, at, storeVars, agentVars, RemoteInv, Switches
<1> QED BY <1>3, <1>4, FinalizeNamesMoves

LEMMA SetChannelsMoves ==
    ASSUME RemoteInv, NEW c \in Calls, SetChannels(c)
    PROVE  /\ at(c, "idle") /\ listFree /\ registers
           /\ registered' \in Entry /\ registered'.of = registered.of /\ registered'.tools = registered.tools
           /\ registered'.channels # {} /\ stale' = TRUE
           /\ Becomes(c, "announcing", work[c].of, work[c].copy, work[c].got, work[c].style)
<1> USE ConstantsAre
<1>1. at(c, "idle") /\ listFree /\ registers /\ stale' = TRUE /\ moves(c, "announcing")
  BY DEF SetChannels, begins
<1>2. PICK names \in SUBSET Channels : names # {} /\ registered' = [registered EXCEPT !.channels = names]
  BY DEF SetChannels, cleanChannels
<1>3. /\ registered' \in Entry /\ registered'.of = registered.of /\ registered'.tools = registered.tools
      /\ registered'.channels # {}
  BY <1>2 DEF Entry, RemoteInv, registrationSound
<1>4. Becomes(c, "announcing", work[c].of, work[c].copy, work[c].got, work[c].style)
  BY <1>1, MovesTo DEF RemoteInv, Works, Steps
<1> QED BY <1>1, <1>3, <1>4

LEMMA SetChannelsTyped == ASSUME RemoteInv, NEW c \in Calls, SetChannels(c) PROVE RemoteInv'
<1> USE ConstantsAre, SetChannelsMoves
<1>1. UNCHANGED <<callbackVars, secret, listLock, refreshLock, live, changed, serverVars,
                  added, faults, replayed, straddled, misdirected>>
  BY DEF SetChannels
<1>2. work[c].at = "idle" /\ sound(work[c].copy)
  BY DEF at, RemoteInv, Works, workSound
<1>3. Alone(c) /\ workSound(c)' /\ work'[c].at = "announcing" /\ mends(c)'
  BY <1>1, <1>2 DEF Becomes, workSound, stepsOf, carrying, at, sound, mends, serverVars
<1>4. Locked'
  BY <1>1, <1>2, <1>3, OthersLocked
<1>5. registrationSound'
  BY <1>1 DEF registrationSound, RemoteInv, registers
<1> QED BY <1>1, <1>3, <1>4, <1>5, SavesTyped

LEMMA RemoveDeletesTyped == ASSUME RemoteInv, NEW c \in Calls, RemoveDeletes(c) PROVE RemoteInv'
<1> USE ConstantsAre, NothingTyped
<1>1. /\ UNCHANGED <<callbackVars, registered, refreshLock, agentVars, serverVars, added, faults, replayed, misdirected>>
      /\ at(c, "idle") /\ listLock = Nobody /\ listLock' = c /\ secret' = NoAuth
  BY DEF RemoveDeletes, begins, listFree
<1>2. Becomes(c, "removing", work[c].of, work[c].copy, work[c].got, work[c].style)
  BY MovesTo DEF RemoveDeletes, RemoteInv, Works, Steps
<1>3. work[c].at = "idle" /\ sound(work[c].copy)
  BY <1>1 DEF at, RemoteInv, Works, workSound
<1>4. Alone(c) /\ workSound(c)' /\ work'[c].at = "removing"
  BY <1>1, <1>2, <1>3 DEF Becomes, workSound, stepsOf, carrying, at, sound, serverVars
<1>5. Works' /\ Mended'
  BY <1>1, <1>3, <1>4, OthersSound, OthersMend
     DEF RemoteInv, Numbers, Switches, serverVars, agentVars, mends, at
<1>6. Locked'
  <2>1. \A v \in Workers : v # c => work'[v] = work[v] /\ ~ at(v, "removing")
    <3> SUFFICES ASSUME NEW v \in Workers, v # c PROVE work'[v] = work[v] /\ ~ at(v, "removing")
      OBVIOUS
    <3>1. at(v, "removing") => v \in Calls /\ listLock = v
      BY DEF RemoteInv, Locked, at, Works, workSound, stepsOf
    <3> QED BY <1>1, <1>4, <3>1 DEF Alone
  <2>2. refreshLock # Nobody => refreshLock \in Requests /\ refreshLock # c
    BY <1>3 DEF RemoteInv, Locked
  <2> QED BY <1>1, <1>3, <1>4, <2>1, <2>2 DEF RemoteInv, Locked, at
<1>7. CallbackTypeOK' /\ secret' \in RemoteMCPAuth /\ sound(secret)'
  BY <1>1, CallbackKept DEF sound
<1>8. straddled' \in BOOLEAN
  BY DEF RemoveDeletes
<1>9. Numbers' /\ Switches' /\ registrationSound'
  BY <1>1, <1>8 DEF RemoteInv, Numbers, Switches, serverVars, agentVars, registrationSound, registers
<1> QED BY <1>5, <1>6, <1>7, <1>9 DEF RemoteInv

(* Manager.mu is given up. *)
LEMMA ListUnlocked ==
    ASSUME RemoteInv, NEW c \in Calls, at(c, "removing"), Alone(c), listLock' = Nobody,
           UNCHANGED refreshLock, work'[c].at \notin {"removing", "minting", "persisting"}
    PROVE  Locked'
<1> USE ConstantsAre
<1>1. \A v \in Workers : v # c => work'[v] = work[v] /\ ~ at(v, "removing")
  BY DEF Alone, RemoteInv, Locked, at
<1>2. refreshLock # Nobody => refreshLock \in Requests /\ refreshLock # c
  BY DEF RemoteInv, Locked
<1> QED BY <1>1, <1>2 DEF RemoteInv, Locked, at

LEMMA RemoveSavesTyped == ASSUME RemoteInv, NEW c \in Calls, RemoveSaves(c) PROVE RemoteInv'
<1> USE ConstantsAre, NothingTyped
<1>1. /\ UNCHANGED <<callbackVars, secret, refreshLock, live, changed, serverVars,
                     added, faults, replayed, straddled, misdirected>>
      /\ at(c, "removing") /\ listLock' = Nobody /\ registered' = NoEntry /\ stale' = TRUE
  BY DEF RemoveSaves, historyVars
<1>2. Becomes(c, "announcing", work[c].of, work[c].copy, work[c].got, work[c].style)
  BY MovesTo DEF RemoveSaves, RemoteInv, Works, Steps
<1>3. sound(work[c].copy)
  BY DEF RemoteInv, Works, workSound
<1>4. Alone(c) /\ workSound(c)' /\ work'[c].at = "announcing" /\ mends(c)'
  BY <1>1, <1>2, <1>3 DEF Becomes, workSound, stepsOf, carrying, at, sound, mends, serverVars
<1>5. Locked'
  BY <1>1, <1>4, ListUnlocked
<1>6. registrationSound'
  BY <1>1 DEF registrationSound, registers
<1> QED BY <1>1, <1>4, <1>5, <1>6, SavesTyped

LEMMA RemoveFailsTyped == ASSUME RemoteInv, NEW c \in Calls, RemoveFails(c) PROVE RemoteInv'
<1> USE ConstantsAre
<1>1. /\ UNCHANGED <<callbackVars, registered, secret, refreshLock, agentVars, serverVars,
                     added, replayed, straddled, misdirected>>
      /\ at(c, "removing") /\ listLock' = Nobody /\ faults' \in faults .. MaxFaults /\ faults' > 0
  BY Lapses DEF RemoveFails
<1>2. Becomes(c, "idle", 0, NoAuth, NoToken, "none")
  BY ReturnsTo DEF RemoveFails, RemoteInv, Works
<1>3. Alone(c) /\ workSound(c)' /\ work'[c].at = "idle"
  BY <1>2, IdleSound DEF Becomes
<1>4. Locked'
  BY <1>1, <1>3, ListUnlocked
<1>5. Works' /\ Mended'
  BY <1>1, <1>3, OthersSound DEF RemoteInv, Numbers, serverVars, Mended
<1>6. CallbackTypeOK' /\ secret' \in RemoteMCPAuth /\ sound(secret)'
  BY <1>1, CallbackKept DEF RemoteInv, sound, serverVars
<1>7. Numbers' /\ Switches' /\ registrationSound'
  BY <1>1 DEF RemoteInv, Numbers, Switches, serverVars, agentVars, registrationSound, registers
<1> QED BY <1>4, <1>5, <1>6, <1>7 DEF RemoteInv

(* A request takes the refresh's lock, keeps it or gives it up. *)
LEMMA RefreshTyped ==
    ASSUME RemoteInv, NEW r \in Requests, Alone(r), workSound(r)',
           UNCHANGED <<callbackVars, registered, listLock, agentVars, redeemed, added, straddled>>,
           secret' \in RemoteMCPAuth, sound(secret)',
           minted' \in minted .. MaxTokens, spent' \subseteq 1 .. minted',
           misdirected' \in BOOLEAN, replayed' \in BOOLEAN, faults' \in faults .. MaxFaults,
           refreshLock \in {Nobody, r}, refreshLock' \in {Nobody, r},
           refreshLock' = r <=> work'[r].at \in {"minting", "persisting"}
    PROVE  RemoteInv'
<1> USE ConstantsAre
<1>1. minted \in Nat /\ minted' \in Nat /\ minted <= minted' /\ faults \in Nat /\ faults' \in Nat /\ faults <= faults'
  BY DEF RemoteInv, Numbers
<1>2. Works' /\ Mended'
  BY <1>1, OthersSound, OthersMend DEF agentVars
<1>3. Locked'
  <2>1. \A v \in Workers : v # r => work'[v] = work[v] /\ work[v].at \notin {"minting", "persisting"}
    <3> SUFFICES ASSUME NEW v \in Workers, v # r
                 PROVE  work'[v] = work[v] /\ work[v].at \notin {"minting", "persisting"}
      OBVIOUS
    <3>1. work[v].at \in {"minting", "persisting"} => v \in Requests /\ refreshLock = v
      BY DEF RemoteInv, Locked, Works, workSound, stepsOf
    <3> QED BY <3>1 DEF Alone
  <2>2. work[r].at # "removing" /\ work'[r].at # "removing"
    BY DEF workSound, stepsOf, RemoteInv, Works
  <2>3. listLock # Nobody => listLock \in Calls /\ listLock # r /\ at(listLock, "removing")
    BY DEF RemoteInv, Locked
  <2> QED BY <2>1, <2>2, <2>3 DEF RemoteInv, Locked, at
<1>4. CallbackTypeOK' /\ Numbers' /\ Switches' /\ registrationSound'
  BY <1>1, CallbackKept DEF RemoteInv, Numbers, Switches, agentVars, registrationSound, registers
<1> QED BY <1>2, <1>3, <1>4 DEF RemoteInv

LEMMA RefreshLocksTyped == ASSUME RemoteInv, NEW r \in Requests, RefreshLocks(r) PROVE RemoteInv'
<1> USE ConstantsAre
<1>1. /\ UNCHANGED <<callbackVars, storeVars, agentVars, serverVars, added, faults, replayed, straddled>>
  BY DEF RefreshLocks
<1>2. at(r, "refreshing") /\ refreshLock = Nobody /\ sound(secret)
  BY RefreshLocksMoves DEF RemoteInv
<1>3. CASE /\ secret.token # NoToken /\ UNCHANGED misdirected /\ refreshLock' = r
           /\ Becomes(r, "minting", work[r].of, secret, work[r].got, work[r].style)
  <2>1. workSound(r)' /\ Alone(r) /\ work'[r].at = "minting" /\ sound(secret)'
    BY <1>1, <1>2, <1>3 DEF workSound, stepsOf, sound, carrying, at, Becomes, serverVars, storeVars
  <2> QED BY <1>1, <1>2, <1>3, <2>1, RefreshTyped DEF storeVars, serverVars, RemoteInv, Numbers, Switches
<1>4. CASE /\ returns(r) /\ UNCHANGED refreshLock
           /\ forwards(r, IF secret = NoAuth THEN work[r].copy.token ELSE secret.token)
  <2>1. Becomes(r, "idle", 0, NoAuth, NoToken, "none")
    BY <1>4, ReturnsTo DEF RemoteInv, Works
  <2>2. workSound(r)' /\ Alone(r) /\ work'[r].at = "idle" /\ sound(secret)' /\ misdirected' \in BOOLEAN
    BY <1>1, <1>2, <1>4, <2>1, IdleSound DEF Becomes, sound, serverVars, storeVars, forwards
  <2> QED BY <1>1, <1>2, <1>4, <2>2, RefreshTyped DEF storeVars, serverVars, RemoteInv, Numbers, Switches
<1> QED BY <1>3, <1>4, RefreshLocksMoves

LEMMA RefreshesTyped == ASSUME RemoteInv, NEW r \in Requests, Refreshes(r) PROVE RemoteInv'
<1> USE ConstantsAre
<1>1. /\ UNCHANGED <<callbackVars, storeVars, agentVars, redeemed, added, faults, straddled>>
  BY DEF Refreshes
<1>2. /\ at(r, "minting") /\ refreshLock = r /\ sound(secret) /\ sound(work[r].copy)
      /\ work[r].copy.token # NoToken /\ minted \in Nat
  BY RefreshesMoves DEF RemoteInv, Works, workSound, at, Numbers
<1>0. replayed' \in BOOLEAN
  <2>1. replayed' = (replayed \/ work[r].copy.token.n \in spent)
    BY RefreshesMoves
  <2> QED BY <2>1
<1>3. ASSUME NEW token \in Token, minted < MaxTokens, minted' = minted + 1,
             spent' = spent \cup {work[r].copy.token.n}, token.n = minted + 1,
             Becomes(r, "persisting", work[r].of, work[r].copy, token, work[r].style),
             UNCHANGED <<refreshLock, misdirected>>
      PROVE  RemoteInv'
  <2>1. workSound(r)' /\ Alone(r) /\ work'[r].at = "persisting" /\ sound(secret)'
    BY <1>1, <1>2, <1>3 DEF workSound, stepsOf, sound, carrying, at, Becomes, storeVars
  <2>2. spent' \subseteq 1 .. minted' /\ minted' \in minted .. MaxTokens
    <3>1. work[r].copy.token.n \in 1 .. minted
      BY <1>2 DEF sound
    <3>2. spent \subseteq 1 .. minted /\ minted \in 0 .. MaxTokens
      BY DEF RemoteInv, Numbers
    <3>3. minted' \in minted .. MaxTokens /\ 1 .. minted \subseteq 1 .. minted' /\ 1 .. minted \subseteq Nat
      BY <1>3, <3>2
    <3> QED BY <1>3, <3>1, <3>2, <3>3
  <2> QED BY <1>0, <1>1, <1>2, <1>3, <2>1, <2>2, RefreshTyped DEF storeVars, RemoteInv, Numbers, Switches
<1>4. CASE refreshLock' = Nobody /\ returns(r) /\ forwards(r, work[r].copy.token) /\ UNCHANGED <<minted, spent>>
  <2>1. Becomes(r, "idle", 0, NoAuth, NoToken, "none")
    BY <1>4, ReturnsTo DEF RemoteInv, Works
  <2>2. workSound(r)' /\ Alone(r) /\ work'[r].at = "idle" /\ sound(secret)' /\ misdirected' \in BOOLEAN
    BY <1>1, <1>2, <1>4, <2>1, IdleSound DEF Becomes, sound, storeVars, forwards
  <2> QED BY <1>0, <1>1, <1>2, <1>4, <2>2, RefreshTyped DEF storeVars, RemoteInv, Numbers
<1> QED BY <1>3, <1>4, RefreshesMoves

LEMMA PersistsTyped == ASSUME RemoteInv, NEW r \in Requests, Persists(r) PROVE RemoteInv'
<1> USE ConstantsAre
<1>1. /\ UNCHANGED <<callbackVars, registered, listLock, agentVars, serverVars, added, faults, replayed, straddled>>
      /\ at(r, "persisting") /\ secret' = withToken(work[r].copy, work[r].got) /\ refreshLock' = Nobody
      /\ forwards(r, work[r].got)
  BY DEF Persists
<1>2. Becomes(r, "idle", 0, NoAuth, NoToken, "none")
  BY ReturnsTo DEF Persists, RemoteInv, Works
<1>3. /\ work[r].copy \in RemoteMCPAuth /\ work[r].got \in Token /\ sound(work[r].copy)
      /\ work[r].got.n \in 1 .. minted /\ refreshLock = r
  BY <1>1 DEF RemoteInv, Works, Work, workSound, carrying, Locked, at
<1>4. secret' \in RemoteMCPAuth /\ sound(secret)'
  BY <1>1, <1>3, WithToken DEF sound, serverVars
<1>5. workSound(r)' /\ Alone(r) /\ work'[r].at = "idle" /\ misdirected' \in BOOLEAN
  BY <1>1, <1>2, IdleSound DEF Becomes, forwards
<1> QED BY <1>1, <1>3, <1>4, <1>5, RefreshTyped DEF serverVars, RemoteInv, Numbers, Switches

LEMMA PersistFailsTyped == ASSUME RemoteInv, NEW r \in Requests, PersistFails(r) PROVE RemoteInv'
<1> USE ConstantsAre
<1>1. /\ UNCHANGED <<callbackVars, storeVars, agentVars, serverVars, added, replayed, straddled>>
      /\ at(r, "persisting") /\ refreshLock' = Nobody /\ forwards(r, work[r].copy.token)
      /\ faults' \in faults .. MaxFaults
  BY Lapses DEF PersistFails
<1>2. Becomes(r, "idle", 0, NoAuth, NoToken, "none") /\ refreshLock = r
  BY <1>1, ReturnsTo DEF PersistFails, RemoteInv, Works, Locked, at
<1>3. workSound(r)' /\ Alone(r) /\ work'[r].at = "idle" /\ misdirected' \in BOOLEAN
  BY <1>1, <1>2, IdleSound DEF Becomes, forwards
<1>4. secret' \in RemoteMCPAuth /\ sound(secret)'
  BY <1>1 DEF sound, serverVars, storeVars, RemoteInv
<1> QED BY <1>1, <1>2, <1>3, <1>4, RefreshTyped DEF serverVars, storeVars, RemoteInv, Numbers, Switches

(* Steps of no worker. *)
LEMMA StillTyped ==
    ASSUME RemoteInv, UNCHANGED <<work, listLock, refreshLock, serverVars, added, replayed, straddled, misdirected>>,
           CallbackTypeOK', registrationSound', secret' \in RemoteMCPAuth, sound(secret)',
           live' \subseteq Channels, changed' \in BOOLEAN, stale' \in BOOLEAN,
           faults' \in faults .. MaxFaults, stale' => changed' \/ (stale /\ (changed => changed'))
    PROVE  RemoteInv'
<1> USE ConstantsAre DEF serverVars
<1>1. Works' /\ Locked'
  BY DEF RemoteInv, Works, workSound, stepsOf, sound, carrying, at, Locked
<1>2. Mended'
  BY DEF RemoteInv, Mended, mends, at, Numbers
<1>3. Numbers' /\ Switches'
  BY DEF RemoteInv, Numbers, Switches
<1> QED BY <1>1, <1>2, <1>3 DEF RemoteInv

LEMMA ChannelRemoved ==
    ASSUME RemoteInv, NEW ch \in Channels, RemoveChannelFromAll(ch)
    PROVE  /\ registered' \in Entry /\ registered'.of = registered.of /\ registered'.tools = registered.tools
           /\ registered.channels # {} => registered'.channels # {}
           /\ ~ registers => UNCHANGED registered
<1>1. PICK new : new = IF registers THEN pruned(registered.channels, ch) ELSE registered.channels
  OBVIOUS
<1>2. registered' = [registered EXCEPT !.channels = new]
  BY <1>1 DEF RemoveChannelFromAll
<1>3. registered \in Entry /\ new \in SUBSET Channels /\ (registered.channels # {} => new # {})
  BY <1>1 DEF RemoteInv, registrationSound, Entry, pruned
<1>4. ~ registers => new = registered.channels
  BY <1>1
<1> QED BY <1>2, <1>3, <1>4 DEF Entry

LEMMA RemoveChannelTyped == ASSUME RemoteInv, NEW ch \in Channels, RemoveChannelFromAll(ch) PROVE RemoteInv'
<1>1. /\ UNCHANGED <<callbackVars, secret, listLock, work, refreshLock, serverVars, added, faults,
                     replayed, straddled, misdirected>>
      /\ live' \subseteq Channels /\ stale' = TRUE /\ changed' = TRUE
  BY DEF RemoveChannelFromAll, RemoteInv, Switches, historyVars
<1>2. registrationSound'
  BY <1>1, ChannelRemoved, NothingBegins, ConstantsAre DEF registrationSound, RemoteInv, registers, Numbers
<1>3. CallbackTypeOK' /\ secret' \in RemoteMCPAuth /\ sound(secret)'
  BY <1>1, CallbackKept DEF RemoteInv, sound, serverVars
<1> QED BY <1>1, <1>2, <1>3, StillTyped, ConstantsAre DEF RemoteInv, Numbers

LEMMA TokenExpiresMoves ==
    ASSUME RemoteInv, TokenExpires \/ ExchangeExpires
    PROVE  /\ secret' \in RemoteMCPAuth /\ secret'.of = secret.of /\ secret'.token = secret.token
           /\ secret.exchange = "none" => secret'.exchange = "none"
           /\ secret # NoAuth
           /\ UNCHANGED <<callbackVars, registered, listLock, work, refreshLock, agentVars, serverVars, historyVars>>
  BY NothingTyped DEF TokenExpires, ExchangeExpires, RemoteInv, RemoteMCPAuth

LEMMA TimeTyped == ASSUME RemoteInv, TokenExpires \/ ExchangeExpires \/ AgentRestarts PROVE RemoteInv'
<1>1. CASE TokenExpires \/ ExchangeExpires
  <2>1. CallbackTypeOK' /\ secret' \in RemoteMCPAuth /\ sound(secret)' /\ registrationSound'
    BY <1>1, TokenExpiresMoves, CallbackKept
       DEF sound, serverVars, RemoteInv, registrationSound, registers, historyVars
  <2> QED BY <1>1, <2>1, TokenExpiresMoves, StillTyped, ConstantsAre
          DEF RemoteInv, Numbers, Switches, agentVars, historyVars
<1>2. CASE AgentRestarts
  <2>1. /\ UNCHANGED <<callbackVars, storeVars, work, refreshLock, live, serverVars, historyVars>>
        /\ changed' = FALSE /\ stale' = FALSE
    BY <1>2 DEF AgentRestarts
  <2>2. CallbackTypeOK' /\ secret' \in RemoteMCPAuth /\ sound(secret)' /\ registrationSound'
    BY <2>1, CallbackKept DEF sound, serverVars, storeVars, RemoteInv, registrationSound, registers, historyVars
  <2>3. live' \subseteq Channels /\ faults' \in faults .. MaxFaults
    BY <2>1, ConstantsAre DEF RemoteInv, Numbers, Switches, historyVars
  <2>4. UNCHANGED <<work, listLock, refreshLock, serverVars, added, replayed, straddled, misdirected>>
    BY <2>1 DEF historyVars, storeVars
  <2> QED BY <2>1, <2>2, <2>3, <2>4, StillTyped
<1> QED BY <1>1, <1>2

LEMMA RemoteTyped == ASSUME RemoteInv, RemoteNext PROVE RemoteInv'
<1>1. ASSUME NEW c \in Calls, Adds(c) \/ Authorizes(c) \/ Changes(c) PROVE RemoteInv'
  BY <1>1, AddRemoteMCPTyped, AddStoresTyped, AnnouncesTyped, CallFailsTyped, WaitPollsTyped,
     CompleteBeginsTyped, CompleteExchangesTyped, CompleteStoresTyped, FinalizeReadsTyped,
     FinalizeListsTyped, FinalizeNamesTyped, RemoveDeletesTyped, RemoveSavesTyped,
     RemoveFailsTyped, SetChannelsTyped
     DEF Adds, Authorizes, Changes
<1>2. ASSUME NEW h \in Handlers, Callback(h) PROVE RemoteInv'
  BY <1>2, CallbackTakesTyped, CallbackExchangesTyped, CallbackLoadsTyped, CallbackStoresTyped,
     CallbackStoreFailsTyped, CallbackFailsTyped DEF Callback
<1>3. ASSUME NEW r \in Requests, Proxies(r) PROVE RemoteInv'
  BY <1>3, RequestBeginsTyped, ResolvesTyped, RefreshLocksTyped, RefreshesTyped, PersistsTyped,
     PersistFailsTyped DEF Proxies
<1> QED BY <1>1, <1>2, <1>3, RemoveChannelTyped, TimeTyped DEF RemoteNext

-----------------------------------------------------------------------------
(* The credential sets: the types, and what the steps do to their desk.    *)

Desk == [at : {"idle", "adding", "dropping", "removing", "notifying", "registering", "exchanging",
               "refusing", "storing", "refreshing", "keeping", "posting"},
         of : Labels \cup {"none"}, seen : SUBSET Labels, got : 0 .. MaxGrants,
         flow : {0} \cup SignIns, left : SUBSET Fields]
Grant == [n : 1 .. MaxGrants, fresh : BOOLEAN]

granted(l) == grants[l] # NoGrant

(* Whoever is at work is at work for a set, and a grant in hand was issued. *)
deskSound(d) ==
    /\ ~ resting(d) => desk[d].of \in Labels
    /\ desk[d].at \in {"storing", "refreshing", "keeping"} => desk[d].got \in 1 .. issued

CredentialInv ==
    /\ sets \subseteq Labels /\ filled \in [Labels -> SUBSET Fields]
    /\ grants \in [Labels -> Grant \cup {NoGrant}] /\ tools \subseteq Labels
    /\ form \in [of : Labels \cup {"none"}, at : {"none", "open", "done", "expired"}]
    /\ form.at = "open" => form.of \in Labels
    /\ desk \in [Desks -> Desk] /\ flowOf \in [SignIns -> Labels \cup {"none"}]
    /\ issued \in 0 .. MaxGrants /\ rotated \subseteq 1 .. issued
    /\ lagging \subseteq Labels /\ overlapped \in BOOLEAN /\ outlived \in BOOLEAN
    /\ \A d \in Desks : deskSound(d)
    /\ \A l \in Labels : granted(l) => grants[l].n \in 1 .. issued

Only(d) == desk' \in [Desks -> Desk] /\ \A e \in Desks : e # d => desk'[e] = desk[e]

Sits(d, step, of, seen, has, flow) ==
    /\ Only(d)
    /\ desk'[d].at = step /\ desk'[d].of = of /\ desk'[d].seen = seen
    /\ desk'[d].got = has /\ desk'[d].flow = flow

DeskSteps == {"idle", "adding", "dropping", "removing", "notifying", "registering", "exchanging",
              "refusing", "storing", "refreshing", "keeping", "posting"}

LEMMA CredentialConstants ==
    /\ "none" \notin Labels /\ Declared \subseteq Labels /\ Seeded \subseteq Labels
    /\ SignIns \subseteq Flows /\ SignIns \cap 1 .. MaxAdds = {} /\ MaxGrants \in Nat
    /\ Clerks \subseteq Desks /\ Visits \subseteq Desks
    /\ 0 \notin SignIns
  BY CredentialsAssumption, ConnectionsAssumption, FlowsAssumption DEF Desks, Flows

LEMMA RestTyped ==
    /\ AtRest \in Desk /\ AtRest.at = "idle" /\ AtRest.of = "none" /\ AtRest.seen = {}
    /\ AtRest.got = 0 /\ AtRest.flow = 0 /\ AtRest.left = {}
  BY CredentialConstants DEF AtRest, Desk

LEMMA PutsTo ==
    ASSUME desk \in [Desks -> Desk], NEW d \in Desks, NEW rec \in Desk, puts(d, rec)
    PROVE  Sits(d, rec.at, rec.of, rec.seen, rec.got, rec.flow)
  BY DEF Sits, Only, puts

LEMMA LeavesTo ==
    ASSUME desk \in [Desks -> Desk], NEW d \in Desks, leaves(d)
    PROVE  Sits(d, "idle", "none", {}, 0, 0)
  BY PutsTo, RestTyped DEF leaves

LEMMA TurnsTo ==
    ASSUME desk \in [Desks -> Desk], NEW d \in Desks, NEW step \in DeskSteps, turns(d, step)
    PROVE  Sits(d, step, desk[d].of, desk[d].seen, desk[d].got, desk[d].flow)
<1>1. [desk[d] EXCEPT !.at = step] \in Desk
  BY DEF Desk, DeskSteps
<1> QED BY <1>1, PutsTo DEF turns, Desk

LEMMA PutsWithSeen ==
    ASSUME desk \in [Desks -> Desk], NEW d \in Desks, NEW i \in Desk, NEW step \in DeskSteps,
           NEW l \in Labels, NEW seen \in SUBSET Labels,
           puts(d, [i EXCEPT !.at = step, !.of = l, !.seen = seen])
    PROVE  Sits(d, step, l, seen, i.got, i.flow)
<1> DEFINE rec == [i EXCEPT !.at = step, !.of = l, !.seen = seen]
<1>1. rec \in Desk /\ rec.at = step /\ rec.of = l /\ rec.seen = seen /\ rec.got = i.got /\ rec.flow = i.flow
  BY DEF Desk, DeskSteps
<1> HIDE DEF rec
<1> QED BY <1>1, PutsTo DEF rec

LEMMA PutsFor ==
    ASSUME desk \in [Desks -> Desk], NEW d \in Desks, NEW i \in Desk, NEW step \in DeskSteps,
           NEW l \in Labels, puts(d, [i EXCEPT !.at = step, !.of = l])
    PROVE  Sits(d, step, l, i.seen, i.got, i.flow)
<1> DEFINE rec == [i EXCEPT !.at = step, !.of = l]
<1>1. rec \in Desk /\ rec.at = step /\ rec.of = l /\ rec.seen = i.seen /\ rec.got = i.got /\ rec.flow = i.flow
  BY DEF Desk, DeskSteps
<1> HIDE DEF rec
<1> QED BY <1>1, PutsTo DEF rec

LEMMA PutsFound ==
    ASSUME desk \in [Desks -> Desk], NEW d \in Desks, NEW i \in Desk, NEW step \in DeskSteps,
           NEW seen \in SUBSET Labels, puts(d, [i EXCEPT !.at = step, !.seen = seen])
    PROVE  Sits(d, step, i.of, seen, i.got, i.flow)
<1> DEFINE rec == [i EXCEPT !.at = step, !.seen = seen]
<1>1. rec \in Desk /\ rec.at = step /\ rec.of = i.of /\ rec.seen = seen /\ rec.got = i.got /\ rec.flow = i.flow
  BY DEF Desk, DeskSteps
<1> HIDE DEF rec
<1> QED BY <1>1, PutsTo DEF rec

LEMMA PutsFlow ==
    ASSUME desk \in [Desks -> Desk], NEW d \in Desks, NEW i \in Desk, NEW step \in DeskSteps,
           NEW l \in Labels, NEW f \in SignIns, puts(d, [i EXCEPT !.at = step, !.of = l, !.flow = f])
    PROVE  Sits(d, step, l, i.seen, i.got, f)
<1> DEFINE rec == [i EXCEPT !.at = step, !.of = l, !.flow = f]
<1>1. rec \in Desk /\ rec.at = step /\ rec.of = l /\ rec.seen = i.seen /\ rec.got = i.got /\ rec.flow = f
  BY DEF Desk, DeskSteps
<1> HIDE DEF rec
<1> QED BY <1>1, PutsTo DEF rec

LEMMA PutsGrant ==
    ASSUME desk \in [Desks -> Desk], NEW d \in Desks, NEW i \in Desk, NEW step \in DeskSteps,
           NEW n \in 0 .. MaxGrants, puts(d, [i EXCEPT !.at = step, !.got = n])
    PROVE  Sits(d, step, i.of, i.seen, n, i.flow)
<1> DEFINE rec == [i EXCEPT !.at = step, !.got = n]
<1>1. rec \in Desk /\ rec.at = step /\ rec.of = i.of /\ rec.seen = i.seen /\ rec.got = n /\ rec.flow = i.flow
  BY DEF Desk, DeskSteps
<1> HIDE DEF rec
<1> QED BY <1>1, PutsTo DEF rec

LEMMA PutsGrantFor ==
    ASSUME desk \in [Desks -> Desk], NEW d \in Desks, NEW i \in Desk, NEW step \in DeskSteps,
           NEW l \in Labels, NEW n \in 0 .. MaxGrants,
           puts(d, [i EXCEPT !.at = step, !.of = l, !.got = n])
    PROVE  Sits(d, step, l, i.seen, n, i.flow)
<1> DEFINE rec == [i EXCEPT !.at = step, !.of = l, !.got = n]
<1>1. rec \in Desk /\ rec.at = step /\ rec.of = l /\ rec.seen = i.seen /\ rec.got = n /\ rec.flow = i.flow
  BY DEF Desk, DeskSteps
<1> HIDE DEF rec
<1> QED BY <1>1, PutsTo DEF rec

LEMMA PutsFields ==
    ASSUME desk \in [Desks -> Desk], NEW d \in Desks, NEW i \in Desk, NEW step \in DeskSteps,
           NEW l \in Labels, puts(d, [i EXCEPT !.at = step, !.of = l, !.left = Fields])
    PROVE  Sits(d, step, l, i.seen, i.got, i.flow)
<1> DEFINE rec == [i EXCEPT !.at = step, !.of = l, !.left = Fields]
<1>1. rec \in Desk /\ rec.at = step /\ rec.of = l /\ rec.seen = i.seen /\ rec.got = i.got /\ rec.flow = i.flow
  BY DEF Desk, DeskSteps
<1> HIDE DEF rec
<1> QED BY <1>1, PutsTo DEF rec

LEMMA PutsLeft ==
    ASSUME desk \in [Desks -> Desk], NEW d \in Desks, NEW field,
           puts(d, [desk[d] EXCEPT !.left = @ \ {field}])
    PROVE  Sits(d, desk[d].at, desk[d].of, desk[d].seen, desk[d].got, desk[d].flow)
<1> DEFINE rec == [desk[d] EXCEPT !.left = @ \ {field}]
<1>1. /\ rec \in Desk /\ rec.at = desk[d].at /\ rec.of = desk[d].of /\ rec.seen = desk[d].seen
      /\ rec.got = desk[d].got /\ rec.flow = desk[d].flow
  BY DEF Desk
<1> HIDE DEF rec
<1> QED BY <1>1, PutsTo DEF rec

(* A change of the list or of a grant begins. *)
LEMMA ListsMoves ==
    ASSUME CredentialInv, NEW c \in Clerks, NEW l \in Labels, AddLists(c, l) \/ RemoveLists(c, l)
    PROVE  /\ resting(c) /\ \E step \in {"adding", "dropping"} :
                 /\ Sits(c, step, l, sets, 0, 0)
                 /\ step = "adding" => l \notin sets
           /\ overlaps(c, Listing)
           /\ UNCHANGED <<callbackVars, faults, storeOfSets, tools, form, flowOf, issued, rotated, lagging, outlived>>
<1> USE CredentialConstants, RestTyped
<1>1. ASSUME NEW step \in {"adding", "dropping"},
             puts(c, [AtRest EXCEPT !.at = step, !.of = l, !.seen = sets])
      PROVE  Sits(c, step, l, sets, 0, 0)
  <2>1. step \in DeskSteps /\ sets \in SUBSET Labels /\ desk \in [Desks -> Desk] /\ c \in Desks
    BY DEF CredentialInv, DeskSteps
  <2>2. Sits(c, step, l, sets, AtRest.got, AtRest.flow)
    BY <1>1, <2>1, PutsWithSeen
  <2> QED BY <2>2
<1>2. CASE AddLists(c, l)
  BY <1>1, <1>2 DEF AddLists, comes
<1>3. CASE RemoveLists(c, l)
  BY <1>1, <1>3 DEF RemoveLists, comes
<1> QED BY <1>2, <1>3

LEMMA AddSavesMoves ==
    ASSUME CredentialInv, NEW c \in Clerks, AddSaves(c)
    PROVE  /\ is(c, "adding") /\ sets' = desk[c].seen \cup {desk[c].of} /\ desk[c].of \in Labels
           /\ desk[c].seen \subseteq Labels
           /\ Sits(c, "idle", "none", {}, 0, 0)
           /\ \/ \E f \in freeFlows : RegisterFlow(f) /\ flowOf' = [flowOf EXCEPT ![f] = desk[c].of]
              \/ UNCHANGED <<callbackVars, flowOf>>
           /\ UNCHANGED <<budget, faults, filled, grants, tools, form, issued, rotated, lagging, overlapped, outlived>>
<1> USE CredentialConstants
<1>1. /\ is(c, "adding") /\ sets' = desk[c].seen \cup {desk[c].of} /\ leaves(c)
      /\ UNCHANGED <<budget, faults, filled, grants, tools, form, issued, rotated, lagging, overlapped, outlived>>
  BY DEF AddSaves
<1>2. desk[c].of \in Labels /\ desk[c].seen \subseteq Labels
  BY <1>1 DEF CredentialInv, deskSound, resting, is, Desk
<1>3. Sits(c, "idle", "none", {}, 0, 0)
  BY <1>1, LeavesTo DEF CredentialInv
<1>4. \/ \E f \in freeFlows : RegisterFlow(f) /\ flowOf' = [flowOf EXCEPT ![f] = desk[c].of]
      \/ UNCHANGED <<callbackVars, flowOf>>
  BY DEF AddSaves
<1> QED BY <1>1, <1>2, <1>3, <1>4

LEMMA RemovesMoves ==
    ASSUME CredentialInv, NEW c \in Clerks
    PROVE  /\ RemoveDropsTokens(c) =>
                 /\ is(c, "dropping")
                 /\ Sits(c, "removing", desk[c].of, desk[c].seen, desk[c].got, desk[c].flow)
           /\ RemoveSavesSets(c) =>
                 /\ is(c, "removing")
                 /\ Sits(c, "notifying", desk[c].of, desk[c].seen, desk[c].got, desk[c].flow)
  BY TurnsTo, CredentialConstants DEF RemoveDropsTokens, RemoveSavesSets, CredentialInv, DeskSteps

LEMMA ClearsMoves ==
    ASSUME CredentialInv, NEW c \in Clerks, NEW l \in Labels, NEW field \in Fields, Clears(c, l, field)
    PROVE  resting(c) /\ Sits(c, "notifying", l, {}, 0, 0)
<1>1. resting(c) /\ puts(c, [AtRest EXCEPT !.at = "notifying", !.of = l])
  BY DEF Clears, comes
<1>2. Sits(c, "notifying", l, AtRest.seen, AtRest.got, AtRest.flow)
  BY <1>1, PutsFor, RestTyped, CredentialConstants DEF CredentialInv, DeskSteps
<1> QED BY <1>1, <1>2, RestTyped

LEMMA NotifyReadsMoves ==
    ASSUME CredentialInv, NEW d \in Desks, NotifyReads(d)
    PROVE  /\ is(d, "notifying")
           /\ Sits(d, "registering", desk[d].of, ready(sets, filled, grants), desk[d].got, desk[d].flow)
<1>1. is(d, "notifying") /\ puts(d, [desk[d] EXCEPT !.at = "registering", !.seen = ready(sets, filled, grants)])
  BY DEF NotifyReads
<1>2. ready(sets, filled, grants) \in SUBSET Labels /\ desk[d] \in Desk
  BY DEF ready, CredentialInv
<1> HIDE DEF ready
<1> QED BY <1>1, <1>2, PutsFound DEF CredentialInv, DeskSteps

LEMMA NotifyRegistersMoves ==
    ASSUME CredentialInv, NEW d \in Desks, NotifyRegisters(d)
    PROVE  /\ is(d, "registering") /\ tools' = desk[d].seen /\ desk[d].seen \subseteq Labels
           /\ Sits(d, "idle", "none", {}, 0, 0)
           /\ \/ desk[d].flow # 0 /\ Closes(desk[d].flow) /\ UNCHANGED <<pending, aged, reaping>>
              \/ UNCHANGED callbackVars
           /\ UNCHANGED <<budget, faults, storeOfSets, form, flowOf, issued, rotated, lagging, overlapped, outlived>>
<1>1. leaves(d) /\ desk[d].seen \subseteq Labels
  BY DEF NotifyRegisters, CredentialInv, Desk
<1>2. Sits(d, "idle", "none", {}, 0, 0)
  BY <1>1, LeavesTo DEF CredentialInv
<1> QED BY <1>1, <1>2 DEF NotifyRegisters, depsMap

LEMMA RedirectTakesMoves ==
    ASSUME CredentialInv, \A f \in pending \cap SignIns : flowOf[f] # "none",
           NEW v \in Visits, RedirectTakes(v)
    PROVE  /\ resting(v)
           /\ \E f \in pending \cap SignIns, next \in {"exchanging", "refusing"} :
                 /\ pending' = pending \ {f} /\ flowOf[f] \in Labels
                 /\ Sits(v, next, flowOf[f], {}, 0, f)
<1> USE CredentialConstants
<1>1. resting(v)
  BY DEF RedirectTakes, comes
<1>2. PICK f \in pending \cap SignIns, next \in {"exchanging", "refusing"} :
          TakesOut(f) /\ puts(v, [AtRest EXCEPT !.at = next, !.of = flowOf[f], !.flow = f])
  BY DEF RedirectTakes
<1>3. pending' = pending \ {f} /\ flowOf[f] \in Labels
  BY <1>2 DEF TakesOut, CredentialInv
<1>4. PICK l \in Labels : l = flowOf[f]
  BY <1>3
<1>5. /\ next \in DeskSteps /\ f \in SignIns /\ desk \in [Desks -> Desk] /\ v \in Desks
      /\ puts(v, [AtRest EXCEPT !.at = next, !.of = l, !.flow = f])
  BY <1>2, <1>4 DEF CredentialInv, DeskSteps
<1>6. Sits(v, next, l, AtRest.seen, AtRest.got, f)
  BY <1>5, PutsFlow, RestTyped
<1> QED BY <1>1, <1>2, <1>3, <1>4, <1>6, RestTyped

LEMMA RedirectExchangesMoves ==
    ASSUME CredentialInv, NEW v \in Visits, RedirectExchanges(v)
    PROVE  /\ is(v, "exchanging")
           /\ \/ /\ issued' = issued + 1 /\ issued' \in 0 .. MaxGrants
                 /\ Sits(v, "storing", desk[v].of, desk[v].seen, issued + 1, desk[v].flow)
              \/ /\ UNCHANGED issued
                 /\ Sits(v, "refusing", desk[v].of, desk[v].seen, desk[v].got, desk[v].flow)
<1> USE CredentialConstants
<1>1. is(v, "exchanging") /\ issued \in 0 .. MaxGrants /\ desk[v] \in Desk
  BY DEF RedirectExchanges, CredentialInv
<1>2. CASE /\ issued < MaxGrants /\ issued' = issued + 1
           /\ puts(v, [desk[v] EXCEPT !.at = "storing", !.got = issued'])
  <2>1. issued' \in 0 .. MaxGrants
    BY <1>1, <1>2
  <2>2. Sits(v, "storing", desk[v].of, desk[v].seen, issued', desk[v].flow)
    BY <1>1, <1>2, <2>1, PutsGrant DEF CredentialInv, DeskSteps
  <2> QED BY <1>1, <1>2, <2>1, <2>2
<1>3. CASE turns(v, "refusing") /\ UNCHANGED issued
  BY <1>1, <1>3, TurnsTo DEF CredentialInv, DeskSteps
<1> QED BY <1>2, <1>3 DEF RedirectExchanges

LEMMA VisitsMoves ==
    ASSUME CredentialInv, NEW v \in Visits
    PROVE  /\ RedirectStores(v) =>
                 /\ is(v, "storing")
                 /\ Sits(v, "notifying", desk[v].of, desk[v].seen, desk[v].got, desk[v].flow)
           /\ RedirectRefuses(v) => is(v, "refusing") /\ Sits(v, "idle", "none", {}, 0, 0)
           /\ FormSubmitted(v) => is(v, "posting") /\ Sits(v, "idle", "none", {}, 0, 0)
<1> USE CredentialConstants
<1>1. ASSUME RedirectStores(v)
      PROVE  is(v, "storing") /\ Sits(v, "notifying", desk[v].of, desk[v].seen, desk[v].got, desk[v].flow)
  BY <1>1, TurnsTo DEF RedirectStores, CredentialInv, DeskSteps
<1>2. ASSUME RedirectRefuses(v) PROVE is(v, "refusing") /\ Sits(v, "idle", "none", {}, 0, 0)
  BY <1>2, LeavesTo DEF RedirectRefuses, CredentialInv
<1>3. ASSUME FormSubmitted(v) PROVE is(v, "posting") /\ Sits(v, "idle", "none", {}, 0, 0)
  BY <1>3, LeavesTo DEF FormSubmitted, CredentialInv
<1> QED BY <1>1, <1>2, <1>3

LEMMA RefreshReadsMoves ==
    ASSUME CredentialInv, NEW c \in Clerks, NEW l \in Labels, RefreshReads(c, l)
    PROVE  /\ resting(c) /\ granted(l) /\ grants[l].n \in 1 .. issued
           /\ Sits(c, "refreshing", l, {}, grants[l].n, 0)
<1> USE CredentialConstants
<1>1. /\ resting(c) /\ granted(l)
      /\ puts(c, [AtRest EXCEPT !.at = "refreshing", !.of = l, !.got = grants[l].n])
  BY DEF RefreshReads, comes, granted
<1>2. grants[l].n \in 1 .. issued /\ grants[l].n \in 0 .. MaxGrants
  BY <1>1 DEF CredentialInv
<1>3. Sits(c, "refreshing", l, AtRest.seen, grants[l].n, AtRest.flow)
  BY <1>1, <1>2, PutsGrantFor, RestTyped DEF CredentialInv, DeskSteps
<1> QED BY <1>1, <1>2, <1>3, RestTyped

LEMMA RefreshExchangesMoves ==
    ASSUME CredentialInv, NEW c \in Clerks, RefreshExchanges(c)
    PROVE  /\ is(c, "refreshing")
           /\ \/ /\ desk[c].got \notin rotated /\ UNCHANGED <<issued, rotated>>
                 /\ Sits(c, "keeping", desk[c].of, desk[c].seen, desk[c].got, desk[c].flow)
              \/ /\ issued' = issued + 1 /\ issued' \in 0 .. MaxGrants
                 /\ rotated' = rotated \cup {desk[c].got}
                 /\ Sits(c, "keeping", desk[c].of, desk[c].seen, issued + 1, desk[c].flow)
              \/ UNCHANGED <<issued, rotated>> /\ Sits(c, "idle", "none", {}, 0, 0)
<1> USE CredentialConstants
<1>1. is(c, "refreshing") /\ issued \in 0 .. MaxGrants /\ desk[c] \in Desk /\ desk[c].got \in 0 .. MaxGrants
  BY DEF RefreshExchanges, CredentialInv, Desk
<1>2. CASE /\ desk[c].got \notin rotated /\ UNCHANGED <<issued, rotated>>
           /\ puts(c, [desk[c] EXCEPT !.at = "keeping", !.got = preserve(desk[c].got)])
  <2>1. PICK n \in 0 .. MaxGrants : n = desk[c].got
    BY <1>1
  <2>2. puts(c, [desk[c] EXCEPT !.at = "keeping", !.got = n])
    BY <1>2, <2>1 DEF preserve
  <2>3. Sits(c, "keeping", desk[c].of, desk[c].seen, n, desk[c].flow)
    BY <1>1, <2>2, PutsGrant DEF CredentialInv, DeskSteps
  <2> QED BY <1>1, <1>2, <2>1, <2>3
<1>3. CASE /\ issued < MaxGrants /\ issued' = issued + 1 /\ rotated' = rotated \cup {desk[c].got}
           /\ puts(c, [desk[c] EXCEPT !.at = "keeping", !.got = issued'])
  <2>1. issued' \in 0 .. MaxGrants
    BY <1>1, <1>3
  <2>2. Sits(c, "keeping", desk[c].of, desk[c].seen, issued', desk[c].flow)
    BY <1>1, <1>3, <2>1, PutsGrant DEF CredentialInv, DeskSteps
  <2> QED BY <1>1, <1>3, <2>1, <2>2
<1>4. CASE leaves(c) /\ UNCHANGED <<issued, rotated>>
  BY <1>1, <1>4, LeavesTo DEF CredentialInv
<1> QED BY <1>2, <1>3, <1>4 DEF RefreshExchanges

LEMMA RefreshKeepsMoves ==
    ASSUME CredentialInv, NEW c \in Clerks, RefreshKeeps(c)
    PROVE  is(c, "keeping") /\ Sits(c, "idle", "none", {}, 0, 0)
  BY LeavesTo, CredentialConstants DEF RefreshKeeps, CredentialInv

LEMMA FormPostedMoves ==
    ASSUME CredentialInv, NEW v \in Visits, FormPosted(v)
    PROVE  resting(v) /\ form.of \in Labels /\ Sits(v, "posting", form.of, {}, 0, 0)
<1> USE CredentialConstants
<1>1. resting(v) /\ form.of \in Labels /\ puts(v, [AtRest EXCEPT !.at = "posting", !.of = form.of, !.left = Fields])
  BY DEF FormPosted, comes, CredentialInv
<1>2. Sits(v, "posting", form.of, AtRest.seen, AtRest.got, AtRest.flow)
  BY <1>1, PutsFields, RestTyped DEF CredentialInv, DeskSteps
<1> QED BY <1>1, <1>2, RestTyped

LEMMA FormStoresMoves ==
    ASSUME CredentialInv, NEW v \in Visits, FormStores(v)
    PROVE  /\ is(v, "posting") /\ desk[v].of \in Labels
           /\ lagging' = lagging \cup {desk[v].of}
           /\ filled' \in [Labels -> SUBSET Fields]
           /\ \A l \in Labels : l # desk[v].of => filled'[l] = filled[l]
           /\ filled[desk[v].of] \subseteq filled'[desk[v].of]
           /\ Sits(v, "posting", desk[v].of, desk[v].seen, desk[v].got, desk[v].flow)
<1> USE CredentialConstants
<1>1. is(v, "posting") /\ desk[v].of \in Labels
  BY DEF FormStores, CredentialInv, deskSound, resting, is
<1>2. PICK field \in desk[v].left :
          /\ filled' = [filled EXCEPT ![desk[v].of] = @ \cup {field}]
          /\ puts(v, [desk[v] EXCEPT !.left = @ \ {field}])
  BY DEF FormStores
<1>3. field \in Fields /\ filled \in [Labels -> SUBSET Fields]
  BY <1>2 DEF CredentialInv, Desk
<1>4. Sits(v, desk[v].at, desk[v].of, desk[v].seen, desk[v].got, desk[v].flow)
  BY <1>2, PutsLeft DEF CredentialInv
<1>5. lagging' = lagging \cup {desk[v].of}
  BY DEF FormStores
<1>6. /\ filled' \in [Labels -> SUBSET Fields]
      /\ \A l \in Labels : l # desk[v].of => filled'[l] = filled[l]
      /\ filled[desk[v].of] \subseteq filled'[desk[v].of]
  BY <1>1, <1>2, <1>3
<1> QED BY <1>1, <1>4, <1>5, <1>6 DEF is

LEMMA DeskFailsMoves ==
    ASSUME CredentialInv, NEW d \in Desks, DeskFails(d)
    PROVE  /\ lapses
           /\ \/ Sits(d, "idle", "none", {}, 0, 0)
              \/ \E step \in {"refusing", "removing"} :
                    /\ desk[d].at \in {"storing", "dropping"}
                    /\ Sits(d, step, desk[d].of, desk[d].seen, desk[d].got, desk[d].flow)
<1>1. /\ lapses
      /\ \/ leaves(d)
         \/ is(d, "storing") /\ turns(d, "refusing")
         \/ is(d, "dropping") /\ turns(d, "removing")
  BY DEF DeskFails
<1> QED BY <1>1, LeavesTo, TurnsTo DEF CredentialInv, DeskSteps, is

-----------------------------------------------------------------------------
(* A step of one call or request keeps the credentials' types.             *)
LEMMA DeskTyped ==
    ASSUME CredentialInv, NEW d \in Desks, Only(d), deskSound(d)',
           sets' \subseteq Labels, filled' \in [Labels -> SUBSET Fields], tools' \subseteq Labels,
           form' \in [of : Labels \cup {"none"}, at : {"none", "open", "done", "expired"}],
           form'.at = "open" => form'.of \in Labels,
           flowOf' \in [SignIns -> Labels \cup {"none"}], lagging' \subseteq Labels,
           overlapped' \in BOOLEAN, outlived' \in BOOLEAN,
           issued' \in issued .. MaxGrants, rotated' \subseteq 1 .. issued',
           grants' \in [Labels -> Grant \cup {NoGrant}],
           \A l \in Labels : granted(l)' => grants'[l].n \in 1 .. issued'
    PROVE  CredentialInv'
<1>1. issued \in Nat /\ issued' \in 0 .. MaxGrants /\ issued <= issued'
  BY CredentialConstants DEF CredentialInv
<1>2. ASSUME NEW e \in Desks, e # d PROVE deskSound(e)'
  BY <1>1, <1>2 DEF CredentialInv, deskSound, resting, is, Only
<1> QED BY <1>1, <1>2 DEF CredentialInv, Only

(* One that touches only its desk and the histories. *)
LEMMA DeskOnlyTyped ==
    ASSUME CredentialInv, NEW d \in Desks, Only(d), deskSound(d)',
           UNCHANGED <<storeOfSets, tools, form, flowOf, issued, rotated>>,
           lagging' \subseteq Labels, overlapped' \in BOOLEAN, outlived' \in BOOLEAN
    PROVE  CredentialInv'
<1>1. UNCHANGED <<sets, filled, grants>> /\ issued' \in issued .. MaxGrants
  BY CredentialConstants DEF storeOfSets, CredentialInv
<1> QED BY <1>1, DeskTyped DEF CredentialInv, granted

LEMMA Overlaps == ASSUME NEW d, NEW steps, overlaps(d, steps) PROVE overlapped' \in BOOLEAN
  BY DEF overlaps

LEMMA ListsTyped ==
    ASSUME CredentialInv, NEW c \in Clerks, NEW l \in Labels, AddLists(c, l) \/ RemoveLists(c, l)
    PROVE  CredentialInv'
<1> USE CredentialConstants, ListsMoves
<1>1. Only(c) /\ deskSound(c)' /\ overlapped' \in BOOLEAN
  BY Overlaps DEF Sits, deskSound, resting, is
<1> QED BY <1>1, DeskOnlyTyped DEF CredentialInv

LEMMA AddSavesTyped == ASSUME CredentialInv, NEW c \in Clerks, AddSaves(c) PROVE CredentialInv'
<1> USE CredentialConstants, AddSavesMoves
<1>1. Only(c) /\ deskSound(c)'
  BY DEF Sits, deskSound, resting, is
<1>2. flowOf' \in [SignIns -> Labels \cup {"none"}]
  <2>1. ASSUME NEW f \in freeFlows, flowOf' = [flowOf EXCEPT ![f] = desk[c].of]
        PROVE  flowOf' \in [SignIns -> Labels \cup {"none"}]
    BY <2>1 DEF CredentialInv, freeFlows
  <2> QED BY <2>1 DEF CredentialInv
<1>3. sets' \subseteq Labels /\ issued' \in issued .. MaxGrants
  BY DEF CredentialInv
<1> QED BY <1>1, <1>2, <1>3, DeskTyped DEF CredentialInv, granted

LEMMA RemovesTyped ==
    ASSUME CredentialInv, NEW c \in Clerks, RemoveDropsTokens(c) \/ RemoveSavesSets(c)
    PROVE  CredentialInv'
<1> USE CredentialConstants, RemovesMoves
<1>1. desk[c].of \in Labels /\ desk[c].seen \subseteq Labels /\ issued \in 0 .. MaxGrants
  BY DEF CredentialInv, deskSound, resting, is, Desk
<1>2. Only(c) /\ deskSound(c)'
  BY <1>1 DEF Sits, deskSound, resting, is
<1>3. outlived' \in BOOLEAN
  BY DEF RemoveDropsTokens, RemoveSavesSets
<1>4. CASE RemoveDropsTokens(c)
  <2>1. grants' = [grants EXCEPT ![desk[c].of] = NoGrant]
        /\ UNCHANGED <<sets, filled, tools, form, flowOf, issued, rotated, lagging, overlapped>>
    BY <1>4 DEF RemoveDropsTokens
  <2>2. grants' \in [Labels -> Grant \cup {NoGrant}] /\ \A l \in Labels : granted(l)' => grants'[l].n \in 1 .. issued'
    BY <1>1, <2>1 DEF CredentialInv, granted
  <2> QED BY <1>1, <1>2, <1>3, <2>1, <2>2, DeskTyped DEF CredentialInv
<1>5. CASE RemoveSavesSets(c)
  <2>1. sets' = desk[c].seen \ {desk[c].of}
        /\ UNCHANGED <<filled, grants, tools, form, flowOf, issued, rotated, lagging, overlapped>>
    BY <1>5 DEF RemoveSavesSets
  <2> QED BY <1>1, <1>2, <1>3, <2>1, DeskTyped DEF CredentialInv, granted
<1> QED BY <1>4, <1>5

LEMMA ClearsTyped ==
    ASSUME CredentialInv, NEW c \in Clerks, NEW l \in Labels, NEW field \in Fields, Clears(c, l, field)
    PROVE  CredentialInv'
<1> USE CredentialConstants, ClearsMoves
<1>1. Only(c) /\ deskSound(c)'
  BY DEF Sits, deskSound, resting, is
<1>2. /\ filled' = [filled EXCEPT ![l] = @ \ {field}]
      /\ UNCHANGED <<sets, grants, tools, form, flowOf, issued, rotated, lagging, overlapped, outlived>>
  BY DEF Clears
<1>3. issued' \in issued .. MaxGrants /\ filled' \in [Labels -> SUBSET Fields]
  BY <1>2 DEF CredentialInv
<1> QED BY <1>1, <1>2, <1>3, DeskTyped DEF CredentialInv, granted

LEMMA NotifiesTyped ==
    ASSUME CredentialInv, NEW d \in Desks, NotifyReads(d) \/ NotifyRegisters(d)
    PROVE  CredentialInv'
<1> USE CredentialConstants
<1>1. CASE NotifyReads(d)
  <2>1. /\ UNCHANGED <<storeOfSets, tools, form, flowOf, issued, rotated, outlived>>
        /\ lagging' = {} /\ overlapped' \in BOOLEAN
    BY <1>1, Overlaps DEF NotifyReads
  <2>2. desk[d].of \in Labels
    BY <1>1, NotifyReadsMoves DEF CredentialInv, deskSound, resting, is
  <2>3. Only(d) /\ deskSound(d)'
    BY <1>1, <2>2, NotifyReadsMoves DEF Sits, deskSound, resting, is
  <2> QED BY <2>1, <2>3, DeskOnlyTyped DEF CredentialInv
<1>2. CASE NotifyRegisters(d)
  <2>1. UNCHANGED <<storeOfSets, form, flowOf, issued, rotated, lagging, overlapped, outlived>>
        /\ tools' \subseteq Labels
    BY <1>2, NotifyRegistersMoves
  <2>2. Only(d) /\ deskSound(d)' /\ issued' \in issued .. MaxGrants
    BY <1>2, <2>1, NotifyRegistersMoves DEF Sits, deskSound, resting, is, CredentialInv
  <2> QED BY <2>1, <2>2, DeskTyped DEF CredentialInv, granted, storeOfSets
<1> QED BY <1>1, <1>2

LEMMA RedirectTakesTyped ==
    ASSUME CredentialInv, \A f \in pending \cap SignIns : flowOf[f] # "none",
           NEW v \in Visits, RedirectTakes(v)
    PROVE  CredentialInv'
<1> USE CredentialConstants
<1>1. UNCHANGED <<storeOfSets, tools, form, flowOf, issued, rotated, lagging, overlapped, outlived>>
  BY DEF RedirectTakes
<1>2. Only(v) /\ deskSound(v)'
  BY RedirectTakesMoves DEF Sits, deskSound, resting, is
<1> QED BY <1>1, <1>2, DeskOnlyTyped DEF CredentialInv

LEMMA RedirectExchangesTyped ==
    ASSUME CredentialInv, NEW v \in Visits, RedirectExchanges(v)
    PROVE  CredentialInv'
<1> USE CredentialConstants, RedirectExchangesMoves
<1>1. UNCHANGED <<storeOfSets, tools, form, flowOf, rotated, lagging, overlapped, outlived>>
  BY DEF RedirectExchanges
<1>2. /\ desk[v].of \in Labels /\ issued \in 0 .. MaxGrants /\ issued' \in issued .. MaxGrants
      /\ 1 .. issued \subseteq 1 .. issued'
  BY DEF CredentialInv, deskSound, resting, is
<1>3. Only(v) /\ deskSound(v)'
  BY <1>2 DEF Sits, deskSound, resting, is
<1>4. rotated' \subseteq 1 .. issued' /\ \A l \in Labels : granted(l)' => grants'[l].n \in 1 .. issued'
  BY <1>1, <1>2 DEF CredentialInv, granted, storeOfSets
<1> QED BY <1>1, <1>2, <1>3, <1>4, DeskTyped DEF CredentialInv, storeOfSets

(* The tokens of an exchange or a refresh are stored. *)
LEMMA GrantStored ==
    ASSUME CredentialInv, NEW d \in Desks, desk[d].at \in {"storing", "keeping"},
           grants' = [grants EXCEPT ![desk[d].of] = [n |-> desk[d].got, fresh |-> TRUE]]
    PROVE  /\ desk[d].of \in Labels /\ desk[d].got \in 1 .. issued
           /\ grants' \in [Labels -> Grant \cup {NoGrant}]
           /\ grants'[desk[d].of] # NoGrant /\ grants'[desk[d].of].n = desk[d].got
           /\ \A l \in Labels : l # desk[d].of => grants'[l] = grants[l]
<1>1. desk[d].of \in Labels /\ desk[d].got \in 1 .. issued /\ desk[d].got \in 1 .. MaxGrants
  BY CredentialConstants DEF CredentialInv, deskSound, resting, is
<1>2. PICK n \in 1 .. MaxGrants : n = desk[d].got
  BY <1>1
<1>3. [n |-> n, fresh |-> TRUE] \in Grant /\ [n |-> n, fresh |-> TRUE] # NoGrant
  BY <1>2, CredentialConstants DEF Grant, NoGrant
<1> QED BY <1>1, <1>2, <1>3 DEF CredentialInv

LEMMA KeepsTyped ==
    ASSUME CredentialInv, NEW d \in Desks, (d \in Visits /\ RedirectStores(d)) \/ (d \in Clerks /\ RefreshKeeps(d))
    PROVE  CredentialInv'
<1> USE CredentialConstants
<1>1. /\ UNCHANGED <<sets, filled, tools, form, flowOf, issued, rotated, lagging, overlapped, outlived>>
      /\ grants' = [grants EXCEPT ![desk[d].of] = [n |-> desk[d].got, fresh |-> TRUE]]
  BY DEF RedirectStores, RefreshKeeps
<1>2. /\ desk[d].at \in {"storing", "keeping"}
      /\ \/ Sits(d, "notifying", desk[d].of, desk[d].seen, desk[d].got, desk[d].flow)
         \/ Sits(d, "idle", "none", {}, 0, 0)
  BY VisitsMoves, RefreshKeepsMoves DEF is
<1>3. /\ desk[d].of \in Labels /\ grants' \in [Labels -> Grant \cup {NoGrant}]
      /\ \A l \in Labels : granted(l)' => grants'[l].n \in 1 .. issued'
  BY <1>1, <1>2, GrantStored DEF granted, CredentialInv
<1>4. Only(d) /\ deskSound(d)' /\ issued' \in issued .. MaxGrants
  BY <1>1, <1>2, <1>3 DEF Sits, deskSound, resting, is, CredentialInv
<1> QED BY <1>1, <1>3, <1>4, DeskTyped DEF CredentialInv

LEMMA RefreshReadsTyped ==
    ASSUME CredentialInv, NEW c \in Clerks, NEW l \in Labels, RefreshReads(c, l)
    PROVE  CredentialInv'
<1> USE CredentialConstants, RefreshReadsMoves
<1>1. UNCHANGED <<storeOfSets, tools, form, flowOf, issued, rotated, lagging, outlived>> /\ overlapped' \in BOOLEAN
  BY Overlaps DEF RefreshReads
<1>2. Only(c) /\ deskSound(c)'
  BY <1>1 DEF Sits, deskSound, resting, is
<1> QED BY <1>1, <1>2, DeskOnlyTyped DEF CredentialInv

LEMMA RefreshExchangesTyped ==
    ASSUME CredentialInv, NEW c \in Clerks, RefreshExchanges(c)
    PROVE  CredentialInv'
<1> USE CredentialConstants
<1>1. UNCHANGED <<storeOfSets, tools, form, flowOf, lagging, overlapped, outlived>>
  BY DEF RefreshExchanges
<1>2. /\ is(c, "refreshing") /\ desk[c].of \in Labels /\ desk[c].got \in 1 .. issued
      /\ issued \in 0 .. MaxGrants /\ rotated \subseteq 1 .. issued
  BY RefreshExchangesMoves DEF CredentialInv, deskSound, resting, is
<1>3. /\ issued' \in issued .. MaxGrants /\ 1 .. issued \subseteq 1 .. issued' /\ rotated' \subseteq 1 .. issued'
      /\ Only(c) /\ deskSound(c)'
  <2>1. CASE /\ UNCHANGED <<issued, rotated>>
             /\ Sits(c, "keeping", desk[c].of, desk[c].seen, desk[c].got, desk[c].flow)
    BY <1>2, <2>1 DEF Sits, deskSound, resting, is
  <2>2. CASE /\ issued' = issued + 1 /\ issued' \in 0 .. MaxGrants /\ rotated' = rotated \cup {desk[c].got}
             /\ Sits(c, "keeping", desk[c].of, desk[c].seen, issued + 1, desk[c].flow)
    <3>1. issued' \in issued .. MaxGrants /\ 1 .. issued \subseteq 1 .. issued' /\ issued + 1 \in 1 .. issued'
      BY <1>2, <2>2
    <3>2. Only(c) /\ deskSound(c)'
      BY <1>2, <2>2, <3>1 DEF Sits, deskSound, resting, is
    <3> QED BY <1>2, <2>2, <3>1, <3>2
  <2>3. CASE UNCHANGED <<issued, rotated>> /\ Sits(c, "idle", "none", {}, 0, 0)
    BY <1>2, <2>3 DEF Sits, deskSound, resting, is
  <2> QED BY <2>1, <2>2, <2>3, RefreshExchangesMoves
<1>4. \A l \in Labels : granted(l)' => grants'[l].n \in 1 .. issued'
  BY <1>1, <1>3 DEF CredentialInv, granted, storeOfSets
<1> QED BY <1>1, <1>3, <1>4, DeskTyped DEF CredentialInv, storeOfSets

LEMMA FormTyped ==
    ASSUME CredentialInv, NEW v \in Visits,
           FormPosted(v) \/ FormStores(v) \/ FormSubmitted(v) \/ RedirectRefuses(v)
    PROVE  CredentialInv'
<1> USE CredentialConstants
<1>0. issued \in issued .. MaxGrants
  BY DEF CredentialInv
<1>1. CASE FormPosted(v)
  <2>1. UNCHANGED <<storeOfSets, tools, form, flowOf, issued, rotated, lagging, overlapped, outlived>>
    BY <1>1 DEF FormPosted
  <2>2. Only(v) /\ deskSound(v)'
    BY <1>1, FormPostedMoves DEF Sits, deskSound, resting, is
  <2> QED BY <2>1, <2>2, DeskOnlyTyped DEF CredentialInv
<1>2. CASE FormStores(v)
  <2>1. UNCHANGED <<sets, grants, tools, form, flowOf, issued, rotated, overlapped, outlived>>
    BY <1>2 DEF FormStores
  <2>2. Only(v) /\ deskSound(v)'
    BY <1>2, FormStoresMoves DEF Sits, deskSound, resting, is
  <2>3. lagging' \subseteq Labels /\ filled' \in [Labels -> SUBSET Fields]
    BY <1>2, FormStoresMoves DEF CredentialInv
  <2> QED BY <1>0, <2>1, <2>2, <2>3, DeskTyped DEF CredentialInv, granted
<1>3. CASE FormSubmitted(v)
  <2>1. /\ UNCHANGED <<storeOfSets, tools, flowOf, issued, rotated, lagging, overlapped, outlived>>
        /\ form' = form \/ form' = [form EXCEPT !.at = "done"]
    BY <1>3 DEF FormSubmitted
  <2>2. Only(v) /\ deskSound(v)'
    BY <1>3, VisitsMoves DEF Sits, deskSound, resting, is
  <2>3. /\ form' \in [of : Labels \cup {"none"}, at : {"none", "open", "done", "expired"}]
        /\ form'.at = "open" => form'.of \in Labels
    BY <2>1 DEF CredentialInv
  <2> QED BY <1>0, <2>1, <2>2, <2>3, DeskTyped DEF CredentialInv, granted, storeOfSets
<1>4. CASE RedirectRefuses(v)
  <2>1. UNCHANGED <<storeOfSets, tools, form, flowOf, issued, rotated, lagging, overlapped, outlived>>
    BY <1>4 DEF RedirectRefuses
  <2>2. Only(v) /\ deskSound(v)'
    BY <1>4, VisitsMoves DEF Sits, deskSound, resting, is
  <2> QED BY <2>1, <2>2, DeskOnlyTyped DEF CredentialInv
<1> QED BY <1>1, <1>2, <1>3, <1>4

LEMMA DeskFailsTyped == ASSUME CredentialInv, NEW d \in Desks, DeskFails(d) PROVE CredentialInv'
<1>1. UNCHANGED <<storeOfSets, tools, form, flowOf, issued, rotated, lagging, overlapped, outlived>>
  BY DEF DeskFails
<1>2. Only(d) /\ deskSound(d)'
  <2>1. desk[d].at # "idle" => desk[d].of \in Labels
    BY DEF CredentialInv, deskSound, resting, is
  <2> QED BY <2>1, DeskFailsMoves DEF Sits, deskSound, resting, is
<1> QED BY <1>1, <1>2, DeskOnlyTyped DEF CredentialInv

(* Steps of the form and of the clock leave every desk alone. *)
LEMMA DesksStay ==
    ASSUME CredentialInv, UNCHANGED <<sets, filled, tools, desk, flowOf, issued, rotated, lagging, overlapped, outlived>>,
           grants' \in [Labels -> Grant \cup {NoGrant}],
           \A l \in Labels : granted(l)' => grants'[l].n \in 1 .. issued,
           form' \in [of : Labels \cup {"none"}, at : {"none", "open", "done", "expired"}],
           form'.at = "open" => form'.of \in Labels
    PROVE  CredentialInv'
  BY DEF CredentialInv, deskSound, resting, is

LEMMA GrantExpiresMoves ==
    ASSUME CredentialInv, NEW l \in Labels, GrantExpires(l)
    PROVE  /\ grants' \in [Labels -> Grant \cup {NoGrant}] /\ granted(l) /\ grants'[l] # NoGrant
           /\ \A k \in Labels : granted(k)' <=> granted(k)
           /\ \A k \in Labels : grants'[k].n = grants[k].n
           /\ UNCHANGED <<callbackVars, budget, faults, sets, filled, tools, form, desk, flowOf, issued, rotated,
                          lagging, overlapped, outlived>>
<1>1. granted(l) /\ grants' = [grants EXCEPT ![l].fresh = FALSE]
  BY DEF GrantExpires, granted
<1>2. grants[l] \in Grant
  BY <1>1 DEF CredentialInv, granted
<1>3. PICK g \in Grant : g = [grants[l] EXCEPT !.fresh = FALSE] /\ g.n = grants[l].n
  <2>1. [grants[l] EXCEPT !.fresh = FALSE] \in Grant /\ [grants[l] EXCEPT !.fresh = FALSE].n = grants[l].n
    BY <1>2 DEF Grant
  <2> QED BY <2>1
<1>4. grants' = [grants EXCEPT ![l] = g]
  BY <1>1, <1>3
<1>5. g # NoGrant
  BY CredentialConstants DEF Grant, NoGrant
<1>6. UNCHANGED <<callbackVars, budget, faults, sets, filled, tools, form, desk, flowOf, issued, rotated,
                  lagging, overlapped, outlived>>
  BY DEF GrantExpires
<1> QED BY <1>1, <1>3, <1>4, <1>5, <1>6 DEF CredentialInv, granted

LEMMA ClockTyped ==
    ASSUME CredentialInv,
           \/ FormAges
           \/ \E l \in Labels : GrantExpires(l)
           \/ \E c \in Clerks, l \in Labels : FormRequested(c, l)
    PROVE  CredentialInv'
<1>1. CASE FormAges
  <2>1. form' = [form EXCEPT !.at = "expired"]
        /\ UNCHANGED <<sets, filled, grants, tools, desk, flowOf, issued, rotated, lagging, overlapped, outlived>>
    BY <1>1 DEF FormAges, storeOfSets
  <2> QED BY <2>1, DesksStay DEF CredentialInv, granted
<1>2. ASSUME NEW l \in Labels, GrantExpires(l) PROVE CredentialInv'
  BY <1>2, GrantExpiresMoves, DesksStay DEF CredentialInv
<1>3. ASSUME NEW c \in Clerks, NEW l \in Labels, FormRequested(c, l) PROVE CredentialInv'
  <2>1. form' = [of |-> l, at |-> "open"]
        /\ UNCHANGED <<sets, filled, grants, tools, desk, flowOf, issued, rotated, lagging, overlapped, outlived>>
    BY <1>3 DEF FormRequested, storeOfSets
  <2> QED BY <2>1, DesksStay DEF CredentialInv, granted
<1> QED BY <1>1, <1>2, <1>3

LEMMA CredentialsTyped ==
    ASSUME CredentialInv, CredentialsNext, \A f \in pending \cap SignIns : flowOf[f] # "none"
    PROVE  CredentialInv'
<1> USE CredentialConstants
<1>1. ASSUME NEW c \in Clerks, Clerk(c) PROVE CredentialInv'
  BY <1>1, ListsTyped, RefreshReadsTyped, ClockTyped, ClearsTyped, AddSavesTyped, RemovesTyped,
     RefreshExchangesTyped, KeepsTyped DEF Clerk
<1>2. ASSUME NEW v \in Visits, Visit(v) PROVE CredentialInv'
  <2>1. CASE RedirectTakes(v)
    BY <2>1, RedirectTakesTyped
  <2>2. CASE RedirectExchanges(v)
    BY <2>2, RedirectExchangesTyped
  <2>4. CASE RedirectStores(v)
    <3>1. v \in Desks /\ ((v \in Visits /\ RedirectStores(v)) \/ (v \in Clerks /\ RefreshKeeps(v)))
      BY <1>2, <2>4
    <3> QED BY <3>1, KeepsTyped
  <2>3. CASE FormPosted(v) \/ FormStores(v) \/ FormSubmitted(v) \/ RedirectRefuses(v)
    BY <2>3, FormTyped
  <2> QED BY <1>2, <2>1, <2>2, <2>3, <2>4 DEF Visit
<1>3. ASSUME NEW d \in Desks, NotifyReads(d) \/ NotifyRegisters(d) \/ DeskFails(d) PROVE CredentialInv'
  BY <1>3, NotifiesTyped, DeskFailsTyped
<1> QED BY <1>1, <1>2, <1>3, ClockTyped DEF CredentialsNext

LEMMA CredentialsRestartTyped == ASSUME CredentialInv, CredentialsRestart PROVE CredentialInv'
<1> USE CredentialConstants, RestTyped
<1>1. /\ UNCHANGED <<grants, flowOf, issued, rotated, overlapped, outlived>>
      /\ sets' = sets \cup Declared /\ lagging' = {} /\ form' = NoForm
      /\ desk' = [d \in Desks |-> AtRest] /\ tools' = ready(sets', filled', grants)
      /\ filled' = [l \in Labels |-> IF l \in Seeded THEN Fields ELSE filled[l]]
  BY DEF CredentialsRestart, seeded
<1>2. filled' \in [Labels -> SUBSET Fields]
  BY <1>1 DEF CredentialInv
<1>3. sets' \subseteq Labels /\ tools' \subseteq Labels
  BY <1>1 DEF CredentialInv, ready
<1>4. /\ form' \in [of : Labels \cup {"none"}, at : {"none", "open", "done", "expired"}]
      /\ form'.at = "open" => form'.of \in Labels
  BY <1>1 DEF NoForm
<1>5. desk' \in [Desks -> Desk] /\ \A d \in Desks : deskSound(d)'
  BY <1>1 DEF deskSound, resting, is
<1> QED BY <1>1, <1>2, <1>3, <1>4, <1>5 DEF CredentialInv, granted

LEMMA CredentialsBegin == ASSUME CredentialsInit PROVE CredentialInv
<1> USE CredentialConstants, RestTyped
<1>1. /\ sets = Declared /\ tools = {} /\ form = NoForm /\ lagging = {} /\ issued = 0 /\ rotated = {}
      /\ grants = [l \in Labels |-> NoGrant] /\ desk = [d \in Desks |-> AtRest]
      /\ flowOf = [f \in SignIns |-> "none"] /\ overlapped = FALSE /\ outlived = FALSE
      /\ filled = [l \in Labels |-> IF l \in Seeded THEN Fields ELSE {}]
  BY DEF CredentialsInit, seeded
<1>2. \A d \in Desks : deskSound(d)
  BY <1>1 DEF deskSound, resting, is
<1>3. filled \in [Labels -> SUBSET Fields] /\ form \in [of : Labels \cup {"none"}, at : {"none", "open", "done", "expired"}]
      /\ form.at # "open"
  BY <1>1 DEF NoForm
<1>4. \A l \in Labels : ~ granted(l)
  BY <1>1 DEF granted
<1>5. grants \in [Labels -> Grant \cup {NoGrant}] /\ desk \in [Desks -> Desk] /\ flowOf \in [SignIns -> Labels \cup {"none"}]
  BY <1>1
<1>6. sets \subseteq Labels /\ tools \subseteq Labels /\ issued \in 0 .. MaxGrants /\ rotated \subseteq 1 .. issued
      /\ lagging \subseteq Labels
  BY <1>1
<1>7. overlapped \in BOOLEAN /\ outlived \in BOOLEAN
  BY <1>1, Zenon
<1> QED BY <1>2, <1>3, <1>4, <1>5, <1>6, <1>7 DEF CredentialInv
-----------------------------------------------------------------------------
(* A flow is answered once.                                                *)

(* Not registered with the callback server yet. *)
unused ==
    {f \in 1 .. MaxAdds : f > added} \cup {f \in SignIns : flowOf[f] = "none"}
        \cup {work[c].of : c \in {d \in Calls : at(d, "storing")}}

answering(h) == h \in Handlers /\ ~ at(h, "idle")
redirecting(d) == desk[d].flow # 0

(* A flow somebody took out of the map is theirs to answer. *)
taken(f) == f \notin pending \cup unused /\ (f \notin aged => closed[f] = 0)

FlowsSound ==
    /\ pending \subseteq 1 .. MaxAdds \cup SignIns
    /\ \A f \in unused : f \notin pending \cup aged /\ closed[f] = 0
    /\ \A f \in pending : closed[f] = 0
    /\ reaping # 0 => reaping \in aged
    /\ AnsweredOnce

StorersSound ==
    \A c \in Calls : at(c, "storing") =>
        /\ work[c].of \in 1 .. added
        /\ \A d \in Calls : at(d, "storing") /\ work[d].of = work[c].of => d = c

AnswersSound ==
    \A h \in Handlers : answering(h) =>
        /\ work[h].of \in 1 .. added /\ taken(work[h].of)
        /\ \A k \in Handlers : answering(k) /\ work[k].of = work[h].of => k = h

RedirectsSound ==
    \A d \in Desks : redirecting(d) =>
        /\ desk[d].flow \in SignIns /\ taken(desk[d].flow)
        /\ \A e \in Desks : redirecting(e) /\ desk[e].flow = desk[d].flow => e = d

FlowInv == FlowsSound /\ StorersSound /\ AnswersSound /\ RedirectsSound

(* No more work with flows than before. *)
noNewStorer == \A c \in Calls : at(c, "storing")' => at(c, "storing") /\ work'[c].of = work[c].of
noNewAnswer == \A h \in Handlers : answering(h)' => answering(h) /\ work'[h].of = work[h].of
noNewRedirect == \A d \in Desks : redirecting(d)' => redirecting(d) /\ desk'[d].flow = desk[d].flow

LEMMA FewerUnused == ASSUME noNewStorer, UNCHANGED <<added, flowOf>> PROVE unused' \subseteq unused
  BY DEF unused, noNewStorer

LEMMA UnusedAre == ASSUME RemoteInv, FlowInv PROVE unused \subseteq Flows /\ 1 .. added \subseteq Flows
<1>1. 1 .. MaxAdds \subseteq Flows /\ 1 .. added \subseteq Flows
  BY ConstantsAre DEF RemoteInv, Numbers, Flows
<1>2. \A c \in Calls : at(c, "storing") => work[c].of \in Flows
  BY <1>1 DEF FlowInv, StorersSound
<1> QED BY <1>1, <1>2, CredentialConstants DEF unused

LEMMA FlowsKept ==
    ASSUME FlowInv, UNCHANGED <<callbackVars, added, flowOf>>, noNewStorer, noNewAnswer, noNewRedirect
    PROVE  FlowInv'
<1>1. unused' \subseteq unused
  BY FewerUnused
<1>2. UNCHANGED <<pending, aged, reaping, closed>>
  BY DEF callbackVars
<1>3. FlowsSound'
  BY <1>1, <1>2 DEF FlowInv, FlowsSound, AnsweredOnce
<1>4. \A f : taken(f) => taken(f)'
  BY <1>1, <1>2 DEF taken
<1>5. StorersSound'
  BY DEF FlowInv, StorersSound, noNewStorer
<1>6. AnswersSound'
  BY <1>4 DEF FlowInv, AnswersSound, noNewAnswer
<1>7. RedirectsSound'
  BY <1>4 DEF FlowInv, RedirectsSound, noNewRedirect
<1> QED BY <1>3, <1>5, <1>6, <1>7 DEF FlowInv

(* One worker of the remote server moves, and begins nothing with a flow. *)
LEMMA WorkerKeepsFlows ==
    ASSUME FlowInv, NEW w \in Workers, Alone(w), UNCHANGED <<callbackVars, added, flowOf, desk>>,
           work'[w].at # "idle" /\ w \in Handlers => work[w].at # "idle" /\ work'[w].of = work[w].of,
           work'[w].at = "storing" /\ w \in Calls => work[w].at = "storing" /\ work'[w].of = work[w].of
    PROVE  FlowInv'
<1>1. noNewStorer /\ noNewAnswer /\ noNewRedirect
  BY ConstantsAre DEF noNewStorer, noNewAnswer, noNewRedirect, Alone, at, answering, redirecting
<1> QED BY <1>1, FlowsKept

LEMMA DeskKeepsFlows ==
    ASSUME FlowInv, NEW d \in Desks, Only(d), UNCHANGED <<callbackVars, added, flowOf, work>>,
           desk'[d].flow \in {0, desk[d].flow}
    PROVE  FlowInv'
<1>1. noNewStorer /\ noNewAnswer /\ noNewRedirect
  BY DEF noNewStorer, noNewAnswer, noNewRedirect, Only, at, answering, redirecting
<1> QED BY <1>1, FlowsKept

LEMMA StillKeepsFlows ==
    ASSUME FlowInv, UNCHANGED <<callbackVars, added, flowOf, work, desk>>
    PROVE  FlowInv'
<1>1. noNewStorer /\ noNewAnswer /\ noNewRedirect
  BY DEF noNewStorer, noNewAnswer, noNewRedirect, at, answering, redirecting
<1> QED BY <1>1, FlowsKept

(* A flow that was taken out is answered and let go of. *)
LEMMA ClosesKeepsFlows ==
    ASSUME RemoteInv, FlowInv, NEW f \in Flows, taken(f), Closes(f),
           UNCHANGED <<pending, aged, reaping, added, flowOf>>,
           noNewStorer, noNewAnswer, noNewRedirect,
           \A h \in Handlers : answering(h)' => work[h].of # f,
           \A d \in Desks : redirecting(d)' => desk[d].flow # f
    PROVE  FlowInv'
<1>1. unused' \subseteq unused
  BY FewerUnused
<1>2. \A g \in Flows : g # f => closed'[g] = closed[g]
  BY DEF Closes, RemoteInv, CallbackTypeOK
<1>3. f \notin aged => closed'[f] = 1
  BY DEF Closes, RemoteInv, CallbackTypeOK, taken
<1>4. unused \subseteq Flows
  BY UnusedAre
<1>5. FlowsSound'
  <2>1. AnsweredOnce'
    BY <1>2, <1>3 DEF FlowInv, FlowsSound, AnsweredOnce
  <2>2. pending \subseteq Flows
    BY DEF RemoteInv, CallbackTypeOK
  <2> QED BY <1>1, <1>2, <1>4, <2>1, <2>2 DEF FlowInv, FlowsSound, taken
<1>6. \A g \in Flows : g # f /\ taken(g) => taken(g)'
  BY <1>1, <1>2 DEF taken
<1>7. StorersSound'
  BY DEF FlowInv, StorersSound, noNewStorer
<1>8. AnswersSound'
  <2>1. 1 .. added \subseteq Flows
    BY ConstantsAre DEF RemoteInv, Numbers, Flows
  <2> QED BY <1>6, <2>1 DEF FlowInv, AnswersSound, noNewAnswer
<1>9. RedirectsSound'
  BY <1>6, CredentialConstants DEF FlowInv, RedirectsSound, noNewRedirect
<1> QED BY <1>5, <1>7, <1>8, <1>9 DEF FlowInv
LEMMA AddRemoteMCPFlows ==
    ASSUME RemoteInv, FlowInv, NEW c \in Calls, AddRemoteMCP(c), UNCHANGED credentialVars
    PROVE  FlowInv'
<1> USE ConstantsAre, AddRemoteMCPMoves
<1>1. UNCHANGED <<pending, aged, reaping, closed, flowOf, desk>>
  BY DEF AddRemoteMCP, callbackVars, credentialVars
<1>2. /\ at(c, "idle") /\ added' = added + 1 /\ added \in Nat /\ added + 1 \in 1 .. MaxAdds
      /\ Alone(c) /\ work'[c].of = added + 1 /\ work'[c].at \in {"announcing", "storing"}
  BY DEF Becomes, RemoteInv, Numbers
<1>3. unused' \subseteq unused /\ added + 1 \in unused
  BY <1>1, <1>2 DEF unused, Alone, at
<1>4. StorersSound'
  <2> SUFFICES ASSUME NEW b \in Calls, at(b, "storing")'
               PROVE  /\ work'[b].of \in 1 .. added'
                      /\ \A d \in Calls : at(d, "storing")' /\ work'[d].of = work'[b].of => d = b
    BY DEF StorersSound
  <2>1. \A d \in Calls : d # c /\ at(d, "storing")' => work'[d] = work[d] /\ at(d, "storing") /\ work[d].of \in 1 .. added
    BY <1>2 DEF Alone, at, FlowInv, StorersSound
  <2> QED BY <1>2, <2>1 DEF FlowInv, StorersSound
<1>5. \A f : taken(f) => taken(f)'
  BY <1>1, <1>3 DEF taken
<1>6. AnswersSound' /\ RedirectsSound'
  <2>1. noNewAnswer /\ noNewRedirect
    BY <1>1, <1>2 DEF noNewAnswer, noNewRedirect, Alone, answering, redirecting, at
  <2>2. 1 .. added \subseteq 1 .. added'
    BY <1>2
  <2> QED BY <1>1, <1>5, <2>1, <2>2 DEF FlowInv, AnswersSound, RedirectsSound, noNewAnswer, noNewRedirect
<1>7. FlowsSound'
  BY <1>1, <1>3 DEF FlowInv, FlowsSound, AnsweredOnce
<1> QED BY <1>4, <1>6, <1>7 DEF FlowInv

(* A flow that nobody has heard of yet waits for its callback. *)
LEMMA RegistersFlow ==
    ASSUME FlowInv, NEW f \in unused, f \in 1 .. MaxAdds \cup SignIns, RegisterFlow(f), f \notin unused',
           unused' \subseteq unused, UNCHANGED added, noNewStorer, noNewAnswer, noNewRedirect
    PROVE  FlowInv'
<1>1. pending' = pending \cup {f} /\ UNCHANGED <<aged, reaping, closed>>
  BY DEF RegisterFlow
<1>2. FlowsSound'
  BY <1>1 DEF FlowInv, FlowsSound, AnsweredOnce
<1>3. \A g : taken(g) => taken(g)'
  BY <1>1 DEF taken
<1>4. StorersSound'
  BY DEF FlowInv, StorersSound, noNewStorer
<1>5. AnswersSound'
  BY <1>3 DEF FlowInv, AnswersSound, noNewAnswer
<1>6. RedirectsSound'
  BY <1>3 DEF FlowInv, RedirectsSound, noNewRedirect
<1> QED BY <1>2, <1>4, <1>5, <1>6 DEF FlowInv

LEMMA AddStoresFlows ==
    ASSUME RemoteInv, FlowInv, NEW c \in Calls, AddStores(c), UNCHANGED credentialVars
    PROVE  FlowInv'
<1> USE ConstantsAre, AddStoresMoves
<1>1. UNCHANGED <<flowOf, desk, added>>
  BY DEF AddStores, historyVars, credentialVars
<1>2. at(c, "storing") /\ Alone(c) /\ work'[c].at \in {"announcing", "idle"}
  BY DEF Becomes
<1>3. noNewStorer /\ noNewAnswer /\ noNewRedirect
  BY <1>1, <1>2 DEF noNewStorer, noNewAnswer, noNewRedirect, Alone, at, answering, redirecting
<1>4. CASE UNCHANGED callbackVars
  BY <1>1, <1>3, <1>4, FlowsKept
<1>5. CASE RegisterFlow(work[c].of)
  <2>1. unused' \subseteq unused
    BY <1>1, <1>3, FewerUnused
  <2>2. work[c].of \in unused /\ work[c].of \in 1 .. added /\ work[c].of \in 1 .. MaxAdds
    BY <1>2 DEF unused, FlowInv, StorersSound, RemoteInv, Numbers
  <2>3. work[c].of \notin unused'
    <3>1. work[c].of \notin SignIns
      BY <2>2, CredentialConstants
    <3>2. \A d \in Calls : at(d, "storing")' => work'[d].of # work[c].of
      BY <1>2, <1>3 DEF FlowInv, StorersSound, noNewStorer, at
    <3>3. ~ (work[c].of > added)
      BY <2>2 DEF RemoteInv, Numbers
    <3> QED BY <1>1, <3>1, <3>2, <3>3 DEF unused
  <2> QED BY <1>1, <1>3, <1>5, <2>1, <2>2, <2>3, RegistersFlow
<1> QED BY <1>4, <1>5 DEF AddStores

LEMMA AddSavesFlows ==
    ASSUME RemoteInv, CredentialInv, FlowInv, NEW c \in Clerks, AddSaves(c), UNCHANGED remoteVars
    PROVE  FlowInv'
<1> USE CredentialConstants, AddSavesMoves
<1>1. UNCHANGED <<added, work>>
  BY DEF remoteVars
<1>2. Only(c) /\ desk'[c].flow = 0
  BY DEF Sits
<1>3. noNewStorer /\ noNewAnswer /\ noNewRedirect
  BY <1>1, <1>2 DEF noNewStorer, noNewAnswer, noNewRedirect, Only, at, answering, redirecting
<1>4. CASE UNCHANGED <<callbackVars, flowOf>>
  BY <1>1, <1>3, <1>4, FlowsKept
<1>5. ASSUME NEW f \in freeFlows, RegisterFlow(f), flowOf' = [flowOf EXCEPT ![f] = desk[c].of]
      PROVE  FlowInv'
  <2>1. f \in SignIns /\ f \in unused
    BY DEF freeFlows, unused
  <2>2. flowOf'[f] # "none" /\ \A g \in SignIns : g # f => flowOf'[g] = flowOf[g]
    BY <1>5, <2>1 DEF CredentialInv
  <2>3. unused' \subseteq unused
    BY <1>1, <2>2 DEF unused, at
  <2>4. f \notin unused'
    <3>1. f \notin 1 .. MaxAdds
      BY <2>1
    <3>2. \A d \in Calls : at(d, "storing") => work[d].of # f
      BY <3>1, ConstantsAre DEF FlowInv, StorersSound, RemoteInv, Numbers
    <3> QED BY <1>1, <2>2, <3>1, <3>2 DEF unused, at
  <2> QED BY <1>1, <1>3, <1>5, <2>1, <2>3, <2>4, RegistersFlow
<1> QED BY <1>4, <1>5

(* A pending flow is taken out of the map. *)
LEMMA TakesFlow ==
    ASSUME FlowInv, NEW f \in pending, pending' = pending \ {f}, UNCHANGED <<aged, reaping, closed, added, flowOf>>,
           noNewStorer
    PROVE  FlowsSound' /\ StorersSound' /\ (\A g : taken(g) => taken(g)') /\ taken(f)' /\ ~ taken(f)
<1>1. unused' \subseteq unused
  BY FewerUnused
<1>2. FlowsSound'
  BY <1>1 DEF FlowInv, FlowsSound, AnsweredOnce
<1>3. (\A g : taken(g) => taken(g)') /\ taken(f)' /\ ~ taken(f)
  BY <1>1 DEF taken, FlowInv, FlowsSound
<1>4. StorersSound'
  BY DEF FlowInv, StorersSound, noNewStorer
<1> QED BY <1>2, <1>3, <1>4

LEMMA CallbackTakesFlows ==
    ASSUME RemoteInv, FlowInv, NEW h \in Handlers, CallbackTakes(h), UNCHANGED credentialVars
    PROVE  FlowInv'
<1> USE ConstantsAre
<1>1. UNCHANGED <<aged, reaping, closed, added, flowOf, desk>>
  BY DEF CallbackTakes, credentialVars
<1>2. PICK f \in pending \cap 1 .. MaxAdds, next \in {"exchanging", "failing"} :
          pending' = pending \ {f} /\ Becomes(h, next, f, NoAuth, NoToken, "none")
  BY CallbackTakesMoves
<1>3. at(h, "idle") /\ Alone(h) /\ work'[h].of = f /\ work'[h].at # "idle"
  BY <1>2, CallbackTakesMoves DEF Becomes
<1>4. noNewStorer /\ noNewRedirect
  BY <1>1, <1>3 DEF noNewStorer, noNewRedirect, Alone, at, redirecting
<1>5. FlowsSound' /\ StorersSound' /\ (\A g : taken(g) => taken(g)') /\ taken(f)' /\ ~ taken(f)
  BY <1>1, <1>2, <1>4, TakesFlow
<1>6. f \in 1 .. added
  BY <1>2 DEF unused, FlowInv, FlowsSound, RemoteInv, Numbers
<1>7. AnswersSound'
  <2>1. \A k \in Handlers : k # h /\ answering(k)' =>
            answering(k) /\ work'[k].of = work[k].of /\ work[k].of # f
    BY <1>3, <1>5 DEF Alone, answering, at, FlowInv, AnswersSound
  <2>2. \A k \in Handlers : k # h /\ answering(k)' => taken(work[k].of)' /\ work'[k].of \in 1 .. added'
    BY <1>1, <1>5, <2>1 DEF FlowInv, AnswersSound
  <2> QED BY <1>1, <1>3, <1>5, <1>6, <2>1, <2>2 DEF FlowInv, AnswersSound
<1>8. RedirectsSound'
  BY <1>4, <1>5 DEF FlowInv, RedirectsSound, noNewRedirect
<1> QED BY <1>5, <1>7, <1>8 DEF FlowInv

LEMMA PendingIsOfASet ==
    ASSUME FlowInv PROVE \A f \in pending \cap SignIns : flowOf[f] # "none"
  BY DEF FlowInv, FlowsSound, unused

LEMMA RedirectTakesFlows ==
    ASSUME CredentialInv, FlowInv, NEW v \in Visits, RedirectTakes(v), UNCHANGED remoteVars
    PROVE  FlowInv'
<1> USE CredentialConstants
<1>1. UNCHANGED <<aged, reaping, closed, added, flowOf, work>>
  BY DEF RedirectTakes, remoteVars
<1>2. PICK f \in pending \cap SignIns, next \in {"exchanging", "refusing"} :
          pending' = pending \ {f} /\ Sits(v, next, flowOf[f], {}, 0, f)
  BY RedirectTakesMoves, PendingIsOfASet
<1>3. Only(v) /\ desk'[v].flow = f
  BY <1>2 DEF Sits
<1>4. noNewStorer /\ noNewAnswer
  BY <1>1 DEF noNewStorer, noNewAnswer, at, answering
<1>5. FlowsSound' /\ StorersSound' /\ (\A g : taken(g) => taken(g)') /\ taken(f)' /\ ~ taken(f)
  BY <1>1, <1>2, <1>4, TakesFlow
<1>6. AnswersSound'
  BY <1>1, <1>4, <1>5 DEF FlowInv, AnswersSound, noNewAnswer
<1>7. RedirectsSound'
  <2>1. \A e \in Desks : e # v /\ redirecting(e)' =>
            redirecting(e) /\ desk'[e].flow = desk[e].flow /\ desk[e].flow # f
    BY <1>3, <1>5 DEF Only, redirecting, FlowInv, RedirectsSound
  <2>2. \A e \in Desks : e # v /\ redirecting(e)' => taken(desk[e].flow)' /\ desk'[e].flow \in SignIns
    BY <1>5, <2>1 DEF FlowInv, RedirectsSound
  <2> QED BY <1>2, <1>3, <1>5, <2>1, <2>2 DEF FlowInv, RedirectsSound
<1> QED BY <1>5, <1>6, <1>7 DEF FlowInv
LEMMA CallbackClosesFlows ==
    ASSUME RemoteInv, FlowInv, NEW h \in Handlers, CallbackStores(h) \/ CallbackFails(h), UNCHANGED credentialVars
    PROVE  FlowInv'
<1> USE ConstantsAre
<1>1. /\ UNCHANGED <<pending, aged, reaping, added, flowOf, desk>>
      /\ Closes(work[h].of) /\ returns(h) /\ ~ at(h, "idle")
  BY DEF CallbackStores, CallbackFails, credentialVars, historyVars, at
<1>2. Alone(h) /\ work'[h].at = "idle"
  BY <1>1, ReturnsTo DEF Becomes, RemoteInv, Works
<1>3. noNewStorer /\ noNewAnswer /\ noNewRedirect
  BY <1>1, <1>2 DEF noNewStorer, noNewAnswer, noNewRedirect, Alone, at, answering, redirecting
<1>4. answering(h) /\ taken(work[h].of) /\ work[h].of \in 1 .. added /\ work[h].of \in Flows
  BY <1>1, UnusedAre DEF answering, FlowInv, AnswersSound
<1>5. \A k \in Handlers : answering(k)' => work[k].of # work[h].of
  BY <1>2, <1>3, <1>4 DEF FlowInv, AnswersSound, noNewAnswer, answering, at
<1>6. \A d \in Desks : redirecting(d)' => desk[d].flow # work[h].of
  <2>1. work[h].of \in 1 .. MaxAdds
    BY <1>4 DEF RemoteInv, Numbers
  <2> QED BY <1>3, <2>1, CredentialConstants DEF FlowInv, RedirectsSound, noNewRedirect
<1> QED BY <1>1, <1>3, <1>4, <1>5, <1>6, ClosesKeepsFlows

LEMMA RedirectClosesFlows ==
    ASSUME RemoteInv, CredentialInv, FlowInv, NEW d \in Desks, UNCHANGED remoteVars,
           NotifyRegisters(d) \/ (d \in Visits /\ RedirectRefuses(d))
    PROVE  FlowInv'
<1> USE CredentialConstants
<1>1. UNCHANGED <<added, work, flowOf>>
  BY DEF NotifyRegisters, RedirectRefuses, remoteVars
<1>2. Only(d) /\ desk'[d].flow = 0
  BY NotifyRegistersMoves, VisitsMoves DEF Sits
<1>3. noNewStorer /\ noNewAnswer /\ noNewRedirect
  BY <1>1, <1>2 DEF noNewStorer, noNewAnswer, noNewRedirect, Only, at, answering, redirecting
<1>4. CASE UNCHANGED callbackVars
  BY <1>1, <1>2, <1>4, DeskKeepsFlows
<1>5. CASE desk[d].flow # 0 /\ Closes(desk[d].flow) /\ UNCHANGED <<pending, aged, reaping>>
  <2>1. redirecting(d) /\ taken(desk[d].flow) /\ desk[d].flow \in SignIns /\ desk[d].flow \in Flows
    BY <1>5 DEF redirecting, FlowInv, RedirectsSound
  <2>2. \A e \in Desks : redirecting(e)' => desk[e].flow # desk[d].flow
    BY <1>2, <1>3, <2>1 DEF FlowInv, RedirectsSound, noNewRedirect, redirecting
  <2>3. \A h \in Handlers : answering(h)' => work[h].of # desk[d].flow
    <3>1. \A h \in Handlers : answering(h)' => work[h].of \in 1 .. MaxAdds
      <4>1. 1 .. added \subseteq 1 .. MaxAdds
        BY ConstantsAre DEF RemoteInv, Numbers
      <4> QED BY <1>3, <4>1 DEF FlowInv, AnswersSound, noNewAnswer
    <3> QED BY <2>1, <3>1
  <2> QED BY <1>1, <1>3, <1>5, <2>1, <2>2, <2>3, ClosesKeepsFlows
<1>6. CASE NotifyRegisters(d)
  BY <1>4, <1>5, <1>6, NotifyRegistersMoves
<1>7. CASE d \in Visits /\ RedirectRefuses(d)
  <2>1. Closes(desk[d].flow) /\ UNCHANGED <<pending, aged, reaping>>
    BY <1>7 DEF RedirectRefuses
  <2>2. CASE desk[d].flow # 0
    BY <1>5, <2>1, <2>2
  <2>3. CASE desk[d].flow = 0
    <3>1. closed' = closed
      BY <2>1, <2>3, ConstantsAre DEF Closes, RemoteInv, CallbackTypeOK, Flows
    <3> QED BY <1>4, <2>1, <3>1 DEF callbackVars
  <2> QED BY <2>2, <2>3
<1> QED BY <1>6, <1>7

(* Time passes for a flow, and the reaper comes by. *)
LEMMA FlowsAgeFlows == ASSUME RemoteInv, FlowInv, FlowsAge PROVE FlowInv'
<1>1. UNCHANGED <<added, flowOf, work, desk>>
  BY DEF FlowsAge, remoteVars, credentialVars
<1>2. noNewStorer /\ noNewAnswer /\ noNewRedirect /\ unused' = unused
  BY <1>1 DEF noNewStorer, noNewAnswer, noNewRedirect, unused, at, answering, redirecting
<1>3. StorersSound'
  BY <1>1 DEF FlowInv, StorersSound, at
<1>4. ASSUME \A f \in Flows : taken(f) => taken(f)' PROVE AnswersSound' /\ RedirectsSound'
  <2>1. AnswersSound'
    BY <1>1, <1>2, <1>4, UnusedAre DEF FlowInv, AnswersSound, noNewAnswer
  <2>2. RedirectsSound'
    BY <1>1, <1>2, <1>4, CredentialConstants DEF FlowInv, RedirectsSound, noNewRedirect
  <2> QED BY <2>1, <2>2
<1>5. ASSUME NEW f \in Flows, FlowAges(f) PROVE FlowInv'
  <2>1. f \in pending /\ aged' = aged \cup {f} /\ UNCHANGED <<pending, reaping, closed>>
    BY <1>5 DEF FlowAges
  <2>2. FlowsSound'
    BY <1>2, <2>1 DEF FlowInv, FlowsSound, AnsweredOnce
  <2>3. \A g \in Flows : taken(g) => taken(g)'
    BY <1>2, <2>1 DEF taken
  <2> QED BY <1>3, <1>4, <2>2, <2>3 DEF FlowInv
<1>6. ASSUME NEW f \in Flows, ReaperSees(f) PROVE FlowInv'
  <2>1. f \in aged /\ reaping' = f /\ UNCHANGED <<pending, aged, closed>>
    BY <1>6 DEF ReaperSees
  <2>2. FlowsSound'
    BY <1>2, <2>1 DEF FlowInv, FlowsSound, AnsweredOnce
  <2>3. \A g \in Flows : taken(g) => taken(g)'
    BY <1>2, <2>1 DEF taken
  <2> QED BY <1>3, <1>4, <2>2, <2>3 DEF FlowInv
<1>7. CASE ReaperFails
  <2>1. /\ reaping \in aged /\ reaping \in Flows /\ pending' = pending \ {reaping} /\ reaping' = 0
        /\ UNCHANGED aged /\ \A g \in Flows : g # reaping => closed'[g] = closed[g]
    BY <1>7 DEF ReaperFails, Reaped, Closes, FlowInv, FlowsSound, RemoteInv, CallbackTypeOK
  <2>2. pending \subseteq Flows
    BY DEF RemoteInv, CallbackTypeOK
  <2>3. FlowsSound'
    BY <1>2, <2>1, <2>2, UnusedAre DEF FlowInv, FlowsSound, AnsweredOnce
  <2>4. \A g \in Flows : taken(g) => taken(g)'
    BY <1>2, <2>1 DEF taken
  <2> QED BY <1>3, <1>4, <2>3, <2>4 DEF FlowInv
<1> QED BY <1>5, <1>6, <1>7 DEF FlowsAge

LEMMA RestartsFlows == ASSUME RemoteInv, FlowInv, Restarts PROVE FlowInv'
<1> USE CredentialConstants, ConstantsAre
<1>1. UNCHANGED <<added, flowOf>> /\ work' = [w \in Workers |-> Idle] /\ desk' = [d \in Desks |-> AtRest]
  BY DEF Restarts, RemoteRestart, CredentialsRestart
<1>2. \A w \in Workers : work'[w].at = "idle"
  BY <1>1, NothingTyped
<1>3. \A d \in Desks : desk'[d].flow = 0
  BY <1>1, RestTyped
<1>4. noNewStorer /\ StorersSound' /\ AnswersSound' /\ RedirectsSound'
  BY <1>2, <1>3 DEF noNewStorer, StorersSound, AnswersSound, RedirectsSound, at, answering, redirecting
<1>5. unused' \subseteq unused
  BY <1>1, <1>4, FewerUnused
<1>6. pending' = {} /\ reaping' = 0 /\ UNCHANGED aged
  BY DEF Restarts, CallbackLost, ReaperPanics
<1>7. \A f \in Flows : f \notin aged => closed'[f] = closed[f]
  <2>1. CASE CallbackLost
    BY <2>1 DEF CallbackLost
  <2>2. CASE ReaperPanics
    BY <2>2 DEF ReaperPanics, Closes, FlowInv, FlowsSound, RemoteInv, CallbackTypeOK
  <2> QED BY <2>1, <2>2 DEF Restarts
<1>8. FlowsSound'
  BY <1>5, <1>6, <1>7, UnusedAre DEF FlowInv, FlowsSound, AnsweredOnce
<1> QED BY <1>4, <1>8 DEF FlowInv
(* The calls and requests that have nothing to do with flows. *)
quietCall(c) ==
    \/ Announces(c) \/ CallFails(c) \/ WaitPolls(c) \/ CompleteBegins(c) \/ CompleteExchanges(c)
    \/ CompleteStores(c) \/ FinalizeReads(c) \/ FinalizeLists(c) \/ FinalizeNames(c)
    \/ RemoveDeletes(c) \/ RemoveSaves(c) \/ RemoveFails(c) \/ SetChannels(c)

LEMMA QuietCallMoves ==
    ASSUME RemoteInv, NEW c \in Calls, quietCall(c)
    PROVE  Alone(c) /\ work'[c].at # "storing" /\ UNCHANGED <<callbackVars, added>>
<1> USE ConstantsAre
<1>1. CASE Announces(c) \/ CallFails(c) \/ RemoveFails(c)
  <2>1. Becomes(c, "idle", 0, NoAuth, NoToken, "none")
    BY <1>1, ReturnsTo DEF Announces, CallFails, RemoveFails, RemoteInv, Works
  <2> QED BY <1>1, <2>1 DEF Becomes, Announces, CallFails, RemoveFails, historyVars
<1>2. CASE WaitPolls(c) \/ CompleteBegins(c)
  BY <1>2, WaitPollsMoves, CompleteBeginsMoves DEF Becomes, WaitPolls, CompleteBegins
<1>3. CASE CompleteExchanges(c) \/ CompleteStores(c)
  BY <1>3, CompleteExchangesMoves, CompleteStoresMoves DEF Becomes, CompleteExchanges, CompleteStores, historyVars
<1>4. CASE FinalizeReads(c)
  <2>1. CASE returns(c)
    BY <1>4, <2>1, ReturnsTo DEF Becomes, FinalizeReads, historyVars, RemoteInv, Works
  <2>2. CASE moves(c, "finalized")
    BY <1>4, <2>2, MovesTo DEF Becomes, FinalizeReads, historyVars, RemoteInv, Works, Steps
  <2>3. CASE Becomes(c, "listing", registered.of, work[c].copy, work[c].got, work[c].style)
    BY <1>4, <2>3 DEF Becomes, FinalizeReads, historyVars
  <2> QED BY <1>4, <2>1, <2>2, <2>3, FinalizeReadsMoves
<1>5. CASE FinalizeLists(c) \/ FinalizeNames(c) \/ SetChannels(c)
  BY <1>5, FinalizeListsMoves, FinalizeNamesMoves, SetChannelsMoves
     DEF Becomes, FinalizeLists, FinalizeNames, SetChannels, historyVars
<1>6. CASE RemoveDeletes(c)
  BY <1>6, MovesTo DEF Becomes, RemoveDeletes, RemoteInv, Works, Steps
<1>7. CASE RemoveSaves(c)
  BY <1>7, MovesTo DEF Becomes, RemoveSaves, RemoteInv, Works, Steps, historyVars
<1> QED BY <1>1, <1>2, <1>3, <1>4, <1>5, <1>6, <1>7 DEF quietCall

LEMMA ProxiesMoves ==
    ASSUME RemoteInv, NEW r \in Requests, Proxies(r)
    PROVE  Alone(r) /\ UNCHANGED <<callbackVars, added, registered, listLock, live, changed, stale, straddled>>
<1> USE ConstantsAre
<1>1. UNCHANGED <<callbackVars, added, registered, listLock, live, changed, stale, straddled>>
  BY DEF Proxies, RequestBegins, Resolves, RefreshLocks, Refreshes, Persists, PersistFails, storeVars, agentVars
<1>2. returns(r) => Alone(r)
  BY ReturnsTo DEF Becomes, RemoteInv, Works
<1>3. CASE RequestBegins(r) \/ Resolves(r) \/ RefreshLocks(r)
  BY <1>1, <1>2, <1>3, RequestBeginsMoves, ResolvesMoves, RefreshLocksMoves DEF Becomes
<1>4. CASE Refreshes(r) \/ Persists(r) \/ PersistFails(r)
  BY <1>1, <1>2, <1>4, RefreshesMoves DEF Becomes, Persists, PersistFails
<1> QED BY <1>3, <1>4 DEF Proxies

LEMMA RemoteFlows == ASSUME RemoteInv, FlowInv, RemoteNext, UNCHANGED credentialVars PROVE FlowInv'
<1> USE ConstantsAre
<1>1. UNCHANGED <<desk, flowOf>>
  BY DEF credentialVars
<1>2. ASSUME NEW c \in Calls, quietCall(c) PROVE FlowInv'
  BY <1>1, <1>2, QuietCallMoves, WorkerKeepsFlows
<1>3. ASSUME NEW c \in Calls, Adds(c) \/ Authorizes(c) \/ Changes(c) PROVE FlowInv'
  BY <1>2, <1>3, AddRemoteMCPFlows, AddStoresFlows DEF Adds, Authorizes, Changes, quietCall
<1>4. ASSUME NEW h \in Handlers, CallbackExchanges(h) \/ CallbackLoads(h) \/ CallbackStoreFails(h) PROVE FlowInv'
  <2>1. UNCHANGED <<callbackVars, added>>
    BY <1>4 DEF CallbackExchanges, CallbackLoads, CallbackStoreFails, historyVars
  <2>2. CallbackStoreFails(h) => Becomes(h, "failing", work[h].of, work[h].copy, work[h].got, work[h].style) /\ at(h, "storing")
    BY MovesTo DEF CallbackStoreFails, RemoteInv, Works, Steps
  <2>3. Alone(h) /\ work'[h].of = work[h].of /\ work[h].at # "idle"
    BY <1>4, <2>2, CallbackExchangesMoves, CallbackLoadsMoves DEF Becomes, at
  <2> QED BY <1>1, <2>1, <2>3, WorkerKeepsFlows
<1>5. ASSUME NEW h \in Handlers, Callback(h) PROVE FlowInv'
  <2>1. CASE CallbackTakes(h)
    BY <2>1, <1>5, CallbackTakesFlows
  <2>2. CASE CallbackStores(h) \/ CallbackFails(h)
    BY <2>2, <1>5, CallbackClosesFlows
  <2> QED BY <1>4, <1>5, <2>1, <2>2 DEF Callback
<1>6. ASSUME NEW r \in Requests, Proxies(r) PROVE FlowInv'
  BY <1>1, <1>6, ProxiesMoves, WorkerKeepsFlows
<1>7. ASSUME \/ \E ch \in Channels : RemoveChannelFromAll(ch)
             \/ TokenExpires \/ ExchangeExpires \/ AgentRestarts
      PROVE FlowInv'
  <2>1. UNCHANGED <<callbackVars, added, work>>
    BY <1>7 DEF RemoveChannelFromAll, TokenExpires, ExchangeExpires, AgentRestarts, historyVars
  <2> QED BY <1>1, <2>1, StillKeepsFlows
<1> QED BY <1>3, <1>5, <1>6, <1>7 DEF RemoteNext

(* The calls and requests of the credential sets likewise. *)
quietClerk(c) ==
    \/ \E l \in Labels : AddLists(c, l) \/ RemoveLists(c, l) \/ RefreshReads(c, l)
    \/ \E l \in Labels, field \in Fields : Clears(c, l, field)
    \/ RemoveDropsTokens(c) \/ RemoveSavesSets(c) \/ RefreshExchanges(c) \/ RefreshKeeps(c)

LEMMA QuietClerkMoves ==
    ASSUME CredentialInv, NEW c \in Clerks, quietClerk(c)
    PROVE  Only(c) /\ desk'[c].flow \in {0, desk[c].flow} /\ UNCHANGED <<callbackVars, flowOf>>
<1> USE CredentialConstants
<1>1. ASSUME NEW l \in Labels, AddLists(c, l) \/ RemoveLists(c, l)
      PROVE  Only(c) /\ desk'[c].flow \in {0, desk[c].flow} /\ UNCHANGED <<callbackVars, flowOf>>
  BY <1>1, ListsMoves DEF Sits
<1>2. ASSUME NEW l \in Labels, RefreshReads(c, l)
      PROVE  Only(c) /\ desk'[c].flow \in {0, desk[c].flow} /\ UNCHANGED <<callbackVars, flowOf>>
  BY <1>2, RefreshReadsMoves DEF Sits, RefreshReads
<1>3. ASSUME NEW l \in Labels, NEW field \in Fields, Clears(c, l, field)
      PROVE  Only(c) /\ desk'[c].flow \in {0, desk[c].flow} /\ UNCHANGED <<callbackVars, flowOf>>
  BY <1>3, ClearsMoves DEF Sits, Clears
<1>4. CASE RemoveDropsTokens(c) \/ RemoveSavesSets(c)
  BY <1>4, RemovesMoves DEF Sits, RemoveDropsTokens, RemoveSavesSets
<1>5. CASE RefreshExchanges(c) \/ RefreshKeeps(c)
  BY <1>5, RefreshExchangesMoves, RefreshKeepsMoves DEF Sits, RefreshExchanges, RefreshKeeps
<1> QED BY <1>1, <1>2, <1>3, <1>4, <1>5 DEF quietClerk

LEMMA CredentialsFlows ==
    ASSUME RemoteInv, CredentialInv, FlowInv, CredentialsNext, UNCHANGED remoteVars
    PROVE  FlowInv'
<1> USE CredentialConstants
<1>1. UNCHANGED <<work, added>>
  BY DEF remoteVars
<1>2. ASSUME NEW c \in Clerks, quietClerk(c) PROVE FlowInv'
  BY <1>1, <1>2, QuietClerkMoves, DeskKeepsFlows
<1>3. ASSUME \/ FormAges
             \/ \E l \in Labels : GrantExpires(l)
             \/ \E c \in Clerks, l \in Labels : FormRequested(c, l)
      PROVE  FlowInv'
  <2>1. UNCHANGED <<callbackVars, flowOf, desk>>
    BY <1>3 DEF FormAges, GrantExpires, FormRequested
  <2> QED BY <1>1, <2>1, StillKeepsFlows
<1>4. ASSUME NEW c \in Clerks, Clerk(c) PROVE FlowInv'
  BY <1>2, <1>3, <1>4, AddSavesFlows DEF Clerk, quietClerk
<1>5. ASSUME NEW v \in Visits,
             RedirectExchanges(v) \/ RedirectStores(v) \/ FormPosted(v) \/ FormStores(v) \/ FormSubmitted(v)
      PROVE FlowInv'
  <2>1. UNCHANGED <<callbackVars, flowOf>>
    BY <1>5 DEF RedirectExchanges, RedirectStores, FormPosted, FormStores, FormSubmitted
  <2>2. Only(v) /\ desk'[v].flow \in {0, desk[v].flow}
    BY <1>5, RedirectExchangesMoves, VisitsMoves, FormPostedMoves, FormStoresMoves DEF Sits
  <2> QED BY <1>1, <2>1, <2>2, DeskKeepsFlows
<1>6. ASSUME NEW v \in Visits, Visit(v) PROVE FlowInv'
  <2>1. CASE RedirectTakes(v)
    BY <2>1, <1>6, RedirectTakesFlows
  <2>2. CASE RedirectRefuses(v)
    <3>1. v \in Desks /\ (NotifyRegisters(v) \/ (v \in Visits /\ RedirectRefuses(v)))
      BY <2>2, <1>6
    <3> QED BY <3>1, RedirectClosesFlows
  <2> QED BY <1>5, <1>6, <2>1, <2>2 DEF Visit
<1>7. ASSUME NEW d \in Desks, NotifyReads(d) \/ DeskFails(d) PROVE FlowInv'
  <2>1. UNCHANGED <<callbackVars, flowOf>>
    BY <1>7 DEF NotifyReads, DeskFails
  <2>2. Only(d) /\ desk'[d].flow \in {0, desk[d].flow}
    BY <1>7, NotifyReadsMoves, DeskFailsMoves DEF Sits
  <2> QED BY <1>1, <1>7, <2>1, <2>2, DeskKeepsFlows
<1>8. ASSUME NEW d \in Desks, NotifyRegisters(d) PROVE FlowInv'
  BY <1>8, RedirectClosesFlows
<1> QED BY <1>3, <1>4, <1>6, <1>7, <1>8 DEF CredentialsNext
-----------------------------------------------------------------------------
(* The two sides together.                                                 *)

ConnectionsInv == RemoteInv /\ CredentialInv /\ FlowInv

LEMMA ConnectionsBegin == ASSUME ConnectionsInit PROVE ConnectionsInv
<1> USE ConstantsAre, CredentialConstants, NothingTyped, RestTyped
<1>1. /\ pending = {} /\ aged = {} /\ reaping = 0 /\ closed = [f \in Flows |-> 0] /\ faults = 0
      /\ registered = NoEntry /\ secret = NoAuth /\ work = [w \in Workers |-> Idle]
      /\ listLock = Nobody /\ refreshLock = Nobody /\ live = Channels /\ changed = FALSE /\ stale = FALSE
      /\ redeemed = {} /\ spent = {} /\ minted = 0 /\ added = 0
      /\ replayed = FALSE /\ straddled = FALSE /\ misdirected = FALSE
      /\ desk = [d \in Desks |-> AtRest]
  BY DEF ConnectionsInit, CallbackInit, RemoteInit, CredentialsInit
<1>2. CallbackTypeOK
  BY <1>1 DEF CallbackTypeOK
<1>3. \A w \in Workers : work[w] = Idle /\ work[w].at = "idle"
  BY <1>1
<1>4. work \in [Workers -> Work] /\ \A w \in Workers : workSound(w)
  BY <1>1, <1>3 DEF workSound, stepsOf, sound, carrying, at, Workers
<1>5. Numbers
  BY <1>1 DEF Numbers
<1>6. Switches
  <2>1. live \subseteq Channels
    BY <1>1
  <2>2. /\ changed \in BOOLEAN /\ stale \in BOOLEAN /\ replayed \in BOOLEAN
        /\ straddled \in BOOLEAN /\ misdirected \in BOOLEAN
    BY <1>1, Zenon
  <2> QED BY <2>1, <2>2 DEF Switches
<1>7. registrationSound /\ secret \in RemoteMCPAuth /\ sound(secret)
  BY <1>1 DEF registrationSound, registers, sound
<1>8. Locked /\ Mended
  BY <1>1, <1>3 DEF Locked, Mended, at
<1>9. RemoteInv
  BY <1>2, <1>4, <1>5, <1>6, <1>7, <1>8 DEF RemoteInv, Works
<1>10. CredentialInv
  BY CredentialsBegin DEF ConnectionsInit
<1>11. FlowInv
  <2>1. \A d \in Desks : desk[d].flow = 0
    BY <1>1
  <2>2. StorersSound /\ AnswersSound /\ RedirectsSound /\ {d \in Calls : at(d, "storing")} = {}
    BY <1>3, <2>1 DEF StorersSound, AnswersSound, RedirectsSound, at, answering, redirecting
  <2>3. unused \subseteq Flows
    <3>1. 1 .. MaxAdds \subseteq Flows /\ {work[c].of : c \in {d \in Calls : at(d, "storing")}} = {}
      BY <2>2 DEF Flows
    <3> QED BY <3>1 DEF unused
  <2>4. FlowsSound
    BY <1>1, <2>3 DEF FlowsSound, AnsweredOnce
  <2> QED BY <2>2, <2>4 DEF FlowInv
<1> QED BY <1>9, <1>10, <1>11 DEF ConnectionsInv

(* The other side's steps: they touch the callback server at most. *)
LEMMA CallbackMoves ==
    ASSUME ConnectionsInv, CredentialsNext
    PROVE  CallbackTypeOK' /\ faults' \in faults .. MaxFaults
<1> USE ConstantsAre, CredentialConstants DEF ConnectionsInv
<1>1. CallbackTypeOK
  BY DEF RemoteInv
<1>2. UNCHANGED callbackVars => CallbackTypeOK'
  BY <1>1 DEF callbackVars, CallbackTypeOK
<1>3. ASSUME NEW f, Closes(f), UNCHANGED <<pending, aged, reaping>> PROVE CallbackTypeOK'
  BY <1>1, <1>3, ClosesTyped DEF CallbackTypeOK
<1>4. faults \in 0 .. MaxFaults
  BY DEF RemoteInv, Numbers
<1>5. ASSUME NEW c \in Clerks, Clerk(c) PROVE CallbackTypeOK' /\ UNCHANGED faults
  <2>1. ASSUME AddSaves(c) PROVE CallbackTypeOK' /\ UNCHANGED faults
    BY <1>1, <1>2, <2>1, AddSavesMoves DEF RegisterFlow, CallbackTypeOK, freeFlows
  <2>2. ASSUME NEW l \in Labels,
               \/ AddLists(c, l) \/ RemoveLists(c, l) \/ RefreshReads(c, l) \/ FormRequested(c, l)
               \/ \E field \in Fields : Clears(c, l, field)
        PROVE  UNCHANGED <<callbackVars, faults>>
    BY <2>2 DEF AddLists, RemoveLists, RefreshReads, FormRequested, Clears
  <2>3. RemoveDropsTokens(c) \/ RemoveSavesSets(c) \/ RefreshExchanges(c) \/ RefreshKeeps(c)
            => UNCHANGED <<callbackVars, faults>>
    BY DEF RemoveDropsTokens, RemoveSavesSets, RefreshExchanges, RefreshKeeps
  <2> QED BY <1>2, <1>5, <2>1, <2>2, <2>3 DEF Clerk
<1>6. ASSUME NEW v \in Visits, Visit(v) PROVE CallbackTypeOK' /\ UNCHANGED faults
  <2>1. ASSUME RedirectTakes(v) PROVE CallbackTypeOK' /\ UNCHANGED faults
    BY <1>1, <2>1 DEF RedirectTakes, TakesOut, CallbackTypeOK
  <2>2. ASSUME RedirectRefuses(v) PROVE CallbackTypeOK' /\ UNCHANGED faults
    BY <1>3, <2>2 DEF RedirectRefuses
  <2>3. RedirectExchanges(v) \/ RedirectStores(v) \/ FormPosted(v) \/ FormStores(v) \/ FormSubmitted(v)
            => UNCHANGED <<callbackVars, faults>>
    BY DEF RedirectExchanges, RedirectStores, FormPosted, FormStores, FormSubmitted
  <2> QED BY <1>2, <1>6, <2>1, <2>2, <2>3 DEF Visit
<1>7. ASSUME NEW d \in Desks, NotifyReads(d) \/ NotifyRegisters(d) \/ DeskFails(d)
      PROVE  CallbackTypeOK' /\ faults' \in faults .. MaxFaults
  <2>1. ASSUME NotifyReads(d) PROVE UNCHANGED <<callbackVars, faults>>
    BY <2>1 DEF NotifyReads
  <2>2. ASSUME NotifyRegisters(d) PROVE CallbackTypeOK' /\ UNCHANGED faults
    BY <1>2, <1>3, <2>2, NotifyRegistersMoves
  <2>3. ASSUME DeskFails(d) PROVE UNCHANGED callbackVars /\ faults' \in faults .. MaxFaults
    BY <2>3, Lapses DEF DeskFails
  <2> QED BY <1>2, <1>4, <1>7, <2>1, <2>2, <2>3
<1>8. FormAges \/ (\E l \in Labels : GrantExpires(l)) => UNCHANGED <<callbackVars, faults>>
  BY DEF FormAges, GrantExpires
<1> QED BY <1>2, <1>4, <1>5, <1>6, <1>7, <1>8 DEF CredentialsNext

LEMMA RemoteKept ==
    ASSUME RemoteInv, UNCHANGED remoteVars, CallbackTypeOK', faults' \in faults .. MaxFaults
    PROVE  RemoteInv'
<1>1. /\ UNCHANGED <<work, listLock, refreshLock, serverVars, added, replayed, straddled, misdirected>>
      /\ UNCHANGED <<registered, secret, live, changed, stale>>
  BY DEF remoteVars, storeVars, agentVars
<1>2. registrationSound' /\ secret' \in RemoteMCPAuth /\ sound(secret)'
  BY <1>1 DEF RemoteInv, registrationSound, registers, sound, serverVars
<1> QED BY <1>1, <1>2, StillTyped DEF RemoteInv, Switches

LEMMA CredentialsKept == ASSUME CredentialInv, UNCHANGED credentialVars PROVE CredentialInv'
  BY DEF CredentialInv, credentialVars, storeOfSets, deskSound, granted, resting, is

LEMMA RestartsTyped == ASSUME RemoteInv, Restarts PROVE RemoteInv'
<1> USE ConstantsAre, NothingTyped
<1>1. /\ work' = [w \in Workers |-> Idle] /\ listLock' = Nobody /\ refreshLock' = Nobody
      /\ changed' = FALSE /\ stale' = FALSE
      /\ UNCHANGED <<registered, secret, live, serverVars, added, replayed, straddled, misdirected>>
  BY DEF Restarts, RemoteRestart
<1>2. faults' \in 0 .. MaxFaults
  BY DEF Restarts, lapses, RemoteInv, Numbers
<1>3. CallbackTypeOK'
  <2>1. CallbackLost => CallbackTypeOK'
    BY DEF CallbackLost, RemoteInv, CallbackTypeOK
  <2>2. ReaperPanics => CallbackTypeOK'
    BY ClosesTyped DEF ReaperPanics, RemoteInv, CallbackTypeOK
  <2> QED BY <2>1, <2>2 DEF Restarts
<1>4. \A w \in Workers : work'[w] = Idle /\ work'[w].at = "idle"
  BY <1>1
<1>5. Works'
  <2>1. \A w \in Workers : workSound(w)'
    BY <1>4, IdleSound
  <2> QED BY <1>1, <2>1 DEF Works
<1>6. Locked' /\ Mended'
  BY <1>1, <1>4 DEF Locked, Mended, at
<1>7. Numbers' /\ registrationSound' /\ secret' \in RemoteMCPAuth /\ sound(secret)'
  BY <1>1, <1>2 DEF RemoteInv, Numbers, registrationSound, registers, sound, serverVars
<1>8. Switches'
  <2>1. changed' \in BOOLEAN /\ stale' \in BOOLEAN
    BY <1>1, Zenon
  <2> QED BY <1>1, <2>1 DEF RemoteInv, Switches
<1> QED BY <1>3, <1>5, <1>6, <1>7, <1>8 DEF RemoteInv

LEMMA FlowsAgeTyped == ASSUME RemoteInv, FlowsAge PROVE CallbackTypeOK' /\ UNCHANGED <<faults, remoteVars, credentialVars>>
<1>1. CallbackTypeOK
  BY DEF RemoteInv
<1>2. (\E f \in Flows : FlowAges(f) \/ ReaperSees(f)) => CallbackTypeOK'
  BY <1>1 DEF FlowAges, ReaperSees, CallbackTypeOK
<1>3. ReaperFails => CallbackTypeOK'
  BY <1>1, ClosesTyped, ConstantsAre DEF ReaperFails, CallbackTypeOK
<1> QED BY <1>2, <1>3 DEF FlowsAge

LEMMA ConnectionsTyped == ASSUME ConnectionsInv, ConnectionsNext PROVE ConnectionsInv'
<1> USE DEF ConnectionsInv
<1>1. CASE RemoteNext /\ UNCHANGED credentialVars
  BY <1>1, RemoteTyped, RemoteFlows, CredentialsKept
<1>2. CASE CredentialsNext /\ UNCHANGED remoteVars
  BY <1>2, CallbackMoves, RemoteKept, CredentialsTyped, PendingIsOfASet, CredentialsFlows
<1>3. CASE FlowsAge
  <2>1. faults \in Nat /\ faults \in faults .. MaxFaults
    BY ConstantsAre DEF RemoteInv, Numbers
  <2> QED BY <1>3, <2>1, FlowsAgeTyped, RemoteKept, CredentialsKept, FlowsAgeFlows
<1>4. CASE Restarts
  <2>1. CredentialsRestart
    BY <1>4 DEF Restarts
  <2> QED BY <1>4, <2>1, RestartsTyped, CredentialsRestartTyped, RestartsFlows
<1> QED BY <1>1, <1>2, <1>3, <1>4 DEF ConnectionsNext

LEMMA ConnectionsStutter ==
    ASSUME ConnectionsInv, UNCHANGED connectionVars
    PROVE  ConnectionsInv'
<1> USE DEF ConnectionsInv
<1>1. UNCHANGED <<callbackVars, faults, remoteVars, credentialVars, work, added, desk, flowOf>>
  BY DEF connectionVars, remoteVars, credentialVars
<1>2. CallbackTypeOK' /\ faults' \in faults .. MaxFaults
  BY <1>1, CallbackKept, ConstantsAre DEF RemoteInv, Numbers
<1> QED BY <1>1, <1>2, RemoteKept, CredentialsKept, StillKeepsFlows
-----------------------------------------------------------------------------
(* A refresh token is presented once.                                      *)

(* Before a write fails: a token that was used up is in the store only     *)
(* while the request that used it holds the lock, what is about to be      *)
(* presented is unused, and what is about to be stored is new and nobody   *)
(* else's.                                                                 *)
mintsUnspent(w) == at(w, "minting") => work[w].copy.token.n \notin spent

carriesNew(w) ==
    carrying(w) =>
        /\ work[w].got.n \notin spent \cup {secret.token.n}
        /\ \A v \in Workers : at(v, "minting") => work[v].copy.token.n # work[w].got.n
        /\ \A v \in Workers : carrying(v) /\ work[v].got.n = work[w].got.n => v = w

TokensUnspent ==
    /\ ~ replayed
    /\ secret.token.n \in spent => refreshLock \in Requests /\ at(refreshLock, "persisting")
    /\ \A w \in Workers : mintsUnspent(w) /\ carriesNew(w)

RefreshInv == faults = 0 => TokensUnspent

LEMMA TokensAre ==
    ASSUME RemoteInv
    PROVE  /\ minted \in Nat /\ spent \subseteq 1 .. minted /\ 0 \notin spent /\ minted + 1 \notin spent
           /\ secret.token.n \in 0 .. minted /\ secret \in RemoteMCPAuth
           /\ \A w \in Workers :
                 /\ work[w].copy \in RemoteMCPAuth /\ work[w].copy.token.n \in 0 .. minted
                 /\ carrying(w) => work[w].got.n \in 1 .. minted
                 /\ at(w, "minting") => work[w].copy.token.n \in 1 .. minted /\ refreshLock = w
                 /\ at(w, "persisting") => refreshLock = w
<1>1. minted \in Nat /\ spent \subseteq 1 .. minted
  BY ConstantsAre DEF RemoteInv, Numbers
<1>2. 0 \notin spent /\ minted + 1 \notin spent
  BY <1>1
<1>3. secret.token.n \in 0 .. minted /\ secret \in RemoteMCPAuth
  BY <1>1, NothingBegins DEF RemoteInv, sound
<1>4. ASSUME NEW w \in Workers
      PROVE  /\ work[w].copy \in RemoteMCPAuth /\ work[w].copy.token.n \in 0 .. minted
             /\ carrying(w) => work[w].got.n \in 1 .. minted
             /\ at(w, "minting") => work[w].copy.token.n \in 1 .. minted /\ refreshLock = w
             /\ at(w, "persisting") => refreshLock = w
  BY <1>1, NothingBegins DEF RemoteInv, Works, Work, workSound, sound, Locked, at
<1> QED BY <1>1, <1>2, <1>3, <1>4

(* One worker moves, and no token with it. *)
LEMMA TokensKept ==
    ASSUME RemoteInv, TokensUnspent, NEW w \in Workers, Alone(w),
           UNCHANGED <<minted, spent, replayed, refreshLock>>, secret'.token.n \in {0, secret.token.n},
           ~ at(w, "persisting"), ~ at(w, "minting")',
           carrying(w)' => carrying(w) /\ work'[w].got = work[w].got
    PROVE  TokensUnspent'
<1> USE ConstantsAre, TokensAre
<1>1. \A v \in Workers : v # w => work'[v] = work[v]
  BY DEF Alone
<1>2. \A v \in Workers : at(v, "minting")' => at(v, "minting") /\ work'[v].copy = work[v].copy
  BY <1>1 DEF at
<1>3. \A v \in Workers : carrying(v)' => carrying(v) /\ work'[v].got = work[v].got
  BY <1>1 DEF carrying, at
<1>4. secret'.token.n \in spent' => refreshLock' \in Requests /\ at(refreshLock, "persisting")'
  BY <1>1 DEF TokensUnspent, at
<1>5. ASSUME NEW v \in Workers PROVE mintsUnspent(v)'
  BY <1>2 DEF TokensUnspent, mintsUnspent
<1>6. ASSUME NEW v \in Workers PROVE carriesNew(v)'
  <2> SUFFICES ASSUME carrying(v)' PROVE carriesNew(v)'
    BY DEF carriesNew
  <2>1. carrying(v) /\ work'[v].got = work[v].got /\ carriesNew(v) /\ work[v].got.n \in 1 .. minted
    BY <1>3 DEF TokensUnspent
  <2> QED BY <1>2, <1>3, <2>1 DEF carriesNew
<1> QED BY <1>4, <1>5, <1>6 DEF TokensUnspent

(* Nobody moves, and the token stays. *)
LEMMA TokensStay ==
    ASSUME TokensUnspent, UNCHANGED <<work, spent, replayed, refreshLock>>, secret'.token = secret.token
    PROVE  TokensUnspent'
  BY DEF TokensUnspent, mintsUnspent, carriesNew, carrying, at

(* A new token is issued. *)
LEMMA TokenMinted ==
    ASSUME RemoteInv, TokensUnspent, NEW w \in Workers, Alone(w), ~ at(w, "persisting"),
           UNCHANGED <<spent, replayed, refreshLock, secret>>, minted' = minted + 1,
           work'[w].got.n = minted + 1, work'[w].at \in {"keeping", "loading"}
    PROVE  TokensUnspent'
<1> USE ConstantsAre, TokensAre
<1>1. \A v \in Workers : v # w => work'[v] = work[v]
  BY DEF Alone
<1>2. \A v \in Workers : at(v, "minting")' => at(v, "minting") /\ work'[v].copy = work[v].copy
  BY <1>1 DEF at
<1>3. \A v \in Workers : v # w /\ carrying(v)' => carrying(v) /\ work'[v].got = work[v].got
  BY <1>1 DEF carrying, at
<1>4. secret'.token.n \in spent' => refreshLock' \in Requests /\ at(refreshLock, "persisting")'
  BY <1>1 DEF TokensUnspent, at
<1>5. ASSUME NEW v \in Workers PROVE mintsUnspent(v)'
  BY <1>2 DEF TokensUnspent, mintsUnspent
<1>6. ASSUME NEW v \in Workers PROVE carriesNew(v)'
  <2>1. CASE v = w
    <3>1. \A u \in Workers : at(u, "minting")' => work'[u].copy.token.n \in 1 .. minted
      BY <1>2
    <3>2. \A u \in Workers : u # w /\ carrying(u)' => work'[u].got.n \in 1 .. minted
      BY <1>3
    <3> QED BY <2>1, <3>1, <3>2 DEF carriesNew
  <2>2. CASE v # w /\ carrying(v)'
    <3>1. carrying(v) /\ work'[v].got = work[v].got /\ carriesNew(v) /\ work[v].got.n \in 1 .. minted
      BY <1>3, <2>2 DEF TokensUnspent
    <3> QED BY <1>2, <1>3, <3>1 DEF carriesNew
  <2> QED BY <2>1, <2>2 DEF carriesNew
<1> QED BY <1>4, <1>5, <1>6 DEF TokensUnspent

(* A new token is stored. *)
LEMMA TokenStored ==
    ASSUME RemoteInv, TokensUnspent, NEW w \in Workers, Alone(w), carrying(w),
           UNCHANGED <<minted, spent, replayed>>, secret'.token = work[w].got,
           work'[w].at \in {"reading", "idle"}
    PROVE  TokensUnspent'
<1> USE ConstantsAre, TokensAre
<1>1. \A v \in Workers : v # w => work'[v] = work[v]
  BY DEF Alone
<1>2. \A v \in Workers : at(v, "minting")' => at(v, "minting") /\ work'[v].copy = work[v].copy
  BY <1>1 DEF at
<1>3. \A v \in Workers : carrying(v)' => v # w /\ carrying(v) /\ work'[v].got = work[v].got
  BY <1>1 DEF carrying, at
<1>4. carriesNew(w) /\ secret'.token.n = work[w].got.n
  BY DEF TokensUnspent
<1>5. secret'.token.n \notin spent'
  BY <1>4 DEF carriesNew
<1>6. ASSUME NEW v \in Workers PROVE mintsUnspent(v)'
  BY <1>2 DEF TokensUnspent, mintsUnspent
<1>7. ASSUME NEW v \in Workers PROVE carriesNew(v)'
  <2> SUFFICES ASSUME carrying(v)' PROVE carriesNew(v)'
    BY DEF carriesNew
  <2>1. v # w /\ carrying(v) /\ work'[v].got = work[v].got /\ carriesNew(v)
    BY <1>3 DEF TokensUnspent
  <2> QED BY <1>2, <1>3, <1>4, <2>1 DEF carriesNew
<1> QED BY <1>5, <1>6, <1>7 DEF TokensUnspent

(* The lock is taken: what the store has is not used up. *)
LEMMA RefreshLocksTokens ==
    ASSUME RemoteInv, TokensUnspent, NEW r \in Requests, RefreshLocks(r)
    PROVE  TokensUnspent'
<1> USE ConstantsAre, TokensAre
<1>1. UNCHANGED <<secret, minted, spent, replayed>>
  BY DEF RefreshLocks, storeVars, serverVars
<1>2. at(r, "refreshing") /\ refreshLock = Nobody
  BY RefreshLocksMoves
<1>3. CASE refreshLock' = r /\ Becomes(r, "minting", work[r].of, secret, work[r].got, work[r].style)
  <2>1. \A v \in Workers : v # r => work'[v] = work[v]
    BY <1>3 DEF Becomes, Alone
  <2>2. secret.token.n \notin spent
    BY <1>2 DEF TokensUnspent
  <2>3. \A v \in Workers : at(v, "minting")' => v = r
    <3>1. \A v \in Workers : at(v, "minting") => v \in Requests
      BY DEF RemoteInv, Works, workSound, stepsOf, at
    <3> QED BY <1>2, <2>1, <3>1 DEF at
  <2>4. \A v \in Workers : carrying(v)' => v # r /\ carrying(v) /\ work'[v].got = work[v].got
    BY <1>3, <2>1 DEF carrying, at, Becomes
  <2>5. ASSUME NEW v \in Workers PROVE mintsUnspent(v)'
    BY <1>1, <1>3, <2>2, <2>3 DEF mintsUnspent, Becomes
  <2>6. ASSUME NEW v \in Workers PROVE carriesNew(v)'
    <3> SUFFICES ASSUME carrying(v)' PROVE carriesNew(v)'
      BY DEF carriesNew
    <3>1. v # r /\ carrying(v) /\ work'[v].got = work[v].got /\ carriesNew(v)
      BY <2>4 DEF TokensUnspent
    <3>2. work'[r].copy = secret
      BY <1>3 DEF Becomes
    <3> QED BY <1>1, <2>3, <2>4, <3>1, <3>2 DEF carriesNew
  <2> QED BY <1>1, <2>2, <2>5, <2>6 DEF TokensUnspent
<1>4. CASE returns(r) /\ UNCHANGED refreshLock
  <2>1. Becomes(r, "idle", 0, NoAuth, NoToken, "none")
    BY <1>4, ReturnsTo DEF RemoteInv, Works
  <2> QED BY <1>1, <1>2, <1>4, <2>1, TokensKept DEF Becomes, carrying, at
<1> QED BY <1>3, <1>4, RefreshLocksMoves

(* The token is presented, under the lock. *)
LEMMA RefreshesTokens ==
    ASSUME RemoteInv, TokensUnspent, NEW r \in Requests, Refreshes(r)
    PROVE  TokensUnspent'
<1> USE ConstantsAre, TokensAre
<1>1. UNCHANGED secret /\ at(r, "minting") /\ refreshLock = r /\ work[r].copy.token.n \notin spent
  BY RefreshesMoves DEF Refreshes, storeVars, TokensUnspent, mintsUnspent
<1>2. ~ replayed'
  BY <1>1, RefreshesMoves DEF TokensUnspent
<1>3. \A v \in Workers : v # r => ~ at(v, "minting") /\ ~ at(v, "persisting")
  BY <1>1
<1>4. ASSUME NEW token \in Token, minted' = minted + 1, spent' = spent \cup {work[r].copy.token.n},
             token.n = minted + 1, UNCHANGED refreshLock,
             Becomes(r, "persisting", work[r].of, work[r].copy, token, work[r].style)
      PROVE  TokensUnspent'
  <2>1. \A v \in Workers : v # r => work'[v] = work[v]
    BY <1>4 DEF Becomes, Alone
  <2>2. \A v \in Workers : ~ at(v, "minting")'
    BY <1>3, <1>4, <2>1 DEF at, Becomes
  <2>3. \A v \in Workers : v # r /\ carrying(v)' => carrying(v) /\ work'[v].got = work[v].got
    BY <2>1 DEF carrying, at
  <2>4. at(refreshLock, "persisting")' /\ refreshLock' \in Requests
    BY <1>1, <1>4 DEF at, Becomes
  <2>5. ASSUME NEW v \in Workers PROVE carriesNew(v)'
    <3>1. CASE v = r
      <4>1. work'[r].got.n = minted + 1
        BY <1>4 DEF Becomes
      <4>2. \A u \in Workers : u # r /\ carrying(u)' => work'[u].got.n \in 1 .. minted
        BY <2>3
      <4>3. minted + 1 \notin spent' \cup {secret.token.n}
        BY <1>1, <1>4
      <4> QED BY <1>1, <2>2, <3>1, <4>1, <4>2, <4>3 DEF carriesNew
    <3>2. CASE v # r /\ carrying(v)'
      <4>1. carrying(v) /\ work'[v].got = work[v].got /\ carriesNew(v) /\ work[v].got.n \in 1 .. minted
        BY <2>3, <3>2 DEF TokensUnspent
      <4>2. work'[r].got.n = minted + 1 /\ work[v].got.n # work[r].copy.token.n
        BY <1>1, <1>4, <4>1 DEF Becomes, carriesNew
      <4> QED BY <1>1, <1>4, <2>2, <2>3, <4>1, <4>2 DEF carriesNew
    <3> QED BY <3>1, <3>2 DEF carriesNew
  <2> QED BY <1>2, <2>2, <2>4, <2>5 DEF TokensUnspent, mintsUnspent
<1>5. CASE refreshLock' = Nobody /\ returns(r) /\ UNCHANGED <<minted, spent>>
  <2>1. Becomes(r, "idle", 0, NoAuth, NoToken, "none")
    BY <1>5, ReturnsTo DEF RemoteInv, Works
  <2>2. \A v \in Workers : v # r => work'[v] = work[v]
    BY <2>1 DEF Becomes, Alone
  <2>3. secret.token.n \notin spent
    BY <1>1 DEF TokensUnspent, at
  <2>4. \A v \in Workers : ~ at(v, "minting")'
    BY <1>3, <2>1, <2>2 DEF at, Becomes
  <2>5. \A v \in Workers : carrying(v)' => carrying(v) /\ work'[v].got = work[v].got
    BY <2>1, <2>2 DEF carrying, at, Becomes
  <2>6. ASSUME NEW v \in Workers PROVE carriesNew(v)'
    BY <1>1, <1>5, <2>4, <2>5 DEF TokensUnspent, carriesNew
  <2> QED BY <1>1, <1>2, <1>5, <2>3, <2>4, <2>6 DEF TokensUnspent, mintsUnspent
<1> QED BY <1>4, <1>5, RefreshesMoves
LEMMA FaultsCount == ASSUME RemoteInv, lapses PROVE faults' > 0
  BY Lapses

LEMMA FaultsStay == ASSUME RefreshInv, UNCHANGED faults, TokensUnspent => TokensUnspent' PROVE RefreshInv'
  BY DEF RefreshInv

LEMMA CallTokens ==
    ASSUME RemoteInv, RefreshInv, NEW c \in Calls, Adds(c) \/ Authorizes(c) \/ Changes(c)
    PROVE  RefreshInv'
<1> USE ConstantsAre, TokensAre
<1>1. CASE CallFails(c) \/ RemoveFails(c)
  BY <1>1, FaultsCount DEF CallFails, RemoveFails, RefreshInv
<1>2. CASE AddRemoteMCP(c)
  <2>1. /\ UNCHANGED <<minted, spent, replayed, refreshLock, secret, faults>> /\ at(c, "idle")
        /\ Alone(c) /\ work'[c].at \in {"announcing", "storing"}
    BY <1>2, AddRemoteMCPMoves DEF AddRemoteMCP, serverVars, Becomes
  <2> QED BY <2>1, TokensKept, FaultsStay DEF carrying, at
<1>3. CASE AddStores(c)
  <2>1. /\ UNCHANGED <<minted, spent, replayed, refreshLock, faults>> /\ at(c, "storing") /\ secret'.token = NoToken
        /\ Alone(c) /\ work'[c].at \in {"announcing", "idle"}
    BY <1>3, AddStoresMoves DEF AddStores, serverVars, historyVars, Becomes
  <2> QED BY <2>1, TokensKept, FaultsStay, NothingBegins DEF carrying, at
<1>4. CASE Announces(c)
  <2>1. /\ UNCHANGED <<minted, spent, replayed, refreshLock, secret, faults>>
        /\ work[c].at \in {"announcing", "finalized"} /\ Becomes(c, "idle", 0, NoAuth, NoToken, "none")
    BY <1>4, ReturnsTo DEF Announces, storeVars, serverVars, historyVars, RemoteInv, Works, at
  <2> QED BY <2>1, TokensKept, FaultsStay DEF carrying, at, Becomes
<1>5. CASE WaitPolls(c) \/ CompleteBegins(c)
  <2>1. UNCHANGED <<minted, spent, replayed, refreshLock, secret, faults>>
    BY <1>5 DEF WaitPolls, CompleteBegins, storeVars, serverVars
  <2>2. at(c, "idle") /\ Alone(c) /\ work'[c].at \in {"reading", "exchanging"}
    BY <1>5, WaitPollsMoves, CompleteBeginsMoves DEF Becomes
  <2> QED BY <2>1, <2>2, TokensKept, FaultsStay DEF carrying, at
<1>6. CASE CompleteExchanges(c)
  <2>1. UNCHANGED <<spent, replayed, refreshLock, secret, faults>> /\ at(c, "exchanging")
    BY <1>6, CompleteExchangesMoves DEF CompleteExchanges, storeVars, historyVars
  <2>2. CASE UNCHANGED minted /\ Becomes(c, "idle", 0, NoAuth, NoToken, "none")
    BY <2>1, <2>2, TokensKept, FaultsStay DEF carrying, at, Becomes
  <2>3. ASSUME NEW token \in Token, minted' = minted + 1, token.n = minted + 1,
               Becomes(c, "keeping", work[c].of, work[c].copy, token, work[c].style)
        PROVE  RefreshInv'
    BY <2>1, <2>3, TokenMinted, FaultsStay DEF at, Becomes
  <2> QED BY <1>6, <2>2, <2>3, CompleteExchangesMoves
<1>7. CASE CompleteStores(c)
  <2>1. UNCHANGED <<minted, spent, replayed, faults>> /\ at(c, "keeping")
    BY <1>7 DEF CompleteStores, serverVars, historyVars
  <2>2. secret'.token = work[c].got /\ Alone(c) /\ work'[c].at = "reading"
    BY <1>7, CompleteStoresMoves DEF Becomes
  <2> QED BY <2>1, <2>2, TokenStored, FaultsStay DEF carrying, at
<1>8. CASE FinalizeReads(c) \/ FinalizeLists(c) \/ FinalizeNames(c)
  <2>1. UNCHANGED <<minted, spent, replayed, refreshLock, secret, faults>>
    BY <1>8 DEF FinalizeReads, FinalizeLists, FinalizeNames, storeVars, serverVars, historyVars
  <2>2. work[c].at \in {"reading", "listing", "naming"} /\ Alone(c) /\ work'[c].at \in {"idle", "listing", "naming", "finalized"}
    <3>1. (returns(c) => Becomes(c, "idle", 0, NoAuth, NoToken, "none"))
          /\ (moves(c, "finalized") => Becomes(c, "finalized", work[c].of, work[c].copy, work[c].got, work[c].style))
      BY ReturnsTo, MovesTo DEF RemoteInv, Works, Steps
    <3> QED BY <1>8, <3>1, FinalizeReadsMoves, FinalizeListsMoves, FinalizeNamesMoves DEF Becomes, at
  <2> QED BY <2>1, <2>2, TokensKept, FaultsStay DEF carrying, at
<1>9. CASE RemoveDeletes(c) \/ RemoveSaves(c) \/ SetChannels(c)
  <2>1. /\ UNCHANGED <<minted, spent, replayed, refreshLock, faults>>
        /\ work[c].at \in {"idle", "removing"} /\ secret' \in {secret, NoAuth}
    BY <1>9 DEF RemoveDeletes, RemoveSaves, SetChannels, serverVars, historyVars, at, begins
  <2>2. Alone(c) /\ work'[c].at \in {"removing", "announcing"}
    BY <1>9, MovesTo DEF RemoveDeletes, RemoveSaves, SetChannels, Becomes, RemoteInv, Works, Steps
  <2>3. secret'.token.n \in {0, secret.token.n}
    BY <2>1, NothingTyped, NothingBegins
  <2> QED BY <2>1, <2>2, <2>3, TokensKept, FaultsStay DEF carrying, at
<1> QED BY <1>1, <1>2, <1>3, <1>4, <1>5, <1>6, <1>7, <1>8, <1>9 DEF Adds, Authorizes, Changes

LEMMA CallbackTokens ==
    ASSUME RemoteInv, RefreshInv, NEW h \in Handlers, Callback(h)
    PROVE  RefreshInv'
<1> USE ConstantsAre, TokensAre
<1>1. CASE CallbackStoreFails(h)
  BY <1>1, FaultsCount DEF CallbackStoreFails, RefreshInv
<1>2. CASE CallbackTakes(h)
  <2>1. UNCHANGED <<minted, spent, replayed, refreshLock, secret, faults>> /\ at(h, "idle")
    BY <1>2, CallbackTakesMoves DEF CallbackTakes, storeVars, serverVars
  <2>2. Alone(h) /\ work'[h].at \in {"exchanging", "failing"}
    BY <1>2, CallbackTakesMoves DEF Becomes
  <2> QED BY <2>1, <2>2, TokensKept, FaultsStay DEF carrying, at
<1>3. CASE CallbackExchanges(h)
  <2>1. UNCHANGED <<spent, replayed, refreshLock, secret, faults>> /\ at(h, "exchanging")
    BY <1>3, CallbackExchangesMoves DEF CallbackExchanges, storeVars, historyVars
  <2>2. CASE UNCHANGED minted /\ Becomes(h, "failing", work[h].of, work[h].copy, work[h].got, work[h].style)
    BY <2>1, <2>2, TokensKept, FaultsStay DEF carrying, at, Becomes
  <2>3. ASSUME NEW token \in Token, minted' = minted + 1, token.n = minted + 1,
               Becomes(h, "loading", work[h].of, work[h].copy, token, work[h].style)
        PROVE  RefreshInv'
    BY <2>1, <2>3, TokenMinted, FaultsStay DEF at, Becomes
  <2> QED BY <1>3, <2>2, <2>3, CallbackExchangesMoves
<1>4. CASE CallbackLoads(h)
  <2>1. UNCHANGED <<minted, spent, replayed, refreshLock, secret, faults>> /\ at(h, "loading")
    BY <1>4, CallbackLoadsMoves DEF CallbackLoads, storeVars, serverVars, historyVars
  <2>2. Alone(h) /\ work'[h].at \in {"failing", "storing"} /\ work'[h].got = work[h].got
    BY <1>4, CallbackLoadsMoves DEF Becomes
  <2> QED BY <2>1, <2>2, TokensKept, FaultsStay DEF carrying, at
<1>5. CASE CallbackStores(h)
  <2>1. /\ UNCHANGED <<minted, spent, replayed, faults>> /\ at(h, "storing")
        /\ secret' = withToken(work[h].copy, work[h].got)
    BY <1>5 DEF CallbackStores, serverVars, historyVars
  <2>2. Becomes(h, "idle", 0, NoAuth, NoToken, "none")
    BY <1>5, ReturnsTo DEF CallbackStores, RemoteInv, Works
  <2>3. secret'.token = work[h].got
    BY <2>1, WithToken DEF RemoteInv, Works, Work
  <2> QED BY <2>1, <2>2, <2>3, TokenStored, FaultsStay DEF carrying, at, Becomes
<1>6. CASE CallbackFails(h)
  <2>1. UNCHANGED <<minted, spent, replayed, refreshLock, secret, faults>> /\ at(h, "failing")
    BY <1>6 DEF CallbackFails, storeVars, serverVars, historyVars
  <2>2. Becomes(h, "idle", 0, NoAuth, NoToken, "none")
    BY <1>6, ReturnsTo DEF CallbackFails, RemoteInv, Works
  <2> QED BY <2>1, <2>2, TokensKept, FaultsStay DEF carrying, at, Becomes
<1> QED BY <1>1, <1>2, <1>3, <1>4, <1>5, <1>6 DEF Callback

LEMMA ProxyTokens ==
    ASSUME RemoteInv, RefreshInv, NEW r \in Requests, Proxies(r)
    PROVE  RefreshInv'
<1> USE ConstantsAre, TokensAre
<1>1. CASE PersistFails(r)
  BY <1>1, FaultsCount DEF PersistFails, RefreshInv
<1>2. CASE RequestBegins(r) \/ Resolves(r)
  <2>1. UNCHANGED <<minted, spent, replayed, refreshLock, secret, faults>>
    BY <1>2 DEF RequestBegins, Resolves, storeVars, serverVars
  <2>2. returns(r) => Becomes(r, "idle", 0, NoAuth, NoToken, "none")
    BY ReturnsTo DEF RemoteInv, Works
  <2>3. work[r].at \in {"idle", "resolving"} /\ Alone(r) /\ work'[r].at \in {"idle", "resolving", "refreshing"}
    BY <1>2, <2>2, RequestBeginsMoves, ResolvesMoves DEF Becomes, at
  <2> QED BY <2>1, <2>3, TokensKept, FaultsStay DEF carrying, at
<1>3. CASE RefreshLocks(r) \/ Refreshes(r)
  <2>1. UNCHANGED faults
    BY <1>3 DEF RefreshLocks, Refreshes
  <2> QED BY <1>3, <2>1, RefreshLocksTokens, RefreshesTokens, FaultsStay
<1>4. CASE Persists(r)
  <2>1. /\ UNCHANGED <<minted, spent, replayed, faults>> /\ at(r, "persisting")
        /\ secret' = withToken(work[r].copy, work[r].got)
    BY <1>4 DEF Persists, serverVars
  <2>2. Becomes(r, "idle", 0, NoAuth, NoToken, "none")
    BY <1>4, ReturnsTo DEF Persists, RemoteInv, Works
  <2>3. secret'.token = work[r].got
    BY <2>1, WithToken DEF RemoteInv, Works, Work
  <2> QED BY <2>1, <2>2, <2>3, TokenStored, FaultsStay DEF carrying, at, Becomes
<1> QED BY <1>1, <1>2, <1>3, <1>4 DEF Proxies

LEMMA ConnectionsTokens ==
    ASSUME ConnectionsInv, RefreshInv, ConnectionsNext
    PROVE  RefreshInv'
<1> USE ConstantsAre DEF ConnectionsInv
<1>1. ASSUME NEW ch \in Channels, RemoveChannelFromAll(ch) PROVE RefreshInv'
  <2>1. UNCHANGED <<work, spent, replayed, refreshLock, secret, faults>>
    BY <1>1 DEF RemoveChannelFromAll, serverVars, historyVars
  <2> QED BY <2>1, TokensStay, FaultsStay
<1>2. CASE TokenExpires \/ ExchangeExpires
  <2>1. UNCHANGED <<work, spent, replayed, refreshLock, faults>> /\ secret'.token = secret.token
    BY <1>2, TokenExpiresMoves DEF serverVars, historyVars
  <2> QED BY <2>1, TokensStay, FaultsStay
<1>3. CASE AgentRestarts
  <2>1. UNCHANGED <<work, spent, replayed, refreshLock, secret, faults>>
    BY <1>3 DEF AgentRestarts, storeVars, serverVars, historyVars
  <2> QED BY <2>1, TokensStay, FaultsStay
<1>4. CASE RemoteNext
  BY <1>1, <1>2, <1>3, <1>4, CallTokens, CallbackTokens, ProxyTokens DEF RemoteNext
<1>5. CASE CredentialsNext /\ UNCHANGED remoteVars
  <2>1. UNCHANGED <<work, spent, replayed, refreshLock, secret>>
    BY <1>5 DEF remoteVars, storeVars, serverVars
  <2>2. faults' = 0 => faults = 0
    BY <1>5, CallbackMoves DEF RemoteInv, Numbers
  <2> QED BY <2>1, <2>2, TokensStay DEF RefreshInv
<1>6. CASE FlowsAge
  <2>1. UNCHANGED <<work, spent, replayed, refreshLock, secret, faults>>
    BY <1>6 DEF FlowsAge, remoteVars, storeVars, serverVars
  <2> QED BY <2>1, TokensStay, FaultsStay
<1>7. CASE Restarts
  <2>1. faults' > 0
    BY <1>7, FaultsCount DEF Restarts
  <2> QED BY <2>1 DEF RefreshInv
<1> QED BY <1>4, <1>5, <1>6, <1>7 DEF ConnectionsNext

LEMMA TokensBegin == ASSUME ConnectionsInit PROVE RefreshInv
<1>1. work = [w \in Workers |-> Idle] /\ secret = NoAuth /\ spent = {} /\ replayed = FALSE
  BY DEF ConnectionsInit, RemoteInit
<1>2. \A w \in Workers : work[w].at = "idle"
  BY <1>1, NothingTyped
<1> QED BY <1>1, <1>2 DEF RefreshInv, TokensUnspent, mintsUnspent, carriesNew, carrying, at

(* An authorization is answered and a refresh token presented once,        *)
(* whatever order the callbacks, the reaper, the requests and the removals *)
(* come in: LoadAndDelete and the refresh's lock with its second look.     *)
THEOREM OnceIsEnough == ConnectionsSpec => []UsedOnce
<1>1. ConnectionsInit => ConnectionsInv /\ RefreshInv
  BY ConnectionsBegin, TokensBegin
<1>2. (ConnectionsInv /\ RefreshInv) /\ [ConnectionsNext]_connectionVars => (ConnectionsInv /\ RefreshInv)'
  <2>1. UNCHANGED connectionVars => UNCHANGED <<work, spent, replayed, refreshLock, secret, faults>>
    BY DEF connectionVars, remoteVars, storeVars, serverVars
  <2> QED BY <2>1, ConnectionsTyped, ConnectionsStutter, ConnectionsTokens, TokensStay, FaultsStay
<1>3. ConnectionsInv /\ RefreshInv => UsedOnce
  BY ConstantsAre
     DEF ConnectionsInv, FlowInv, FlowsSound, RefreshInv, TokensUnspent, UsedOnce, RefreshedOnce, RemoteInv, Numbers
<1> QED BY <1>1, <1>2, <1>3, PTL DEF ConnectionsSpec
-----------------------------------------------------------------------------
(* What is kept under the name is of one server.                           *)

(* The flows of remote servers that wait for their callback. *)
remotePending == pending \cap 1 .. MaxAdds

(* Steps that go on with a copy of the secret. *)
copying(w) ==
    \/ w \in Calls /\ at(w, "exchanging")
    \/ work[w].at \in {"keeping", "refreshing", "minting", "persisting"}
    \/ w \in Handlers /\ at(w, "storing")

(* A worker's registration, copy and token are those of the registration.  *)
itsOwn(w) ==
    /\ work[w].at \notin {"reading", "failing", "removing"} => work[w].of = registered.of
    /\ copying(w) => work[w].copy.of = registered.of
    /\ carrying(w) => work[w].got.of = registered.of
    /\ work[w].at \in {"refreshing", "minting", "persisting"} => work[w].copy.token.of = registered.of

secretIsIts == secret.of = registered.of /\ (secret.token = NoToken \/ secret.token.of = registered.of)

(* Unless somebody was at work for the name when it was removed, everyone  *)
(* who holds something holds it for the registration that is stored, and a *)
(* removal is alone.                                                       *)
OneServerHeld ==
    /\ ~ misdirected
    /\ registered.tools \in {0, registered.of}
    /\ secret # NoAuth => registers /\ secretIsIts
    /\ remotePending # {} => registers
    /\ remotePending \subseteq {registered.of}
    /\ \A w \in Workers : holds(w) => registers /\ itsOwn(w)
    /\ listLock # Nobody => secret = NoAuth /\ remotePending = {} /\ \A w \in Workers : holds(w) => w = listLock

ServerInv == straddled \/ OneServerHeld

(* Whoever holds something, and is no removal, has the list to itself. *)
LEMMA HoldersAreFree ==
    ASSUME RemoteInv, OneServerHeld
    PROVE  /\ \A w \in Workers : holds(w) /\ ~ at(w, "removing") => listLock = Nobody /\ registers /\ itsOwn(w)
           /\ secret # NoAuth \/ remotePending # {} => listLock = Nobody
           /\ registers => registered.of # 0
  BY ConstantsAre DEF RemoteInv, Locked, OneServerHeld, at, registrationSound, Numbers

LEMMA WorkerServes ==
    ASSUME RemoteInv, OneServerHeld, NEW w \in Workers, Alone(w), ~ misdirected',
           registered'.of = registered.of, registered'.tools \in {0, registered.of}, registers => registers',
           secret' # NoAuth => registers /\ secretIsIts',
           remotePending' \subseteq {registered.of}, remotePending' # {} => registers,
           holds(w)' => registers /\ itsOwn(w)',
           listLock' # Nobody => listLock' = listLock /\ secret' = NoAuth /\ remotePending' = {}
                                 /\ (holds(w)' => w = listLock)
    PROVE  OneServerHeld'
<1>1. \A v \in Workers : v # w => work'[v] = work[v]
  BY DEF Alone
<1>2. ASSUME NEW v \in Workers, v # w, holds(v)'
      PROVE  holds(v) /\ registers' /\ itsOwn(v)'
  <2>1. holds(v) /\ registers /\ itsOwn(v) /\ work'[v] = work[v]
    BY <1>1, <1>2 DEF holds, OneServerHeld
  <2> QED BY <2>1 DEF itsOwn, copying, carrying, at
<1> QED BY <1>2 DEF OneServerHeld

(* Nothing changes but what one worker holds, and perhaps a flow fewer. *)
LEMMA WorkerHolds ==
    ASSUME RemoteInv, OneServerHeld, NEW w \in Workers, Alone(w), ~ misdirected',
           UNCHANGED <<registered, secret, listLock>>, remotePending' \subseteq remotePending,
           holds(w)' => registers /\ itsOwn(w)' /\ listLock = Nobody
    PROVE  OneServerHeld'
<1>1. registers' = registers /\ secretIsIts' = secretIsIts
  BY DEF registers, secretIsIts
<1> QED BY <1>1, WorkerServes DEF OneServerHeld

LEMMA ServerStays ==
    ASSUME OneServerHeld, UNCHANGED <<work, misdirected, listLock>>, registered'.of = registered.of,
           registered'.tools = registered.tools, registers' <=> registers,
           secret'.of = secret.of, secret'.token = secret.token, secret' # NoAuth => secret # NoAuth,
           remotePending' \subseteq remotePending
    PROVE  OneServerHeld'
<1>1. \A w \in Workers : (holds(w)' <=> holds(w)) /\ (itsOwn(w)' <=> itsOwn(w))
  BY DEF holds, itsOwn, copying, carrying, at
<1>2. secretIsIts' <=> secretIsIts
  BY DEF secretIsIts
<1> QED BY <1>1, <1>2 DEF OneServerHeld

LEMMA PendingStays == ASSUME UNCHANGED callbackVars PROVE remotePending' = remotePending
  BY DEF remotePending, callbackVars

-----------------------------------------------------------------------------
LEMMA AddRemoteMCPServes ==
    ASSUME RemoteInv, OneServerHeld, NEW c \in Calls, AddRemoteMCP(c)
    PROVE  OneServerHeld'
<1> USE ConstantsAre, AddRemoteMCPMoves
<1>1. UNCHANGED <<callbackVars, secret, listLock, misdirected>> /\ listLock = Nobody /\ ~ registers
  BY DEF AddRemoteMCP, listFree
<1>2. secret = NoAuth /\ remotePending = {} /\ \A w \in Workers : ~ holds(w)
  BY <1>1 DEF OneServerHeld
<1>3. PICK style \in Styles :
          /\ registered'.tools = IF style \in {"open", "headers"} THEN added + 1 ELSE 0
          /\ Becomes(c, IF style = "open" THEN "announcing" ELSE "storing", added + 1, NoAuth, NoToken, style)
  OBVIOUS
<1>4. registered'.of = added + 1 /\ registers' /\ registered'.tools \in {0, registered'.of}
  BY <1>3, NothingBegins DEF registers, RemoteInv, Numbers
<1>5. \A v \in Workers : v # c => ~ holds(v)'
  BY <1>2, <1>3 DEF Becomes, Alone, holds
<1>6. holds(c)' => itsOwn(c)'
  BY <1>3, <1>4 DEF Becomes, holds, itsOwn, copying, carrying, at
<1>7. remotePending' = {}
  BY <1>1, <1>2, PendingStays
<1> QED BY <1>1, <1>2, <1>4, <1>5, <1>6, <1>7 DEF OneServerHeld

LEMMA AddStoresServes ==
    ASSUME RemoteInv, OneServerHeld, NEW c \in Calls, AddStores(c)
    PROVE  OneServerHeld'
<1> USE ConstantsAre, AddStoresMoves
<1>1. UNCHANGED <<registered, listLock, misdirected>>
  BY DEF AddStores, historyVars
<1>2. listLock = Nobody /\ registers /\ work[c].of = registered.of
  BY HoldersAreFree DEF holds, at, itsOwn
<1>3. secret'.of = registered.of /\ secret'.token = NoToken
  BY <1>2
<1>4. Alone(c) /\ ~ holds(c)'
  BY DEF Becomes, holds
<1>5. remotePending' \subseteq {registered.of}
  BY <1>2 DEF OneServerHeld, remotePending
<1>6. registers' /\ secretIsIts'
  BY <1>1, <1>2, <1>3 DEF registers, secretIsIts
<1> QED BY <1>1, <1>2, <1>4, <1>5, <1>6, WorkerServes DEF OneServerHeld

(* A call returns or announces: it holds nothing any more. *)
LEMMA CallLetsGo ==
    ASSUME RemoteInv, OneServerHeld, NEW c \in Calls, Announces(c) \/ CallFails(c) \/ SetChannels(c)
    PROVE  OneServerHeld'
<1> USE ConstantsAre
<1>1. CASE Announces(c) \/ CallFails(c)
  <2>1. /\ UNCHANGED <<callbackVars, registered, secret, listLock, misdirected>>
        /\ Becomes(c, "idle", 0, NoAuth, NoToken, "none")
    BY <1>1, ReturnsTo DEF Announces, CallFails, RemoteInv, Works, storeVars, historyVars
  <2> QED BY <2>1, PendingStays, WorkerHolds DEF Becomes, holds, OneServerHeld
<1>2. CASE SetChannels(c)
  <2>1. UNCHANGED <<callbackVars, secret, listLock, misdirected>> /\ registers
    BY <1>2, SetChannelsMoves DEF SetChannels
  <2>2. /\ registered'.of = registered.of /\ registered'.tools = registered.tools
        /\ Alone(c) /\ work'[c].at = "announcing" /\ at(c, "idle") /\ listLock = Nobody
    BY <1>2, SetChannelsMoves DEF Becomes, listFree
  <2>3. registers'
    BY <2>1, <2>2, HoldersAreFree, NothingBegins DEF registers
  <2>4. secret' # NoAuth => registers /\ secretIsIts'
    BY <2>1, <2>2 DEF secretIsIts, OneServerHeld
  <2> QED BY <2>1, <2>2, <2>3, <2>4, PendingStays, WorkerServes DEF holds, OneServerHeld
<1> QED BY <1>1, <1>2

LEMMA AuthorizesServes ==
    ASSUME RemoteInv, OneServerHeld, NEW c \in Calls,
           WaitPolls(c) \/ CompleteBegins(c) \/ CompleteExchanges(c) \/ FinalizeReads(c) \/ FinalizeLists(c)
    PROVE  OneServerHeld'
<1> USE ConstantsAre
<1>1. UNCHANGED <<callbackVars, registered, secret, listLock, misdirected>>
  BY DEF WaitPolls, CompleteBegins, CompleteExchanges, FinalizeReads, FinalizeLists, storeVars, historyVars
<1>2. remotePending' \subseteq remotePending /\ ~ misdirected'
  BY <1>1, PendingStays DEF OneServerHeld
<1>3. Alone(c) /\ (holds(c)' => registers /\ itsOwn(c)' /\ listLock = Nobody)
  <2>0. returns(c) => Becomes(c, "idle", 0, NoAuth, NoToken, "none")
    BY ReturnsTo DEF RemoteInv, Works
  <2>1. CASE WaitPolls(c)
    <3>1. secret # NoAuth /\ Becomes(c, "reading", 0, secret, NoToken, "none")
      BY <2>1, WaitPollsMoves, NothingTyped DEF WaitPolls
    <3> QED BY <3>1, HoldersAreFree DEF OneServerHeld, Becomes, itsOwn, copying, carrying, at
  <2>2. CASE CompleteBegins(c)
    <3>1. registers /\ listLock = Nobody
      BY <2>2, CompleteBeginsMoves DEF listFree
    <3>2. CASE Becomes(c, "reading", 0, secret, NoToken, "none")
      BY <3>1, <3>2 DEF Becomes, itsOwn, copying, carrying, at
    <3>3. CASE secret.exchange = "open" /\ Becomes(c, "exchanging", secret.of, secret, NoToken, "none")
      <4>1. secret.of = registered.of
        BY <3>3, NothingTyped DEF OneServerHeld, secretIsIts
      <4> QED BY <1>1, <3>1, <3>3, <4>1 DEF Becomes, itsOwn, copying, carrying, at
    <3> QED BY <2>2, <3>2, <3>3, CompleteBeginsMoves
  <2>3. CASE CompleteExchanges(c)
    <3>1. at(c, "exchanging")
      BY <2>3, CompleteExchangesMoves
    <3>2. registers /\ listLock = Nobody /\ work[c].of = registered.of /\ work[c].copy.of = registered.of
      BY <3>1, HoldersAreFree DEF holds, at, itsOwn, copying
    <3>3. ASSUME NEW token \in Token, token.of = work[c].of,
                 Becomes(c, "keeping", work[c].of, work[c].copy, token, work[c].style)
          PROVE  Alone(c) /\ itsOwn(c)'
      BY <1>1, <3>2, <3>3 DEF Becomes, itsOwn, copying, carrying, at
    <3> QED BY <2>3, <3>2, <3>3, CompleteExchangesMoves DEF Becomes, holds
  <2>4. CASE FinalizeReads(c)
    <3>1. listLock = Nobody /\ at(c, "reading")
      BY <2>4, FinalizeReadsMoves DEF listFree
    <3>2. CASE returns(c)
      BY <2>0, <3>2 DEF Becomes, holds
    <3>3. CASE moves(c, "finalized")
      BY <3>3, MovesTo DEF Becomes, holds, RemoteInv, Works, Steps
    <3>4. CASE registers /\ Becomes(c, "listing", registered.of, work[c].copy, work[c].got, work[c].style)
      BY <1>1, <3>1, <3>4 DEF Becomes, itsOwn, copying, carrying, at
    <3> QED BY <2>4, <3>2, <3>3, <3>4, FinalizeReadsMoves
  <2>5. CASE FinalizeLists(c)
    <3>1. at(c, "listing")
      BY <2>5, FinalizeListsMoves
    <3>2. registers /\ listLock = Nobody /\ work[c].of = registered.of
      BY <3>1, HoldersAreFree DEF holds, at, itsOwn
    <3>3. CASE Becomes(c, "naming", work[c].of, work[c].copy, work[c].got, work[c].style)
      BY <1>1, <3>2, <3>3 DEF Becomes, itsOwn, copying, carrying, at
    <3> QED BY <2>5, <3>3, FinalizeListsMoves DEF Becomes, holds
  <2> QED BY <2>1, <2>2, <2>3, <2>4, <2>5
<1> QED BY <1>1, <1>2, <1>3, WorkerHolds

LEMMA CompleteStoresServes ==
    ASSUME RemoteInv, OneServerHeld, NEW c \in Calls, CompleteStores(c) \/ FinalizeNames(c)
    PROVE  OneServerHeld'
<1> USE ConstantsAre
<1>1. UNCHANGED <<callbackVars, listLock, misdirected>>
  BY DEF CompleteStores, FinalizeNames, historyVars
<1>2. CASE CompleteStores(c)
  <2>1. at(c, "keeping") /\ UNCHANGED registered
    BY <1>2 DEF CompleteStores
  <2>2. registers /\ listLock = Nobody /\ work[c].copy.of = registered.of /\ work[c].got.of = registered.of
    BY <2>1, HoldersAreFree DEF holds, at, itsOwn, copying, carrying
  <2>3. registers' /\ secretIsIts' /\ Alone(c) /\ work'[c].at = "reading"
    BY <1>2, <2>1, <2>2, CompleteStoresMoves DEF secretIsIts, registers, Becomes
  <2>4. itsOwn(c)'
    BY <2>3 DEF itsOwn, copying, carrying, at
  <2> QED BY <1>1, <2>1, <2>2, <2>3, <2>4, PendingStays, WorkerServes DEF OneServerHeld
<1>3. CASE FinalizeNames(c)
  <2>1. at(c, "naming") /\ UNCHANGED secret
    BY <1>3, FinalizeNamesMoves DEF FinalizeNames
  <2>2. registers /\ listLock = Nobody /\ work[c].of = registered.of
    BY <2>1, HoldersAreFree DEF holds, at, itsOwn
  <2>3. /\ registered'.of = registered.of /\ registered'.tools = registered.of
        /\ Alone(c) /\ work'[c].at = "finalized"
    BY <1>3, <2>2, FinalizeNamesMoves DEF Becomes
  <2>4. registers'
    BY <2>2, <2>3, HoldersAreFree, NothingBegins DEF registers
  <2>5. secret' # NoAuth => registers /\ secretIsIts'
    BY <2>1, <2>2, <2>3 DEF secretIsIts, OneServerHeld
  <2> QED BY <1>1, <2>2, <2>3, <2>4, <2>5, PendingStays, WorkerServes DEF OneServerHeld, holds
<1> QED BY <1>2, <1>3

(* A removal that finds anybody at work straddles; else it is alone. *)
LEMMA RemovesServes ==
    ASSUME RemoteInv, OneServerHeld, NEW c \in Calls, RemoveDeletes(c) \/ RemoveSaves(c) \/ RemoveFails(c)
    PROVE  ServerInv'
<1> USE ConstantsAre, NothingTyped
<1>1. CASE RemoveDeletes(c)
  <2>1. /\ UNCHANGED <<callbackVars, registered, misdirected>> /\ secret' = NoAuth /\ listLock' = c
        /\ straddled' = (straddled \/ pending \cap 1 .. MaxAdds # {} \/ \E w \in Workers : holds(w))
        /\ Becomes(c, "removing", work[c].of, work[c].copy, work[c].got, work[c].style) /\ registers
    BY <1>1, MovesTo DEF RemoveDeletes, RemoteInv, Works, Steps
  <2>2. CASE straddled'
    BY <2>2 DEF ServerInv
  <2>3. CASE ~ straddled'
    <3>1. remotePending = {} /\ remotePending' = {} /\ \A w \in Workers : ~ holds(w)
      BY <2>1, <2>3, PendingStays DEF remotePending
    <3>2. \A w \in Workers : w # c => ~ holds(w)'
      BY <2>1, <3>1 DEF Becomes, Alone, holds
    <3>3. registers' /\ itsOwn(c)'
      BY <2>1 DEF registers, Becomes, itsOwn, copying, carrying, at
    <3> QED BY <2>1, <3>1, <3>2, <3>3 DEF ServerInv, OneServerHeld
  <2> QED BY <2>2, <2>3
<1>2. CASE RemoveSaves(c) \/ RemoveFails(c)
  <2>1. /\ UNCHANGED <<callbackVars, secret, misdirected>> /\ listLock' = Nobody /\ at(c, "removing")
        /\ registered' \in {NoEntry, registered}
    BY <1>2 DEF RemoveSaves, RemoveFails, historyVars
  <2>2. Alone(c) /\ work'[c].at \in {"announcing", "idle"}
    BY <1>2, MovesTo, ReturnsTo DEF RemoveSaves, RemoveFails, Becomes, RemoteInv, Works, Steps
  <2>3. listLock = c /\ listLock # Nobody
    BY <2>1 DEF RemoteInv, Locked
  <2>4. secret = NoAuth /\ remotePending = {} /\ remotePending' = {} /\ \A w \in Workers : holds(w) => w = c
    BY <2>1, <2>3, PendingStays DEF OneServerHeld
  <2>5. \A w \in Workers : ~ holds(w)'
    BY <2>2, <2>4 DEF Alone, holds
  <2>6. registered'.tools \in {0, registered'.of}
    BY <2>1, NothingBegins DEF OneServerHeld
  <2> QED BY <2>1, <2>4, <2>5, <2>6 DEF ServerInv, OneServerHeld
<1> QED BY <1>1, <1>2

LEMMA CallServes ==
    ASSUME RemoteInv, OneServerHeld, NEW c \in Calls, Adds(c) \/ Authorizes(c) \/ Changes(c)
    PROVE  ServerInv'
  BY AddRemoteMCPServes, AddStoresServes, CallLetsGo, AuthorizesServes, CompleteStoresServes, RemovesServes
     DEF Adds, Authorizes, Changes, ServerInv

LEMMA CallbackServes ==
    ASSUME RemoteInv, OneServerHeld, NEW h \in Handlers, Callback(h)
    PROVE  OneServerHeld'
<1> USE ConstantsAre
<1>0. /\ UNCHANGED <<registered, listLock, misdirected>> /\ ~ misdirected'
  <2>1. CallbackTakes(h) \/ CallbackExchanges(h) \/ CallbackLoads(h) => UNCHANGED <<registered, listLock, misdirected>>
    BY DEF CallbackTakes, CallbackExchanges, CallbackLoads, storeVars, historyVars
  <2>2. CallbackStores(h) \/ CallbackFails(h) => UNCHANGED <<registered, listLock, misdirected>>
    BY DEF CallbackStores, CallbackFails, storeVars, historyVars
  <2>3. CallbackStoreFails(h) => UNCHANGED <<registered, listLock, misdirected>>
    BY DEF CallbackStoreFails
  <2> QED BY <2>1, <2>2, <2>3 DEF Callback, OneServerHeld
<1>r. returns(h) => Becomes(h, "idle", 0, NoAuth, NoToken, "none")
  BY ReturnsTo DEF RemoteInv, Works
<1>1. CASE CallbackTakes(h)
  <2>1. PICK f \in pending \cap 1 .. MaxAdds, next \in {"exchanging", "failing"} :
            pending' = pending \ {f} /\ Becomes(h, next, f, NoAuth, NoToken, "none")
    BY <1>1, CallbackTakesMoves
  <2>2. registers /\ listLock = Nobody /\ f = registered.of
    BY <2>1, HoldersAreFree DEF OneServerHeld, remotePending
  <2>3. Alone(h) /\ itsOwn(h)'
    BY <1>0, <2>1, <2>2 DEF Becomes, itsOwn, copying, carrying, at
  <2>4. UNCHANGED secret /\ remotePending' \subseteq remotePending
    BY <1>1, <2>1 DEF CallbackTakes, storeVars, remotePending
  <2> QED BY <1>0, <2>2, <2>3, <2>4, WorkerHolds
<1>2. CASE CallbackExchanges(h)
  <2>1. at(h, "exchanging") /\ UNCHANGED <<callbackVars, secret>>
    BY <1>2, CallbackExchangesMoves DEF CallbackExchanges, storeVars
  <2>2. registers /\ listLock = Nobody /\ work[h].of = registered.of
    BY <2>1, HoldersAreFree DEF holds, at, itsOwn
  <2>3. ASSUME NEW token \in Token, token.of = work[h].of,
               Becomes(h, "loading", work[h].of, work[h].copy, token, work[h].style)
        PROVE  Alone(h) /\ itsOwn(h)'
    BY <1>0, <2>2, <2>3 DEF Becomes, itsOwn, copying, carrying, at
  <2>4. ASSUME Becomes(h, "failing", work[h].of, work[h].copy, work[h].got, work[h].style)
        PROVE  Alone(h) /\ itsOwn(h)'
    BY <1>0, <2>2, <2>4 DEF Becomes, itsOwn, copying, carrying, at
  <2>5. Alone(h) /\ itsOwn(h)'
    BY <1>2, <2>3, <2>4, CallbackExchangesMoves
  <2> QED BY <1>0, <2>1, <2>2, <2>5, PendingStays, WorkerHolds
<1>3. CASE CallbackLoads(h)
  <2>1. at(h, "loading") /\ UNCHANGED <<callbackVars, secret>>
    BY <1>3, CallbackLoadsMoves DEF CallbackLoads, storeVars
  <2>2. registers /\ listLock = Nobody /\ work[h].of = registered.of /\ work[h].got.of = registered.of
    BY <2>1, HoldersAreFree DEF holds, at, itsOwn, carrying
  <2>3. ASSUME secret # NoAuth, Becomes(h, "storing", work[h].of, secret, work[h].got, work[h].style)
        PROVE  Alone(h) /\ itsOwn(h)'
    <3>1. secret.of = registered.of
      BY <2>3 DEF OneServerHeld, secretIsIts
    <3> QED BY <1>0, <2>2, <2>3, <3>1 DEF Becomes, itsOwn, copying, carrying, at
  <2>4. ASSUME Becomes(h, "failing", work[h].of, work[h].copy, work[h].got, work[h].style)
        PROVE  Alone(h) /\ itsOwn(h)'
    BY <1>0, <2>2, <2>4 DEF Becomes, itsOwn, copying, carrying, at
  <2>5. Alone(h) /\ itsOwn(h)'
    BY <1>3, <2>3, <2>4, CallbackLoadsMoves
  <2> QED BY <1>0, <2>1, <2>2, <2>5, PendingStays, WorkerHolds
<1>4. CASE CallbackStores(h) \/ CallbackStoreFails(h)
  <2>1. /\ at(h, "storing") /\ UNCHANGED pending
        /\ secret' \in {secret, withToken(work[h].copy, work[h].got)}
    BY <1>4 DEF CallbackStores, CallbackStoreFails, callbackVars
  <2>2. /\ registers /\ listLock = Nobody /\ work[h].copy.of = registered.of
        /\ work[h].got.of = registered.of /\ work[h].of = registered.of
    BY <2>1, HoldersAreFree DEF holds, at, itsOwn, copying, carrying
  <2>3. secret' = secret \/ (secret'.of = registered.of /\ secret'.token.of = registered.of)
    <3>1. work[h].copy \in RemoteMCPAuth /\ work[h].got \in Token
      BY DEF RemoteInv, Works, Work
    <3> QED BY <2>1, <2>2, <3>1, WithToken
  <2>4. registers' /\ (secret' # NoAuth => secretIsIts')
    BY <1>0, <2>2, <2>3 DEF secretIsIts, registers, OneServerHeld
  <2>5. Alone(h) /\ (holds(h)' => itsOwn(h)')
    <3>1. CASE CallbackStores(h)
      BY <1>r, <3>1 DEF CallbackStores, Becomes, holds
    <3>2. CASE CallbackStoreFails(h)
      <4>1. Becomes(h, "failing", work[h].of, work[h].copy, work[h].got, work[h].style)
        BY <3>2, MovesTo DEF CallbackStoreFails, RemoteInv, Works, Steps
      <4> QED BY <1>0, <2>2, <4>1 DEF Becomes, itsOwn, copying, carrying, at
    <3> QED BY <1>4, <3>1, <3>2
  <2>6. remotePending' = remotePending
    BY <2>1 DEF remotePending
  <2> QED BY <1>0, <2>2, <2>4, <2>5, <2>6, WorkerServes DEF OneServerHeld
<1>5. CASE CallbackFails(h)
  <2>1. UNCHANGED <<pending, secret>> /\ Becomes(h, "idle", 0, NoAuth, NoToken, "none")
    BY <1>5, <1>r DEF CallbackFails, storeVars
  <2> QED BY <1>0, <2>1, WorkerHolds DEF Becomes, holds, remotePending
<1> QED BY <1>1, <1>2, <1>3, <1>4, <1>5 DEF Callback

(* What goes out for a registration is a token of it, or none. *)
LEMMA ForwardsOwn ==
    ASSUME OneServerHeld, NEW r, NEW token, forwards(r, token),
           token = NoToken \/ token.of = work[r].of
    PROVE  ~ misdirected'
  BY DEF forwards, OneServerHeld

LEMMA ProxyServes ==
    ASSUME RemoteInv, OneServerHeld, NEW r \in Requests, Proxies(r)
    PROVE  OneServerHeld'
<1> USE ConstantsAre
<1>0. UNCHANGED <<registered, listLock>> /\ remotePending' \subseteq remotePending
  BY ProxiesMoves, PendingStays
<1>r. returns(r) => Becomes(r, "idle", 0, NoAuth, NoToken, "none")
  BY ReturnsTo DEF RemoteInv, Works
<1>s. secret.token = NoToken \/ secret.token.of = registered.of
  BY NothingTyped DEF OneServerHeld, secretIsIts
<1>1. CASE RequestBegins(r)
  <2>1. listLock = Nobody /\ registers /\ UNCHANGED <<secret, misdirected>>
    BY <1>1, RequestBeginsMoves DEF RequestBegins, storeVars, listFree
  <2>2. Alone(r) /\ itsOwn(r)'
    BY <1>0, <1>1, RequestBeginsMoves DEF Becomes, itsOwn, copying, carrying, at
  <2> QED BY <1>0, <2>1, <2>2, WorkerHolds DEF OneServerHeld
<1>2. CASE Resolves(r)
  <2>1. at(r, "resolving") /\ UNCHANGED secret
    BY <1>2, ResolvesMoves DEF Resolves, storeVars
  <2>2. registers /\ listLock = Nobody /\ work[r].of = registered.of
    BY <2>1, HoldersAreFree DEF holds, at, itsOwn
  <2>3. ASSUME secret.token # NoToken, UNCHANGED misdirected,
               Becomes(r, "refreshing", work[r].of, secret, work[r].got, work[r].style)
        PROVE  Alone(r) /\ itsOwn(r)' /\ ~ misdirected'
    <3>1. secret # NoAuth /\ secret.of = registered.of /\ secret.token.of = registered.of
      BY <2>3, NothingTyped DEF OneServerHeld, secretIsIts
    <3> QED BY <1>0, <2>2, <2>3, <3>1 DEF Becomes, itsOwn, copying, carrying, at, OneServerHeld
  <2>4. ASSUME returns(r), forwards(r, secret.token)
        PROVE  Alone(r) /\ ~ holds(r)' /\ ~ misdirected'
    BY <1>r, <1>s, <2>2, <2>4, ForwardsOwn DEF Becomes, holds
  <2>5. Alone(r) /\ (holds(r)' => itsOwn(r)') /\ ~ misdirected'
    BY <1>2, <2>3, <2>4, ResolvesMoves
  <2> QED BY <1>0, <2>1, <2>2, <2>5, WorkerHolds
<1>3. CASE RefreshLocks(r)
  <2>1. at(r, "refreshing") /\ UNCHANGED secret
    BY <1>3, RefreshLocksMoves DEF RefreshLocks, storeVars
  <2>2. registers /\ listLock = Nobody /\ work[r].of = registered.of /\ work[r].copy.token.of = registered.of
    BY <2>1, HoldersAreFree DEF holds, at, itsOwn
  <2>3. ASSUME secret.token # NoToken, UNCHANGED misdirected,
               Becomes(r, "minting", work[r].of, secret, work[r].got, work[r].style)
        PROVE  Alone(r) /\ itsOwn(r)' /\ ~ misdirected'
    <3>1. secret # NoAuth /\ secret.of = registered.of /\ secret.token.of = registered.of
      BY <2>3, NothingTyped DEF OneServerHeld, secretIsIts
    <3> QED BY <1>0, <2>2, <2>3, <3>1 DEF Becomes, itsOwn, copying, carrying, at, OneServerHeld
  <2>4. ASSUME returns(r), forwards(r, IF secret = NoAuth THEN work[r].copy.token ELSE secret.token)
        PROVE  Alone(r) /\ ~ holds(r)' /\ ~ misdirected'
    <3>1. PICK token : token = IF secret = NoAuth THEN work[r].copy.token ELSE secret.token
      OBVIOUS
    <3>2. token = NoToken \/ token.of = work[r].of
      BY <1>s, <2>2, <3>1
    <3>3. forwards(r, token)
      BY <2>4, <3>1
    <3> QED BY <1>r, <2>4, <3>2, <3>3, ForwardsOwn DEF Becomes, holds
  <2>5. Alone(r) /\ (holds(r)' => itsOwn(r)') /\ ~ misdirected'
    BY <1>3, <2>3, <2>4, RefreshLocksMoves
  <2> QED BY <1>0, <2>1, <2>2, <2>5, WorkerHolds
<1>4. CASE Refreshes(r)
  <2>1. at(r, "minting") /\ UNCHANGED secret
    BY <1>4, RefreshesMoves DEF Refreshes, storeVars
  <2>2. /\ registers /\ listLock = Nobody /\ work[r].of = registered.of
        /\ work[r].copy.of = registered.of /\ work[r].copy.token.of = registered.of
    BY <2>1, HoldersAreFree DEF holds, at, itsOwn, copying
  <2>3. ASSUME NEW token \in Token, token.of = work[r].copy.of, UNCHANGED misdirected,
               Becomes(r, "persisting", work[r].of, work[r].copy, token, work[r].style)
        PROVE  Alone(r) /\ itsOwn(r)' /\ ~ misdirected'
    BY <1>0, <2>2, <2>3 DEF Becomes, itsOwn, copying, carrying, at, OneServerHeld
  <2>4. ASSUME returns(r), forwards(r, work[r].copy.token)
        PROVE  Alone(r) /\ ~ holds(r)' /\ ~ misdirected'
    BY <1>r, <2>2, <2>4, ForwardsOwn DEF Becomes, holds
  <2>5. Alone(r) /\ (holds(r)' => itsOwn(r)') /\ ~ misdirected'
    BY <1>4, <2>3, <2>4, RefreshesMoves
  <2> QED BY <1>0, <2>1, <2>2, <2>5, WorkerHolds
<1>5. CASE Persists(r) \/ PersistFails(r)
  <2>1. at(r, "persisting") /\ returns(r)
    BY <1>5 DEF Persists, PersistFails
  <2>2. /\ registers /\ listLock = Nobody /\ work[r].of = registered.of /\ work[r].copy.of = registered.of
        /\ work[r].got.of = registered.of /\ work[r].copy.token.of = registered.of
    BY <2>1, HoldersAreFree DEF holds, at, itsOwn, copying, carrying
  <2>3. Alone(r) /\ ~ holds(r)'
    BY <1>r, <2>1 DEF Becomes, holds
  <2>4. ~ misdirected'
    BY <1>5, <2>2, ForwardsOwn DEF Persists, PersistFails
  <2>5. secret' = secret \/ (secret'.of = registered.of /\ secret'.token.of = registered.of)
    <3>1. work[r].copy \in RemoteMCPAuth /\ work[r].got \in Token
      BY DEF RemoteInv, Works, Work
    <3> QED BY <1>5, <2>2, <3>1, WithToken DEF Persists, PersistFails, storeVars
  <2>6. registers' /\ (secret' # NoAuth => secretIsIts')
    BY <1>0, <2>2, <2>5 DEF secretIsIts, registers, OneServerHeld
  <2> QED BY <1>0, <2>2, <2>3, <2>4, <2>6, WorkerServes DEF OneServerHeld
<1> QED BY <1>1, <1>2, <1>3, <1>4, <1>5 DEF Proxies

LEMMA TimeServes ==
    ASSUME RemoteInv, OneServerHeld,
           \/ \E ch \in Channels : RemoveChannelFromAll(ch)
           \/ TokenExpires \/ ExchangeExpires \/ AgentRestarts
    PROVE  OneServerHeld'
<1> USE ConstantsAre
<1>1. ASSUME NEW ch \in Channels, RemoveChannelFromAll(ch) PROVE OneServerHeld'
  <2>1. /\ UNCHANGED <<callbackVars, work, misdirected, listLock, secret>>
        /\ registered' = [registered EXCEPT !.channels = IF registers THEN pruned(@, ch) ELSE @]
    BY <1>1 DEF RemoveChannelFromAll, historyVars
  <2>2. registered \in Entry
    BY DEF RemoteInv, registrationSound
  <2>3. registered'.of = registered.of /\ registered'.tools = registered.tools
    BY <2>1, <2>2 DEF Entry
  <2>4. registers' <=> registers
    <3>1. CASE registers
      BY <2>3, <3>1, HoldersAreFree, NothingBegins DEF registers
    <3>2. CASE ~ registers
      <4>1. registered' = [registered EXCEPT !.channels = registered.channels]
        BY <2>1, <2>2, <3>2 DEF Entry
      <4>2. registered' = registered
        BY <2>2, <4>1 DEF Entry
      <4> QED BY <3>2, <4>2 DEF registers
    <3> QED BY <3>1, <3>2
  <2> QED BY <2>1, <2>3, <2>4, PendingStays, ServerStays
<1>2. CASE TokenExpires \/ ExchangeExpires
  <2>1. /\ UNCHANGED <<callbackVars, work, misdirected, listLock, registered>> /\ secret # NoAuth
        /\ secret'.of = secret.of /\ secret'.token = secret.token
    BY <1>2, TokenExpiresMoves DEF historyVars
  <2>2. registers' <=> registers
    BY <2>1 DEF registers
  <2> QED BY <2>1, <2>2, PendingStays, ServerStays
<1>3. CASE AgentRestarts
  <2>1. UNCHANGED <<callbackVars, work, misdirected, listLock, registered, secret>>
    BY <1>3 DEF AgentRestarts, storeVars, historyVars
  <2>2. registers' <=> registers
    BY <2>1 DEF registers
  <2> QED BY <2>1, <2>2, PendingStays, ServerStays
<1> QED BY <1>1, <1>2, <1>3

(* The flows of the credential sets are none of the remote server's. *)
LEMMA OthersPend ==
    ASSUME ConnectionsInv, CredentialsNext \/ FlowsAge
    PROVE  remotePending' \subseteq remotePending
<1> USE ConstantsAre, CredentialConstants DEF ConnectionsInv
<1>1. CASE CredentialsNext
  <2>1. UNCHANGED callbackVars \/ UNCHANGED pending => remotePending' \subseteq remotePending
    BY DEF remotePending, callbackVars
  <2>2. ASSUME NEW c \in Clerks, Clerk(c) PROVE remotePending' \subseteq remotePending
    <3>1. ASSUME AddSaves(c) PROVE remotePending' \subseteq remotePending
      BY <2>1, <3>1, AddSavesMoves DEF RegisterFlow, freeFlows, remotePending
    <3>2. ASSUME NEW l \in Labels,
                 \/ AddLists(c, l) \/ RemoveLists(c, l) \/ RefreshReads(c, l) \/ FormRequested(c, l)
                 \/ \E field \in Fields : Clears(c, l, field)
          PROVE  UNCHANGED callbackVars
      BY <3>2 DEF AddLists, RemoveLists, RefreshReads, FormRequested, Clears
    <3>3. RemoveDropsTokens(c) \/ RemoveSavesSets(c) \/ RefreshExchanges(c) \/ RefreshKeeps(c)
              => UNCHANGED callbackVars
      BY DEF RemoveDropsTokens, RemoveSavesSets, RefreshExchanges, RefreshKeeps
    <3> QED BY <2>1, <2>2, <3>1, <3>2, <3>3 DEF Clerk
  <2>3. ASSUME NEW v \in Visits, Visit(v) PROVE remotePending' \subseteq remotePending
    <3>1. ASSUME RedirectTakes(v) PROVE remotePending' \subseteq remotePending
      BY <3>1 DEF RedirectTakes, TakesOut, remotePending
    <3>2. RedirectRefuses(v) => UNCHANGED pending
      BY DEF RedirectRefuses
    <3>3. RedirectExchanges(v) \/ RedirectStores(v) \/ FormPosted(v) \/ FormStores(v) \/ FormSubmitted(v)
              => UNCHANGED callbackVars
      BY DEF RedirectExchanges, RedirectStores, FormPosted, FormStores, FormSubmitted
    <3> QED BY <2>1, <2>3, <3>1, <3>2, <3>3 DEF Visit
  <2>4. ASSUME NEW d \in Desks, NotifyReads(d) \/ NotifyRegisters(d) \/ DeskFails(d)
        PROVE  UNCHANGED pending
    BY <2>4 DEF NotifyReads, NotifyRegisters, DeskFails, callbackVars
  <2>5. FormAges \/ (\E l \in Labels : GrantExpires(l)) => UNCHANGED callbackVars
    BY DEF FormAges, GrantExpires
  <2> QED BY <1>1, <2>1, <2>2, <2>3, <2>4, <2>5 DEF CredentialsNext
<1>2. CASE FlowsAge
  BY <1>2 DEF FlowsAge, FlowAges, ReaperSees, ReaperFails, remotePending
<1> QED BY <1>1, <1>2

LEMMA ConnectionsServe ==
    ASSUME ConnectionsInv, ServerInv, ConnectionsNext
    PROVE  ServerInv'
<1> USE ConstantsAre, NothingTyped DEF ConnectionsInv
<1>1. CASE straddled
  <2>1. RemoteNext => straddled'
    <3>1. ASSUME NEW c \in Calls, Adds(c) \/ Authorizes(c) \/ Changes(c) PROVE straddled'
      <4>1. Adds(c) => straddled'
        BY <1>1 DEF Adds, AddRemoteMCP, AddStores, Announces, CallFails, historyVars
      <4>2. Authorizes(c) => straddled'
        BY <1>1 DEF Authorizes, WaitPolls, CompleteBegins, CompleteExchanges, CompleteStores,
                    FinalizeReads, FinalizeLists, FinalizeNames, historyVars
      <4>3. Changes(c) => straddled'
        BY <1>1 DEF Changes, RemoveDeletes, RemoveSaves, RemoveFails, SetChannels, historyVars
      <4> QED BY <3>1, <4>1, <4>2, <4>3
    <3>2. ASSUME NEW h \in Handlers, Callback(h) PROVE straddled'
      <4>1. CallbackTakes(h) \/ CallbackExchanges(h) \/ CallbackLoads(h) => straddled'
        BY <1>1 DEF CallbackTakes, CallbackExchanges, CallbackLoads, historyVars
      <4>2. CallbackStores(h) \/ CallbackFails(h) => straddled'
        BY <1>1 DEF CallbackStores, CallbackFails, historyVars
      <4>3. CallbackStoreFails(h) => straddled'
        BY <1>1 DEF CallbackStoreFails
      <4> QED BY <3>2, <4>1, <4>2, <4>3 DEF Callback
    <3>3. \A r \in Requests : Proxies(r) => straddled'
      BY <1>1, ProxiesMoves
    <3>4. (\E ch \in Channels : RemoveChannelFromAll(ch)) \/ AgentRestarts => straddled'
      BY <1>1 DEF RemoveChannelFromAll, AgentRestarts, historyVars
    <3>5. TokenExpires \/ ExchangeExpires => straddled'
      BY <1>1, TokenExpiresMoves DEF historyVars
    <3> QED BY <3>1, <3>2, <3>3, <3>4, <3>5 DEF RemoteNext
  <2>2. UNCHANGED remoteVars \/ Restarts => straddled'
    BY <1>1 DEF remoteVars, Restarts, RemoteRestart
  <2> QED BY <2>1, <2>2 DEF ServerInv, ConnectionsNext, FlowsAge
<1>2. CASE OneServerHeld /\ RemoteNext
  BY <1>2, CallServes, CallbackServes, ProxyServes, TimeServes DEF RemoteNext, ServerInv
<1>3. CASE OneServerHeld /\ ((CredentialsNext /\ UNCHANGED remoteVars) \/ FlowsAge)
  <2>1. UNCHANGED <<work, misdirected, listLock, registered, secret>>
    BY <1>3 DEF FlowsAge, remoteVars, storeVars
  <2>2. registers' <=> registers
    BY <2>1 DEF registers
  <2> QED BY <1>3, <2>1, <2>2, OthersPend, ServerStays DEF ServerInv
<1>4. CASE OneServerHeld /\ Restarts
  <2>1. /\ work' = [w \in Workers |-> Idle] /\ listLock' = Nobody
        /\ UNCHANGED <<registered, secret, misdirected>> /\ pending' = {}
    BY <1>4 DEF Restarts, RemoteRestart, CallbackLost, ReaperPanics
  <2>2. \A w \in Workers : ~ holds(w)'
    BY <2>1 DEF holds
  <2>3. remotePending' = {}
    BY <2>1 DEF remotePending
  <2>4. (registers' <=> registers) /\ (secretIsIts' <=> secretIsIts)
    BY <2>1 DEF registers, secretIsIts
  <2> QED BY <1>4, <2>1, <2>2, <2>3, <2>4 DEF ServerInv, OneServerHeld
<1> QED BY <1>1, <1>2, <1>3, <1>4 DEF ServerInv, ConnectionsNext

LEMMA ServerBegins == ASSUME ConnectionsInit PROVE ServerInv
<1>1. /\ registered = NoEntry /\ secret = NoAuth /\ work = [w \in Workers |-> Idle] /\ listLock = Nobody
      /\ misdirected = FALSE /\ pending = {}
  BY DEF ConnectionsInit, RemoteInit, CallbackInit
<1>2. (\A w \in Workers : ~ holds(w)) /\ remotePending = {}
  BY <1>1, NothingTyped DEF holds, remotePending
<1> QED BY <1>1, <1>2, NothingBegins DEF ServerInv, OneServerHeld

LEMMA ServerStutters == ASSUME ServerInv, UNCHANGED connectionVars PROVE ServerInv'
<1>1. UNCHANGED <<work, misdirected, listLock, registered, secret, straddled, callbackVars>>
  BY DEF connectionVars, remoteVars, storeVars
<1>2. registers' <=> registers
  BY <1>1 DEF registers
<1> QED BY <1>1, <1>2, PendingStays, ServerStays DEF ServerInv

(* A remote server's registration is one server's, under at least one      *)
(* channel, its locks are held by whoever removes or refreshes, and a      *)
(* change of it is announced: whatever adds, authorizations, callbacks,    *)
(* requests, removals, updates and channel deletions come in which order.  *)
THEOREM RegistrationIsSound == ConnectionsSpec => []RegistrationHolds
<1>1. ConnectionsInit => ConnectionsInv /\ ServerInv
  BY ConnectionsBegin, ServerBegins
<1>2. (ConnectionsInv /\ ServerInv) /\ [ConnectionsNext]_connectionVars => (ConnectionsInv /\ ServerInv)'
  BY ConnectionsTyped, ConnectionsStutter, ConnectionsServe, ServerStutters
<1>3. ConnectionsInv /\ ServerInv => RegistrationHolds
  <2> SUFFICES ASSUME ConnectionsInv, ServerInv PROVE RegistrationHolds
    OBVIOUS
  <2> USE ConstantsAre, NothingTyped, NothingBegins DEF ConnectionsInv
  <2>1. LocksOK
    <3>1. /\ CallbackTypeOK /\ registered \in Entry /\ secret \in RemoteMCPAuth /\ work \in [Workers -> Work]
          /\ live \subseteq Channels
      BY DEF RemoteInv, registrationSound, Works, Switches
    <3>2. listLock \in {Nobody} \cup {c \in Calls : at(c, "removing")}
      BY DEF RemoteInv, Locked
    <3>3. refreshLock \in {Nobody} \cup {r \in Requests : work[r].at \in {"minting", "persisting"}}
      BY DEF RemoteInv, Locked
    <3>4. {changed, stale, replayed, straddled, misdirected} \subseteq BOOLEAN
      BY DEF RemoteInv, Switches
    <3>5. /\ redeemed \subseteq Flows /\ spent \subseteq 1 .. MaxTokens
          /\ minted \in 0 .. MaxTokens /\ added \in 0 .. MaxFlows /\ faults \in 0 .. MaxFaults
      BY DEF RemoteInv, Numbers
    <3> QED BY <3>1, <3>2, <3>3, <3>4, <3>5 DEF LocksOK
  <2>2. OneServer
    BY DEF ServerInv, OneServerHeld, OneServer, secretIsIts
  <2>3. NeverEverywhere
    BY DEF RemoteInv, registrationSound, NeverEverywhere
  <2>4. ChangeIsAnnounced
    BY DEF RemoteInv, Mended, mends, at, ChangeIsAnnounced
  <2> QED BY <2>1, <2>2, <2>3, <2>4 DEF RegistrationHolds
<1> QED BY <1>1, <1>2, <1>3, PTL DEF ConnectionsSpec

-----------------------------------------------------------------------------
(* The sets of credentials: their grants, their list and their tools.      *)

keepsGrant(d) == desk[d].at \in {"storing", "refreshing", "keeping"}
refreshes(d) == desk[d].at \in {"refreshing", "keeping"}
expects(d) == desk[d].at \in {"exchanging", "storing", "refreshing", "keeping"}
listing(d) == desk[d].at \in {"adding", "dropping", "removing"}

(* A grant in the store was not replaced, but while the refresh that did it *)
(* is about to store its successor; no two places hold the same grant, but *)
(* the store and the refresh of that set.                                  *)
grantSound(l) ==
    granted(l) =>
        /\ grants[l].n \in rotated => \E d \in Desks : desk[d].of = l /\ is(d, "keeping")
        /\ \A k \in Labels : granted(k) /\ grants[k].n = grants[l].n => k = l

keeperSound(d) ==
    /\ keepsGrant(d) =>
          /\ desk[d].got \notin rotated
          /\ \A e \in Desks : keepsGrant(e) /\ desk[e].got = desk[d].got => e = d
    /\ is(d, "storing") => \A l \in Labels : granted(l) => grants[l].n # desk[d].got
    /\ refreshes(d) =>
          /\ \A l \in Labels : granted(l) /\ grants[l].n = desk[d].got => l = desk[d].of
          /\ \A e \in Desks : refreshes(e) => e = d

GrantsSound == (\A l \in Labels : grantSound(l)) /\ (\A d \in Desks : keeperSound(d))

(* Something that may end in a grant of the set. *)
underWay(l) ==
    \/ \E f \in pending \cap SignIns : flowOf[f] = l
    \/ \E d \in Desks : desk[d].of = l /\ expects(d)

removed(l) == \E d \in Desks : desk[d].of = l /\ is(d, "removing")

(* A call that changes the list is alone and knows it, and whatever is     *)
(* granted or under way is for a set that is in the list and stays there.  *)
listerSound(d) ==
    listing(d) =>
        /\ desk[d].seen = sets
        /\ is(d, "adding") => desk[d].of \notin sets
        /\ \A e \in Desks : listing(e) => e = d

ListsSound ==
    /\ \A d \in Desks : listerSound(d)
    /\ \A l \in Labels : granted(l) \/ underWay(l) => l \in sets /\ ~ removed(l)
    /\ \A d \in Desks : refreshes(d) => granted(desk[d].of)

(* Whoever changed the set will notify the tools of it. *)
excused(l) == \E d \in Desks : desk[d].of = l /\ desk[d].at \in {"removing", "notifying"}
isReady(l) == l \in sets /\ filled[l] = Fields /\ granted(l)

(* What the tools know, or will when the notification under way has ended, *)
(* is what is ready, but for the sets that wait for a notification.        *)
Follows(known) ==
    \A l \in Labels : excused(l) \/ ((l \in known => isReady(l)) /\ (isReady(l) => l \in known \cup lagging))

ToolsSound ==
    /\ \A d \in Desks : is(d, "registering") =>
          Follows(desk[d].seen) /\ \A e \in Desks : is(e, "registering") => e = d
    /\ (\A d \in Desks : ~ is(d, "registering")) => Follows(tools)

SetsSound == GrantsSound /\ (outlived \/ (ListsSound /\ ToolsSound))
SetsInv == overlapped \/ faults > 0 \/ SetsSound

(* One desk moves and has no grant of its own for it. *)
LEMMA GrantsKept ==
    ASSUME CredentialInv, GrantsSound, NEW d \in Desks, Only(d), UNCHANGED rotated,
           \A l \in Labels : granted(l)' => granted(l) /\ grants'[l].n = grants[l].n,
           \/ ~ is(d, "keeping") /\ ~ keepsGrant(d)'
           \/ desk'[d].at = desk[d].at /\ desk'[d].of = desk[d].of /\ desk'[d].got = desk[d].got
    PROVE  GrantsSound'
<1>1. \A e \in Desks : is(e, "keeping") => is(e, "keeping")' /\ desk'[e].of = desk[e].of
  BY DEF Only, is, keepsGrant
<1>2. \A e \in Desks : (keepsGrant(e)' => keepsGrant(e) /\ desk'[e].got = desk[e].got)
                       /\ (is(e, "storing")' => is(e, "storing") /\ keepsGrant(e)')
                       /\ (refreshes(e)' => refreshes(e) /\ desk'[e].of = desk[e].of /\ keepsGrant(e)')
  BY DEF Only, is, keepsGrant, refreshes
<1>3. \A l \in Labels : grantSound(l)'
  BY <1>1 DEF GrantsSound, grantSound
<1>4. \A e \in Desks : keeperSound(e)'
  BY <1>2 DEF GrantsSound, keeperSound
<1> QED BY <1>3, <1>4 DEF GrantsSound

(* One desk moves, and is not about the list. *)
LEMMA ListsKept ==
    ASSUME CredentialInv, ListsSound, NEW d \in Desks, Only(d), UNCHANGED sets,
           \A l \in Labels : (granted(l) => granted(l)') /\ (granted(l)' => granted(l) \/ underWay(l)),
           \A f \in pending' \cap SignIns : f \in pending /\ flowOf'[f] = flowOf[f],
           expects(d)' => granted(desk'[d].of) \/ underWay(desk'[d].of),
           refreshes(d)' => desk'[d].of \in Labels /\ granted(desk'[d].of), ~ listing(d)'
    PROVE  ListsSound'
<1>1. \A e \in Desks : e # d => desk'[e] = desk[e]
  BY DEF Only
<1>2. \A e \in Desks : listerSound(e)'
  BY <1>1 DEF ListsSound, listerSound, listing, is
<1>3. \A l \in Labels : granted(l)' \/ underWay(l)' => granted(l) \/ underWay(l)
  BY <1>1 DEF underWay, expects
<1>4. \A l \in Labels : removed(l)' => removed(l)
  BY <1>1 DEF removed, is, listing
<1>5. ASSUME NEW e \in Desks, refreshes(e)' PROVE granted(desk[e].of)'
  <2>1. CASE e = d
    BY <1>5, <2>1
  <2>2. CASE e # d
    <3>1. desk'[e] = desk[e] /\ refreshes(e) /\ granted(desk[e].of) /\ desk[e].of \in Labels
      BY <1>1, <1>5, <2>2 DEF refreshes, ListsSound, CredentialInv, deskSound, resting, is
    <3>2. PICK l \in Labels : l = desk[e].of
      BY <3>1
    <3>3. granted(l)' /\ desk'[e].of = l
      BY <3>1, <3>2
    <3> QED BY <3>3 DEF granted
  <2> QED BY <2>1, <2>2
<1> QED BY <1>2, <1>3, <1>4, <1>5 DEF ListsSound

(* One desk moves, and leaves no set unlike what the tools know of it. *)
LEMMA ToolsKept ==
    ASSUME ToolsSound, NEW d \in Desks, Only(d), UNCHANGED tools, lagging \subseteq lagging',
           ~ is(d, "registering"), ~ is(d, "registering")',
           desk[d].at \in {"removing", "notifying"} =>
               desk'[d].at \in {"removing", "notifying"} /\ desk'[d].of = desk[d].of,
           \A l \in Labels : \/ excused(l)'
                             \/ (isReady(l) => isReady(l)') /\ (isReady(l)' => isReady(l) \/ l \in lagging')
    PROVE  ToolsSound'
<1>1. \A e \in Desks : e # d => desk'[e] = desk[e]
  BY DEF Only
<1>2. \A l \in Labels : excused(l) => excused(l)'
  BY <1>1 DEF excused
<1>3. \A e \in Desks : (is(e, "registering")' <=> is(e, "registering"))
                       /\ (is(e, "registering") => desk'[e].seen = desk[e].seen)
  BY <1>1 DEF is
<1>4. ASSUME NEW known, Follows(known) PROVE Follows(known)'
  BY <1>2, <1>4 DEF Follows
<1>5. ASSUME NEW e \in Desks, is(e, "registering")' PROVE Follows(desk[e].seen)' /\ \A c \in Desks : is(c, "registering")' => c = e
  <2>1. Follows(desk[e].seen) /\ desk'[e].seen = desk[e].seen /\ \A c \in Desks : is(c, "registering") => c = e
    BY <1>3, <1>5 DEF ToolsSound
  <2>2. PICK known : known = desk[e].seen
    OBVIOUS
  <2>3. Follows(known)' /\ desk'[e].seen = known
    BY <1>4, <2>1, <2>2
  <2> QED BY <1>3, <2>1, <2>3 DEF Follows
<1>6. ASSUME \A e \in Desks : ~ is(e, "registering")' PROVE Follows(tools)'
  <2>1. PICK known : known = tools
    OBVIOUS
  <2>2. Follows(known)' /\ tools' = known
    BY <1>3, <1>4, <1>6, <2>1 DEF ToolsSound
  <2> QED BY <2>2 DEF Follows
<1> QED BY <1>5, <1>6 DEF ToolsSound

(* Nobody moves, and the store says the same of every set. *)
LEMMA SetsStay ==
    ASSUME CredentialInv, SetsSound, UNCHANGED <<desk, sets, tools, filled, rotated, lagging, outlived>>,
           \A l \in Labels : (granted(l)' <=> granted(l)) /\ grants'[l].n = grants[l].n,
           \A f \in pending' \cap SignIns : f \in pending /\ flowOf'[f] = flowOf[f]
    PROVE  SetsSound'
<1>1. \A l \in Labels : grantSound(l)'
  BY DEF SetsSound, GrantsSound, grantSound, is
<1>2. \A d \in Desks : keeperSound(d)'
  BY DEF SetsSound, GrantsSound, keeperSound, keepsGrant, refreshes, is
<1>3. ASSUME ListsSound PROVE ListsSound'
  <2>1. \A d \in Desks : listerSound(d)'
    BY <1>3 DEF ListsSound, listerSound, listing, is
  <2>2. \A l \in Labels : (removed(l)' <=> removed(l)) /\ (underWay(l)' => underWay(l))
    BY DEF removed, underWay, expects, is
  <2>3. ASSUME NEW d \in Desks, refreshes(d)' PROVE granted(desk[d].of)'
    <3>1. granted(desk[d].of) /\ desk[d].of \in Labels
      BY <1>3, <2>3 DEF refreshes, ListsSound, CredentialInv, deskSound, resting, is
    <3>2. PICK l \in Labels : l = desk[d].of
      BY <3>1
    <3> QED BY <3>1, <3>2 DEF granted
  <2> QED BY <1>3, <2>1, <2>2, <2>3 DEF ListsSound
<1>4. ASSUME ToolsSound PROVE ToolsSound'
  <2>1. \A l \in Labels : (excused(l)' <=> excused(l)) /\ (isReady(l)' <=> isReady(l))
    BY DEF excused, isReady
  <2>2. ASSUME NEW known PROVE Follows(known)' <=> Follows(known)
    BY <2>1 DEF Follows
  <2> QED BY <1>4, <2>1 DEF ToolsSound, Follows, is
<1> QED BY <1>1, <1>2, <1>3, <1>4 DEF SetsSound, GrantsSound

(* A desk moves that has nothing to do with the list, a grant or the tools. *)
LEMMA DeskQuiet ==
    ASSUME CredentialInv, SetsSound, NEW d \in Desks, Only(d),
           UNCHANGED <<sets, filled, grants, tools, rotated, lagging, outlived>>,
           \A f \in pending' \cap SignIns : f \in pending /\ flowOf'[f] = flowOf[f],
           desk[d].at \notin {"keeping", "registering", "removing", "notifying"},
           desk'[d].at \in {"idle", "exchanging", "refusing", "posting"},
           expects(d)' => underWay(desk'[d].of)
    PROVE  SetsSound'
<1>1. \A l \in Labels : (granted(l)' <=> granted(l)) /\ (isReady(l)' <=> isReady(l))
  BY DEF granted, isReady
<1>2. GrantsSound'
  BY <1>1, GrantsKept DEF SetsSound, is, keepsGrant
<1>3. ListsSound => ListsSound'
  BY <1>1, ListsKept DEF refreshes, listing
<1>4. ToolsSound => ToolsSound'
  BY <1>1, ToolsKept DEF is
<1> QED BY <1>2, <1>3, <1>4 DEF SetsSound

LEMMA ListsSets ==
    ASSUME CredentialInv, SetsSound, ~ overlapped',
           NEW c \in Clerks, NEW l \in Labels, AddLists(c, l) \/ RemoveLists(c, l)
    PROVE  SetsSound'
<1> USE CredentialConstants
<1>1. /\ resting(c) /\ overlaps(c, Listing)
      /\ UNCHANGED <<callbackVars, faults, storeOfSets, tools, form, flowOf, issued, rotated, lagging, outlived>>
  BY ListsMoves
<1>2. PICK step \in {"adding", "dropping"} : Sits(c, step, l, sets, 0, 0) /\ (step = "adding" => l \notin sets)
  BY ListsMoves
<1>3. UNCHANGED <<pending, sets, filled, grants>> /\ desk[c].at = "idle" /\ Only(c)
  BY <1>1, <1>2 DEF callbackVars, storeOfSets, resting, is, Sits
<1>4. \A e \in Desks : e # c => ~ listing(e) /\ desk'[e] = desk[e]
  BY <1>1, <1>3 DEF overlaps, Listing, listing, Only
<1>5. \A k \in Labels : (granted(k)' <=> granted(k)) /\ (isReady(k)' <=> isReady(k))
  BY <1>1, <1>3 DEF granted, isReady
<1>6. GrantsSound'
  BY <1>1, <1>2, <1>3, <1>5, GrantsKept DEF SetsSound, is, keepsGrant, Sits
<1>7. ASSUME ListsSound PROVE ListsSound'
  <2>1. \A e \in Desks : listerSound(e)'
    BY <1>2, <1>3, <1>4 DEF listerSound, listing, is, Sits
  <2>2. \A k \in Labels : (removed(k)' <=> removed(k)) /\ (underWay(k)' <=> underWay(k))
    BY <1>1, <1>2, <1>3, <1>4 DEF removed, underWay, expects, is, Sits
  <2>3. \A e \in Desks : refreshes(e)' => granted(desk[e].of)'
    BY <1>2, <1>3, <1>4, <1>7 DEF refreshes, Sits, ListsSound, granted
  <2> QED BY <1>3, <1>5, <1>7, <2>1, <2>2, <2>3 DEF ListsSound
<1>8. ToolsSound => ToolsSound'
  BY <1>1, <1>2, <1>3, <1>5, ToolsKept DEF is, Sits
<1> QED BY <1>1, <1>6, <1>7, <1>8 DEF SetsSound

LEMMA AddSavesSets ==
    ASSUME CredentialInv, SetsSound, NEW c \in Clerks, AddSaves(c),
           \A f \in pending \cap SignIns : flowOf[f] # "none"
    PROVE  SetsSound'
<1> USE CredentialConstants
<1>1. /\ is(c, "adding") /\ sets' = desk[c].seen \cup {desk[c].of} /\ desk[c].of \in Labels
      /\ Sits(c, "idle", "none", {}, 0, 0)
      /\ UNCHANGED <<filled, grants, tools, rotated, lagging, outlived>>
  BY AddSavesMoves
<1>2. PICK l \in Labels : l = desk[c].of
  BY <1>1
<1>3. \A f \in pending' \cap SignIns : (f \in pending /\ flowOf'[f] = flowOf[f]) \/ flowOf'[f] = l
  <2>1. CASE UNCHANGED <<callbackVars, flowOf>>
    BY <2>1 DEF callbackVars
  <2>2. ASSUME NEW f \in freeFlows, RegisterFlow(f), flowOf' = [flowOf EXCEPT ![f] = desk[c].of]
        PROVE  \A g \in pending' \cap SignIns : (g \in pending /\ flowOf'[g] = flowOf[g]) \/ flowOf'[g] = l
    BY <1>2, <2>2 DEF RegisterFlow, freeFlows, CredentialInv
  <2> QED BY <2>1, <2>2, AddSavesMoves
<1>4. Only(c) /\ desk'[c].at = "idle" /\ desk[c].at = "adding" /\ \A e \in Desks : e # c => desk'[e] = desk[e]
  BY <1>1 DEF Sits, Only, is
<1>5. \A k \in Labels : (granted(k)' <=> granted(k))
  BY <1>1 DEF granted
<1>6. GrantsSound'
  BY <1>1, <1>4, <1>5, GrantsKept DEF SetsSound, is, keepsGrant
<1>7. ASSUME ListsSound PROVE ListsSound'
  <2>1. desk[c].seen = sets /\ l \notin sets /\ sets' = sets \cup {l} /\ \A e \in Desks : e # c => ~ listing(e)
    BY <1>1, <1>2, <1>4, <1>7 DEF ListsSound, listerSound, listing, is
  <2>2. \A e \in Desks : ~ listing(e)'
    BY <1>4, <2>1 DEF listing
  <2>3. \A k \in Labels : ~ removed(k)' /\ (underWay(k)' => underWay(k) \/ k = l)
    BY <1>3, <1>4, <2>2 DEF removed, underWay, expects, is, listing
  <2>4. \A e \in Desks : refreshes(e)' => granted(desk[e].of)'
    BY <1>1, <1>4, <1>7 DEF refreshes, ListsSound, granted
  <2> QED BY <1>5, <1>7, <2>1, <2>2, <2>3, <2>4 DEF ListsSound, listerSound
<1>8. ASSUME ListsSound, ToolsSound PROVE ToolsSound'
  <2>1. desk[c].seen = sets /\ l \notin sets /\ sets' = sets \cup {l} /\ ~ granted(l)
    BY <1>1, <1>2, <1>4, <1>8 DEF ListsSound, listerSound, listing, is
  <2>2. \A k \in Labels : isReady(k)' <=> isReady(k)
    BY <1>1, <1>5, <2>1 DEF isReady
  <2> QED BY <1>1, <1>4, <1>8, <2>2, ToolsKept DEF is
<1> QED BY <1>1, <1>6, <1>7, <1>8 DEF SetsSound

LEMMA RemoveDropsSets ==
    ASSUME CredentialInv, SetsSound, NEW c \in Clerks, RemoveDropsTokens(c)
    PROVE  SetsSound'
<1> USE CredentialConstants
<1>1. /\ is(c, "dropping") /\ Sits(c, "removing", desk[c].of, desk[c].seen, desk[c].got, desk[c].flow)
      /\ grants' = [grants EXCEPT ![desk[c].of] = NoGrant] /\ outlived' = (outlived \/ expected(desk[c].of))
      /\ UNCHANGED <<callbackVars, sets, filled, tools, flowOf, rotated, lagging>>
  BY RemovesMoves DEF RemoveDropsTokens
<1>2. PICK l \in Labels : l = desk[c].of
  BY <1>1 DEF CredentialInv, deskSound, resting, is
<1>3. /\ Only(c) /\ desk[c].at = "dropping" /\ desk'[c].at = "removing" /\ desk'[c].of = l /\ desk'[c].seen = desk[c].seen
      /\ \A e \in Desks : e # c => desk'[e] = desk[e]
  BY <1>1, <1>2 DEF Sits, Only, is
<1>4. /\ \A k \in Labels : k # l => (granted(k)' <=> granted(k)) /\ grants'[k] = grants[k]
      /\ ~ granted(l)'
  BY <1>1, <1>2 DEF granted, CredentialInv
<1>5. \A k \in Labels : granted(k)' => granted(k) /\ grants'[k].n = grants[k].n
  BY <1>4
<1>6. GrantsSound'
  BY <1>1, <1>3, <1>5, GrantsKept DEF SetsSound, is, keepsGrant
<1>7. ASSUME ListsSound, ~ outlived' PROVE ListsSound'
  <2>1. ~ underWay(l)
    BY <1>1, <1>2, <1>7 DEF expected, underWay, expects, Refreshing
  <2>2. \A k \in Labels : underWay(k)' => underWay(k)
    BY <1>1, <1>3 DEF underWay, expects, callbackVars
  <2>3. \A k \in Labels : removed(k)' => removed(k) \/ k = l
    BY <1>3 DEF removed, is
  <2>4. \A e \in Desks : listerSound(e)'
    BY <1>1, <1>3, <1>7 DEF ListsSound, listerSound, listing, is
  <2>5. ASSUME NEW e \in Desks, refreshes(e)' PROVE granted(desk[e].of)'
    <3>1. e # c /\ refreshes(e) /\ desk'[e].of = desk[e].of
      BY <1>3, <2>5 DEF refreshes
    <3>2. granted(desk[e].of) /\ underWay(desk[e].of) /\ desk[e].of \in Labels
      BY <1>7, <3>1 DEF ListsSound, underWay, expects, refreshes, CredentialInv, deskSound, resting, is
    <3>3. PICK k \in Labels : k = desk[e].of /\ k # l
      BY <2>1, <3>2
    <3>4. granted(k)'
      BY <1>4, <3>2, <3>3
    <3> QED BY <3>1, <3>3, <3>4 DEF granted
  <2> QED BY <1>1, <1>4, <1>7, <2>1, <2>2, <2>3, <2>4, <2>5 DEF ListsSound
<1>8. ToolsSound => ToolsSound'
  <2>1. excused(l)' /\ \A k \in Labels : k # l => (isReady(k)' <=> isReady(k))
    BY <1>1, <1>3, <1>4 DEF excused, isReady
  <2> QED BY <1>1, <1>3, <2>1, ToolsKept DEF is
<1> QED BY <1>1, <1>6, <1>7, <1>8 DEF SetsSound

LEMMA RemoveSavesList ==
    ASSUME CredentialInv, SetsSound, NEW c \in Clerks, RemoveSavesSets(c)
    PROVE  SetsSound'
<1> USE CredentialConstants
<1>1. /\ is(c, "removing") /\ Sits(c, "notifying", desk[c].of, desk[c].seen, desk[c].got, desk[c].flow)
      /\ sets' = desk[c].seen \ {desk[c].of} /\ outlived' = (outlived \/ expected(desk[c].of))
      /\ UNCHANGED <<callbackVars, filled, grants, tools, flowOf, rotated, lagging>>
  BY RemovesMoves DEF RemoveSavesSets
<1>2. PICK l \in Labels : l = desk[c].of
  BY <1>1 DEF CredentialInv, deskSound, resting, is
<1>3. /\ Only(c) /\ desk[c].at = "removing" /\ desk'[c].at = "notifying" /\ desk'[c].of = l
      /\ \A e \in Desks : e # c => desk'[e] = desk[e]
  BY <1>1, <1>2 DEF Sits, Only, is
<1>4. \A k \in Labels : (granted(k)' <=> granted(k)) /\ grants'[k].n = grants[k].n
  BY <1>1 DEF granted
<1>5. GrantsSound'
  BY <1>1, <1>3, <1>4, GrantsKept DEF SetsSound, is, keepsGrant
<1>6. ASSUME ListsSound
      PROVE  sets' = sets \ {l} /\ removed(l) /\ (\A e \in Desks : ~ listing(e)') /\ ListsSound'
  <2>1. sets' = sets \ {l} /\ removed(l) /\ \A e \in Desks : e # c => ~ listing(e)
    BY <1>1, <1>2, <1>3, <1>6 DEF ListsSound, listerSound, listing, removed, is
  <2>2. \A e \in Desks : ~ listing(e)'
    BY <1>3, <2>1 DEF listing
  <2>3. \A k \in Labels : ~ removed(k)' /\ (underWay(k)' => underWay(k))
    BY <1>1, <1>3, <2>2 DEF removed, underWay, expects, is, listing, callbackVars
  <2>4. \A e \in Desks : refreshes(e)' => granted(desk[e].of)'
    BY <1>1, <1>3, <1>6 DEF refreshes, ListsSound, granted
  <2> QED BY <1>4, <1>6, <2>1, <2>2, <2>3, <2>4 DEF ListsSound, listerSound
<1>7. ASSUME ListsSound, ToolsSound PROVE ToolsSound'
  <2>1. excused(l)'
    BY <1>3 DEF excused
  <2>2. \A k \in Labels : k # l => (k \in sets' <=> k \in sets)
    BY <1>6, <1>7
  <2>3. ASSUME NEW k \in Labels, k # l PROVE isReady(k)' <=> isReady(k)
    <3>1. filled' = filled /\ grants' = grants /\ (k \in sets' <=> k \in sets)
      BY <1>1, <2>2, <2>3
    <3> QED BY <3>1 DEF isReady, granted
  <2> QED BY <1>1, <1>2, <1>3, <1>7, <2>1, <2>3, ToolsKept DEF is
<1> QED BY <1>1, <1>5, <1>6, <1>7 DEF SetsSound

LEMMA ClearsSets ==
    ASSUME CredentialInv, SetsSound, NEW c \in Clerks, NEW l \in Labels, NEW field \in Fields, Clears(c, l, field)
    PROVE  SetsSound'
<1> USE CredentialConstants
<1>1. /\ UNCHANGED <<callbackVars, sets, grants, tools, flowOf, rotated, lagging, outlived>>
      /\ filled' = [filled EXCEPT ![l] = @ \ {field}]
  BY DEF Clears
<1>2. Only(c) /\ desk[c].at = "idle" /\ desk'[c].at = "notifying" /\ desk'[c].of = l
  BY ClearsMoves DEF resting, is, Sits
<1>3. \A k \in Labels : (granted(k)' <=> granted(k)) /\ (k # l => (isReady(k)' <=> isReady(k)))
  BY <1>1 DEF granted, isReady, CredentialInv
<1>4. GrantsSound'
  BY <1>1, <1>2, <1>3, GrantsKept DEF SetsSound, is, keepsGrant
<1>5. ListsSound => ListsSound'
  BY <1>1, <1>2, <1>3, ListsKept DEF refreshes, listing, expects, callbackVars
<1>6. ToolsSound => ToolsSound'
  BY <1>1, <1>2, <1>3, ToolsKept DEF is, excused
<1> QED BY <1>1, <1>4, <1>5, <1>6 DEF SetsSound

LEMMA NotifiesSets ==
    ASSUME CredentialInv, SetsSound, ~ overlapped', NEW d \in Desks, NotifyReads(d) \/ NotifyRegisters(d)
    PROVE  SetsSound'
<1> USE CredentialConstants
<1>1. /\ UNCHANGED <<sets, filled, grants, flowOf, rotated, outlived>> /\ UNCHANGED pending
  BY DEF NotifyReads, NotifyRegisters, storeOfSets, callbackVars
<1>2. Only(d) /\ desk[d].at \in {"notifying", "registering"} /\ desk'[d].at \in {"registering", "idle"}
      /\ \A e \in Desks : e # d => desk'[e] = desk[e]
  BY NotifyReadsMoves, NotifyRegistersMoves DEF Sits, Only, is
<1>3. \A k \in Labels : (granted(k)' <=> granted(k)) /\ (isReady(k)' <=> isReady(k))
  BY <1>1 DEF granted, isReady
<1>4. GrantsSound'
  BY <1>1, <1>2, <1>3, GrantsKept DEF SetsSound, is, keepsGrant
<1>5. ListsSound => ListsSound'
  BY <1>1, <1>2, <1>3, ListsKept DEF refreshes, listing, expects
<1>6. ASSUME ToolsSound PROVE ToolsSound'
  <2>1. CASE NotifyReads(d)
    <3>1. desk'[d].at = "registering" /\ desk'[d].seen = ready(sets, filled, grants) /\ is(d, "notifying")
      BY <2>1, NotifyReadsMoves DEF Sits
    <3>2. \A e \in Desks : is(e, "registering")' => e = d
      BY <1>2, <2>1 DEF NotifyReads, overlaps, Notifying, is
    <3>3. \A l \in Labels : l \in ready(sets, filled, grants) <=> isReady(l)'
      BY <1>3 DEF ready, isReady, granted
    <3>4. PICK known : known = ready(sets, filled, grants)
      OBVIOUS
    <3>5. Follows(known)' /\ desk'[d].seen = known
      BY <3>1, <3>3, <3>4 DEF Follows
    <3>6. Follows(desk[d].seen)'
      BY <3>5 DEF Follows
    <3> QED BY <3>1, <3>2, <3>6 DEF ToolsSound, is
  <2>2. CASE NotifyRegisters(d)
    <3>1. is(d, "registering") /\ tools' = desk[d].seen /\ UNCHANGED lagging /\ desk'[d].at = "idle"
      BY <2>2, NotifyRegistersMoves DEF Sits
    <3>2. Follows(desk[d].seen) /\ \A e \in Desks : ~ is(e, "registering")'
      BY <1>2, <1>6, <3>1 DEF ToolsSound, is
    <3>3. \A l \in Labels : excused(l)' <=> excused(l)
      BY <1>2, <3>1 DEF excused, is
    <3>4. PICK known : known = desk[d].seen
      OBVIOUS
    <3>5. Follows(known)' /\ tools' = known
      BY <1>3, <3>1, <3>2, <3>3, <3>4 DEF Follows
    <3> QED BY <3>2, <3>5 DEF ToolsSound, Follows
  <2> QED BY <2>1, <2>2
<1> QED BY <1>1, <1>4, <1>5, <1>6 DEF SetsSound

LEMMA RedirectTakesSets ==
    ASSUME CredentialInv, SetsSound, NEW v \in Visits, RedirectTakes(v),
           \A f \in pending \cap SignIns : flowOf[f] # "none"
    PROVE  SetsSound'
<1> USE CredentialConstants
<1>1. PICK f \in pending \cap SignIns, next \in {"exchanging", "refusing"} :
          pending' = pending \ {f} /\ flowOf[f] \in Labels /\ Sits(v, next, flowOf[f], {}, 0, f)
  BY RedirectTakesMoves
<1>2. resting(v) /\ UNCHANGED <<sets, filled, grants, tools, flowOf, rotated, lagging, outlived>>
  BY RedirectTakesMoves DEF RedirectTakes, storeOfSets
<1>3. underWay(flowOf[f])
  BY DEF underWay
<1> QED BY <1>1, <1>2, <1>3, DeskQuiet DEF Sits, resting, is

LEMMA RedirectExchangesSets ==
    ASSUME CredentialInv, SetsSound, NEW v \in Visits, RedirectExchanges(v)
    PROVE  SetsSound'
<1> USE CredentialConstants
<1>1. /\ is(v, "exchanging") /\ UNCHANGED <<sets, filled, grants, tools, flowOf, rotated, lagging, outlived>>
      /\ UNCHANGED pending
  BY RedirectExchangesMoves DEF RedirectExchanges, storeOfSets, callbackVars
<1>2. CASE Sits(v, "refusing", desk[v].of, desk[v].seen, desk[v].got, desk[v].flow)
  BY <1>1, <1>2, DeskQuiet DEF Sits, is, expects
<1>3. CASE Sits(v, "storing", desk[v].of, desk[v].seen, issued + 1, desk[v].flow)
  <2>1. /\ Only(v) /\ desk[v].at = "exchanging" /\ desk'[v].at = "storing" /\ desk'[v].of = desk[v].of
        /\ desk'[v].got = issued + 1 /\ \A e \in Desks : e # v => desk'[e] = desk[e]
    BY <1>1, <1>3 DEF Sits, Only, is
  <2>2. \A k \in Labels : (granted(k)' <=> granted(k)) /\ (isReady(k)' <=> isReady(k))
    BY <1>1 DEF granted, isReady
  <2>3. issued + 1 \notin rotated /\ issued \in Nat
        /\ (\A l \in Labels : granted(l) => grants[l].n # issued + 1)
        /\ (\A e \in Desks : keepsGrant(e) => desk[e].got # issued + 1)
    BY DEF CredentialInv, deskSound, keepsGrant
  <2>4. \A l \in Labels : grantSound(l)'
    BY <1>1, <2>1, <2>2 DEF SetsSound, GrantsSound, grantSound, is
  <2>5. \A e \in Desks : keeperSound(e)'
    BY <1>1, <2>1, <2>2, <2>3 DEF SetsSound, GrantsSound, keeperSound, keepsGrant, refreshes, is
  <2>6. underWay(desk[v].of)
    BY <2>1 DEF underWay, expects
  <2>7. ListsSound => ListsSound'
    BY <1>1, <2>1, <2>2, <2>6, ListsKept DEF refreshes, listing
  <2>8. ToolsSound => ToolsSound'
    BY <1>1, <2>1, <2>2, ToolsKept DEF is
  <2> QED BY <1>1, <2>4, <2>5, <2>7, <2>8 DEF SetsSound, GrantsSound
<1> QED BY <1>2, <1>3, RedirectExchangesMoves

(* A grant is stored, from a callback or a refresh. *)
LEMMA GrantStoredSets ==
    ASSUME CredentialInv, SetsSound, NEW d \in Desks,
           (d \in Visits /\ RedirectStores(d)) \/ (d \in Clerks /\ RefreshKeeps(d))
    PROVE  SetsSound'
<1> USE CredentialConstants
<1>1. /\ UNCHANGED <<sets, filled, tools, flowOf, rotated, lagging, outlived>> /\ UNCHANGED pending
      /\ grants' = [grants EXCEPT ![desk[d].of] = [n |-> desk[d].got, fresh |-> TRUE]]
  BY DEF RedirectStores, RefreshKeeps, callbackVars
<1>2. /\ Only(d) /\ \A e \in Desks : e # d => desk'[e] = desk[e]
      /\ \/ desk[d].at = "storing" /\ desk'[d].at = "notifying" /\ desk'[d].of = desk[d].of
         \/ desk[d].at = "keeping" /\ desk'[d].at = "idle"
  BY VisitsMoves, RefreshKeepsMoves DEF Sits, Only, is
<1>3. PICK l \in Labels : l = desk[d].of
  BY <1>2 DEF CredentialInv, deskSound, resting, is
<1>4. /\ grants'[l].n = desk[d].got /\ \A k \in Labels : k # l => grants'[k] = grants[k] /\ (granted(k)' <=> granted(k))
  BY <1>1, <1>3 DEF granted, CredentialInv
<1>5. granted(l)'
  <2>1. grants'[l] = [n |-> desk[d].got, fresh |-> TRUE]
    BY <1>1, <1>3 DEF CredentialInv
  <2>2. desk[d].got \in 1 .. issued /\ issued \in Nat
    BY <1>2 DEF CredentialInv, deskSound
  <2> QED BY <2>1, <2>2 DEF granted, NoGrant
<1>6. /\ keepsGrant(d) /\ desk[d].got \notin rotated
      /\ \A e \in Desks : keepsGrant(e) /\ desk[e].got = desk[d].got => e = d
      /\ \A k \in Labels : granted(k) /\ grants[k].n = desk[d].got => k = l
      /\ is(d, "keeping") => \A e \in Desks : refreshes(e) => e = d
  BY <1>2, <1>3 DEF SetsSound, GrantsSound, keeperSound, keepsGrant, refreshes, is
<1>7. \A k \in Labels : grantSound(k)'
  <2> SUFFICES ASSUME NEW k \in Labels, granted(k)' PROVE grantSound(k)'
    BY DEF grantSound
  <2>1. ASSUME NEW j \in Labels, granted(j)', grants'[j].n = grants'[k].n PROVE j = k
    BY <1>4, <1>6, <2>1 DEF SetsSound, GrantsSound, grantSound
  <2>2. ASSUME grants'[k].n \in rotated' PROVE \E e \in Desks : desk'[e].of = k /\ is(e, "keeping")'
    <3>1. k # l /\ granted(k) /\ grants[k].n \in rotated
      BY <1>1, <1>4, <1>6, <2>2
    <3>2. PICK e \in Desks : desk[e].of = k /\ is(e, "keeping")
      BY <3>1 DEF SetsSound, GrantsSound, grantSound
    <3>3. e # d
      BY <1>3, <3>1, <3>2
    <3> QED BY <1>2, <3>2, <3>3 DEF is
  <2> QED BY <2>1, <2>2 DEF grantSound
<1>8. \A e \in Desks : keeperSound(e)'
  <2> SUFFICES ASSUME NEW e \in Desks PROVE keeperSound(e)'
    OBVIOUS
  <2>1. CASE e = d
    BY <1>2, <2>1 DEF keeperSound, keepsGrant, refreshes, is
  <2>2. CASE e # d
    <3>1. keeperSound(e) /\ desk'[e] = desk[e] /\ (keepsGrant(e) => desk[e].got # desk[d].got)
      BY <1>2, <1>6, <2>2 DEF SetsSound, GrantsSound
    <3>2. \A c \in Desks : (keepsGrant(c)' => keepsGrant(c) /\ desk'[c].got = desk[c].got) /\ (refreshes(c)' => refreshes(c))
      BY <1>2 DEF keepsGrant, refreshes
    <3>3. ASSUME is(e, "storing")' PROVE \A k \in Labels : granted(k)' => grants'[k].n # desk'[e].got
      BY <1>4, <3>1, <3>3 DEF keeperSound, keepsGrant, is
    <3>4. ASSUME refreshes(e)' PROVE \A k \in Labels : granted(k)' /\ grants'[k].n = desk'[e].got => k = desk'[e].of
      BY <1>4, <3>1, <3>4 DEF keeperSound, keepsGrant, refreshes
    <3>5. ASSUME keepsGrant(e)' PROVE desk'[e].got \notin rotated'
      BY <1>1, <3>1, <3>5 DEF keeperSound, keepsGrant
    <3>6. ASSUME keepsGrant(e)', NEW c \in Desks, keepsGrant(c)', desk'[c].got = desk'[e].got PROVE c = e
      BY <3>1, <3>2, <3>6 DEF keeperSound, keepsGrant
    <3>7. ASSUME refreshes(e)', NEW c \in Desks, refreshes(c)' PROVE c = e
      BY <3>1, <3>2, <3>7 DEF keeperSound
    <3> QED BY <3>3, <3>4, <3>5, <3>6, <3>7 DEF keeperSound
  <2> QED BY <2>1, <2>2
<1>9. underWay(desk[d].of)
  BY <1>2 DEF underWay, expects
<1>10. ListsSound => ListsSound'
  BY <1>1, <1>2, <1>3, <1>4, <1>5, <1>9, ListsKept DEF refreshes, listing, expects
<1>11. ASSUME ListsSound, ToolsSound PROVE ToolsSound'
  <2>1. \A k \in Labels : k # l => (isReady(k)' <=> isReady(k))
    BY <1>1, <1>4 DEF isReady
  <2>2. excused(l)' \/ (isReady(l)' <=> isReady(l))
    <3>1. CASE desk[d].at = "storing"
      BY <1>2, <1>3, <3>1 DEF excused
    <3>2. CASE desk[d].at = "keeping"
      <4>1. granted(l)
        BY <1>3, <1>11, <3>2 DEF ListsSound, refreshes
      <4> QED BY <1>1, <1>5, <4>1 DEF isReady
    <3> QED BY <1>2, <3>1, <3>2
  <2> QED BY <1>1, <1>2, <1>11, <2>1, <2>2, ToolsKept DEF is
<1> QED BY <1>1, <1>7, <1>8, <1>10, <1>11 DEF SetsSound, GrantsSound

LEMMA RefreshReadsSets ==
    ASSUME CredentialInv, SetsSound, ~ overlapped', NEW c \in Clerks, NEW l \in Labels, RefreshReads(c, l)
    PROVE  SetsSound'
<1> USE CredentialConstants
<1>1. /\ UNCHANGED <<sets, filled, grants, tools, flowOf, rotated, lagging, outlived>> /\ UNCHANGED pending
      /\ granted(l) /\ overlaps(c, Refreshing)
  BY RefreshReadsMoves DEF RefreshReads, storeOfSets, callbackVars
<1>2. /\ Only(c) /\ desk[c].at = "idle" /\ desk'[c].at = "refreshing" /\ desk'[c].of = l /\ desk'[c].got = grants[l].n
      /\ \A e \in Desks : e # c => desk'[e] = desk[e]
  BY RefreshReadsMoves DEF Sits, Only, resting, is
<1>3. \A e \in Desks : ~ refreshes(e)
  BY <1>1, <1>2 DEF overlaps, Refreshing, refreshes
<1>4. \A k \in Labels : (granted(k)' <=> granted(k)) /\ (isReady(k)' <=> isReady(k))
  BY <1>1 DEF granted, isReady
<1>5. /\ grants[l].n \notin rotated /\ \A k \in Labels : granted(k) /\ grants[k].n = grants[l].n => k = l
  BY <1>1, <1>3 DEF SetsSound, GrantsSound, grantSound, refreshes, is
<1>6. \A e \in Desks : keepsGrant(e) => is(e, "storing") /\ desk[e].got # grants[l].n
  BY <1>1, <1>3 DEF SetsSound, GrantsSound, keeperSound, keepsGrant, refreshes, is
<1>7. \A k \in Labels : grantSound(k)'
  BY <1>1, <1>2, <1>3, <1>4 DEF SetsSound, GrantsSound, grantSound, is, refreshes
<1>8. \A e \in Desks : keeperSound(e)'
  BY <1>1, <1>2, <1>3, <1>4, <1>5, <1>6 DEF SetsSound, GrantsSound, keeperSound, keepsGrant, refreshes, is
<1>9. ListsSound => ListsSound'
  BY <1>1, <1>2, <1>4, ListsKept DEF listing
<1>10. ToolsSound => ToolsSound'
  BY <1>1, <1>2, <1>4, ToolsKept DEF is
<1> QED BY <1>1, <1>7, <1>8, <1>9, <1>10 DEF SetsSound, GrantsSound

LEMMA RefreshExchangesSets ==
    ASSUME CredentialInv, SetsSound, NEW c \in Clerks, RefreshExchanges(c)
    PROVE  SetsSound'
<1> USE CredentialConstants
<1>1. /\ UNCHANGED <<sets, filled, grants, tools, flowOf, lagging, outlived>> /\ UNCHANGED pending
      /\ is(c, "refreshing")
  BY RefreshExchangesMoves DEF RefreshExchanges, storeOfSets, callbackVars
<1>2. CASE UNCHANGED <<issued, rotated>> /\ Sits(c, "idle", "none", {}, 0, 0)
  BY <1>1, <1>2, DeskQuiet DEF Sits, is, expects
<1>3. ASSUME NEW has, Sits(c, "keeping", desk[c].of, desk[c].seen, has, desk[c].flow),
             \/ has = desk[c].got /\ UNCHANGED rotated
             \/ has = issued + 1 /\ rotated' = rotated \cup {desk[c].got}
      PROVE  SetsSound'
  <2>1. /\ Only(c) /\ desk[c].at = "refreshing" /\ desk'[c].at = "keeping" /\ desk'[c].of = desk[c].of
        /\ desk'[c].got = has /\ \A e \in Desks : e # c => desk'[e] = desk[e]
    BY <1>1, <1>3 DEF Sits, Only, is
  <2>2. PICK l \in Labels : l = desk[c].of
    BY <2>1 DEF CredentialInv, deskSound, resting, is
  <2>3. \A k \in Labels : (granted(k)' <=> granted(k)) /\ (isReady(k)' <=> isReady(k))
    BY <1>1 DEF granted, isReady
  <2>4. /\ desk[c].got \notin rotated /\ (\A e \in Desks : keepsGrant(e) /\ desk[e].got = desk[c].got => e = c)
        /\ (\A k \in Labels : granted(k) /\ grants[k].n = desk[c].got => k = l)
        /\ \A e \in Desks : refreshes(e) => e = c
    BY <2>1, <2>2 DEF SetsSound, GrantsSound, keeperSound, keepsGrant, refreshes
  <2>5. /\ issued \in Nat /\ rotated \subseteq 1 .. issued /\ desk[c].got \in 1 .. issued
        /\ (\A k \in Labels : granted(k) => grants[k].n \in 1 .. issued)
        /\ (\A e \in Desks : keepsGrant(e) => desk[e].got \in 1 .. issued)
    BY <2>1 DEF CredentialInv, deskSound, keepsGrant
  <2>6. /\ has \notin rotated' /\ (\A e \in Desks : keepsGrant(e) /\ desk[e].got = has => e = c)
        /\ (\A k \in Labels : granted(k) /\ grants[k].n = has => k = l)
    BY <1>3, <2>4, <2>5
  <2>7. \A k \in Labels : grantSound(k)'
    <3> SUFFICES ASSUME NEW k \in Labels, granted(k)' PROVE grantSound(k)'
      BY DEF grantSound
    <3>1. grantSound(k) /\ granted(k) /\ grants' = grants
      BY <1>1, <2>3 DEF SetsSound, GrantsSound
    <3>2. ASSUME grants[k].n \in rotated' PROVE \E e \in Desks : desk'[e].of = k /\ is(e, "keeping")'
      <4>1. CASE grants[k].n \in rotated
        <5>1. PICK e \in Desks : desk[e].of = k /\ is(e, "keeping")
          BY <3>1, <4>1 DEF grantSound
        <5> QED BY <2>1, <5>1 DEF is
      <4>2. CASE grants[k].n = desk[c].got
        BY <2>1, <2>2, <2>4, <3>1, <4>2 DEF is
      <4> QED BY <1>3, <3>2, <4>1, <4>2
    <3> QED BY <2>3, <3>1, <3>2 DEF grantSound
  <2>8. \A e \in Desks : keeperSound(e)'
    <3> SUFFICES ASSUME NEW e \in Desks PROVE keeperSound(e)'
      OBVIOUS
    <3>1. \A d \in Desks : (keepsGrant(d)' => keepsGrant(d)) /\ (refreshes(d)' => d = c)
      BY <2>1, <2>4 DEF keepsGrant, refreshes
    <3>2. CASE e = c
      BY <1>1, <2>1, <2>2, <2>3, <2>6, <3>1, <3>2 DEF keeperSound, keepsGrant, refreshes, is
    <3>3. CASE e # c
      <4>1. keeperSound(e) /\ desk'[e] = desk[e] /\ (keepsGrant(e) => desk[e].got \notin {has, desk[c].got})
        BY <2>1, <2>4, <2>6, <3>3 DEF SetsSound, GrantsSound
      <4>2. ~ refreshes(e)'
        BY <3>1, <3>3
      <4>3. keepsGrant(e)' => desk'[e].got \notin rotated'
        BY <1>3, <4>1 DEF keeperSound, keepsGrant
      <4>4. ASSUME keepsGrant(e)', NEW d \in Desks, keepsGrant(d)', desk'[d].got = desk'[e].got PROVE d = e
        BY <2>1, <3>1, <4>1, <4>4 DEF keeperSound, keepsGrant
      <4>5. is(e, "storing")' => \A k \in Labels : granted(k)' => grants'[k].n # desk'[e].got
        BY <1>1, <2>3, <4>1 DEF keeperSound, is
      <4> QED BY <4>2, <4>3, <4>4, <4>5 DEF keeperSound
    <3> QED BY <3>2, <3>3
  <2>9. ListsSound => ListsSound'
    <3>1. ASSUME ListsSound PROVE granted(desk[c].of)
      BY <2>1, <3>1 DEF ListsSound, refreshes
    <3> QED BY <1>1, <2>1, <2>2, <2>3, <3>1, ListsKept DEF listing
  <2>10. ToolsSound => ToolsSound'
    BY <1>1, <2>1, <2>3, ToolsKept DEF is
  <2> QED BY <1>1, <2>7, <2>8, <2>9, <2>10 DEF SetsSound, GrantsSound
<1> QED BY <1>2, <1>3, RefreshExchangesMoves

LEMMA FormSets ==
    ASSUME CredentialInv, SetsSound, NEW v \in Visits,
           FormPosted(v) \/ FormStores(v) \/ FormSubmitted(v) \/ RedirectRefuses(v)
    PROVE  SetsSound'
<1> USE CredentialConstants
<1>1. /\ UNCHANGED <<sets, grants, tools, flowOf, rotated, outlived>> /\ UNCHANGED pending
  BY DEF FormPosted, FormStores, FormSubmitted, RedirectRefuses, storeOfSets, callbackVars
<1>2. CASE FormPosted(v) \/ FormSubmitted(v) \/ RedirectRefuses(v)
  <2>1. UNCHANGED <<filled, lagging>>
    BY <1>2 DEF FormPosted, FormSubmitted, RedirectRefuses, storeOfSets
  <2>2. /\ desk[v].at \in {"idle", "posting", "refusing"} /\ desk'[v].at \in {"idle", "posting"} /\ Only(v)
    BY <1>2, FormPostedMoves, VisitsMoves DEF Sits, resting, is
  <2> QED BY <1>1, <2>1, <2>2, DeskQuiet DEF expects
<1>3. CASE FormStores(v)
  <2>1. /\ desk[v].at = "posting" /\ desk'[v].at = "posting" /\ Only(v) /\ desk[v].of \in Labels
        /\ lagging' = lagging \cup {desk[v].of} /\ filled' \in [Labels -> SUBSET Fields]
        /\ \A l \in Labels : l # desk[v].of => filled'[l] = filled[l]
        /\ filled[desk[v].of] \subseteq filled'[desk[v].of]
    BY <1>3, FormStoresMoves DEF Sits, is
  <2>2. \A k \in Labels : granted(k)' <=> granted(k)
    BY <1>1 DEF granted
  <2>3. ASSUME NEW k \in Labels PROVE (isReady(k) => isReady(k)') /\ (isReady(k)' => isReady(k) \/ k \in lagging')
    <3>1. UNCHANGED <<sets, grants>>
      BY <1>1
    <3>2. CASE k # desk[v].of
      BY <2>1, <3>1, <3>2 DEF isReady, granted
    <3>3. CASE k = desk[v].of
      <4>1. k \in lagging'
        BY <2>1, <3>3
      <4>2. filled[k] \subseteq filled'[k] /\ filled'[k] \subseteq Fields
        BY <2>1, <3>3
      <4>3. filled[k] = Fields => filled'[k] = Fields
        BY <4>2
      <4> QED BY <3>1, <4>1, <4>3 DEF isReady, granted
    <3> QED BY <3>2, <3>3
  <2>4. GrantsSound'
    BY <1>1, <2>1, <2>2, GrantsKept DEF SetsSound, is, keepsGrant
  <2>5. ListsSound => ListsSound'
    BY <1>1, <2>1, <2>2, ListsKept DEF refreshes, listing, expects
  <2>6. ToolsSound => ToolsSound'
    BY <1>1, <2>1, <2>3, ToolsKept DEF is
  <2> QED BY <1>1, <2>4, <2>5, <2>6 DEF SetsSound
<1> QED BY <1>2, <1>3

LEMMA ClockSets ==
    ASSUME CredentialInv, SetsSound,
           \/ FormAges
           \/ \E l \in Labels : GrantExpires(l)
           \/ \E c \in Clerks, l \in Labels : FormRequested(c, l)
    PROVE  SetsSound'
<1>1. FormAges \/ (\E c \in Clerks, l \in Labels : FormRequested(c, l))
          => UNCHANGED <<desk, sets, tools, filled, rotated, lagging, outlived, grants, flowOf, pending>>
  BY DEF FormAges, FormRequested, storeOfSets, callbackVars
<1>2. ASSUME NEW l \in Labels, GrantExpires(l)
      PROVE  /\ UNCHANGED <<desk, sets, tools, filled, rotated, lagging, outlived, flowOf, pending>>
             /\ \A k \in Labels : (granted(k)' <=> granted(k)) /\ grants'[k].n = grants[k].n
  BY <1>2, GrantExpiresMoves DEF callbackVars
<1>3. CASE \E l \in Labels : GrantExpires(l)
  BY <1>2, <1>3, SetsStay
<1>4. CASE FormAges \/ \E c \in Clerks, l \in Labels : FormRequested(c, l)
  BY <1>1, <1>4, SetsStay DEF granted
<1> QED BY <1>3, <1>4

LEMMA DeskFailed == ASSUME RemoteInv, NEW d \in Desks, DeskFails(d) PROVE faults' > 0
  BY FaultsCount DEF DeskFails

LEMMA CredentialsSets ==
    ASSUME ConnectionsInv, SetsSound, ~ overlapped', faults' = 0, CredentialsNext
    PROVE  SetsSound'
<1> USE DEF ConnectionsInv
<1>1. \A f \in pending \cap SignIns : flowOf[f] # "none"
  BY PendingIsOfASet
<1>2. ASSUME NEW c \in Clerks, Clerk(c) PROVE SetsSound'
  BY <1>1, <1>2, CredentialConstants, ListsSets, AddSavesSets, RemoveDropsSets, RemoveSavesList, ClearsSets, GrantStoredSets,
     RefreshReadsSets, RefreshExchangesSets, ClockSets DEF Clerk
<1>3. ASSUME NEW v \in Visits, Visit(v) PROVE SetsSound'
  BY <1>1, <1>3, CredentialConstants, RedirectTakesSets, RedirectExchangesSets, GrantStoredSets, FormSets DEF Visit
<1>4. ASSUME NEW d \in Desks, NotifyReads(d) \/ NotifyRegisters(d) \/ DeskFails(d) PROVE SetsSound'
  BY <1>4, NotifiesSets, DeskFailed
<1> QED BY <1>2, <1>3, <1>4, ClockSets DEF CredentialsNext

(* What once overlapped is remembered. *)
LEMMA OverlapRemembered == ASSUME CredentialsNext, overlapped PROVE overlapped'
<1>1. ASSUME NEW c \in Clerks, Clerk(c) PROVE overlapped'
  <2>1. ASSUME NEW l \in Labels, AddLists(c, l) \/ RemoveLists(c, l) \/ RefreshReads(c, l) PROVE overlapped'
    BY <2>1 DEF AddLists, RemoveLists, RefreshReads, overlaps
  <2>2. ASSUME NEW l \in Labels, FormRequested(c, l) \/ \E field \in Fields : Clears(c, l, field) PROVE overlapped'
    BY <2>2 DEF FormRequested, Clears
  <2>3. AddSaves(c) => overlapped'
    BY DEF AddSaves
  <2>4. RemoveDropsTokens(c) \/ RemoveSavesSets(c) \/ RefreshExchanges(c) \/ RefreshKeeps(c) => overlapped'
    BY DEF RemoveDropsTokens, RemoveSavesSets, RefreshExchanges, RefreshKeeps
  <2> QED BY <1>1, <2>1, <2>2, <2>3, <2>4 DEF Clerk
<1>2. ASSUME NEW v \in Visits, Visit(v) PROVE overlapped'
  <2>1. RedirectTakes(v) \/ RedirectExchanges(v) \/ RedirectStores(v) \/ RedirectRefuses(v) => overlapped'
    BY DEF RedirectTakes, RedirectExchanges, RedirectStores, RedirectRefuses
  <2>2. FormPosted(v) \/ FormStores(v) \/ FormSubmitted(v) => overlapped'
    BY DEF FormPosted, FormStores, FormSubmitted
  <2> QED BY <1>2, <2>1, <2>2 DEF Visit
<1>3. ASSUME NEW d \in Desks, NotifyReads(d) \/ NotifyRegisters(d) \/ DeskFails(d) PROVE overlapped'
  <2>1. NotifyReads(d) => overlapped'
    BY DEF NotifyReads, overlaps
  <2>2. NotifyRegisters(d) => overlapped'
    BY DEF NotifyRegisters
  <2>3. DeskFails(d) => overlapped'
    BY DEF DeskFails
  <2> QED BY <1>3, <2>1, <2>2, <2>3
<1>4. FormAges \/ (\E l \in Labels : GrantExpires(l)) => overlapped'
  BY DEF FormAges, GrantExpires
<1> QED BY <1>1, <1>2, <1>3, <1>4 DEF CredentialsNext

(* The other side's steps leave a set's flows as they are, or take one away. *)
LEMMA OthersSignIn ==
    ASSUME ConnectionsInv, RemoteNext \/ FlowsAge
    PROVE  pending' \cap SignIns \subseteq pending
<1> USE ConstantsAre, CredentialConstants DEF ConnectionsInv
<1>1. ASSUME NEW c \in Calls, Adds(c) \/ Authorizes(c) \/ Changes(c) PROVE pending' \cap SignIns \subseteq pending
  <2>1. ASSUME AddStores(c) PROVE pending' \cap SignIns \subseteq pending
    <3>1. work[c].of \in 1 .. added /\ added \in 0 .. MaxAdds
      BY <2>1, AddStoresMoves DEF FlowInv, StorersSound, RemoteInv, Numbers
    <3>2. work[c].of \notin SignIns
      BY <3>1
    <3> QED BY <2>1, <3>2, AddStoresMoves
  <2>2. ASSUME AddRemoteMCP(c) PROVE UNCHANGED pending
    BY <2>2 DEF AddRemoteMCP, callbackVars
  <2>3. Announces(c) \/ CallFails(c) \/ Changes(c) => UNCHANGED pending
    BY DEF Announces, CallFails, Changes, RemoveDeletes, RemoveSaves, RemoveFails, SetChannels, callbackVars
  <2>4. Authorizes(c) => UNCHANGED pending
    BY DEF Authorizes, WaitPolls, CompleteBegins, CompleteExchanges, CompleteStores,
           FinalizeReads, FinalizeLists, FinalizeNames, callbackVars
  <2> QED BY <1>1, <2>1, <2>2, <2>3, <2>4 DEF Adds
<1>2. ASSUME NEW h \in Handlers, Callback(h) PROVE pending' \subseteq pending
  <2>1. CallbackTakes(h) => pending' \subseteq pending
    BY CallbackTakesMoves
  <2>2. CallbackExchanges(h) \/ CallbackLoads(h) \/ CallbackStores(h) \/ CallbackStoreFails(h) \/ CallbackFails(h)
            => UNCHANGED pending
    BY DEF CallbackExchanges, CallbackLoads, CallbackStores, CallbackStoreFails, CallbackFails, callbackVars
  <2> QED BY <1>2, <2>1, <2>2 DEF Callback
<1>3. \A r \in Requests : Proxies(r) => UNCHANGED pending
  BY ProxiesMoves DEF callbackVars
<1>4. (\E ch \in Channels : RemoveChannelFromAll(ch)) \/ TokenExpires \/ ExchangeExpires \/ AgentRestarts
          => UNCHANGED pending
  BY DEF RemoveChannelFromAll, TokenExpires, ExchangeExpires, AgentRestarts, callbackVars
<1>5. RemoteNext => pending' \cap SignIns \subseteq pending
  BY <1>1, <1>2, <1>3, <1>4 DEF RemoteNext
<1>6. FlowsAge => pending' \subseteq pending
  BY DEF FlowsAge, FlowAges, ReaperSees, ReaperFails
<1> QED BY <1>5, <1>6

(* A write that failed is remembered. *)
LEMMA FaultsRemain ==
    ASSUME RemoteInv, RemoteNext
    PROVE  faults' = 0 => faults = 0
<1> USE ConstantsAre
<1>0. faults \in Nat
  BY DEF RemoteInv, Numbers
<1>1. \A c \in Calls : Adds(c) \/ Authorizes(c) \/ Changes(c) => UNCHANGED faults \/ faults' = faults + 1
  BY DEF Adds, Authorizes, Changes, AddRemoteMCP, AddStores, Announces, CallFails, WaitPolls, CompleteBegins,
         CompleteExchanges, CompleteStores, FinalizeReads, FinalizeLists, FinalizeNames, RemoveDeletes,
         RemoveSaves, RemoveFails, SetChannels, historyVars, lapses
<1>2. \A h \in Handlers : Callback(h) => UNCHANGED faults \/ faults' = faults + 1
  BY DEF Callback, CallbackTakes, CallbackExchanges, CallbackLoads, CallbackStores, CallbackStoreFails,
         CallbackFails, historyVars, lapses
<1>3. \A r \in Requests : Proxies(r) => UNCHANGED faults \/ faults' = faults + 1
  BY DEF Proxies, RequestBegins, Resolves, RefreshLocks, Refreshes, Persists, PersistFails, lapses
<1>4. (\E ch \in Channels : RemoveChannelFromAll(ch)) \/ TokenExpires \/ ExchangeExpires \/ AgentRestarts
          => UNCHANGED faults
  BY DEF RemoveChannelFromAll, TokenExpires, ExchangeExpires, AgentRestarts, historyVars
<1> QED BY <1>0, <1>1, <1>2, <1>3, <1>4 DEF RemoteNext

LEMMA ConnectionsSets ==
    ASSUME ConnectionsInv, SetsInv, ConnectionsNext
    PROVE  SetsInv'
<1> USE ConstantsAre DEF ConnectionsInv
<1>1. faults \in Nat /\ faults' \in Nat
  BY ConnectionsTyped DEF RemoteInv, Numbers
<1>2. CASE (RemoteNext /\ UNCHANGED credentialVars) \/ FlowsAge
  <2>1. UNCHANGED <<desk, sets, tools, filled, rotated, lagging, outlived, overlapped, grants, flowOf>>
    BY <1>2 DEF FlowsAge, credentialVars, storeOfSets
  <2>2. faults' = 0 => faults = 0
    BY <1>2, FaultsRemain DEF FlowsAge
  <2>3. pending' \cap SignIns \subseteq pending
    BY <1>2, OthersSignIn
  <2>4. SetsSound => SetsSound'
    BY <2>1, <2>3, SetsStay DEF granted
  <2> QED BY <1>1, <2>1, <2>2, <2>4 DEF SetsInv
<1>3. CASE CredentialsNext
  <2>1. faults' = 0 => faults = 0
    BY <1>1, <1>3, CallbackMoves
  <2> QED BY <1>1, <1>3, <2>1, CredentialsSets, OverlapRemembered DEF SetsInv
<1>4. CASE Restarts
  BY <1>4, FaultsCount DEF Restarts, SetsInv
<1> QED BY <1>2, <1>3, <1>4 DEF ConnectionsNext

LEMMA SetsBegin == ASSUME ConnectionsInit PROVE SetsInv
<1> USE CredentialConstants
<1>1. /\ sets = Declared /\ grants = [l \in Labels |-> NoGrant] /\ tools = {} /\ desk = [d \in Desks |-> AtRest]
      /\ rotated = {} /\ pending = {}
  BY DEF ConnectionsInit, CredentialsInit, CallbackInit
<1>2. (\A d \in Desks : desk[d].at = "idle") /\ \A l \in Labels : ~ granted(l)
  BY <1>1, RestTyped DEF granted
<1>3. GrantsSound
  BY <1>2 DEF GrantsSound, grantSound, keeperSound, keepsGrant, refreshes, is
<1>4. ListsSound
  BY <1>1, <1>2 DEF ListsSound, listerSound, listing, underWay, expects, refreshes, is
<1>5. ToolsSound
  BY <1>1, <1>2 DEF ToolsSound, Follows, isReady, is
<1> QED BY <1>3, <1>4, <1>5 DEF SetsInv, SetsSound

LEMMA SetsStutter == ASSUME ConnectionsInv, SetsInv, UNCHANGED connectionVars PROVE SetsInv'
<1>1. UNCHANGED <<desk, sets, tools, filled, rotated, lagging, outlived, overlapped, grants, flowOf, pending, faults>>
  BY DEF connectionVars, credentialVars, storeOfSets, callbackVars
<1> QED BY <1>1, SetsStay DEF SetsInv, granted, ConnectionsInv

LEMMA SetsInvariance == ConnectionsSpec => [](ConnectionsInv /\ SetsInv)
<1>1. ConnectionsInit => ConnectionsInv /\ SetsInv
  BY ConnectionsBegin, SetsBegin
<1>2. (ConnectionsInv /\ SetsInv) /\ [ConnectionsNext]_connectionVars => (ConnectionsInv /\ SetsInv)'
  BY ConnectionsTyped, ConnectionsStutter, ConnectionsSets, SetsStutter
<1> QED BY <1>1, <1>2, PTL DEF ConnectionsSpec

(* The tokens of a credential set live exactly as long as the set: the     *)
(* refresh token in the store is one the server still takes, and a set's   *)
(* tokens go with it, unless credential.Manager's load ... saves overlap,  *)
(* something for the set is still on its way, or a write fails.            *)
THEOREM GrantsFollowSets == ConnectionsSpec => []GrantFollowsSet
<1>1. ConnectionsInv /\ SetsInv => GrantFollowsSet
  <2> SUFFICES ASSUME ConnectionsInv, SetsInv PROVE GrantFollowsSet
    OBVIOUS
  <2>1. faults \in Nat /\ CredentialInv
    BY ConstantsAre DEF ConnectionsInv, RemoteInv, Numbers
  <2>2. ASSUME ~ overlapped, faults = 0, NEW l \in Labels, granted(l),
               ~ \E d \in Desks : desk[d].of = l /\ desk[d].at \in Refreshing
        PROVE  grants[l].n \notin rotated \cup {0}
    <3>1. GrantsSound /\ grants[l].n \in 1 .. issued /\ issued \in Nat
      BY <2>1, <2>2 DEF SetsInv, SetsSound, CredentialInv
    <3>2. ~ \E d \in Desks : desk[d].of = l /\ is(d, "keeping")
      BY <2>2 DEF Refreshing, is
    <3> QED BY <2>2, <3>1, <3>2 DEF GrantsSound, grantSound
  <2>3. ASSUME ~ overlapped, ~ outlived, faults = 0, NEW l \in Labels, granted(l) PROVE l \in sets
    BY <2>1, <2>3 DEF SetsInv, SetsSound, ListsSound
  <2> QED BY <2>2, <2>3 DEF GrantFollowsSet, GrantSurvives, NoOrphanGrant, granted
<1> QED BY <1>1, SetsInvariance, PTL

(* Whenever nothing is under way the package's tools know exactly the sets *)
(* that are ready, after any sequence of adds, removals, cleared fields,   *)
(* callbacks and refreshes: notifyCredentialChange comes after every       *)
(* change but a form's.                                                    *)
THEOREM ToolsKnowTheSets == ConnectionsSpec => []ToolsFollowSets
<1>1. ConnectionsInv /\ SetsInv => ToolsFollowSets
  <2> SUFFICES ASSUME ConnectionsInv, SetsInv, quietDesk, ~ overlapped, ~ outlived, faults = 0
               PROVE  /\ tools \subseteq ready(sets, filled, grants)
                      /\ ready(sets, filled, grants) \subseteq tools \cup lagging
    BY DEF ToolsFollowSets
  <2>1. /\ ToolsSound /\ \A d \in Desks : desk[d].at = "idle"
        /\ tools \subseteq Labels /\ sets \subseteq Labels
    BY ConstantsAre DEF SetsInv, SetsSound, quietDesk, resting, is, ConnectionsInv, CredentialInv
  <2>2. Follows(tools) /\ \A l \in Labels : ~ excused(l)
    BY <2>1 DEF ToolsSound, excused, is
  <2>3. \A l \in Labels : l \in ready(sets, filled, grants) <=> isReady(l)
    BY DEF ready, isReady, granted
  <2>4. ready(sets, filled, grants) \subseteq Labels
    BY <2>1 DEF ready
  <2> QED BY <2>1, <2>2, <2>3, <2>4 DEF Follows
<1> QED BY <1>1, SetsInvariance, PTL
=============================================================================
