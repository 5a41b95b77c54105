---------------------------- MODULE OutboxProofs ----------------------------
(***************************************************************************)
(* Proofs about Outbox, for any operations and enqueuers and any number of *)
(* faults and restarts.  The results about the queue and the chat are for  *)
(* enqueuers that all stop before a restart.                               *)
(***************************************************************************)
EXTENDS Outbox, SequenceLemmas, TLAPS

USE OutboxAssumption

-----------------------------------------------------------------------------
(* Type correctness and control. *)

Control ==
    /\ pc = "off" => ctx = "cancelled" /\ io[Worker] = "none"
    /\ pc \in {"deliver", "backoff"} <=> inflight # NoOp
    /\ pc \notin {"deliver", "backoff"} => attempt = 0
    /\ pc = "deliver" => attempt <= MaxRetries
    /\ \A t \in Threads : io[t] \in {"none", "lock"} => snap[t].state = NoState
    /\ \A e \in Enqueuers : io[e] # "none" => snap[e].op \in Ops

Inv == TypeOK /\ Control

LEMMA ConstantStates ==
  ASSUME TypeOK
  PROVE  /\ Unresolved \in [Sends -> 0 .. Len(chat)]
         /\ NoState \in persistedType /\ persistedState \in persistedType
         /\ NoSnap \in [state : persistedType, op : Ops \cup {NoOp}]
         /\ NoSnap.state = NoState
         /\ Len(chat) \in Nat
  <1>1. Len(chat) \in Nat
    BY DEF TypeOK
  <1>2. Unresolved \in [Sends -> 0 .. Len(chat)]
    BY <1>1 DEF Unresolved
  <1>3. NoState \in persistedType /\ persistedState \in persistedType
    BY <1>2 DEF NoState, persistedState, persistedType, TypeOK
  <1> HIDE DEF NoState
  <1>4. NoSnap \in [state : persistedType, op : Ops \cup {NoOp}] /\ NoSnap.state = NoState
    BY <1>3 DEF NoSnap
  <1> QED
    BY <1>1, <1>2, <1>3, <1>4

LEMMA TypedInit == Init => Inv
  <1> SUFFICES ASSUME Init PROVE Inv
    OBVIOUS
  <1>1. chat = <<>> /\ Len(chat) = 0 /\ Unresolved \in [Sends -> 0 .. Len(chat)]
    BY DEF Init, Unresolved
  <1>2. NoState \in persistedType
    BY <1>1 DEF NoState, persistedType
  <1>3. NoSnap \in [state : persistedType, op : Ops \cup {NoOp}] /\ NoSnap.state = NoState
    BY <1>2 DEF NoSnap
  <1>4. io \in [Threads -> {"none", "lock", "open", "write"}]
        /\ snap \in [Threads -> [state : persistedType, op : Ops \cup {NoOp}]]
        /\ \A t \in Threads : snap[t] = NoSnap /\ io[t] = "none"
    BY <1>3 DEF Init
  <1>5. chat \in Seq([msg : Sends, text : Ops]) /\ enqueued \in Seq(Ops) /\ ops \in Seq(Ops)
    BY DEF Init
  <1>6. TypeOK
    <2>1. dirty \in BOOLEAN /\ wake \in BOOLEAN
      BY DEF Init
    <2>2. /\ attempt \in 0..(MaxRetries + 1) /\ errors \in Nat /\ writeErrors \in 0..MaxFaults
          /\ restarts \in 0..MaxRestarts /\ crashes \in 0..MaxFaults
      BY DEF Init
    <2>3. proxyMap \in [Sends -> 0 .. Len(chat)] /\ file \in persistedType
      BY <1>1, <1>2 DEF Init
    <2> QED
      BY <1>4, <1>5, <2>1, <2>2, <2>3 DEF Init, TypeOK
  <1>7. Control
    BY <1>3, <1>4 DEF Init, Control, Threads
  <1> QED
    BY <1>6, <1>7 DEF Inv

(* What a transport call does to the chat: no message changes place. *)
LEMMA AppliedTo ==
  ASSUME Inv, inflight \in Ops, callable(inflight)
  PROVE  /\ applied(inflight, chat, proxyMap) \in Seq([msg : Sends, text : Ops])
         /\ KindOf[inflight] = "send" =>
              applied(inflight, chat, proxyMap) = Append(chat, [msg |-> inflight, text |-> inflight])
         /\ KindOf[inflight] # "send" =>
              /\ Len(applied(inflight, chat, proxyMap)) = Len(chat)
              /\ \A i \in 1 .. Len(chat) : applied(inflight, chat, proxyMap)[i].msg = chat[i].msg
         /\ KindOf[inflight] = "edit" =>
              LET k == proxyMap[TargetOf[inflight]]
              IN  /\ k \in 1 .. Len(chat)
                  /\ applied(inflight, chat, proxyMap)[k].text = inflight
                  /\ \A i \in 1 .. Len(chat) \ {k} : applied(inflight, chat, proxyMap)[i] = chat[i]
         /\ KindOf[inflight] = "done" => applied(inflight, chat, proxyMap) = chat
  <1> DEFINE R == [msg : Sends, text : Ops]
             c == applied(inflight, chat, proxyMap)
  <1>0. chat \in Seq(R) /\ proxyMap \in [Sends -> 0 .. Len(chat)] /\ Len(chat) \in Nat
    BY DEF Inv, TypeOK
  <1>1. KindOf[inflight] \in {"send", "edit", "done"}
    OBVIOUS
  <1>2. CASE KindOf[inflight] = "send"
    <2>1. c = Append(chat, [msg |-> inflight, text |-> inflight])
      BY <1>2 DEF applied
    <2>2. [msg |-> inflight, text |-> inflight] \in R
      BY <1>2 DEF Sends
    <2>3. c \in Seq(R)
      BY <1>0, <2>1, <2>2
    <2> QED
      BY <1>2, <2>1, <2>3
  <1>3. CASE KindOf[inflight] = "edit"
    <2> DEFINE k == proxyMap[TargetOf[inflight]]
    <2>1. k \in 1 .. Len(chat)
      <3>1. TargetOf[inflight] \in Sends
        BY <1>3
      <3>2. k \in 0 .. Len(chat) /\ k # 0
        BY <1>0, <1>3, <3>1 DEF callable
      <3> QED
        BY <1>0, <3>2
    <2> DEFINE r == [msg |-> chat[k].msg, text |-> inflight]
    <2>2. chat[k] \in R
      <3> HIDE DEF R, k
      <3> QED
        BY <1>0, <2>1
    <2>3. r \in R /\ [chat[k] EXCEPT !.text = inflight] = r
      BY <2>2
    <2>4. c = [chat EXCEPT ![k] = [chat[k] EXCEPT !.text = inflight]]
      BY <1>3 DEF applied
    <2>5. c = [chat EXCEPT ![k] = r]
      BY <2>3, <2>4
    <2>6. r.msg = chat[k].msg /\ r.text = inflight
      OBVIOUS
    <2> HIDE DEF r, k, c, R
    <2>7. /\ c \in Seq(R) /\ Len(c) = Len(chat) /\ c[k] = r
          /\ \A i \in 1 .. Len(chat) \ {k} : c[i] = chat[i]
      BY <1>0, <2>1, <2>3, <2>5
    <2>8. \A i \in 1 .. Len(chat) : c[i].msg = chat[i].msg
      BY <2>6, <2>7
    <2>9. c[k].text = inflight
      BY <2>6, <2>7
    <2> QED
      BY <1>3, <2>1, <2>7, <2>8, <2>9 DEF c, R, k
  <1>4. CASE KindOf[inflight] = "done"
    <2>1. c = chat
      BY <1>4 DEF applied
    <2> HIDE DEF c, R
    <2> QED
      BY <1>0, <1>4, <2>1 DEF c, R
  <1> QED
    BY <1>1, <1>2, <1>3, <1>4

Snaps == [state : persistedType, op : Ops \cup {NoOp}]

LEMMA EnqueueTyped ==
  ASSUME Inv, NEW e \in Enqueuers, NEW op \in Ops, enqueue(e, op)
  PROVE  Inv'
  <1> USE DEF queueVars, workerVars, ioVars, histVars, bounds
  <1>0. /\ TypeOK /\ Control /\ e \in Threads /\ e # Worker /\ Worker \in Threads
        /\ io \in [Threads -> {"none", "lock", "open", "write"}] /\ snap \in [Threads -> Snaps]
    BY DEF Inv, TypeOK, Threads, Snaps
  <1>1. /\ UNCHANGED <<proxyMap, ctx, pc, inflight, attempt, file, chat, dropped>>
        /\ UNCHANGED <<errors, writeErrors, restarts, crashes>>
        /\ dirty' = TRUE /\ wake' \in BOOLEAN /\ io[e] = "none"
    BY <1>0 DEF enqueue, TypeOK
  <1>2. ops' \in Seq(Ops) /\ enqueued' \in Seq(Ops) /\ acked' \subseteq Ops
    BY <1>0 DEF enqueue, TypeOK
  <1>3. /\ io' \in [Threads -> {"none", "lock", "open", "write"}]
        /\ snap' \in [Threads -> Snaps]
        /\ \A t \in Threads : snap'[t].state = snap[t].state
        /\ \A t \in Threads \ {e} : io'[t] = io[t] /\ snap'[t].op = snap[t].op
        /\ io'[e] \in {"none", "lock"} /\ (io'[e] # "none" => snap'[e].op = op)
    <2>1. CASE KindOf[op] = "edit"
      BY <1>0, <1>1, <2>1 DEF enqueue
    <2>2. CASE KindOf[op] # "edit"
      <3> DEFINE r == [state |-> snap[e].state, op |-> op]
      <3>1. snap[e] \in Snaps
        BY <1>0
      <3>2. r \in Snaps /\ [snap[e] EXCEPT !.op = op] = r /\ r.state = snap[e].state /\ r.op = op
        BY <3>1 DEF Snaps
      <3>3. snap' = [snap EXCEPT ![e] = [snap[e] EXCEPT !.op = op]] /\ io' = [io EXCEPT ![e] = "lock"]
        BY <2>2 DEF enqueue
      <3>4. snap' = [snap EXCEPT ![e] = r]
        BY <3>2, <3>3
      <3> HIDE DEF r
      <3> QED
        BY <1>0, <3>2, <3>3, <3>4
    <2> QED
      BY <2>1, <2>2
  <1>4. persistedType' = persistedType
    BY <1>1 DEF persistedType
  <1>5. TypeOK'
    <2>1. dirty' \in BOOLEAN /\ wake' \in BOOLEAN
      BY <1>1
    <2> QED
      BY <1>0, <1>1, <1>2, <1>3, <1>4, <2>1 DEF TypeOK, Snaps
  <1>6. Control'
    BY <1>0, <1>1, <1>3 DEF Control, Threads
  <1> QED
    BY <1>5, <1>6 DEF Inv

LEMMA PersistTyped ==
  ASSUME Inv, NEW t \in Threads, Persist(t)
  PROVE  Inv'
  <1> USE DEF queueVars, workerVars, ioVars, histVars, bounds
  <1>0. /\ TypeOK /\ Control /\ Worker \in Threads /\ Enqueuers \subseteq Threads
        /\ io \in [Threads -> {"none", "lock", "open", "write"}] /\ snap \in [Threads -> Snaps]
        /\ NoState \in persistedType /\ persistedState \in persistedType /\ NoSnap \in Snaps
        /\ NoSnap.state = NoState
    BY ConstantStates DEF Inv, TypeOK, Threads, Snaps
  <1>1. /\ UNCHANGED <<ops, proxyMap, ctx, pc, inflight, attempt, chat, dropped, enqueued>>
        /\ UNCHANGED <<errors, restarts, crashes>>
    BY DEF Persist, persistSnapshot, persistTruncate, persistWrite, persistFails
  <1>2. persistedType' = persistedType /\ Snaps' = Snaps
    BY <1>1 DEF persistedType, Snaps
  <1>3. dirty' \in BOOLEAN /\ wake' \in BOOLEAN
    BY <1>0 DEF Persist, persistSnapshot, persistTruncate, persistWrite, persistFails, TypeOK
  <1>4. snap[t] \in Snaps /\ snap[t].state \in persistedType
    BY <1>0 DEF Snaps
  <1>5. file' \in persistedType /\ acked' \subseteq Ops /\ writeErrors' \in 0 .. MaxFaults
    <2>1. CASE persistSnapshot(t) \/ persistTruncate(t)
      BY <1>0, <2>1 DEF persistSnapshot, persistTruncate, TypeOK
    <2>2. CASE persistWrite(t)
      <3>1. file' \in {snap[t].state, NoState}
        BY <2>2 DEF persistWrite, written
      <3>2. t # Worker => snap[t].op \in Ops
        BY <1>0, <2>2 DEF persistWrite, Control, Threads
      <3> QED
        BY <1>0, <1>4, <2>2, <3>1, <3>2 DEF persistWrite, TypeOK
    <2>3. CASE persistFails(t)
      BY <1>0, <2>3 DEF persistFails, TypeOK, faultsLeft
    <2> QED
      BY <2>1, <2>2, <2>3 DEF Persist
  <1>6. /\ io' \in [Threads -> {"none", "lock", "open", "write"}]
        /\ snap' \in [Threads -> Snaps]
        /\ \A u \in Threads \ {t} : io'[u] = io[u] /\ snap'[u] = snap[u]
        /\ io'[t] # "lock" /\ (io'[t] = "none" => snap'[t] = NoSnap)
        /\ (io'[t] # "none" => snap'[t].op = snap[t].op) /\ io[t] # "none"
    <2>1. CASE persistSnapshot(t)
      <3> DEFINE r == [state |-> persistedState, op |-> snap[t].op]
      <3>1. r \in Snaps /\ [snap[t] EXCEPT !.state = persistedState] = r /\ r.op = snap[t].op
        BY <1>0, <1>4 DEF Snaps
      <3>2. snap' = [snap EXCEPT ![t] = [snap[t] EXCEPT !.state = persistedState]]
            /\ io' = [io EXCEPT ![t] = "open"] /\ io[t] = "lock"
        BY <2>1 DEF persistSnapshot
      <3>3. snap' = [snap EXCEPT ![t] = r]
        BY <3>1, <3>2
      <3> HIDE DEF r
      <3> QED
        BY <1>0, <3>1, <3>2, <3>3
    <2>2. CASE persistTruncate(t)
      BY <1>0, <2>2 DEF persistTruncate
    <2>3. CASE persistWrite(t) \/ persistFails(t)
      BY <1>0, <2>3 DEF persistWrite, persistFails
    <2> QED
      BY <2>1, <2>2, <2>3 DEF Persist
  <1>7. TypeOK'
    BY <1>0, <1>1, <1>2, <1>3, <1>5, <1>6 DEF TypeOK, Snaps
  <1>8. Control'
    BY <1>0, <1>1, <1>6 DEF Control, Threads
  <1> QED
    BY <1>7, <1>8 DEF Inv

LEMMA MoreMessages ==
  ASSUME TypeOK, chat' \in Seq([msg : Sends, text : Ops]), Len(chat) <= Len(chat')
  PROVE  /\ persistedType \subseteq persistedType' /\ Snaps \subseteq Snaps'
         /\ [Sends -> 0 .. Len(chat)] \subseteq [Sends -> 0 .. Len(chat')]
  <1>1. Len(chat) \in Nat /\ Len(chat') \in Nat
    BY DEF TypeOK
  <1>2. 0 .. Len(chat) \subseteq 0 .. Len(chat')
    BY <1>1
  <1>3. [Sends -> 0 .. Len(chat)] \subseteq [Sends -> 0 .. Len(chat')]
    BY <1>2
  <1>4. persistedType \subseteq persistedType'
    BY <1>3 DEF persistedType
  <1> QED
    BY <1>3, <1>4 DEF Snaps

(* Giving an operation up, or putting it back. *)
LEMMA LeavesTyped ==
  ASSUME Inv, inflight \in Ops, requeueInflight \/ discardInflight
  PROVE  /\ ops' \in Seq(Ops) /\ dirty' \in BOOLEAN /\ dropped' \subseteq Ops
         /\ pc' = "top" /\ inflight' = NoOp /\ attempt' = 0
  <1>1. ops \in Seq(Ops) /\ dirty \in BOOLEAN /\ dropped \subseteq Ops
    BY DEF Inv, TypeOK
  <1>2. requeued \in Seq(Ops)
    BY <1>1 DEF requeued
  <1>3. dirty' \in BOOLEAN
    BY <1>1 DEF requeueInflight, discardInflight
  <1> QED
    BY <1>1, <1>2, <1>3 DEF requeueInflight, discardInflight, deliverReturns

LEMMA DeliveryTyped ==
  ASSUME Inv, DeliverySucceeds \/ DeliveryFails \/ DeliverySkipped \/ Backoff
  PROVE  Inv'
  <1> USE DEF queueVars, workerVars, ioVars, histVars, bounds
  <1>0. /\ TypeOK /\ Control /\ pc \in {"deliver", "backoff"} /\ inflight \in Ops
        /\ io[Worker] = "none"
    BY DEF Inv, TypeOK, Control, DeliverySucceeds, DeliveryFails, DeliverySkipped, Backoff, WorkerAt
  <1>1. /\ UNCHANGED <<wake, ctx, io, snap, file, enqueued, acked>>
        /\ UNCHANGED <<writeErrors, restarts, crashes>>
    BY DEF DeliverySucceeds, DeliveryFails, DeliverySkipped, Backoff
  <1>2. /\ chat' \in Seq([msg : Sends, text : Ops]) /\ Len(chat) <= Len(chat')
        /\ proxyMap' \in [Sends -> 0 .. Len(chat')]
    <2>0. /\ chat \in Seq([msg : Sends, text : Ops]) /\ Len(chat) \in Nat
          /\ proxyMap \in [Sends -> 0 .. Len(chat)]
      BY <1>0 DEF TypeOK
    <2>1. CASE chat' = chat /\ proxyMap' = proxyMap
      BY <2>0, <2>1
    <2>2. ASSUME callable(inflight), chat' = applied(inflight, chat, proxyMap)
          PROVE  /\ chat' \in Seq([msg : Sends, text : Ops])
                 /\ Len(chat') = IF KindOf[inflight] = "send" THEN Len(chat) + 1 ELSE Len(chat)
      <3> DEFINE c == applied(inflight, chat, proxyMap)
      <3>1. /\ c \in Seq([msg : Sends, text : Ops])
            /\ KindOf[inflight] = "send" => c = Append(chat, [msg |-> inflight, text |-> inflight])
            /\ KindOf[inflight] # "send" => Len(c) = Len(chat)
        BY <1>0, <2>2, AppliedTo
      <3>2. Len(Append(chat, [msg |-> inflight, text |-> inflight])) = Len(chat) + 1
        BY <2>0
      <3> HIDE DEF c
      <3> QED
        BY <2>2, <3>1, <3>2 DEF c
    <2>3. CASE DeliverySucceeds
      <3>1. callable(inflight) /\ chat' = applied(inflight, chat, proxyMap)
        BY <2>3 DEF DeliverySucceeds
      <3>2. CASE KindOf[inflight] = "send"
        <4>1. inflight \in Sends /\ proxyMap' = [proxyMap EXCEPT ![inflight] = Len(chat) + 1]
          BY <1>0, <2>3, <3>2 DEF DeliverySucceeds, Sends
        <4>2. Len(chat') = Len(chat) + 1 /\ chat' \in Seq([msg : Sends, text : Ops])
          BY <2>2, <3>1, <3>2
        <4>3. proxyMap' \in [Sends -> 0 .. Len(chat) + 1]
          <5>1. proxyMap \in [Sends -> 0 .. Len(chat) + 1] /\ Len(chat) + 1 \in 0 .. Len(chat) + 1
            BY <2>0
          <5> QED
            BY <4>1, <5>1
        <4> QED
          BY <2>0, <4>2, <4>3
      <3>3. CASE KindOf[inflight] # "send"
        <4>1. proxyMap' = proxyMap
          BY <2>3, <3>3 DEF DeliverySucceeds
        <4>2. Len(chat') = Len(chat) /\ chat' \in Seq([msg : Sends, text : Ops])
          BY <2>2, <3>1, <3>3
        <4> QED
          BY <2>0, <4>1, <4>2
      <3> QED
        BY <3>2, <3>3
    <2>4. CASE DeliveryFails
      <3>1. /\ callable(inflight) /\ proxyMap' = proxyMap
            /\ chat' = chat \/ chat' = applied(inflight, chat, proxyMap)
        BY <2>4 DEF DeliveryFails
      <3>2. CASE chat' = applied(inflight, chat, proxyMap)
        <4>1. /\ chat' \in Seq([msg : Sends, text : Ops])
              /\ Len(chat') = IF KindOf[inflight] = "send" THEN Len(chat) + 1 ELSE Len(chat)
          BY <2>2, <3>1, <3>2
        <4>2. Len(chat) <= Len(chat') /\ Len(chat') \in Nat
          BY <2>0, <4>1
        <4>3. 0 .. Len(chat) \subseteq 0 .. Len(chat')
          BY <2>0, <4>2
        <4> QED
          BY <2>0, <3>1, <4>1, <4>2, <4>3
      <3> QED
        BY <2>1, <3>1, <3>2
    <2> QED
      BY <2>1, <2>3, <2>4 DEF DeliverySkipped, Backoff
  <1>3. persistedType \subseteq persistedType' /\ Snaps \subseteq Snaps'
    BY <1>0, <1>2, MoreMessages
  <1>4. /\ ops' \in Seq(Ops) /\ dirty' \in BOOLEAN /\ dropped' \subseteq Ops /\ errors' \in Nat
        /\ \/ pc' = "top" /\ inflight' = NoOp /\ attempt' = 0
           \/ pc' = "backoff" /\ inflight' = inflight /\ attempt' \in 0 .. (MaxRetries + 1)
           \/ pc' = "deliver" /\ inflight' = inflight /\ attempt' = attempt /\ attempt <= MaxRetries
    <2>0. ops \in Seq(Ops) /\ dirty \in BOOLEAN /\ dropped \subseteq Ops /\ errors \in Nat
          /\ attempt \in 0 .. (MaxRetries + 1)
      BY <1>0 DEF TypeOK
    <2>1. CASE requeueInflight \/ discardInflight
      <3>1. errors' \in Nat
        BY <2>0, <2>1 DEF DeliverySucceeds, DeliveryFails, DeliverySkipped, Backoff
      <3> QED
        BY <1>0, <2>1, <3>1, LeavesTyped
    <2>2. CASE DeliverySucceeds
      <3>1. dirty' \in BOOLEAN
        BY <2>0, <2>2 DEF DeliverySucceeds
      <3> QED
        BY <2>0, <2>2, <3>1 DEF DeliverySucceeds, deliverReturns
    <2>3. CASE DeliveryFails /\ pc' = "backoff" /\ attempt' = attempt + 1 /\ UNCHANGED <<ops, dirty, dropped, inflight>>
      <3>1. attempt <= MaxRetries
        BY <1>0, <2>3 DEF DeliveryFails, WorkerAt, Control
      <3> QED
        BY <2>0, <2>3, <3>1 DEF DeliveryFails
    <2>4. CASE Backoff /\ attempt <= MaxRetries /\ pc' = "deliver" /\ UNCHANGED <<ops, dirty, attempt, dropped, inflight>>
      BY <2>0, <2>4 DEF Backoff
    <2> QED
      BY <2>1, <2>2, <2>3, <2>4 DEF DeliveryFails, DeliverySkipped, Backoff
  <1>5. TypeOK'
    <2>1. file' \in persistedType' /\ snap' \in [Threads -> Snaps']
      BY <1>0, <1>1, <1>3 DEF TypeOK, Snaps
    <2>2. inflight' \in Ops \cup {NoOp} /\ attempt' \in 0 .. (MaxRetries + 1)
          /\ pc' \in {"top", "wait", "deliver", "backoff", "off"}
      BY <1>0, <1>4 DEF TypeOK
    <2>3. wake' \in BOOLEAN
      BY <1>0, <1>1 DEF TypeOK
    <2> QED
      BY <1>0, <1>1, <1>2, <1>4, <2>1, <2>2, <2>3 DEF TypeOK, Snaps
  <1>6. Control'
    BY <1>0, <1>1, <1>4 DEF Control
  <1> QED
    BY <1>5, <1>6 DEF Inv

LEMMA LoopTyped ==
  ASSUME Inv, WorkerExits \/ dequeue \/ WorkerWaits \/ WorkerWakes \/ WorkerTicks
  PROVE  Inv'
  <1> USE DEF queueVars, workerVars, ioVars, histVars, bounds
  <1>0. /\ TypeOK /\ Control /\ Worker \in Threads /\ Enqueuers \subseteq Threads
        /\ io[Worker] = "none" /\ pc \in {"top", "wait"}
        /\ NoState \in persistedType /\ persistedState \in persistedType
    BY ConstantStates DEF Inv, Threads, WorkerExits, dequeue, WorkerWaits, WorkerWakes, WorkerTicks, WorkerAt
  <1>1. /\ UNCHANGED <<proxyMap, ctx, attempt, snap, chat, enqueued, acked, dropped>>
        /\ UNCHANGED <<errors, restarts, crashes>>
    BY DEF WorkerExits, dequeue, WorkerWaits, WorkerWakes, WorkerTicks
  <1>2. dirty' \in BOOLEAN /\ wake' \in BOOLEAN
    BY <1>0 DEF WorkerExits, dequeue, WorkerWaits, WorkerWakes, WorkerTicks, TypeOK
  <1>3. file' \in persistedType /\ writeErrors' \in 0 .. MaxFaults
    <2>1. CASE WorkerExits
      BY <1>0, <2>1 DEF WorkerExits, shutdownWrites, faultsLeft, TypeOK
    <2>2. CASE ~WorkerExits
      BY <1>0, <2>2 DEF dequeue, WorkerWaits, WorkerWakes, WorkerTicks, TypeOK
    <2> QED
      BY <2>1, <2>2
  <1>4. /\ ops' \in Seq(Ops) /\ inflight' \in Ops \cup {NoOp}
        /\ pc' \in {"top", "wait", "deliver", "off"}
        /\ pc' = "deliver" <=> inflight' # NoOp
        /\ pc' = "off" => ctx' = "cancelled" /\ io' = io
    <2>1. CASE dequeue
      <3>1. PICK i \in DOMAIN ops : inflight' = ops[i] /\ ops' = SubSeq(ops, i + 1, Len(ops))
        BY <2>1 DEF dequeue
      <3>2. ops \in Seq(Ops) /\ ops[i] \in Ops
        BY <1>0 DEF TypeOK
      <3>3. SubSeq(ops, i + 1, Len(ops)) \in Seq(Ops)
        BY <3>2, RestOf
      <3>4. ops' \in Seq(Ops)
        BY <3>1, <3>3
      <3> QED
        BY <2>1, <3>1, <3>2, <3>4 DEF dequeue
    <2>2. CASE ~dequeue
      BY <1>0, <2>2 DEF WorkerExits, WorkerWaits, WorkerWakes, WorkerTicks, TypeOK, Control
    <2> QED
      BY <2>1, <2>2
  <1>5. /\ io' \in [Threads -> {"none", "lock", "open", "write"}]
        /\ \A t \in Threads \ {Worker} : io'[t] = io[t]
        /\ io'[Worker] \in {"none", "lock"}
    BY <1>0 DEF WorkerExits, dequeue, WorkerWaits, WorkerWakes, WorkerTicks, TypeOK
  <1>6. persistedType' = persistedType
    BY <1>1 DEF persistedType
  <1>7. TypeOK'
    BY <1>0, <1>1, <1>2, <1>3, <1>4, <1>5, <1>6 DEF TypeOK
  <1>8. Control'
    BY <1>0, <1>1, <1>4, <1>5 DEF Control, Threads
  <1> QED
    BY <1>7, <1>8 DEF Inv

LEMMA RestartTyped ==
  ASSUME Inv, CancelIteration \/ Start \/ Crash
  PROVE  Inv'
  <1> USE DEF queueVars, workerVars, ioVars, histVars, bounds
  <1>0. /\ TypeOK /\ Control /\ Worker \in Threads /\ Enqueuers \subseteq Threads
        /\ NoState \in persistedType /\ NoSnap \in Snaps
        /\ NoSnap.state = NoState /\ Unresolved \in [Sends -> 0 .. Len(chat)]
    BY ConstantStates DEF Inv, Threads, Snaps
  <1>1. chat' = chat /\ enqueued' = enqueued /\ dropped' = dropped
    BY DEF CancelIteration, Start, Crash
  <1>2. persistedType' = persistedType /\ Snaps' = Snaps
    BY <1>1 DEF persistedType, Snaps
  <1>3. CASE CancelIteration
    <2>1. restarts' \in 0 .. MaxRestarts /\ ctx' = "cancelled" /\ acked' = {}
      BY <1>0, <1>3 DEF CancelIteration, TypeOK
    <2>2. UNCHANGED <<ops, proxyMap, dirty, wake, pc, inflight, attempt, io, snap, file, errors, writeErrors, crashes>>
      BY <1>3 DEF CancelIteration
    <2>3. TypeOK'
      <3>1. dirty' \in BOOLEAN /\ wake' \in BOOLEAN
        BY <1>0, <2>2 DEF TypeOK
      <3> QED
        BY <1>0, <1>1, <1>2, <2>1, <2>2, <3>1 DEF TypeOK
    <2>4. Control'
      BY <1>0, <2>1, <2>2 DEF Control
    <2> QED
      BY <2>3, <2>4 DEF Inv
  <1>4. CASE Start
    <2>1. /\ UNCHANGED <<inflight, attempt, io, snap, file, acked>>
          /\ UNCHANGED <<errors, writeErrors, restarts, crashes>>
          /\ pc' = "top" /\ ctx' = "live" /\ pc = "off"
      BY <1>4 DEF Start, launched
    <2>2. ops' \in Seq(Ops) /\ proxyMap' \in [Sends -> 0 .. Len(chat)]
      BY <1>0, <1>4 DEF Start, TypeOK, persistedType
    <2>3. dirty' \in BOOLEAN /\ wake' \in BOOLEAN
      BY <1>0, <1>4 DEF Start, TypeOK
    <2>4. TypeOK'
      BY <1>0, <1>1, <1>2, <2>1, <2>2, <2>3 DEF TypeOK
    <2>5. Control'
      BY <1>0, <2>1 DEF Control
    <2> QED
      BY <2>4, <2>5 DEF Inv
  <1>5. CASE Crash
    <2>1. file' \in persistedType
      BY <1>0, <1>5 DEF Crash, TypeOK
    <2>2. ops' \in Seq(Ops) /\ proxyMap' \in [Sends -> 0 .. Len(chat)]
      BY <1>0, <1>5, <2>1 DEF Crash, persistedType
    <2>3. /\ dirty' \in BOOLEAN /\ wake' \in BOOLEAN
      BY <1>5 DEF Crash
    <2>4. /\ io' \in [Threads -> {"none", "lock", "open", "write"}] /\ snap' \in [Threads -> Snaps]
          /\ \A t \in Threads : io'[t] = "none" /\ snap'[t].state = NoState
      BY <1>0, <1>5 DEF Crash
    <2>5. crashes' \in 0 .. MaxFaults /\ acked' = {} /\ UNCHANGED <<errors, writeErrors, restarts>>
          /\ ctx' = "live" /\ pc' = "top" /\ inflight' = NoOp /\ attempt' = 0
      BY <1>0, <1>5 DEF Crash, faultsLeft, TypeOK
    <2>6. TypeOK'
      BY <1>0, <1>1, <1>2, <2>1, <2>2, <2>3, <2>4, <2>5 DEF TypeOK, Snaps
    <2>7. Control'
      BY <1>0, <2>4, <2>5 DEF Control
    <2> QED
      BY <2>6, <2>7 DEF Inv
  <1> QED
    BY <1>3, <1>4, <1>5

LEMMA TypedStep == Inv /\ [Next]_vars => Inv'
  <1> SUFFICES ASSUME Inv, [Next]_vars PROVE Inv'
    OBVIOUS
  <1>1. CASE UNCHANGED vars
    <2>1. persistedType' = persistedType
      BY <1>1 DEF vars, persistedType
    <2>2. TypeOK'
      BY <1>1, <2>1 DEF Inv, TypeOK, vars
    <2>3. Control'
      BY <1>1 DEF Inv, Control, vars
    <2> QED
      BY <2>2, <2>3 DEF Inv
  <1> QED
    BY <1>1, EnqueueTyped, PersistTyped, DeliveryTyped, LoopTyped, RestartTyped DEF Next, WorkerStep

-----------------------------------------------------------------------------
(* The inductive invariant. *)

(* A queue holds enqueued operations, in the order of their arrival. *)
orderly(h, q) ==
    /\ ToSet(q) \subseteq ToSet(h)
    /\ \A i, j \in DOMAIN q : i < j => follows(h, q[i], q[j])

(* A map of proxy ids names, for every Send it resolves, a copy of it. *)
resolvedIn(p, c) == \A s \in Sends : p[s] # 0 => c[p[s]].msg = s

(* The queues that the disk holds or a goroutine is about to write. *)
records == {file} \cup {snap[t].state : t \in Threads}

(* Operations are enqueued once, and every queue keeps their order. *)
Queue ==
    /\ \A i, j \in DOMAIN enqueued : enqueued[i] = enqueued[j] => i = j
    /\ orderly(enqueued, ops)
    /\ \A r \in records : orderly(enqueued, r.ops)
    /\ inflight # NoOp => inflight \in ToSet(enqueued)
                          /\ \A o \in ToSet(ops) : follows(enqueued, inflight, o)
    /\ \A s \in Sends : copies(s) # {} => s \in ToSet(enqueued)

(* An Edit comes after the message it edits. *)
EditsFollow ==
    /\ acked \subseteq ToSet(enqueued)
    /\ \A e \in Enqueuers : io[e] # "none" => snap[e].op \in ToSet(enqueued)
    /\ \A o \in ToSet(enqueued) : KindOf[o] = "edit" => follows(enqueued, TargetOf[o], o)

(* Once the iteration is cancelled only the delivery goroutine writes, and *)
(* what it leaves is the queue. *)
Quiet == ctx = "cancelled" => \A e \in Enqueuers : io[e] = "none"
Trust == diskTrusted /\ pc = "off" => file = persistedState

shown(s) == copies(s) # {}
accounted(s) == s \in pending \/ shown(s) \/ s \in dropped

(* No record brings back a Send that was lost. *)
Recorded == \A r \in records : \A s \in Sends \cap ToSet(r.ops) : accounted(s)

(* Of two Sends the first is shown first, or is lost for good. *)
ChatOrder ==
    \A s, t \in Sends : shown(t) /\ follows(enqueued, s, t) /\ s \notin dropped =>
        \/ \E i \in copies(s) : \A j \in copies(t) : i < j
        \/ ~shown(s) /\ s \notin pending

one(x, S) == IF x \in S THEN 1 ELSE 0
faults == errors + writeErrors + crashes

(* A Send that is going to be delivered is one copy still to come. *)
Paid ==
    \A s \in Sends :
        /\ Cardinality(copies(s)) + one(s, pending) <= 1 + faults
        /\ pc = "off" => Cardinality(copies(s)) + one(s, ToSet(file.ops)) <= 1 + faults

Resolved == resolvedIn(proxyMap, chat) /\ \A r \in records : resolvedIn(r.proxyMap, chat)

editOf(o, s) == KindOf[o] = "edit" /\ TargetOf[o] = s
isLast(e, s) ==
    /\ e \in ToSet(enqueued) /\ editOf(e, s)
    /\ \A o \in ToSet(enqueued) : editOf(o, s) => ~follows(enqueued, e, o)

(* The last Edit of a message is still to come, was given up, or is what   *)
(* the message shows, with nothing left that would change that. *)
LastEdit ==
    diskTrusted => \A s \in Sends : \A e \in Ops : isLast(e, s) =>
        \/ e \in pending \/ e \in dropped
        \/ /\ \A o \in pending : o # NoOp => o # s /\ ~editOf(o, s)
           /\ proxyMap[s] # 0 => chat[proxyMap[s]].text = e


-----------------------------------------------------------------------------
(* The order of arrival. *)

LEMMA OrderlyEmpty == ASSUME NEW h PROVE orderly(h, <<>>)
  BY ToSetEmpty DEF orderly

LEMMA OrderlyGrows ==
  ASSUME NEW h \in Seq(Ops), NEW x \in Ops, NEW q, orderly(h, q)
  PROVE  orderly(Append(h, x), q)
  <1>1. ToSet(q) \subseteq ToSet(Append(h, x))
    BY ToSetAppend DEF orderly
  <1>2. \A i, j \in DOMAIN q : i < j => follows(Append(h, x), q[i], q[j])
    BY FollowsGrows DEF orderly
  <1> QED
    BY <1>1, <1>2 DEF orderly

LEMMA OrderlyAppend ==
  ASSUME NEW h \in Seq(Ops), NEW x \in Ops, NEW q \in Seq(Ops), orderly(h, q)
  PROVE  orderly(Append(h, x), Append(q, x))
  <1>1. ToSet(Append(q, x)) \subseteq ToSet(Append(h, x))
    BY ToSetAppend DEF orderly
  <1> DEFINE r == Append(q, x)
  <1>2. Len(q) \in Nat /\ DOMAIN r = 1 .. Len(q) + 1 /\ DOMAIN q = 1 .. Len(q)
        /\ r[Len(q) + 1] = x /\ \A k \in 1 .. Len(q) : r[k] = q[k]
    OBVIOUS
  <1> HIDE DEF r
  <1>3. ASSUME NEW i \in DOMAIN r, NEW j \in DOMAIN r, i < j
        PROVE  follows(Append(h, x), r[i], r[j])
    <2>1. i \in DOMAIN q /\ r[i] = q[i] /\ q[i] \in ToSet(h)
      <3>1. i \in DOMAIN q /\ r[i] = q[i]
        BY <1>2, <1>3
      <3> QED
        BY <3>1, InToSet DEF orderly
    <2>2. CASE j = Len(q) + 1
      BY <1>2, <2>1, <2>2, FollowsNew
    <2>3. CASE j # Len(q) + 1
      <3>1. j \in DOMAIN q /\ r[j] = q[j]
        BY <1>2, <2>3
      <3>2. follows(h, q[i], q[j])
        BY <1>3, <2>1, <3>1 DEF orderly
      <3> QED
        BY <2>1, <3>1, <3>2, FollowsGrows
    <2> QED
      BY <2>2, <2>3
  <1> QED
    BY <1>1, <1>3 DEF orderly, r

LEMMA OrderlyRest ==
  ASSUME NEW h \in Seq(Ops), NEW q \in Seq(Ops), orderly(h, q), NEW i \in DOMAIN q
  PROVE  LET r == SubSeq(q, i + 1, Len(q))
         IN  /\ orderly(h, r) /\ q[i] \in ToSet(h) /\ \A o \in ToSet(r) : follows(h, q[i], o)
             /\ \A o \in ToSet(r) : o \in ToSet(q)
             /\ \A o \in ToSet(q) : o \notin ToSet(r) => \E k \in 1 .. i : q[k] = o
  <1> DEFINE r == SubSeq(q, i + 1, Len(q))
  <1>1. /\ r \in Seq(Ops) /\ Len(r) = Len(q) - i
        /\ \A k \in 1 .. Len(q) - i : r[k] = q[i + k]
    BY RestOf
  <1>2. Len(q) \in Nat /\ i \in 1 .. Len(q) /\ DOMAIN q = 1 .. Len(q) /\ DOMAIN r = 1 .. Len(q) - i
    BY <1>1
  <1> HIDE DEF r
  <1>3. \A k \in DOMAIN r : i + k \in DOMAIN q /\ r[k] = q[i + k] /\ i < i + k
    BY <1>1, <1>2
  <1>4. ToSet(r) \subseteq ToSet(q)
    BY <1>3, InToSet
  <1>5. \A o \in ToSet(r) : follows(h, q[i], o)
    BY <1>3, InToSet DEF orderly
  <1>6. \A k, l \in DOMAIN r : k < l => i + k < i + l
    BY <1>2
  <1>7. \A k, l \in DOMAIN r : k < l => follows(h, r[k], r[l])
    BY <1>3, <1>6 DEF orderly
  <1>8. orderly(h, r) /\ q[i] \in ToSet(h)
    BY <1>4, <1>7, InToSet DEF orderly
  <1>9. ASSUME NEW o \in ToSet(q), o \notin ToSet(r) PROVE \E k \in 1 .. i : q[k] = o
    <2>1. PICK k \in DOMAIN q : q[k] = o
      BY InToSet
    <2>2. CASE k <= i
      BY <1>2, <2>1, <2>2
    <2>3. CASE k > i
      <3>1. k - i \in 1 .. Len(q) - i /\ i + (k - i) = k
        BY <1>2, <2>3
      <3>2. r[k - i] = o
        BY <1>1, <2>1, <3>1
      <3>3. o \in ToSet(r)
        BY <1>2, <3>1, <3>2, InToSet
      <3> QED
        BY <1>9, <3>3
    <2> QED
      BY <1>2, <2>2, <2>3
  <1> QED
    BY <1>4, <1>5, <1>8, <1>9 DEF r

LEMMA OrderlyPush ==
  ASSUME NEW h \in Seq(Ops), NEW q \in Seq(Ops), orderly(h, q), NEW x \in Ops, x \in ToSet(h),
         \A o \in ToSet(q) : follows(h, x, o)
  PROVE  orderly(h, <<x>> \o q)
  <1>1. ToSet(<<x>> \o q) \subseteq ToSet(h)
    BY ToSetPush DEF orderly
  <1> DEFINE r == <<x>> \o q
  <1>2. /\ Len(q) \in Nat /\ DOMAIN q = 1 .. Len(q) /\ DOMAIN r = 1 .. Len(q) + 1 /\ r[1] = x
        /\ \A i \in 1 .. Len(q) : r[i + 1] = q[i]
    OBVIOUS
  <1>3. \A j \in DOMAIN r : j # 1 => j - 1 \in DOMAIN q /\ r[j] = q[j - 1]
    <2>1. \A j \in 2 .. Len(q) + 1 : j - 1 \in 1 .. Len(q) /\ (j - 1) + 1 = j
      BY <1>2
    <2> HIDE DEF r
    <2> QED
      BY <1>2, <2>1
  <1> HIDE DEF r
  <1>4. ASSUME NEW i \in DOMAIN r, NEW j \in DOMAIN r, i < j
        PROVE  follows(h, r[i], r[j])
    <2>1. j # 1 /\ (i # 1 => i - 1 < j - 1)
      BY <1>2, <1>4
    <2>2. j - 1 \in DOMAIN q /\ r[j] = q[j - 1] /\ r[j] \in ToSet(q)
      BY <1>3, <2>1, InToSet
    <2>3. CASE i = 1
      BY <1>2, <2>2, <2>3
    <2>4. CASE i # 1
      BY <1>3, <2>1, <2>2, <2>4 DEF orderly
    <2> QED
      BY <2>3, <2>4
  <1> QED
    BY <1>1, <1>4 DEF orderly, r

-----------------------------------------------------------------------------
(* What the steps do. *)

Deliver == DeliverySucceeds \/ DeliveryFails \/ DeliverySkipped \/ Backoff

queue == <<ops, proxyMap, inflight, chat, dropped, enqueued>>

(* Every step that is not one of the five named here leaves the queue alone. *)
LEMMA Kinds ==
  ASSUME Inv, [Next]_vars
  PROVE  \/ UNCHANGED queue /\ UNCHANGED <<errors, crashes>>
         \/ \E e \in Enqueuers, op \in Ops : enqueue(e, op)
         \/ dequeue \/ Deliver \/ Start \/ Crash
  <1> USE DEF queueVars, workerVars, ioVars, histVars, bounds, queue
  <1>1. CASE UNCHANGED vars
    BY <1>1 DEF vars
  <1>2. CASE \E t \in Threads : Persist(t)
    BY <1>2 DEF Persist, persistSnapshot, persistTruncate, persistWrite, persistFails
  <1>3. CASE WorkerExits \/ WorkerWaits \/ WorkerWakes \/ WorkerTicks \/ CancelIteration
    BY <1>3 DEF WorkerExits, WorkerWaits, WorkerWakes, WorkerTicks, CancelIteration
  <1> QED
    BY <1>1, <1>2, <1>3 DEF Next, WorkerStep, Deliver

(* A record is an old one, empty, or the queue as it is before the step. *)
LEMMA RecordsMove ==
  ASSUME Inv, [Next]_vars
  PROVE  records' \subseteq records \cup {persistedState, NoState}
  <1> USE DEF queueVars, workerVars, ioVars, histVars, bounds
  <1> DEFINE old == records \cup {persistedState, NoState}
  <1>0. /\ file \in records /\ \A t \in Threads : snap[t].state \in records
        /\ snap \in [Threads -> Snaps] /\ NoSnap.state = NoState
    BY ConstantStates DEF records, Inv, TypeOK, Snaps
  <1>1. file' \in old
    <2>1. CASE \E t \in Threads : Persist(t)
      <3>1. PICK t \in Threads : Persist(t)
        BY <2>1
      <3>2. snap[t].state \in old /\ NoState \in old /\ file \in old
        BY <1>0
      <3> HIDE DEF old
      <3> QED
        BY <3>1, <3>2 DEF Persist, persistSnapshot, persistTruncate, persistWrite, persistFails, written
    <2>2. CASE WorkerExits \/ Crash
      <3>1. file \in old /\ NoState \in old /\ persistedState \in old
        BY <1>0
      <3> HIDE DEF old
      <3> QED
        BY <2>2, <3>1 DEF WorkerExits, shutdownWrites, Crash
    <2>3. CASE UNCHANGED vars
      BY <1>0, <2>3 DEF vars
    <2>4. CASE UNCHANGED file
      BY <1>0, <2>4
    <2>5. CASE \E e \in Enqueuers, op \in Ops : enqueue(e, op)
      BY <2>4, <2>5 DEF enqueue
    <2>6. CASE dequeue \/ Deliver \/ WorkerWaits \/ WorkerWakes \/ WorkerTicks \/ CancelIteration \/ Start
      BY <2>4, <2>6 DEF Deliver, dequeue, DeliverySucceeds, DeliveryFails, DeliverySkipped, Backoff,
                        WorkerWaits, WorkerWakes, WorkerTicks, CancelIteration, Start
    <2> HIDE DEF old
    <2> QED
      BY <2>1, <2>2, <2>3, <2>5, <2>6 DEF Next, WorkerStep, Deliver
  <1>2. \A t \in Threads : snap'[t].state \in old
    <2>0. \A t \in Threads : snap[t].state \in old /\ NoState \in old /\ persistedState \in old
      BY <1>0
    <2> HIDE DEF old
    <2>1. CASE \E t \in Threads : Persist(t)
      <3>1. PICK t \in Threads : Persist(t)
        BY <2>1
      <3>2. CASE persistSnapshot(t)
        <4> DEFINE r == [state |-> persistedState, op |-> snap[t].op]
        <4>1. snap[t] \in Snaps
          BY <1>0
        <4>2. [snap[t] EXCEPT !.state = persistedState] = r /\ r.state = persistedState
          BY <4>1 DEF Snaps
        <4>3. snap' = [snap EXCEPT ![t] = [snap[t] EXCEPT !.state = persistedState]]
          BY <3>2 DEF persistSnapshot
        <4>4. snap' = [snap EXCEPT ![t] = r]
          BY <4>2, <4>3
        <4> HIDE DEF r
        <4> QED
          BY <1>0, <2>0, <4>2, <4>4
      <3>3. CASE persistTruncate(t)
        BY <2>0, <3>3 DEF persistTruncate
      <3>4. CASE persistWrite(t) \/ persistFails(t)
        <4>1. snap' = [snap EXCEPT ![t] = NoSnap]
          BY <3>4 DEF persistWrite, persistFails
        <4> QED
          BY <1>0, <2>0, <4>1
      <3> QED
        BY <3>1, <3>2, <3>3, <3>4 DEF Persist
    <2>2. CASE \E e \in Enqueuers, op \in Ops : enqueue(e, op)
      <3>1. PICK e \in Enqueuers, op \in Ops : enqueue(e, op)
        BY <2>2
      <3>2. CASE snap' = snap
        BY <2>0, <3>2
      <3>3. CASE snap' = [snap EXCEPT ![e].op = op]
        <4> DEFINE r == [state |-> snap[e].state, op |-> op]
        <4>1. snap[e] \in Snaps /\ e \in Threads
          BY <1>0 DEF Threads
        <4>2. [snap[e] EXCEPT !.op = op] = r /\ r.state = snap[e].state
          BY <4>1 DEF Snaps
        <4>3. snap' = [snap EXCEPT ![e] = [snap[e] EXCEPT !.op = op]]
          BY <3>3
        <4>4. snap' = [snap EXCEPT ![e] = r]
          BY <4>2, <4>3
        <4> HIDE DEF r
        <4> QED
          BY <1>0, <2>0, <4>1, <4>2, <4>4
      <3> QED
        BY <3>1, <3>2, <3>3 DEF enqueue
    <2>3. CASE Crash
      BY <1>0, <2>0, <2>3 DEF Crash
    <2>4. CASE UNCHANGED snap
      BY <2>0, <2>4
    <2>5. CASE UNCHANGED vars
      BY <2>4, <2>5 DEF vars
    <2>6. CASE WorkerExits \/ dequeue \/ Deliver \/ WorkerWaits \/ WorkerWakes \/ WorkerTicks \/ CancelIteration \/ Start
      BY <2>4, <2>6 DEF Deliver, dequeue, DeliverySucceeds, DeliveryFails, DeliverySkipped, Backoff, WorkerExits,
                        WorkerWaits, WorkerWakes, WorkerTicks, CancelIteration, Start
    <2> QED
      BY <2>1, <2>2, <2>3, <2>5, <2>6 DEF Next, WorkerStep, Deliver
  <1> HIDE DEF old
  <1>3. records' = {file'} \cup {snap'[t].state : t \in Threads}
    BY DEF records, Threads
  <1>4. records' \subseteq old
    BY <1>1, <1>2, <1>3
  <1> QED
    BY <1>4 DEF old

(* A delivery step: what becomes of the operation, and of the chat. *)
LEMMA DeliverIs ==
  ASSUME Inv, Deliver
  PROVE  /\ inflight \in Ops /\ UNCHANGED <<ctx, io, snap, file, enqueued, acked, writeErrors, crashes>>
         /\ pc \in {"deliver", "backoff"} /\ pc' # "off" /\ errors' \in {errors, errors + 1}
         /\ \/ ops' = ops /\ inflight' = inflight /\ dropped' = dropped
            \/ ops' = ops /\ inflight' = NoOp /\ dropped' = dropped \cup {inflight}
            \/ ops' = <<inflight>> \o ops /\ inflight' = NoOp /\ dropped' = dropped
            \/ ops' = ops /\ inflight' = NoOp /\ dropped' = dropped /\ DeliverySucceeds
         /\ \/ chat' = chat /\ ~DeliverySucceeds
            \/ callable(inflight) /\ chat' = applied(inflight, chat, proxyMap)
               /\ (DeliverySucceeds \/ errors' = errors + 1)
         /\ \/ proxyMap' = proxyMap /\ ~(DeliverySucceeds /\ KindOf[inflight] = "send")
            \/ /\ DeliverySucceeds /\ KindOf[inflight] = "send"
               /\ proxyMap' = [proxyMap EXCEPT ![inflight] = Len(chat) + 1]
  <1> USE DEF queueVars, workerVars, ioVars, histVars, bounds
  <1>1. /\ inflight \in Ops /\ UNCHANGED <<ctx, io, snap, file, enqueued, acked, writeErrors, crashes>>
        /\ pc \in {"deliver", "backoff"}
    BY DEF Deliver, Inv, TypeOK, Control, DeliverySucceeds, DeliveryFails, DeliverySkipped, Backoff, WorkerAt
  <1>2. errors' \in {errors, errors + 1}
    BY DEF Deliver, DeliverySucceeds, DeliveryFails, DeliverySkipped, Backoff
  <1>3. /\ pc' # "off"
        /\ \/ ops' = ops /\ inflight' = inflight /\ dropped' = dropped
           \/ ops' = ops /\ inflight' = NoOp /\ dropped' = dropped \cup {inflight}
           \/ ops' = <<inflight>> \o ops /\ inflight' = NoOp /\ dropped' = dropped
           \/ ops' = ops /\ inflight' = NoOp /\ dropped' = dropped /\ DeliverySucceeds
    <2>1. CASE DeliverySucceeds
      BY <2>1 DEF DeliverySucceeds, deliverReturns
    <2>2. CASE requeueInflight \/ discardInflight
      BY <2>2 DEF requeueInflight, discardInflight, deliverReturns, requeued
    <2>3. CASE DeliveryFails
      BY <2>2, <2>3 DEF DeliveryFails
    <2>4. CASE DeliverySkipped \/ Backoff
      BY <2>2, <2>4 DEF DeliverySkipped, Backoff
    <2> QED
      BY <2>1, <2>3, <2>4 DEF Deliver
  <1>4. /\ \/ chat' = chat /\ ~DeliverySucceeds
           \/ callable(inflight) /\ chat' = applied(inflight, chat, proxyMap)
              /\ (DeliverySucceeds \/ errors' = errors + 1)
        /\ \/ proxyMap' = proxyMap /\ ~(DeliverySucceeds /\ KindOf[inflight] = "send")
           \/ /\ DeliverySucceeds /\ KindOf[inflight] = "send"
              /\ proxyMap' = [proxyMap EXCEPT ![inflight] = Len(chat) + 1]
    <2>1. CASE DeliverySucceeds
      BY <2>1 DEF DeliverySucceeds
    <2>2. CASE ~DeliverySucceeds /\ DeliveryFails
      BY <2>2 DEF DeliveryFails
    <2>3. CASE ~DeliverySucceeds /\ (DeliverySkipped \/ Backoff)
      BY <2>3 DEF DeliverySkipped, Backoff
    <2> QED
      BY <2>1, <2>2, <2>3 DEF Deliver
  <1> QED
    BY <1>1, <1>2, <1>3, <1>4

(* The chat only grows, by a copy of the operation in flight. *)
LEMMA CopiesGrow ==
  ASSUME Inv, Deliver
  PROVE  /\ \A s \in Sends : copies(s)' = copies(s)
                             \/ (s = inflight /\ copies(s)' = copies(s) \cup {Len(chat) + 1}
                                 /\ (DeliverySucceeds \/ errors' = errors + 1))
         /\ \A i \in DOMAIN chat : i \in DOMAIN chat' /\ chat'[i].msg = chat[i].msg
         /\ DeliverySucceeds /\ KindOf[inflight] = "send" =>
                (\A s \in Sends : s = inflight => copies(s)' = copies(s) \cup {Len(chat) + 1})
                /\ Len(chat) + 1 \in DOMAIN chat' /\ chat'[Len(chat) + 1].msg = inflight
  <1>0. /\ chat \in Seq([msg : Sends, text : Ops]) /\ Len(chat) \in Nat /\ DOMAIN chat = 1 .. Len(chat)
        /\ inflight \in Ops
    BY DeliverIs DEF Inv, TypeOK
  <1>1. \A s : copies(s)' = {i \in DOMAIN chat' : chat'[i].msg = s}
    BY DEF copies
  <1>2. CASE chat' = chat /\ ~DeliverySucceeds
    BY <1>1, <1>2 DEF copies
  <1>3. CASE /\ callable(inflight) /\ chat' = applied(inflight, chat, proxyMap)
             /\ DeliverySucceeds \/ errors' = errors + 1
    <2>1. CASE KindOf[inflight] = "send"
      <3> DEFINE r == [msg |-> inflight, text |-> inflight]
      <3>1. chat' = Append(chat, r)
        BY <1>0, <1>3, <2>1, AppliedTo
      <3>2. r.msg = inflight
        OBVIOUS
      <3> HIDE DEF r
      <3>3. /\ DOMAIN chat' = 1 .. Len(chat) + 1 /\ chat'[Len(chat) + 1] = r
            /\ \A i \in 1 .. Len(chat) : chat'[i] = chat[i]
        BY <1>0, <3>1
      <3>4. DOMAIN chat' = DOMAIN chat \cup {Len(chat) + 1} /\ Len(chat) + 1 \notin DOMAIN chat
        BY <1>0, <3>3
      <3>5. \A s \in Sends \ {inflight} : copies(s)' = copies(s)
        BY <1>0, <1>1, <3>2, <3>3, <3>4 DEF copies
      <3>6. \A s \in Sends : s = inflight => copies(s)' = copies(s) \cup {Len(chat) + 1}
        BY <1>0, <1>1, <3>2, <3>3, <3>4 DEF copies
      <3> QED
        BY <1>0, <1>3, <3>2, <3>3, <3>4, <3>5, <3>6
    <2>2. CASE KindOf[inflight] # "send"
      <3>1. /\ chat' \in Seq([msg : Sends, text : Ops]) /\ Len(chat') = Len(chat)
            /\ \A i \in 1 .. Len(chat) : chat'[i].msg = chat[i].msg
        BY <1>0, <1>3, <2>2, AppliedTo
      <3>2. DOMAIN chat' = DOMAIN chat
        BY <1>0, <3>1
      <3>3. \A s \in Sends : copies(s)' = copies(s)
        BY <1>0, <1>1, <3>1, <3>2 DEF copies
      <3> QED
        BY <1>0, <2>2, <3>1, <3>2, <3>3
    <2> QED
      BY <2>1, <2>2
  <1> QED
    BY <1>2, <1>3, DeliverIs

(* A delivery step takes nothing from the queue but the operation in flight. *)
LEMMA PendingDeliver ==
  ASSUME Inv, Deliver
  PROVE  /\ \A o \in Ops : o \in pending' => o \in pending
         /\ \A o \in Ops : o \in pending /\ o \notin pending' =>
                o = inflight /\ (o \in dropped' \/ DeliverySucceeds)
         /\ dropped \subseteq dropped'
         /\ DeliverySucceeds => pending' = ToSet(ops) \cup {NoOp} /\ ops' = ops /\ inflight' = NoOp
  <1>1. ops \in Seq(Ops) /\ inflight \in Ops
    BY DeliverIs DEF Inv, TypeOK
  <1>2. pending' = ToSet(ops') \cup {inflight'} /\ pending = ToSet(ops) \cup {inflight}
    BY DEF pending
  <1>3. ToSet(<<inflight>> \o ops) = ToSet(ops) \cup {inflight}
    BY <1>1, ToSetPush
  <1>4. DeliverySucceeds => ops' = ops /\ inflight' = NoOp
    BY DEF DeliverySucceeds, deliverReturns
  <1>5. /\ \/ ops' = ops /\ inflight' = inflight /\ dropped' = dropped
           \/ ops' = ops /\ inflight' = NoOp /\ dropped' = dropped \cup {inflight}
           \/ ops' = <<inflight>> \o ops /\ inflight' = NoOp /\ dropped' = dropped
           \/ ops' = ops /\ inflight' = NoOp /\ dropped' = dropped /\ DeliverySucceeds
    BY DeliverIs
  <1> QED
    BY <1>1, <1>2, <1>3, <1>4, <1>5

(* What dequeue does: it leaves out Edits that a later one supersedes. *)
LEMMA DequeueIs ==
  ASSUME Inv, Queue, dequeue
  PROVE  /\ UNCHANGED <<proxyMap, ctx, io, snap, file, chat, enqueued, acked, dropped, errors, writeErrors, crashes>>
         /\ inflight = NoOp /\ pc' = "deliver" /\ pc # "off" /\ ctx = "live"
         /\ inflight' \in Ops /\ inflight' \in ToSet(enqueued)
         /\ ops' \in Seq(Ops) /\ orderly(enqueued, ops')
         /\ \A o \in ToSet(ops') : follows(enqueued, inflight', o)
         /\ \A o \in Ops : o \in pending' => o \in pending
         /\ \A o \in Ops : o \in pending /\ o \notin pending' =>
                KindOf[o] = "edit"
                /\ \E p \in ToSet(ops) : KindOf[p] = "edit" /\ TargetOf[p] = TargetOf[o]
                                         /\ follows(enqueued, o, p)
  <1> USE DEF queueVars, workerVars, ioVars, histVars, bounds
  <1>1. UNCHANGED <<proxyMap, ctx, io, snap, file, chat, enqueued, acked, dropped, errors, writeErrors, crashes>>
        /\ pc' = "deliver" /\ pc = "top" /\ ctx = "live"
    BY DEF dequeue, WorkerAt
  <1>2. inflight = NoOp /\ ops \in Seq(Ops) /\ enqueued \in Seq(Ops) /\ orderly(enqueued, ops)
    BY <1>1 DEF Inv, Control, TypeOK, Queue
  <1>3. PICK i \in DOMAIN ops :
          /\ \A k \in 1..(i - 1) : superseded(ops, k)
          /\ inflight' = ops[i] /\ ops' = SubSeq(ops, i + 1, Len(ops))
    BY DEF dequeue
  <1> DEFINE r == SubSeq(ops, i + 1, Len(ops))
  <1>4. r \in Seq(Ops) /\ ops[i] \in Ops /\ ops[i] \in ToSet(ops)
    BY <1>2, RestOf, InToSet
  <1>5. /\ orderly(enqueued, r) /\ ops[i] \in ToSet(enqueued) /\ \A o \in ToSet(r) : follows(enqueued, ops[i], o)
        /\ \A o \in ToSet(r) : o \in ToSet(ops)
        /\ \A o \in ToSet(ops) : o \notin ToSet(r) => \E k \in 1 .. i : ops[k] = o
    BY <1>2, OrderlyRest
  <1> HIDE DEF r
  <1>6. pending' = ToSet(r) \cup {ops[i]} /\ pending = ToSet(ops) \cup {NoOp}
    BY <1>2, <1>3 DEF pending, r
  <1>7. ASSUME NEW o \in Ops, o \in pending, o \notin pending'
        PROVE  KindOf[o] = "edit"
               /\ \E p \in ToSet(ops) : KindOf[p] = "edit" /\ TargetOf[p] = TargetOf[o]
                                        /\ follows(enqueued, o, p)
    <2>1. o \in ToSet(ops) /\ o \notin ToSet(r) /\ o # ops[i]
      BY <1>6, <1>7
    <2>2. PICK k \in 1 .. i : ops[k] = o
      BY <1>5, <2>1
    <2>3. k \in 1 .. (i - 1) /\ k \in DOMAIN ops
      BY <1>2, <2>1, <2>2
    <2>4. superseded(ops, k)
      BY <1>3, <2>3
    <2>5. PICK j \in (k + 1) .. Len(ops) : KindOf[ops[j]] = "edit" /\ TargetOf[ops[j]] = TargetOf[ops[k]]
      BY <2>4 DEF superseded
    <2>6. j \in DOMAIN ops /\ k < j
      BY <1>2, <2>3
    <2>7. follows(enqueued, ops[k], ops[j]) /\ ops[j] \in ToSet(ops)
      BY <1>2, <2>3, <2>6, InToSet DEF orderly
    <2> QED
      BY <2>2, <2>4, <2>5, <2>7 DEF superseded
  <1>8. \A o \in Ops : o \in pending' => o \in pending
    BY <1>4, <1>5, <1>6
  <1> QED
    BY <1>1, <1>2, <1>3, <1>4, <1>5, <1>7, <1>8 DEF r

-----------------------------------------------------------------------------
(* The invariant holds initially and is preserved. *)

LEMMA QueueStep ==
  ASSUME Inv, Queue, [Next]_vars
  PROVE  Queue'
  <1> USE DEF queueVars, workerVars, ioVars, histVars, bounds
  <1> DEFINE distinct(h) == \A i, j \in DOMAIN h : h[i] = h[j] => i = j
             ahead(h, x, q) == x # NoOp => x \in ToSet(h) /\ \A o \in ToSet(q) : follows(h, x, o)
  <1>0. /\ enqueued \in Seq(Ops) /\ ops \in Seq(Ops) /\ persistedState.ops = ops /\ NoState.ops = <<>>
        /\ distinct(enqueued) /\ orderly(enqueued, ops) /\ \A r \in records : orderly(enqueued, r.ops)
        /\ ahead(enqueued, inflight, ops)
        /\ \A s \in Sends : copies(s) # {} => s \in ToSet(enqueued)
    BY DEF Inv, TypeOK, Queue, persistedState, NoState
  <1>1. \A r \in records' : orderly(enqueued, r.ops)
    BY <1>0, RecordsMove, OrderlyEmpty
  <1> SUFFICES /\ distinct(enqueued') /\ orderly(enqueued', ops')
               /\ \A r \in records' : orderly(enqueued', r.ops)
               /\ ahead(enqueued', inflight', ops')
               /\ \A s \in Sends : copies(s)' # {} => s \in ToSet(enqueued')
    BY DEF Queue
  <1> HIDE DEF distinct, ahead
  <1>2. CASE UNCHANGED queue
    BY <1>0, <1>1, <1>2 DEF queue, copies
  <1>3. CASE \E e \in Enqueuers, op \in Ops : enqueue(e, op)
    <2>1. PICK e \in Enqueuers, op \in Ops : enqueue(e, op)
      BY <1>3
    <2>2. /\ op \notin ToSet(enqueued) /\ ops' = Append(ops, op) /\ enqueued' = Append(enqueued, op)
          /\ inflight' = inflight /\ chat' = chat
      BY <2>1 DEF enqueue
    <2>3. distinct(enqueued')
      <3> DEFINE g == Append(enqueued, op)
      <3>1. /\ Len(enqueued) \in Nat /\ DOMAIN g = 1 .. Len(enqueued) + 1 /\ DOMAIN enqueued = 1 .. Len(enqueued)
            /\ g[Len(enqueued) + 1] = op /\ \A k \in 1 .. Len(enqueued) : g[k] = enqueued[k]
        BY <1>0
      <3> HIDE DEF g
      <3>2. \A k \in 1 .. Len(enqueued) : g[k] # op
        BY <2>2, <3>1, InToSet
      <3>3. \A k \in DOMAIN g : k = Len(enqueued) + 1 \/ k \in 1 .. Len(enqueued)
        BY <3>1
      <3>4. distinct(g)
        BY <1>0, <3>1, <3>2, <3>3 DEF distinct
      <3> QED
        BY <2>2, <3>4 DEF g
    <2>4. orderly(enqueued', ops') /\ \A r \in records' : orderly(enqueued', r.ops)
      BY <1>0, <1>1, <2>2, OrderlyAppend, OrderlyGrows
    <2>5. ToSet(ops') = ToSet(ops) \cup {op} /\ ToSet(enqueued') = ToSet(enqueued) \cup {op}
      BY <1>0, <2>2, ToSetAppend
    <2>6. ahead(enqueued', inflight', ops')
      BY <1>0, <2>2, <2>5, FollowsGrows, FollowsNew DEF ahead
    <2>7. \A s \in Sends : copies(s)' # {} => s \in ToSet(enqueued')
      BY <1>0, <2>2, <2>5 DEF copies
    <2> QED
      BY <2>3, <2>4, <2>6, <2>7
  <1>4. CASE dequeue
    <2>1. /\ enqueued' = enqueued /\ chat' = chat /\ orderly(enqueued, ops')
          /\ inflight' \in ToSet(enqueued) /\ \A o \in ToSet(ops') : follows(enqueued, inflight', o)
      BY <1>4, DequeueIs
    <2> QED
      BY <1>0, <1>1, <2>1 DEF ahead, copies
  <1>5. CASE Deliver
    <2>1. enqueued' = enqueued /\ inflight \in Ops
      BY <1>5, DeliverIs
    <2>2. inflight \in ToSet(enqueued) /\ \A o \in ToSet(ops) : follows(enqueued, inflight, o)
      BY <1>0, <2>1 DEF ahead
    <2>3. orderly(enqueued, <<inflight>> \o ops)
      BY <1>0, <2>1, <2>2, OrderlyPush
    <2>4. orderly(enqueued', ops') /\ ahead(enqueued', inflight', ops')
      BY <1>0, <1>5, <2>1, <2>2, <2>3, DeliverIs DEF ahead
    <2>5. \A s \in Sends : copies(s)' # {} => s \in ToSet(enqueued)
      BY <1>0, <1>5, <2>2, CopiesGrow
    <2> QED
      BY <1>0, <1>1, <2>1, <2>4, <2>5
  <1>6. CASE Start \/ Crash
    <2>1. enqueued' = enqueued /\ chat' = chat /\ inflight' = NoOp
      BY <1>6 DEF Start, Crash, Inv, Control
    <2>2. orderly(enqueued, file'.ops)
      BY <1>1 DEF records
    <2>3. ops' = ops \/ ops' = file'.ops
      BY <1>6 DEF Start, Crash
    <2> QED
      BY <1>0, <1>1, <2>1, <2>2, <2>3 DEF ahead, copies
  <1> QED
    BY <1>2, <1>3, <1>4, <1>5, <1>6, Kinds

(* The order in which the callers issue an Edit and its message. *)
LEMMA EditsFollowStep ==
  ASSUME Inv, Queue, EditsFollow, [Next]_vars
  PROVE  EditsFollow'
  <1> USE DEF queueVars, workerVars, ioVars, histVars, bounds
  <1> DEFINE editsBehind(h) == \A o \in ToSet(h) : KindOf[o] = "edit" => follows(h, TargetOf[o], o)
             known(h) == \A e \in Enqueuers : io'[e] # "none" => snap'[e].op \in ToSet(h)
  <1>0. /\ enqueued \in Seq(Ops) /\ acked \subseteq ToSet(enqueued) /\ editsBehind(enqueued)
        /\ \A e \in Enqueuers : io[e] # "none" => snap[e].op \in ToSet(enqueued)
        /\ io \in [Threads -> {"none", "lock", "open", "write"}] /\ snap \in [Threads -> Snaps]
        /\ Enqueuers \subseteq Threads /\ Worker \notin Enqueuers
    BY DEF Inv, TypeOK, Queue, EditsFollow, Threads, Snaps
  <1> SUFFICES acked' \subseteq ToSet(enqueued') /\ editsBehind(enqueued') /\ known(enqueued')
    BY DEF EditsFollow
  <1> HIDE DEF editsBehind
  <1>1. CASE UNCHANGED <<enqueued, io, snap>> /\ acked' \subseteq acked
    BY <1>0, <1>1
  <1>2. CASE UNCHANGED vars
    BY <1>1, <1>2 DEF vars
  <1>3. CASE \E e \in Enqueuers, op \in Ops : enqueue(e, op)
    <2>1. PICK e \in Enqueuers, op \in Ops : enqueue(e, op)
      BY <1>3
    <2>2. ToSet(enqueued') = ToSet(enqueued) \cup {op} /\ enqueued' = Append(enqueued, op)
      BY <1>0, <2>1, ToSetAppend DEF enqueue
    <2>3. KindOf[op] = "edit" => TargetOf[op] \in ToSet(enqueued)
      BY <1>0, <2>1 DEF enqueue
    <2>4. editsBehind(enqueued')
      BY <1>0, <2>2, <2>3, FollowsGrows, FollowsNew DEF editsBehind
    <2>5. acked' \subseteq acked \cup {op}
      BY <2>1 DEF enqueue
    <2>6. known(enqueued')
      <3>1. CASE KindOf[op] = "edit"
        BY <1>0, <2>1, <2>2, <3>1 DEF enqueue
      <3>2. CASE KindOf[op] # "edit"
        <4>1. snap' = [snap EXCEPT ![e].op = op] /\ io' = [io EXCEPT ![e] = "lock"]
          BY <2>1, <3>2 DEF enqueue
        <4>2. e \in Threads /\ snap[e] \in Snaps
          BY <1>0
        <4>3. snap'[e].op = op /\ \A t \in Threads \ {e} : snap'[t] = snap[t] /\ io'[t] = io[t]
          BY <1>0, <4>1, <4>2 DEF Snaps
        <4> QED
          BY <1>0, <2>2, <4>3
      <3> QED
        BY <3>1, <3>2
    <2> QED
      BY <1>0, <2>2, <2>4, <2>5, <2>6
  <1>4. CASE \E t \in Threads : Persist(t)
    <2>1. PICK t \in Threads : Persist(t)
      BY <1>4
    <2>2. enqueued' = enqueued
      BY <2>1 DEF Persist, persistSnapshot, persistTruncate, persistWrite, persistFails
    <2>3. acked' \subseteq ToSet(enqueued)
      <3>1. CASE persistWrite(t)
        <4>1. t # Worker => t \in Enqueuers /\ io[t] # "none"
          BY <3>1 DEF persistWrite, Threads
        <4> QED
          BY <1>0, <3>1, <4>1 DEF persistWrite
      <3> QED
        BY <1>0, <2>1, <3>1 DEF Persist, persistSnapshot, persistTruncate, persistFails
    <2>4. \A e \in Enqueuers : io'[e] # "none" => io[e] # "none" /\ snap'[e].op = snap[e].op
      <3>1. CASE persistSnapshot(t)
        <4>1. snap' = [snap EXCEPT ![t] = [snap[t] EXCEPT !.state = persistedState]] /\ io' = [io EXCEPT ![t] = "open"]
              /\ io[t] = "lock"
          BY <3>1 DEF persistSnapshot
        <4>2. snap[t] \in Snaps
          BY <1>0
        <4>3. [snap[t] EXCEPT !.state = persistedState].op = snap[t].op
          BY <4>2 DEF Snaps
        <4> QED
          BY <1>0, <4>1, <4>3
      <3>2. CASE persistTruncate(t)
        BY <1>0, <3>2 DEF persistTruncate
      <3>3. CASE persistWrite(t) \/ persistFails(t)
        BY <1>0, <3>3 DEF persistWrite, persistFails
      <3> QED
        BY <2>1, <3>1, <3>2, <3>3 DEF Persist
    <2> QED
      BY <1>0, <2>2, <2>3, <2>4
  <1>5. CASE WorkerTicks
    <2>1. UNCHANGED <<enqueued, acked, snap>> /\ \A e \in Enqueuers : io'[e] = io[e]
      BY <1>0, <1>5 DEF WorkerTicks, Threads
    <2> QED
      BY <1>0, <2>1
  <1>6. CASE Crash
    BY <1>0, <1>6 DEF Crash
  <1>7. CASE WorkerExits \/ dequeue \/ Deliver \/ WorkerWaits \/ WorkerWakes \/ CancelIteration \/ Start
    BY <1>0, <1>1, <1>7 DEF WorkerExits, dequeue, Deliver, DeliverySucceeds, DeliveryFails, DeliverySkipped, Backoff,
                      WorkerWaits, WorkerWakes, CancelIteration, Start
  <1> QED
    BY <1>2, <1>3, <1>4, <1>5, <1>6, <1>7 DEF Next, WorkerStep, Deliver

(* Goroutines of the agent are done when the iteration is cancelled. *)
LEMMA QuietStep ==
  ASSUME Background = {}, Inv, Quiet, [Next]_vars
  PROVE  Quiet'
  <1> USE DEF queueVars, workerVars, ioVars, histVars, bounds
  <1>0. /\ io \in [Threads -> {"none", "lock", "open", "write"}]
        /\ Enqueuers \subseteq Threads /\ Worker \notin Enqueuers
    BY DEF Inv, TypeOK, Threads
  <1>1. CASE UNCHANGED <<ctx, io>>
    BY <1>1 DEF Quiet
  <1>2. CASE UNCHANGED vars
    BY <1>1, <1>2 DEF vars
  <1>3. CASE \E e \in Enqueuers, op \in Ops : enqueue(e, op)
    BY <1>3 DEF enqueue, Quiet
  <1>4. CASE \E t \in Threads : Persist(t)
    <2>1. PICK t \in Threads : Persist(t)
      BY <1>4
    <2>2. ctx' = ctx /\ io[t] # "none" /\ \A u \in Threads \ {t} : io'[u] = io[u]
      BY <1>0, <2>1 DEF Persist, persistSnapshot, persistTruncate, persistWrite, persistFails
    <2> QED
      BY <1>0, <2>2 DEF Quiet
  <1>5. CASE WorkerTicks
    <2>1. ctx' = ctx /\ \A e \in Enqueuers : io'[e] = io[e]
      BY <1>0, <1>5 DEF WorkerTicks
    <2> QED
      BY <2>1 DEF Quiet
  <1>6. CASE CancelIteration
    BY <1>0, <1>6 DEF CancelIteration, Quiet
  <1>7. CASE Start \/ Crash
    BY <1>7 DEF Start, Crash, Quiet
  <1>8. CASE WorkerExits \/ dequeue \/ Deliver \/ WorkerWaits \/ WorkerWakes
    BY <1>1, <1>8 DEF WorkerExits, dequeue, Deliver, DeliverySucceeds, DeliveryFails, DeliverySkipped, Backoff,
                      WorkerWaits, WorkerWakes
  <1> QED
    BY <1>2, <1>3, <1>4, <1>5, <1>6, <1>7, <1>8 DEF Next, WorkerStep, Deliver

(* Nobody touches the file between a shutdown and the next Start. *)
LEMMA WhileOff ==
  ASSUME Background = {}, Inv, Quiet, [Next]_vars, pc = "off", pc' = "off"
  PROVE  /\ UNCHANGED <<ops, proxyMap, inflight, chat, dropped, enqueued, file>>
         /\ UNCHANGED <<errors, writeErrors, crashes>>
  <1> USE DEF queueVars, workerVars, ioVars, histVars, bounds
  <1>1. /\ ctx = "cancelled" /\ io[Worker] = "none" /\ \A t \in Threads : io[t] = "none"
    BY DEF Inv, Control, Quiet, Threads
  <1>2. CASE UNCHANGED vars
    BY <1>2 DEF vars
  <1>3. ~ \E e \in Enqueuers, op \in Ops : enqueue(e, op)
    BY <1>1 DEF enqueue
  <1>4. ~ \E t \in Threads : Persist(t)
    BY <1>1 DEF Persist, persistSnapshot, persistTruncate, persistWrite, persistFails
  <1>5. ~ WorkerStep
    BY DEF WorkerStep, WorkerExits, dequeue, DeliverySucceeds, DeliveryFails, DeliverySkipped, Backoff,
           WorkerWaits, WorkerWakes, WorkerTicks, WorkerAt
  <1>6. ~ Start /\ ~ Crash /\ ~ CancelIteration
    BY <1>1 DEF Start, Crash, CancelIteration, launched
  <1> QED
    BY <1>2, <1>3, <1>4, <1>5, <1>6 DEF Next

(* Only a shutdown switches the delivery goroutine off. *)
LEMMA SwitchOff ==
  ASSUME Background = {}, Inv, Quiet, [Next]_vars, pc # "off", pc' = "off"
  PROVE  /\ UNCHANGED <<ops, proxyMap, inflight, chat, dropped, enqueued, errors, crashes>>
         /\ inflight = NoOp /\ ctx = "cancelled"
         /\ \/ file' = persistedState /\ writeErrors' = writeErrors
            \/ writeErrors' = writeErrors + 1 /\ file' \in {file, NoState}
  <1> USE DEF queueVars, workerVars, ioVars, histVars, bounds
  <1>1. WorkerExits
    <2>1. pc \in {"top", "wait", "deliver", "backoff"}
      BY DEF Inv, TypeOK
    <2>2. ~ UNCHANGED vars
      BY DEF vars
    <2>3. ~ (\E e \in Enqueuers, op \in Ops : enqueue(e, op)) /\ ~ (\E t \in Threads : Persist(t))
      BY DEF enqueue, Persist, persistSnapshot, persistTruncate, persistWrite, persistFails
    <2>4. ~ dequeue /\ ~ WorkerWaits /\ ~ WorkerWakes /\ ~ WorkerTicks
      BY DEF dequeue, WorkerWaits, WorkerWakes, WorkerTicks
    <2>5. ~ Deliver
      BY DeliverIs
    <2>6. ~ CancelIteration /\ ~ Start /\ ~ Crash
      BY DEF CancelIteration, Start, launched, Crash
    <2> QED
      BY <2>2, <2>3, <2>4, <2>5, <2>6 DEF Next, WorkerStep, Deliver
  <1>2. ctx = "cancelled" /\ inflight = NoOp
    BY <1>1 DEF WorkerExits, WorkerAt, Inv, Control
  <1>3. \A e \in Enqueuers : io[e] = "none"
    BY <1>2 DEF Quiet
  <1>4. shutdownWrites = {persistedState}
    BY <1>3 DEF shutdownWrites
  <1> QED
    BY <1>1, <1>2, <1>4 DEF WorkerExits

LEMMA TrustStep ==
  ASSUME Background = {}, Inv, Quiet, Trust, [Next]_vars
  PROVE  Trust'
  <1> SUFFICES ASSUME diskTrusted', pc' = "off" PROVE file' = persistedState'
    BY DEF Trust
  <1>1. CASE pc = "off"
    <2>1. UNCHANGED <<ops, proxyMap, file, writeErrors, crashes>>
      BY <1>1, WhileOff
    <2> QED
      BY <1>1, <2>1 DEF Trust, diskTrusted, persistedState
  <1>2. CASE pc # "off"
    <2>1. /\ UNCHANGED <<ops, proxyMap>>
          /\ \/ file' = persistedState
             \/ writeErrors' = writeErrors + 1
      BY <1>2, SwitchOff
    <2>2. writeErrors' = 0 /\ writeErrors \in Nat
      BY DEF diskTrusted, Inv, TypeOK
    <2>3. file' = persistedState
      BY <2>1, <2>2
    <2> QED
      BY <2>1, <2>3 DEF persistedState
  <1> QED
    BY <1>1, <1>2

(* A Start that trusts the disk takes up the queue where it was left. *)
LEMMA StartKeeps ==
  ASSUME Inv, Trust, Start, diskTrusted
  PROVE  UNCHANGED <<ops, proxyMap, inflight, chat, dropped, enqueued>>
  <1>1. pc = "off"
    BY DEF Start
  <1>2. file = persistedState
    BY <1>1 DEF Trust
  <1>3. file.ops = ops /\ file.proxyMap = proxyMap
    BY <1>2 DEF persistedState
  <1> QED
    BY <1>3 DEF Start, queueVars, histVars

(* Sends leave the queue only for the chat or for the log. *)
LEMMA SendsAreKept ==
  ASSUME Inv, Queue, Trust, [Next]_vars, ~Crash, Start => diskTrusted, NEW s \in Sends, accounted(s)
  PROVE  accounted(s)'
  <1>0. s \in Ops /\ KindOf[s] = "send" /\ ops \in Seq(Ops)
    BY DEF Sends, Inv, TypeOK
  <1>1. accounted(s)' <=> s \in pending' \/ copies(s)' # {} \/ s \in dropped'
    BY DEF accounted, shown
  <1>2. accounted(s) <=> s \in pending \/ copies(s) # {} \/ s \in dropped
    BY DEF accounted, shown
  <1>3. CASE UNCHANGED <<ops, inflight, chat, dropped>>
    BY <1>1, <1>2, <1>3 DEF pending, copies
  <1>4. CASE \E e \in Enqueuers, op \in Ops : enqueue(e, op)
    <2>1. PICK e \in Enqueuers, op \in Ops : enqueue(e, op)
      BY <1>4
    <2>2. ops' = Append(ops, op) /\ UNCHANGED <<inflight, chat, dropped>>
      BY <2>1 DEF enqueue, workerVars
    <2>3. ToSet(ops') = ToSet(ops) \cup {op}
      BY <1>0, <2>2, ToSetAppend
    <2> QED
      BY <1>1, <1>2, <2>2, <2>3 DEF pending, copies
  <1>5. CASE dequeue
    <2>1. chat' = chat /\ dropped' = dropped /\ (s \in pending => s \in pending')
      BY <1>0, <1>5, DequeueIs
    <2> QED
      BY <1>1, <1>2, <2>1 DEF copies
  <1>6. CASE Deliver
    <2>1. /\ s \in pending => s \in pending' \/ (s = inflight /\ (s \in dropped' \/ DeliverySucceeds))
          /\ dropped \subseteq dropped'
      BY <1>0, <1>6, PendingDeliver
    <2>2. /\ copies(s) # {} => copies(s)' # {}
          /\ s = inflight /\ DeliverySucceeds => copies(s)' # {}
      BY <1>0, <1>6, CopiesGrow
    <2> QED
      BY <1>1, <1>2, <2>1, <2>2
  <1>7. CASE Start
    BY <1>3, <1>7, StartKeeps
  <1> QED
    BY <1>3, <1>4, <1>5, <1>6, <1>7, Kinds DEF queue

LEMMA FaultsGrow ==
  ASSUME Inv, [Next]_vars
  PROVE  /\ faults \in Nat /\ faults' \in Nat /\ faults <= faults'
         /\ writeErrors' \in {writeErrors, writeErrors + 1} /\ crashes' \in {crashes, crashes + 1}
         /\ errors' = errors + 1 => faults + 1 <= faults'
         /\ writeErrors' = writeErrors + 1 => faults + 1 <= faults'
         /\ crashes' = crashes + 1 => faults + 1 <= faults'
  <1> USE DEF queueVars, workerVars, ioVars, histVars, bounds
  <1>0. errors \in Nat /\ writeErrors \in Nat /\ crashes \in Nat
    BY DEF Inv, TypeOK
  <1>1. /\ errors' \in {errors, errors + 1}
        /\ writeErrors' \in {writeErrors, writeErrors + 1} /\ crashes' \in {crashes, crashes + 1}
    <3>1. CASE Deliver
      BY <3>1, DeliverIs
    <3>2. CASE UNCHANGED vars
      BY <3>2 DEF vars
    <3>3. CASE (\E e \in Enqueuers, op \in Ops : enqueue(e, op)) \/ (\E t \in Threads : Persist(t))
      BY <3>3 DEF enqueue, Persist, persistSnapshot, persistTruncate, persistWrite, persistFails
    <3>4. CASE WorkerExits \/ dequeue \/ WorkerWaits \/ WorkerWakes \/ WorkerTicks \/ CancelIteration \/ Start \/ Crash
      BY <3>4 DEF WorkerExits, dequeue, WorkerWaits, WorkerWakes, WorkerTicks, CancelIteration, Start, Crash
    <3> QED
      BY <3>1, <3>2, <3>3, <3>4 DEF Next, WorkerStep, Deliver
  <1>2. \E a, b, c \in {0, 1} : errors' = errors + a /\ writeErrors' = writeErrors + b /\ crashes' = crashes + c
    BY <1>0, <1>1
  <1>3. PICK a, b, c \in {0, 1} : errors' = errors + a /\ writeErrors' = writeErrors + b /\ crashes' = crashes + c
    BY <1>2
  <1>4. faults = errors + writeErrors + crashes /\ faults' = errors + a + writeErrors + b + crashes + c
    BY ONLY <1>0, <1>3 DEF faults
  <1>5. faults \in Nat /\ faults' \in Nat /\ faults' = faults + a + b + c
    BY ONLY <1>0, <1>4, a \in {0, 1}, b \in {0, 1}, c \in {0, 1}
  <1>6. /\ errors' = errors + 1 => a = 1
        /\ writeErrors' = writeErrors + 1 => b = 1
        /\ crashes' = crashes + 1 => c = 1
    BY ONLY <1>0, <1>3, a \in {0, 1}, b \in {0, 1}, c \in {0, 1}
  <1>7. faults <= faults' /\ (a = 1 \/ b = 1 \/ c = 1 => faults + 1 <= faults')
    BY ONLY <1>5, a \in {0, 1}, b \in {0, 1}, c \in {0, 1}
  <1> QED
    BY <1>1, <1>5, <1>6, <1>7

LEMMA NotLostStep ==
  ASSUME Background = {}, Inv, Queue, Trust, SendNotLost, [Next]_vars
  PROVE  SendNotLost'
  <1> SUFFICES ASSUME diskTrusted', NEW s \in Sends, s \in ToSet(enqueued') PROVE accounted(s)'
    BY DEF SendNotLost, accounted, shown
  <1>0. diskTrusted /\ ~Crash
    <2>1. writeErrors \in Nat /\ crashes \in Nat /\ writeErrors' = 0 /\ crashes' = 0
      BY DEF diskTrusted, Inv, TypeOK
    <2>2. writeErrors' \in {writeErrors, writeErrors + 1} /\ crashes' \in {crashes, crashes + 1}
      BY FaultsGrow
    <2>3. Crash => crashes' = crashes + 1
      BY DEF Crash
    <2> QED
      BY <2>1, <2>2, <2>3 DEF diskTrusted
  <1>1. CASE s \in ToSet(enqueued)
    <2>1. accounted(s)
      BY <1>0, <1>1 DEF SendNotLost, accounted, shown
    <2> QED
      BY <1>0, <2>1, SendsAreKept
  <1>2. CASE s \notin ToSet(enqueued)
    <2>1. enqueued' # enqueued
      BY <1>2
    <2>2. \E e \in Enqueuers, op \in Ops : enqueue(e, op)
      BY <1>0, <2>1, Kinds, DequeueIs, DeliverIs DEF queue, Start, histVars
    <2>3. PICK e \in Enqueuers, op \in Ops : enqueue(e, op)
      BY <2>2
    <2>4. ops \in Seq(Ops) /\ enqueued \in Seq(Ops) /\ ops' = Append(ops, op) /\ enqueued' = Append(enqueued, op)
      BY <2>3 DEF enqueue, Inv, TypeOK
    <2>5. ToSet(ops') = ToSet(ops) \cup {op} /\ ToSet(enqueued') = ToSet(enqueued) \cup {op}
      BY <2>4, ToSetAppend
    <2>6. s \in ToSet(ops')
      BY <1>2, <2>5
    <2> QED
      BY <2>6 DEF accounted, pending
  <1> QED
    BY <1>1, <1>2

(* No step but a Start or a crash that reads an old record could bring     *)
(* back a lost Send, and no record holds one. *)
LEMMA RecordedStep ==
  ASSUME Background = {}, Inv, Queue, Quiet, Trust, Recorded, [Next]_vars
  PROVE  Recorded'
  <1> SUFFICES ASSUME NEW r \in records', NEW s \in Sends, s \in ToSet(r.ops) PROVE accounted(s)'
    BY DEF Recorded
  <1>0. NoState.ops = <<>> /\ persistedState.ops = ops
    BY DEF NoState, persistedState
  <1>1. r # NoState
    BY <1>0, ToSetEmpty
  <1>2. accounted(s)
    <2>1. r \in records \/ r = persistedState
      BY <1>1, RecordsMove
    <2>2. CASE r \in records
      BY <2>2 DEF Recorded
    <2>3. CASE r = persistedState
      BY <1>0, <2>3 DEF accounted, pending
    <2> QED
      BY <2>1, <2>2, <2>3
  <1>3. CASE ~Crash /\ (Start => diskTrusted)
    BY <1>2, <1>3, SendsAreKept
  <1>4. records' = {file'} \cup {snap'[t].state : t \in Threads}
    BY DEF records, Threads
  <1>5. CASE Crash
    <2>1. \A t \in Threads : snap'[t].state = NoState
      BY <1>5, ConstantStates DEF Crash, Inv
    <2>2. r = file'
      BY <1>1, <1>4, <2>1
    <2>3. s \in ToSet(ops')
      BY <1>5, <2>2 DEF Crash
    <2> QED
      BY <2>3 DEF accounted, pending
  <1>6. CASE Start
    <2>1. /\ snap' = snap /\ file' = file /\ UNCHANGED <<inflight, chat, dropped>>
          /\ ctx = "cancelled" /\ pc = "off"
      BY <1>6 DEF Start, ioVars, histVars
    <2>2. \A t \in Threads : snap[t].state = NoState
      BY <2>1 DEF Inv, Control, Quiet, Threads
    <2>3. r = file
      BY <1>1, <1>4, <2>1, <2>2
    <2>4. restored(file)
      BY <2>3, ToSetEmpty DEF restored
    <2>5. s \in ToSet(ops')
      BY <1>6, <2>3, <2>4 DEF Start
    <2> QED
      BY <2>5 DEF accounted, pending
  <1> QED
    BY <1>3, <1>5, <1>6

(* A Send that is lost stays lost. *)
LEMMA LostForGood ==
  ASSUME Inv, Queue, Recorded, [Next]_vars, NEW s \in Sends, s \in ToSet(enqueued), ~accounted(s)
  PROVE  s \notin pending' /\ copies(s)' = {}
  <1>0. s \in Ops /\ s # NoOp /\ s \notin ToSet(ops) /\ s # inflight /\ copies(s) = {}
    BY DEF Sends, accounted, pending, shown
  <1>1. CASE UNCHANGED queue
    BY <1>0, <1>1 DEF queue, pending, copies
  <1>2. CASE \E e \in Enqueuers, op \in Ops : enqueue(e, op)
    <2>1. PICK e \in Enqueuers, op \in Ops : enqueue(e, op)
      BY <1>2
    <2>2. /\ op # s /\ ops \in Seq(Ops) /\ ops' = Append(ops, op) /\ inflight' = inflight /\ chat' = chat
      BY <2>1 DEF enqueue, workerVars, Inv, TypeOK
    <2>3. ToSet(ops') = ToSet(ops) \cup {op}
      BY <2>2, ToSetAppend
    <2> QED
      BY <1>0, <2>2, <2>3 DEF pending, copies
  <1>3. CASE dequeue
    <2>1. chat' = chat /\ (s \in pending' => s \in pending)
      BY <1>0, <1>3, DequeueIs
    <2> QED
      BY <1>0, <2>1 DEF pending, copies
  <1>4. CASE Deliver
    <2>1. s \in pending' => s \in pending
      BY <1>0, <1>4, PendingDeliver
    <2>2. copies(s)' = copies(s)
      BY <1>0, <1>4, CopiesGrow
    <2> QED
      BY <1>0, <2>1, <2>2 DEF pending
  <1>5. CASE Start \/ Crash
    <2>1. chat' = chat /\ inflight' = NoOp
      BY <1>5 DEF Start, Crash, Inv, Control
    <2>2. s \notin ToSet(file.ops)
      BY DEF Recorded, records
    <2>3. ops' \in {ops, file.ops, <<>>}
      BY <1>5 DEF Start, Crash, NoState, queueVars
    <2>4. s \notin ToSet(ops')
      BY <1>0, <2>2, <2>3, ToSetEmpty
    <2> QED
      BY <1>0, <2>1, <2>4 DEF pending, copies
  <1> QED
    BY <1>1, <1>2, <1>3, <1>4, <1>5, Kinds

LEMMA DroppedGrows ==
  ASSUME Inv, Queue, [Next]_vars
  PROVE  dropped \subseteq dropped'
  <1>1. CASE \E e \in Enqueuers, op \in Ops : enqueue(e, op)
    BY <1>1 DEF enqueue
  <1>2. CASE Start \/ Crash
    BY <1>2 DEF Start, Crash, histVars
  <1> QED
    BY <1>1, <1>2, Kinds, DequeueIs, PendingDeliver DEF queue

LEMMA ChatOrderStep ==
  ASSUME Inv, Queue, Recorded, ChatOrder, [Next]_vars
  PROVE  ChatOrder'
  <1> SUFFICES ASSUME NEW s \in Sends, NEW t \in Sends, copies(t)' # {}, follows(enqueued', s, t),
                      s \notin dropped'
               PROVE  \/ \E i \in copies(s)' : \A j \in copies(t)' : i < j
                      \/ copies(s)' = {} /\ s \notin pending'
    BY DEF ChatOrder, shown
  <1>0. /\ s \notin dropped /\ s \in Ops /\ t \in Ops /\ enqueued \in Seq(Ops)
        /\ \A i, j \in DOMAIN enqueued : enqueued[i] = enqueued[j] => i = j
    BY DroppedGrows DEF Sends, Inv, TypeOK, Queue
  <1>1. ASSUME copies(t) # {}, follows(enqueued, s, t), copies(s) \subseteq copies(s)',
               \A j \in copies(t)' : j \in copies(t) \/ \A i \in copies(s) : i < j
        PROVE  \/ \E i \in copies(s)' : \A j \in copies(t)' : i < j
               \/ copies(s)' = {} /\ s \notin pending'
    <2>1. CASE \E i \in copies(s) : \A j \in copies(t) : i < j
      BY <1>1, <2>1
    <2>2. CASE copies(s) = {} /\ s \notin pending
      <3>1. ~accounted(s) /\ s \in ToSet(enqueued)
        BY <1>0, <1>1, <2>2, FollowsStrict DEF accounted, shown
      <3> QED
        BY <3>1, LostForGood
    <2> QED
      BY <1>0, <1>1, <2>1, <2>2 DEF ChatOrder, shown
  <1>2. CASE UNCHANGED <<chat, enqueued>>
    BY <1>1, <1>2 DEF copies
  <1>3. CASE \E e \in Enqueuers, op \in Ops : enqueue(e, op)
    <2>1. PICK e \in Enqueuers, op \in Ops : enqueue(e, op)
      BY <1>3
    <2>2. op \notin ToSet(enqueued) /\ enqueued' = Append(enqueued, op) /\ chat' = chat
      BY <2>1 DEF enqueue
    <2>3. copies(t)' = copies(t) /\ copies(s)' = copies(s)
      BY <2>2 DEF copies
    <2>4. t \in ToSet(enqueued)
      BY <2>3 DEF Queue
    <2>5. follows(enqueued, s, t)
      BY <1>0, <2>2, <2>4, FollowsBefore
    <2> QED
      BY <1>1, <2>3, <2>5
  <1>4. CASE Deliver
    <2>1. enqueued' = enqueued /\ chat \in Seq([msg : Sends, text : Ops])
      BY <1>4, DeliverIs DEF Inv, TypeOK
    <2>2. s # t
      BY <1>0, <2>1, FollowsStrict
    <2>3. /\ copies(s) \subseteq copies(s)'
          /\ copies(t)' = copies(t) \/ (t = inflight /\ copies(t)' = copies(t) \cup {Len(chat) + 1})
      BY <1>4, CopiesGrow
    <2>4. \A i \in copies(s) : i < Len(chat) + 1
      BY <2>1 DEF copies
    <2>5. CASE copies(t) # {}
      BY <1>1, <2>1, <2>3, <2>4, <2>5
    <2>6. CASE copies(t) = {}
      <3>1. t = inflight /\ copies(t)' = {Len(chat) + 1}
        BY <2>3, <2>6
      <3>2. CASE copies(s) # {}
        BY <2>3, <2>4, <3>1, <3>2
      <3>3. CASE copies(s) = {}
        <4>1. s \notin ToSet(ops)
          <5>1. ASSUME s \in ToSet(ops) PROVE FALSE
            <6>1. follows(enqueued, t, s)
              BY <1>0, <3>1, <5>1 DEF Queue
            <6> QED
              BY <1>0, <2>1, <6>1, FollowsStrict
          <5> QED
            BY <5>1
        <4>2. ~accounted(s) /\ s \in ToSet(enqueued)
          BY <1>0, <2>1, <2>2, <3>1, <3>3, <4>1, FollowsStrict DEF accounted, shown, pending
        <4> QED
          BY <4>2, LostForGood
      <3> QED
        BY <3>2, <3>3
    <2> QED
      BY <2>5, <2>6
  <1>5. CASE Start \/ Crash \/ dequeue
    BY <1>2, <1>5, DequeueIs DEF Start, Crash, histVars
  <1> QED
    BY <1>2, <1>3, <1>4, <1>5, Kinds DEF queue

LEMMA CopiesFinite ==
  ASSUME Inv, NEW s
  PROVE  /\ IsFiniteSet(copies(s)) /\ Cardinality(copies(s)) \in Nat
         /\ Len(chat) + 1 \notin copies(s)
         /\ Cardinality(copies(s) \cup {Len(chat) + 1}) = Cardinality(copies(s)) + 1
  <1>1. Len(chat) \in Nat /\ DOMAIN chat = 1 .. Len(chat)
    BY DEF Inv, TypeOK
  <1>2. copies(s) \subseteq 1 .. Len(chat) /\ Len(chat) + 1 \notin copies(s)
    BY <1>1 DEF copies
  <1>3. IsFiniteSet(1 .. Len(chat))
    BY <1>1, FS_Interval
  <1>4. IsFiniteSet(copies(s))
    BY <1>2, <1>3, FS_Subset
  <1> QED
    BY <1>2, <1>4, FS_CardinalityType, FS_AddElement

(* The operation in flight is not in the queue as well. *)
LEMMA InflightOnce ==
  ASSUME Inv, Queue, inflight # NoOp
  PROVE  inflight \notin ToSet(ops)
  <1>1. ASSUME inflight \in ToSet(ops) PROVE FALSE
    <2>1. follows(enqueued, inflight, inflight)
      BY <1>1 DEF Queue
    <2>2. /\ enqueued \in Seq(Ops)
          /\ \A i, j \in DOMAIN enqueued : enqueued[i] = enqueued[j] => i = j
      BY DEF Inv, TypeOK, Queue
    <2> QED
      BY <2>1, <2>2, FollowsStrict
  <1> QED
    BY <1>1

(* The bookkeeping of copies, for numbers. *)
LEMMA OneIs ==
  ASSUME NEW x, NEW S
  PROVE  one(x, S) \in {0, 1} /\ (one(x, S) = 1 <=> x \in S)
  BY DEF one

LEMMA PaidSum ==
  ASSUME NEW c \in Nat, NEW d, NEW p \in {0, 1}, NEW q \in {0, 1}, NEW f \in Nat, NEW g \in Nat,
         f <= g, c + p <= 1 + f,
         \/ d = 0
         \/ d = c /\ (q = 1 => p = 1 \/ f + 1 <= g)
         \/ d = c + 1 /\ p = 1 /\ (q = 0 \/ f + 1 <= g)
  PROVE  d + q <= 1 + g
  OBVIOUS

LEMMA PaidPending ==
  ASSUME Inv, Queue, Paid, [Next]_vars, NEW s \in Sends
  PROVE  Cardinality(copies(s)') + one(s, pending') <= 1 + faults'
  <1>0. /\ s \in Ops /\ s # NoOp /\ Cardinality(copies(s)) \in Nat
        /\ Cardinality(copies(s)) + one(s, pending) <= 1 + faults
        /\ one(s, pending) \in {0, 1} /\ one(s, pending') \in {0, 1}
        /\ faults \in Nat /\ faults' \in Nat /\ faults <= faults'
    BY OneIs, CopiesFinite, FaultsGrow DEF Sends, Paid
  <1> DEFINE c == Cardinality(copies(s))
             d == Cardinality(copies(s)')
             p == one(s, pending)
             q == one(s, pending')
  <1> HIDE DEF c, d, p, q
  <1>n. /\ c \in Nat /\ p \in {0, 1} /\ q \in {0, 1} /\ faults \in Nat /\ faults' \in Nat
        /\ faults <= faults' /\ c + p <= 1 + faults
    BY <1>0 DEF c, p, q
  <1> SUFFICES d + q <= 1 + faults'
    BY DEF d, q
  <1>1. ASSUME copies(s)' = copies(s), s \in pending' => s \in pending
        PROVE  d + q <= 1 + faults'
    <2>1. d = c
      BY <1>1 DEF c, d
    <2>2. q = 1 => p = 1
      BY <1>1, OneIs DEF p, q
    <2> QED
      BY <1>n, <2>1, <2>2, PaidSum
  <1>2. CASE UNCHANGED queue
    BY <1>1, <1>2 DEF queue, copies, pending
  <1>3. CASE \E e \in Enqueuers, op \in Ops : enqueue(e, op)
    <2>1. PICK e \in Enqueuers, op \in Ops : enqueue(e, op)
      BY <1>3
    <2>2. /\ op \notin ToSet(enqueued) /\ ops \in Seq(Ops) /\ ops' = Append(ops, op)
          /\ inflight' = inflight /\ chat' = chat
      BY <2>1 DEF enqueue, workerVars, Inv, TypeOK
    <2>3. ToSet(ops') = ToSet(ops) \cup {op} /\ copies(s)' = copies(s)
      BY <2>2, ToSetAppend DEF copies
    <2>4. CASE s # op
      BY <1>1, <2>2, <2>3, <2>4 DEF pending
    <2>5. CASE s = op
      <3>1. copies(s)' = {}
        BY <2>2, <2>3, <2>5 DEF Queue
      <3>2. d = 0
        BY <3>1, FS_EmptySet DEF d
      <3> QED
        BY <1>n, <3>2, PaidSum
    <2> QED
      BY <2>4, <2>5
  <1>4. CASE dequeue
    <2>1. chat' = chat /\ (s \in pending' => s \in pending)
      BY <1>0, <1>4, DequeueIs
    <2> QED
      BY <1>1, <2>1 DEF copies
  <1>5. CASE Deliver
    <2>1. s \in pending' => s \in pending
      BY <1>0, <1>5, PendingDeliver
    <2>2. \/ copies(s)' = copies(s)
          \/ /\ s = inflight /\ copies(s)' = copies(s) \cup {Len(chat) + 1}
             /\ DeliverySucceeds \/ errors' = errors + 1
      BY <1>5, CopiesGrow
    <2>3. CASE /\ s = inflight /\ copies(s)' = copies(s) \cup {Len(chat) + 1}
               /\ DeliverySucceeds \/ errors' = errors + 1
      <3>1. d = c + 1
        BY <2>3, CopiesFinite DEF c, d
      <3>2. p = 1
        BY <2>3, OneIs DEF p, pending
      <3>3. CASE errors' = errors + 1
        <4>1. faults + 1 <= faults'
          BY <3>3, FaultsGrow
        <4> QED
          BY <1>n, <3>1, <3>2, <4>1, PaidSum
      <3>4. CASE DeliverySucceeds
        <4>1. s \notin pending'
          BY <1>0, <1>5, <2>3, <3>4, PendingDeliver, InflightOnce
        <4>2. q = 0
          BY <1>n, <4>1, OneIs DEF q
        <4> QED
          BY <1>n, <3>1, <3>2, <4>2, PaidSum
      <3> QED
        BY <2>3, <3>3, <3>4
    <2> QED
      BY <1>1, <2>1, <2>2, <2>3
  <1>6. CASE Start
    <2>1. chat' = chat /\ inflight' = inflight /\ pc = "off" /\ (ops' = ops \/ ops' = file.ops)
      BY <1>6 DEF Start, queueVars
    <2>2. copies(s)' = copies(s)
      BY <2>1 DEF copies
    <2>3. CASE ops' = ops
      BY <1>1, <2>1, <2>2, <2>3 DEF pending
    <2>4. CASE ops' = file.ops
      <3>1. Cardinality(copies(s)) + one(s, ToSet(file.ops)) <= 1 + faults
        BY <2>1 DEF Paid
      <3>2. inflight' = NoOp
        BY <2>1 DEF Inv, Control
      <3>3. s \in pending' <=> s \in ToSet(file.ops)
        BY <1>0, <2>4, <3>2 DEF pending
      <3>4. one(s, ToSet(file.ops)) = q
        BY <3>3 DEF one, q
      <3>5. c + q <= 1 + faults /\ d = c
        BY <2>2, <3>1, <3>4 DEF c, d
      <3> QED
        BY <1>n, <3>5, PaidSum
    <2> QED
      BY <2>1, <2>3, <2>4
  <1>7. CASE Crash
    <2>1. chat' = chat /\ crashes' = crashes + 1
      BY <1>7 DEF Crash
    <2>2. d = c
      BY <2>1 DEF c, d, copies
    <2>3. faults + 1 <= faults'
      BY <2>1, FaultsGrow
    <2> QED
      BY <1>n, <2>2, <2>3, PaidSum
  <1> QED
    BY <1>2, <1>3, <1>4, <1>5, <1>6, <1>7, Kinds

LEMMA PaidStep ==
  ASSUME Background = {}, Inv, Queue, Quiet, Paid, [Next]_vars
  PROVE  Paid'
  <1>1. ASSUME NEW s \in Sends, pc' = "off"
        PROVE  Cardinality(copies(s)') + one(s, ToSet(file'.ops)) <= 1 + faults'
    <2> DEFINE c == Cardinality(copies(s))
               d == Cardinality(copies(s)')
               p == one(s, pending)
               f == one(s, ToSet(file'.ops))
    <2>0. /\ c \in Nat /\ p \in {0, 1} /\ f \in {0, 1} /\ faults \in Nat /\ faults' \in Nat
          /\ faults <= faults' /\ c + p <= 1 + faults
      BY OneIs, CopiesFinite, FaultsGrow DEF Paid
    <2>1. d = c
      <3>1. chat' = chat
        BY <1>1, WhileOff, SwitchOff
      <3> QED
        BY <3>1 DEF copies
    <2>2. CASE pc = "off"
      <3>1. UNCHANGED <<file, errors, writeErrors, crashes>>
        BY <1>1, <2>2, WhileOff
      <3>2. faults' = faults /\ c + f <= 1 + faults
        BY <2>2, <3>1 DEF faults, Paid
      <3> HIDE DEF c, d, p, f
      <3> QED
        BY <2>1, <3>2 DEF d, f
    <2>3. CASE pc # "off"
      <3>1. \/ file' = persistedState
            \/ writeErrors' = writeErrors + 1
        BY <1>1, <2>3, SwitchOff
      <3>2. CASE file' = persistedState
        <4>1. s \in ToSet(file'.ops) => s \in pending
          BY <3>2 DEF persistedState, pending
        <4>2. f = 1 => p = 1
          BY <4>1, OneIs
        <4> HIDE DEF c, d, p, f
        <4>3. d + f <= 1 + faults'
          BY <2>0, <2>1, <4>2, PaidSum
        <4> QED
          BY <4>3 DEF d, f
      <3>3. CASE writeErrors' = writeErrors + 1
        <4>1. faults + 1 <= faults'
          BY <3>3, FaultsGrow
        <4> HIDE DEF c, d, p, f
        <4>2. d + f <= 1 + faults'
          BY <2>0, <2>1, <4>1, PaidSum
        <4> QED
          BY <4>2 DEF d, f
      <3> QED
        BY <3>1, <3>2, <3>3
    <2> QED
      BY <2>2, <2>3
  <1>2. \A s \in Sends : Cardinality(copies(s)') + one(s, pending') <= 1 + faults'
    BY PaidPending
  <1> QED
    BY <1>1, <1>2 DEF Paid, one

(* No message of the chat changes place, so proxy ids stay valid. *)
LEMMA ResolvedStep ==
  ASSUME Inv, Queue, Resolved, [Next]_vars
  PROVE  Resolved'
  <1>0. /\ \A r \in records : r.proxyMap \in [Sends -> 0 .. Len(chat)] /\ resolvedIn(r.proxyMap, chat)
        /\ proxyMap \in [Sends -> 0 .. Len(chat)] /\ resolvedIn(proxyMap, chat)
        /\ Unresolved \in [Sends -> 0 .. Len(chat)] /\ resolvedIn(Unresolved, chat)
        /\ persistedState.proxyMap = proxyMap /\ NoState.proxyMap = Unresolved
        /\ chat \in Seq([msg : Sends, text : Ops]) /\ Len(chat) \in Nat
    <2>1. \A r \in records : r \in persistedType
      BY DEF records, Inv, TypeOK, Threads
    <2>2. \A r \in records : r.proxyMap \in [Sends -> 0 .. Len(chat)]
      BY <2>1 DEF persistedType
    <2>3. Unresolved \in [Sends -> 0 .. Len(chat)]
      BY ConstantStates DEF Inv
    <2>4. resolvedIn(Unresolved, chat)
      BY DEF resolvedIn, Unresolved
    <2>5. persistedState.proxyMap = proxyMap /\ NoState.proxyMap = Unresolved
      BY DEF persistedState, NoState
    <2> QED
      BY <2>2, <2>3, <2>4, <2>5 DEF Resolved, Inv, TypeOK
  <1>1. \A r \in records' : r.proxyMap \in [Sends -> 0 .. Len(chat)] /\ resolvedIn(r.proxyMap, chat)
    BY <1>0, RecordsMove
  <1> SUFFICES resolvedIn(proxyMap', chat') /\ \A r \in records' : resolvedIn(r.proxyMap, chat')
    BY DEF Resolved
  <1>2. CASE UNCHANGED <<chat, proxyMap>>
    BY <1>0, <1>1, <1>2
  <1>3. CASE Deliver
    <2>1. ASSUME NEW m \in [Sends -> 0 .. Len(chat)], resolvedIn(m, chat)
          PROVE  resolvedIn(m, chat')
      <3>1. \A i \in DOMAIN chat : chat'[i].msg = chat[i].msg
        BY <1>3, CopiesGrow
      <3>2. \A s \in Sends : m[s] # 0 => m[s] \in DOMAIN chat
        BY <1>0
      <3> QED
        BY <2>1, <3>1, <3>2 DEF resolvedIn
    <2>2. resolvedIn(proxyMap', chat')
      <3>1. resolvedIn(proxyMap, chat')
        BY <1>0, <2>1
      <3>2. CASE proxyMap' = proxyMap
        BY <3>1, <3>2
      <3>3. CASE /\ DeliverySucceeds /\ KindOf[inflight] = "send"
                 /\ proxyMap' = [proxyMap EXCEPT ![inflight] = Len(chat) + 1]
        <4>1. chat'[Len(chat) + 1].msg = inflight
          BY <1>3, <3>3, CopiesGrow
        <4> QED
          BY <1>0, <3>1, <3>3, <4>1 DEF resolvedIn
      <3> QED
        BY <1>3, <3>2, <3>3, DeliverIs
    <2> QED
      BY <1>1, <2>1, <2>2
  <1>4. CASE Start \/ Crash
    <2>1. chat' = chat /\ proxyMap' \in {proxyMap, file'.proxyMap, Unresolved}
      BY <1>4 DEF Start, Crash, queueVars, ioVars
    <2>2. resolvedIn(file'.proxyMap, chat)
      BY <1>1 DEF records
    <2> QED
      BY <1>0, <1>1, <2>1, <2>2
  <1>5. CASE \E e \in Enqueuers, op \in Ops : enqueue(e, op)
    BY <1>2, <1>5 DEF enqueue
  <1> QED
    BY <1>2, <1>3, <1>4, <1>5, Kinds, DequeueIs DEF queue

LEMMA LastEditStep ==
  ASSUME Inv, Queue, EditsFollow, Trust, Resolved, LastEdit, [Next]_vars
  PROVE  LastEdit'
  <1> DEFINE settled(e, s) ==
               /\ \A o \in pending : o # NoOp => o # s /\ ~editOf(o, s)
               /\ proxyMap[s] # 0 => chat[proxyMap[s]].text = e
             settledNow(e, s) ==
               /\ \A o \in pending' : o # NoOp => o # s /\ ~editOf(o, s)
               /\ proxyMap'[s] # 0 => chat'[proxyMap'[s]].text = e
             isLastNow(e, s) ==
               /\ e \in ToSet(enqueued') /\ editOf(e, s)
               /\ \A o \in ToSet(enqueued') : editOf(o, s) => ~follows(enqueued', e, o)
  <1> SUFFICES ASSUME diskTrusted', NEW s \in Sends, NEW e \in Ops, isLastNow(e, s)
               PROVE  e \in pending' \/ e \in dropped' \/ settledNow(e, s)
    BY DEF LastEdit, isLast, editOf
  <1>0. diskTrusted /\ ~Crash
    <2>1. writeErrors \in Nat /\ crashes \in Nat /\ writeErrors' = 0 /\ crashes' = 0
      BY DEF diskTrusted, Inv, TypeOK
    <2>2. writeErrors' \in {writeErrors, writeErrors + 1} /\ crashes' \in {crashes, crashes + 1}
      BY FaultsGrow
    <2>3. Crash => crashes' = crashes + 1
      BY DEF Crash
    <2> QED
      BY <2>1, <2>2, <2>3 DEF diskTrusted
  <1>1. /\ s \in Ops /\ KindOf[s] = "send" /\ e # NoOp /\ s # NoOp /\ KindOf[e] = "edit" /\ TargetOf[e] = s
        /\ enqueued \in Seq(Ops) /\ ops \in Seq(Ops)
        /\ \A i, j \in DOMAIN enqueued : enqueued[i] = enqueued[j] => i = j
    BY DEF Sends, editOf, Inv, TypeOK, Queue
  <1>2. isLast(e, s) => e \in pending \/ e \in dropped \/ settled(e, s)
    BY <1>0 DEF LastEdit
  <1> HIDE DEF settled, settledNow
  <1>3. CASE UNCHANGED queue
    <2>1. isLast(e, s)
      BY <1>3 DEF isLast, queue
    <2>2. pending' = pending /\ (settled(e, s) => settledNow(e, s)) /\ dropped' = dropped
      BY <1>3 DEF settled, settledNow, queue, pending
    <2> QED
      BY <1>2, <2>1, <2>2
  <1>4. CASE \E t \in Enqueuers, op \in Ops : enqueue(t, op)
    <2>1. PICK t \in Enqueuers, op \in Ops : enqueue(t, op)
      BY <1>4
    <2>2. /\ op \notin ToSet(enqueued) /\ ops' = Append(ops, op) /\ enqueued' = Append(enqueued, op)
          /\ UNCHANGED <<inflight, proxyMap, chat, dropped>>
      BY <2>1 DEF enqueue, workerVars
    <2>3. ToSet(ops') = ToSet(ops) \cup {op} /\ ToSet(enqueued') = ToSet(enqueued) \cup {op}
      BY <1>1, <2>2, ToSetAppend
    <2>4. pending' = pending \cup {op}
      BY <2>2, <2>3 DEF pending
    <2>5. CASE e = op
      BY <2>4, <2>5
    <2>6. CASE e # op
      <3>1. e \in ToSet(enqueued)
        BY <2>3, <2>6
      <3>2. \A o \in ToSet(enqueued) : editOf(o, s) => ~follows(enqueued, e, o)
        BY <1>1, <2>2, <2>3, FollowsGrows
      <3>3. isLast(e, s)
        BY <3>1, <3>2 DEF isLast
      <3>4. s \in ToSet(enqueued)
        <4>1. follows(enqueued, s, e)
          BY <1>1, <3>1 DEF EditsFollow
        <4> QED
          BY <1>1, <4>1, FollowsStrict
      <3>5. op # s /\ ~editOf(op, s)
        BY <1>1, <2>2, <2>3, <3>1, <3>4, FollowsNew
      <3>6. settled(e, s) => settledNow(e, s)
        BY <2>2, <2>4, <3>5 DEF settled, settledNow
      <3> QED
        BY <1>2, <2>2, <2>4, <3>3, <3>6
    <2> QED
      BY <2>5, <2>6
  <1>5. CASE enqueued' = enqueued
    <2>0. isLast(e, s)
      BY <1>5 DEF isLast
    <2>1. s \in ToSet(enqueued) /\ follows(enqueued, s, e) /\ ~follows(enqueued, e, s)
      BY <1>1, <2>0, FollowsStrict DEF EditsFollow, isLast
    <2>2. CASE dequeue
      <3>1. /\ UNCHANGED <<proxyMap, chat, dropped>>
            /\ \A o \in Ops : o \in pending' => o \in pending
            /\ e \in pending /\ e \notin pending' =>
                  \E p \in ToSet(ops) : KindOf[p] = "edit" /\ TargetOf[p] = TargetOf[e]
                                        /\ follows(enqueued, e, p)
        BY <2>2, DequeueIs
      <3>2. ToSet(ops) \subseteq ToSet(enqueued)
        BY DEF Queue, orderly
      <3>3. e \in pending => e \in pending'
        BY <1>1, <2>0, <3>1, <3>2 DEF isLast, editOf
      <3>4. pending' \subseteq Ops \cup {NoOp}
        BY <2>2, DequeueIs DEF pending, ToSet
      <3>5. settled(e, s) => settledNow(e, s)
        BY <3>1, <3>4 DEF settled, settledNow
      <3> QED
        BY <1>2, <2>0, <3>1, <3>3, <3>5
    <2>3. CASE Deliver
      <3>0. /\ inflight \in Ops /\ \A o \in Ops : o \in pending' => o \in pending
            /\ e \in pending /\ e \notin pending' => e = inflight /\ (e \in dropped' \/ DeliverySucceeds)
            /\ dropped \subseteq dropped'
            /\ DeliverySucceeds => pending' = ToSet(ops) \cup {NoOp} /\ ops' = ops /\ inflight' = NoOp
            /\ proxyMap \in [Sends -> 0 .. Len(chat)] /\ Len(chat) \in Nat
            /\ chat \in Seq([msg : Sends, text : Ops])
        BY <2>3, DeliverIs, PendingDeliver DEF Inv, TypeOK
      <3>1. CASE e = inflight /\ DeliverySucceeds
        <4>1. callable(inflight) /\ chat' = applied(inflight, chat, proxyMap) /\ proxyMap' = proxyMap
          BY <1>1, <3>1 DEF DeliverySucceeds
        <4>2. chat'[proxyMap[s]].text = e
          BY <1>1, <3>0, <3>1, <4>1, AppliedTo
        <4>3. \A o \in ToSet(ops) : follows(enqueued, e, o) /\ o \in ToSet(enqueued)
          BY <1>1, <3>1 DEF Queue, orderly
        <4>4. \A o \in ToSet(ops) : o # s /\ ~editOf(o, s)
          BY <2>0, <2>1, <4>3 DEF isLast
        <4> QED
          BY <3>0, <3>1, <4>1, <4>2, <4>4 DEF settledNow
      <3>2. CASE settled(e, s)
        <4>1. inflight # s /\ ~editOf(inflight, s)
          BY <1>1, <3>0, <3>2 DEF settled, pending
        <4>2. proxyMap'[s] = proxyMap[s]
          <5>1. CASE proxyMap' = proxyMap
            BY <5>1
          <5>2. CASE proxyMap' = [proxyMap EXCEPT ![inflight] = Len(chat) + 1]
            BY <3>0, <4>1, <5>2
          <5> QED
            BY <2>3, <5>1, <5>2, DeliverIs
        <4>3. ASSUME proxyMap[s] # 0 PROVE chat'[proxyMap[s]] = chat[proxyMap[s]]
          <5> DEFINE k == proxyMap[s]
          <5>1. k \in 1 .. Len(chat) /\ chat[k].msg = s
            BY <3>0, <4>3 DEF Resolved, resolvedIn
          <5>2. CASE chat' = chat
            BY <5>2
          <5>3. CASE callable(inflight) /\ chat' = applied(inflight, chat, proxyMap)
            <6>1. CASE KindOf[inflight] = "send"
              <7>1. chat' = Append(chat, [msg |-> inflight, text |-> inflight])
                BY <3>0, <5>3, <6>1, AppliedTo
              <7> HIDE DEF k
              <7>2. chat'[k] = chat[k]
                BY <3>0, <5>1, <7>1
              <7> QED
                BY <7>2 DEF k
            <6>2. CASE KindOf[inflight] = "edit"
              <7> DEFINE m == proxyMap[TargetOf[inflight]]
              <7>1. TargetOf[inflight] # s /\ TargetOf[inflight] \in Sends
                BY <3>0, <4>1, <6>2 DEF editOf
              <7>2. /\ m \in 1 .. Len(chat)
                    /\ \A i \in 1 .. Len(chat) \ {m} : chat'[i] = chat[i]
                BY <3>0, <5>3, <6>2, AppliedTo
              <7>3. m # 0
                BY <3>0, <7>2
              <7>4. chat[m].msg = TargetOf[inflight]
                BY <7>1, <7>3 DEF Resolved, resolvedIn
              <7>5. m # k
                BY <5>1, <7>1, <7>4
              <7> QED
                BY <5>1, <7>2, <7>5
            <6>3. CASE KindOf[inflight] = "done"
              BY <3>0, <5>3, <6>3, AppliedTo
            <6> QED
              BY <3>0, <6>1, <6>2, <6>3
          <5> QED
            BY <2>3, <5>2, <5>3, DeliverIs
        <4>4. pending' \subseteq Ops \cup {NoOp}
          <5>1. Inv'
            BY TypedStep
          <5>2. ops' \in Seq(Ops) /\ inflight' \in Ops \cup {NoOp}
            BY <5>1 DEF Inv, TypeOK
          <5> QED
            BY <5>2 DEF pending, ToSet
        <4> QED
          BY <3>0, <3>2, <4>2, <4>3, <4>4 DEF settled, settledNow
      <3> QED
        BY <1>2, <2>0, <3>0, <3>1, <3>2
    <2>4. CASE Start
      <3>1. UNCHANGED <<ops, proxyMap, inflight, chat, dropped, enqueued>>
        BY <1>0, <2>4, StartKeeps
      <3> QED
        BY <1>3, <3>1 DEF queue
    <2> QED
      BY <1>0, <1>3, <1>4, <2>2, <2>3, <2>4, Kinds
  <1>6. CASE dequeue \/ Deliver \/ Start
    BY <1>5, <1>6, DequeueIs, DeliverIs DEF Start, histVars
  <1> QED
    BY <1>0, <1>3, <1>4, <1>6, Kinds

OutboxInv ==
    /\ Inv /\ Queue /\ EditsFollow /\ Quiet /\ Trust /\ SendNotLost /\ Recorded
    /\ ChatOrder /\ Paid /\ Resolved /\ LastEdit

LEMMA OutboxInit == Init => OutboxInv
  <1> SUFFICES ASSUME Init PROVE OutboxInv
    OBVIOUS
  <1>0. Inv
    BY TypedInit
  <1>1. /\ ops = <<>> /\ enqueued = <<>> /\ chat = <<>> /\ file = NoState /\ inflight = NoOp
        /\ acked = {} /\ dropped = {} /\ pc = "top" /\ ctx = "live" /\ proxyMap = Unresolved
        /\ errors = 0 /\ writeErrors = 0 /\ crashes = 0
    BY DEF Init
  <1>2. NoState.ops = <<>> /\ NoState.proxyMap = Unresolved /\ NoSnap.state = NoState
    BY DEF NoState, NoSnap
  <1>3. \A r \in records : r = NoState
    BY <1>1, <1>2 DEF Init, records
  <1>4. ToSet(ops) = {} /\ ToSet(enqueued) = {} /\ \A r \in records : ToSet(r.ops) = {}
    BY <1>1, <1>2, <1>3, ToSetEmpty
  <1>5. \A s : copies(s) = {}
    BY <1>1 DEF copies
  <1>6. orderly(enqueued, ops) /\ \A r \in records : orderly(enqueued, r.ops)
    BY <1>1, <1>2, <1>3, OrderlyEmpty
  <1>7. Queue
    <2>1. \A i, j \in DOMAIN enqueued : enqueued[i] = enqueued[j] => i = j
      BY <1>1
    <2> QED
      BY <1>1, <1>5, <1>6, <2>1 DEF Queue
  <1>8. EditsFollow
    <2>1. \A e \in Enqueuers : io[e] = "none"
      BY DEF Init, Threads
    <2> QED
      BY <1>1, <1>4, <2>1 DEF EditsFollow
  <1>9. Quiet /\ Trust /\ SendNotLost /\ Recorded
    BY <1>1, <1>4 DEF Quiet, Trust, SendNotLost, Recorded
  <1>10. ChatOrder
    BY <1>5 DEF ChatOrder, shown
  <1>11. Paid
    <2>1. \A s \in Sends : s \notin pending
      BY <1>1, <1>4 DEF pending, Sends
    <2>2. faults = 0
      BY <1>1 DEF faults
    <2>3. \A s \in Sends : Cardinality(copies(s)) = 0
      BY <1>5, FS_EmptySet
    <2>4. \A s \in Sends : one(s, pending) = 0
      BY <2>1 DEF one
    <2> QED
      BY <1>1, <2>2, <2>3, <2>4 DEF Paid
  <1>12. Resolved
    BY <1>1, <1>2, <1>3 DEF Resolved, resolvedIn, Unresolved
  <1>13. LastEdit
    BY <1>4 DEF LastEdit, isLast
  <1> QED
    BY <1>0, <1>7, <1>8, <1>9, <1>10, <1>11, <1>12, <1>13 DEF OutboxInv

LEMMA OutboxStep ==
  ASSUME Background = {}, OutboxInv, [Next]_vars
  PROVE  OutboxInv'
  BY TypedStep, QueueStep, EditsFollowStep, QuietStep, TrustStep, NotLostStep, RecordedStep,
     ChatOrderStep, PaidStep, ResolvedStep, LastEditStep DEF OutboxInv

(* A Send enqueued before another has the smaller position. *)
LEMMA Positions ==
  ASSUME Inv, Queue, NEW o \in ToSet(enqueued)
  PROVE  /\ position(o) \in DOMAIN enqueued /\ enqueued[position(o)] = o
         /\ \A i \in DOMAIN enqueued : enqueued[i] = o => i = position(o)
  <1>1. \E i \in DOMAIN enqueued : enqueued[i] = o
    BY InToSet
  <1>2. position(o) \in DOMAIN enqueued /\ enqueued[position(o)] = o
    BY <1>1 DEF position
  <1> QED
    BY <1>2 DEF Queue

LEMMA ChatOrderGives ==
  ASSUME Inv, Queue, ChatOrder
  PROVE  ChatInOrder
  <1> SUFFICES ASSUME NEW s \in Sends \ dropped, NEW t \in Sends \ dropped,
                      copies(s) # {}, copies(t) # {}, position(s) < position(t)
               PROVE  Min(copies(s)) < Min(copies(t))
    BY DEF ChatInOrder
  <1>1. s \in ToSet(enqueued) /\ t \in ToSet(enqueued)
    BY DEF Queue
  <1>2. follows(enqueued, s, t)
    BY <1>1, Positions DEF follows
  <1>3. PICK i \in copies(s) : \A j \in copies(t) : i < j
    BY <1>2 DEF ChatOrder, shown
  <1>4. copies(s) \subseteq Nat /\ copies(t) \subseteq Nat
    BY DEF copies, Inv, TypeOK
  <1>5. Min(copies(s)) \in copies(s) /\ Min(copies(t)) \in copies(t) /\ Min(copies(s)) <= i
    BY <1>4, MinIs
  <1>6. i < Min(copies(t))
    BY <1>3, <1>5
  <1>7. Min(copies(s)) \in Nat /\ Min(copies(t)) \in Nat /\ i \in Nat
    BY <1>4, <1>5
  <1> QED
    BY <1>5, <1>6, <1>7

LEMMA LastEditGives ==
  ASSUME Inv, Queue, LastEdit
  PROVE  LatestEditShown
  <1> DEFINE edits(s) == {op \in ToSet(enqueued) : KindOf[op] = "edit" /\ TargetOf[op] = s}
             last(s) == CHOOSE op \in edits(s) : \A o \in edits(s) : position(o) <= position(op)
  <1> SUFFICES ASSUME diskTrusted, ops = <<>>, inflight = NoOp, NEW s \in Sends,
                      proxyMap[s] # 0, edits(s) # {}, last(s) \notin dropped
               PROVE  chat[proxyMap[s]].text = last(s)
    BY DEF LatestEditShown
  <1>1. enqueued \in Seq(Ops) /\ Len(enqueued) \in Nat /\ DOMAIN enqueued = 1 .. Len(enqueued)
    BY DEF Inv, TypeOK
  <1>2. \E op \in edits(s) : \A o \in edits(s) : position(o) <= position(op)
    <2> DEFINE P == {position(o) : o \in edits(s)}
    <2>1. P \subseteq 1 .. Len(enqueued) /\ P # {}
      BY <1>1, Positions
    <2> HIDE DEF P
    <2>2. PICK x \in P : \A y \in P : y <= x
      BY <1>1, <2>1, GreatestOf
    <2> QED
      BY <2>2 DEF P
  <1>3. last(s) \in edits(s) /\ \A o \in edits(s) : position(o) <= position(last(s))
    BY <1>2
  <1> DEFINE e == last(s)
  <1>4. e \in ToSet(enqueued) /\ editOf(e, s)
    BY <1>3 DEF editOf
  <1>5. \A o \in edits(s) : position(o) <= position(e)
    BY <1>3
  <1>6. \A o \in ToSet(enqueued) : editOf(o, s) => o \in edits(s)
    BY DEF editOf
  <1> HIDE DEF last, e, edits
  <1>7. ASSUME NEW o \in ToSet(enqueued), editOf(o, s), follows(enqueued, e, o) PROVE FALSE
    <2>1. PICK i, j \in DOMAIN enqueued : i < j /\ enqueued[i] = e /\ enqueued[j] = o
      BY <1>7 DEF follows
    <2>2. i = position(e) /\ j = position(o)
      BY <1>4, <2>1, Positions
    <2>3. position(o) <= position(e)
      BY <1>5, <1>6, <1>7
    <2> QED
      BY <1>1, <2>1, <2>2, <2>3
  <1>8. isLast(e, s) /\ e \in Ops
    BY <1>1, <1>4, <1>7 DEF isLast, ToSet
  <1>9. pending = {NoOp} /\ e \notin pending
    BY <1>8, ToSetEmpty DEF pending
  <1>10. e \notin dropped
    BY DEF e
  <1>11. chat[proxyMap[s]].text = e
    BY <1>8, <1>9, <1>10 DEF LastEdit
  <1> QED
    BY <1>11 DEF e

-----------------------------------------------------------------------------
(* Theorems. *)

(***************************************************************************)
(* Every variable of the outbox keeps its type, whatever goroutines the    *)
(* restart leaves running.                                                 *)
(***************************************************************************)
THEOREM OutboxTyped == Spec => []TypeOK
  <1>1. Inv => TypeOK
    BY DEF Inv
  <1> QED
    BY TypedInit, TypedStep, <1>1, PTL DEF Spec

(***************************************************************************)
(* SendNotLost: with goroutines that stop before the restart, no sequence  *)
(* of retries, requeues and Starts of outbox.go loses a Send.              *)
(***************************************************************************)
THEOREM NoSendIsLost == Background = {} => (Spec => []SendNotLost)
  <1> SUFFICES ASSUME Background = {} PROVE Spec => []SendNotLost
    OBVIOUS
  <1>1. OutboxInv /\ [Next]_vars => OutboxInv'
    BY OutboxStep
  <1>2. OutboxInv => SendNotLost
    BY DEF OutboxInv
  <1> QED
    BY OutboxInit, <1>1, <1>2, PTL DEF Spec

(***************************************************************************)
(* CopiesArePaidFor: every further copy of a message that deliver shows    *)
(* the user answers to a failed call, a failed write or a crash.           *)
(***************************************************************************)
THEOREM CopiesHaveAReason == Background = {} => (Spec => []CopiesArePaidFor)
  <1> SUFFICES ASSUME Background = {} PROVE Spec => []CopiesArePaidFor
    OBVIOUS
  <1>1. OutboxInv /\ [Next]_vars => OutboxInv'
    BY OutboxStep
  <1>2. OutboxInv => CopiesArePaidFor
    <2> SUFFICES ASSUME OutboxInv, NEW s \in Sends
                 PROVE  Cardinality(copies(s)) <= 1 + errors + writeErrors + crashes
      BY DEF CopiesArePaidFor
    <2>1. Cardinality(copies(s)) + one(s, pending) <= 1 + faults
      BY DEF OutboxInv, Paid
    <2>2. one(s, pending) \in {0, 1} /\ Cardinality(copies(s)) \in Nat
      BY OneIs, CopiesFinite DEF OutboxInv
    <2>3. errors \in Nat /\ writeErrors \in Nat /\ crashes \in Nat
      BY DEF OutboxInv, Inv, TypeOK
    <2>4. faults = errors + writeErrors + crashes
      BY DEF faults
    <2> HIDE DEF copies
    <2> QED
      BY <2>1, <2>2, <2>3, <2>4
  <1> QED
    BY OutboxInit, <1>1, <1>2, PTL DEF Spec

(***************************************************************************)
(* OutboxOK: the chat keeps the order of the Sends through every requeue,  *)
(* reload and crash, and coalescing Edits keeps the last one.              *)
(***************************************************************************)
THEOREM ChatAgreesWithQueue == Background = {} => (Spec => []OutboxOK)
  <1> SUFFICES ASSUME Background = {} PROVE Spec => []OutboxOK
    OBVIOUS
  <1>1. OutboxInv /\ [Next]_vars => OutboxInv'
    BY OutboxStep
  <1>2. OutboxInv => OutboxOK
    BY ChatOrderGives, LastEditGives DEF OutboxInv, OutboxOK, Inv
  <1> QED
    BY OutboxInit, <1>1, <1>2, PTL DEF Spec

=============================================================================
