----------------------------- MODULE RouterProofs -----------------------------
(***************************************************************************)
(* Proofs about the router: AgentLoop, for every set of channels and       *)
(* messages and any number of iterations, crashes, channel changes and     *)
(* sign-ins, and Channels, for every set of names and of calls that run at *)
(* the same time and any number of bots, ticks, failures and crashes.      *)
(***************************************************************************)
EXTENDS AgentLoop, Channels, FiniteSetTheorems, TLAPS

-----------------------------------------------------------------------------
(* Counting.  One more, or one less, of x in a sequence or in a function   *)
(* over the iterations.                                                    *)

one(P) == IF P THEN 1 ELSE 0

Positions(s, x) == {i \in DOMAIN s : s[i] = x}

LEMMA OccursNat ==
  ASSUME NEW S, NEW s \in Seq(S), NEW x
  PROVE  /\ IsFiniteSet(Positions(s, x))
         /\ Occurrences(s, x) = Cardinality(Positions(s, x))
         /\ Occurrences(s, x) \in Nat
  <1>1. IsFiniteSet(1 .. Len(s))
    BY FS_Interval
  <1>2. Positions(s, x) \in SUBSET (1 .. Len(s))
    BY DEF Positions
  <1>3. IsFiniteSet(Positions(s, x))
    BY <1>1, <1>2, FS_Subset
  <1>4. Occurrences(s, x) = Cardinality(Positions(s, x))
    BY DEF Occurrences, Positions
  <1> QED
    BY <1>3, <1>4, FS_CardinalityType

LEMMA OccursNone == \A x : Occurrences(<<>>, x) = 0
  <1> SUFFICES ASSUME NEW x PROVE Occurrences(<<>>, x) = 0
    OBVIOUS
  <1>1. {i \in DOMAIN <<>> : <<>>[i] = x} = {}
    OBVIOUS
  <1> QED
    BY <1>1, FS_EmptySet DEF Occurrences

LEMMA OccursAppend ==
  ASSUME NEW S, NEW s \in Seq(S), NEW e \in S, NEW x
  PROVE  Occurrences(Append(s, e), x) = Occurrences(s, x) + one(e = x)
  <1> DEFINE A == Positions(s, x)
             B == Positions(Append(s, e), x)
  <1>1. IsFiniteSet(A) /\ Occurrences(s, x) = Cardinality(A) /\ Cardinality(A) \in Nat
    BY OccursNat
  <1>2. Append(s, e) \in Seq(S) /\ Occurrences(Append(s, e), x) = Cardinality(B)
    <2>1. Append(s, e) \in Seq(S)
      OBVIOUS
    <2> QED
      BY <2>1, OccursNat
  <1>3. CASE e = x
    <2>1. B = A \cup {Len(s) + 1} /\ Len(s) + 1 \notin A
      BY <1>3 DEF Positions
    <2>2. Cardinality(A \cup {Len(s) + 1}) = Cardinality(A) + 1
      BY <1>1, <2>1, FS_AddElement
    <2> QED
      BY <1>1, <1>2, <1>3, <2>1, <2>2 DEF one
  <1>4. CASE e # x
    <2>1. B = A
      BY <1>4 DEF Positions
    <2> HIDE DEF A, B
    <2> QED
      BY <1>1, <1>2, <1>4, <2>1 DEF one
  <1> QED
    BY <1>3, <1>4

LEMMA SecondPart ==
  ASSUME NEW S, NEW a \in Seq(S), NEW b \in Seq(S), NEW i \in Len(a) + 1 .. Len(a) + Len(b)
  PROVE  (a \o b)[i] = b[i - Len(a)]
  OBVIOUS

LEMMA RemoveAtIs ==
  ASSUME NEW S, NEW s \in Seq(S), NEW k \in DOMAIN s
  PROVE  /\ RemoveAt(s, k) \in Seq(S)
         /\ Len(RemoveAt(s, k)) = Len(s) - 1
         /\ \A i \in 1 .. Len(s) - 1 : RemoveAt(s, k)[i] = IF i < k THEN s[i] ELSE s[i + 1]
  <1> DEFINE a == SubSeq(s, 1, k - 1)
             b == SubSeq(s, k + 1, Len(s))
  <1>1. k \in Nat /\ 1 <= k /\ k <= Len(s) /\ Len(s) \in Nat
    OBVIOUS
  <1>2. /\ a \in Seq(S) /\ Len(a) = k - 1
        /\ \A i \in 1 .. k - 1 : a[i] = s[i]
    BY <1>1
  <1>3. b \in Seq(S) /\ Len(b) = Len(s) - k /\ \A i \in 1 .. Len(s) - k : b[i] = s[k + i]
    BY <1>1
  <1>4. RemoveAt(s, k) = a \o b
    BY DEF RemoveAt
  <1> HIDE DEF a, b
  <1>5. a \o b \in Seq(S) /\ Len(a \o b) = Len(s) - 1
    BY <1>1, <1>2, <1>3
  <1>6. ASSUME NEW i \in 1 .. Len(s) - 1 PROVE (a \o b)[i] = IF i < k THEN s[i] ELSE s[i + 1]
    <2>1. CASE i < k
      <3>1. i \in 1 .. Len(a)
        BY <1>1, <1>2, <2>1
      <3>2. (a \o b)[i] = a[i]
        BY <1>2, <1>3, <3>1
      <3> QED
        BY <1>1, <1>2, <2>1, <3>2
    <2>2. CASE ~(i < k)
      <3>1. i \in Len(a) + 1 .. Len(a) + Len(b) /\ i - (k - 1) \in 1 .. Len(s) - k
        BY <1>1, <1>2, <1>3, <2>2
      <3>2. (a \o b)[i] = b[i - Len(a)]
        BY <1>2, <1>3, <3>1, SecondPart
      <3>3. b[i - (k - 1)] = s[k + (i - (k - 1))]
        BY <1>3, <3>1
      <3>4. k + (i - (k - 1)) = i + 1
        BY <1>1
      <3> QED
        BY <1>2, <2>2, <3>2, <3>3, <3>4
    <2> QED
      BY <2>1, <2>2
  <1> QED
    BY <1>4, <1>5, <1>6

LEMMA OccursRemoved ==
  ASSUME NEW S, NEW s \in Seq(S), NEW k \in DOMAIN s, NEW x
  PROVE  Occurrences(RemoveAt(s, k), x) = Occurrences(s, x) - one(s[k] = x)
  <1> DEFINE r == RemoveAt(s, k)
             A == Positions(s, x)
             B == Positions(r, x)
  <1>0. r \in Seq(S) /\ Len(r) = Len(s) - 1
        /\ \A i \in 1 .. Len(s) - 1 : r[i] = IF i < k THEN s[i] ELSE s[i + 1]
    BY RemoveAtIs
  <1> HIDE DEF r
  <1>1. /\ IsFiniteSet(A) /\ Occurrences(s, x) = Cardinality(A) /\ Cardinality(A) \in Nat
        /\ Occurrences(r, x) = Cardinality(B)
    BY <1>0, OccursNat
  <1>2. IsFiniteSet(A \ {k}) /\ Cardinality(A \ {k}) = Cardinality(A) - one(s[k] = x)
    <2>1. k \in A <=> s[k] = x
      BY DEF Positions
    <2>2. /\ IsFiniteSet(A \ {k})
          /\ Cardinality(A \ {k}) = IF k \in A THEN Cardinality(A) - 1 ELSE Cardinality(A)
      BY <1>1, FS_RemoveElement
    <2> HIDE DEF A
    <2> QED
      BY <1>1, <2>1, <2>2 DEF one
  <1>3. /\ k \in 1 .. Len(s) /\ Len(s) \in Nat
        /\ \A i : i \in A <=> i \in 1 .. Len(s) /\ s[i] = x
        /\ \A i : i \in B <=> i \in 1 .. Len(s) - 1 /\ r[i] = x
    BY <1>0 DEF Positions
  <1> HIDE DEF A, B
  <1> DEFINE f == [i \in A \ {k} |-> IF i < k THEN i ELSE i - 1]
  <1>4. f \in [A \ {k} -> B]
    <2> SUFFICES ASSUME NEW i \in A \ {k} PROVE (IF i < k THEN i ELSE i - 1) \in B
      OBVIOUS
    <2>0. i \in Nat /\ 1 <= i /\ i <= Len(s) /\ s[i] = x /\ i # k
      BY <1>3
    <2>1. CASE i < k
      <3>1. i \in 1 .. Len(s) - 1 /\ r[i] = s[i]
        BY <1>0, <1>3, <2>0, <2>1
      <3> QED
        BY <1>3, <2>0, <2>1, <3>1
    <2>2. CASE ~(i < k)
      <3>1. i - 1 \in 1 .. Len(s) - 1 /\ ~(i - 1 < k) /\ (i - 1) + 1 = i
        BY <1>3, <2>0, <2>2
      <3>2. r[i - 1] = s[i]
        BY <1>0, <3>1
      <3> QED
        BY <1>3, <2>0, <2>2, <3>1, <3>2
    <2> QED
      BY <2>1, <2>2
  <1>5. \A i, j \in A \ {k} : f[i] = f[j] => i = j
    BY <1>3
  <1>6. \A j \in B : \E i \in A \ {k} : f[i] = j
    <2> SUFFICES ASSUME NEW j \in B PROVE \E i \in A \ {k} : f[i] = j
      OBVIOUS
    <2>1. CASE j < k
      <3>1. j \in A \ {k}
        BY <1>0, <1>3, <2>1
      <3> QED
        BY <2>1, <3>1
    <2>2. CASE ~(j < k)
      <3>1. j \in 1 .. Len(s) - 1 /\ r[j] = x
        BY <1>3
      <3>2. s[j + 1] = x
        BY <1>0, <2>2, <3>1
      <3>3. j + 1 \in 1 .. Len(s) /\ j + 1 # k /\ ~(j + 1 < k) /\ (j + 1) - 1 = j
        BY <1>3, <2>2, <3>1
      <3>4. j + 1 \in A \ {k}
        BY <1>3, <3>2, <3>3
      <3> QED
        BY <3>3, <3>4
    <2> QED
      BY <2>1, <2>2
  <1>7. ExistsBijection(A \ {k}, B)
    BY <1>4, <1>5, <1>6 DEF ExistsBijection, Bijection, Injection, Surjection, IsInjective
  <1>8. Cardinality(B) = Cardinality(A \ {k})
    BY <1>2, <1>7, FS_Bijection
  <1> QED
    BY <1>1, <1>2, <1>8 DEF r

(* The cells of a function over the iterations that hold v. *)
CellsOf(f, v) == {i \in Iterations : f[i] = v}
Cells(f, v) == Cardinality(CellsOf(f, v))

LEMMA CellsNat ==
  ASSUME NEW f, NEW v, MaxIterations \in Nat
  PROVE  Cells(f, v) \in Nat /\ IsFiniteSet(CellsOf(f, v))
  <1>1. IsFiniteSet(Iterations)
    BY FS_Interval DEF Iterations
  <1>2. CellsOf(f, v) \in SUBSET Iterations
    BY DEF CellsOf
  <1>3. IsFiniteSet(CellsOf(f, v))
    BY <1>1, <1>2, FS_Subset
  <1> QED
    BY <1>3, FS_CardinalityType DEF Cells

changesTo(f, i, w, g) == g = [f EXCEPT ![i] = w]

LEMMA CellsChange ==
  ASSUME NEW f, NEW g, NEW i \in Iterations, NEW w, NEW v, MaxIterations \in Nat,
         DOMAIN f = Iterations, changesTo(f, i, w, g)
  PROVE  Cells(g, v) = Cells(f, v) - one(f[i] = v) + one(w = v)
  <1> DEFINE A == CellsOf(f, v)
             B == CellsOf(g, v)
  <1>1. /\ IsFiniteSet(A) /\ Cardinality(A) \in Nat /\ Cells(f, v) = Cardinality(A)
        /\ Cells(g, v) = Cardinality(B)
    BY CellsNat DEF Cells
  <1>2. i \in A <=> f[i] = v
    BY DEF CellsOf
  <1>3. (w = v => B = (A \ {i}) \cup {i}) /\ (w # v => B = A \ {i})
    BY DEF CellsOf, changesTo
  <1> HIDE DEF A, B
  <1>4. /\ IsFiniteSet(A \ {i})
        /\ Cardinality(A \ {i}) = IF i \in A THEN Cardinality(A) - 1 ELSE Cardinality(A)
    BY <1>1, FS_RemoveElement
  <1>5. Cardinality((A \ {i}) \cup {i}) = Cardinality(A \ {i}) + 1
    BY <1>4, FS_AddElement
  <1>6. Cardinality(A \ {i}) = Cells(f, v) - one(f[i] = v)
    BY <1>1, <1>2, <1>4 DEF one
  <1>7. Cardinality(B) = Cardinality(A \ {i}) + one(w = v)
    <2>1. CASE w = v
      BY <1>3, <1>5, <2>1 DEF one
    <2>2. CASE w # v
      <3>1. Cardinality(A \ {i}) \in Nat
        BY <1>4, FS_CardinalityType
      <3> QED
        BY <1>3, <2>2, <3>1 DEF one
    <2> QED
      BY <2>1, <2>2
  <1> QED
    BY <1>1, <1>6, <1>7

LEMMA CellsNone ==
  ASSUME NEW f, NEW v, \A i \in Iterations : f[i] # v
  PROVE  Cells(f, v) = 0
  <1>1. CellsOf(f, v) = {}
    BY DEF CellsOf
  <1> QED
    BY <1>1, FS_EmptySet DEF Cells

-----------------------------------------------------------------------------
(* Type correctness, and where the goroutines of one iteration can be.     *)

USE LoopAssumption

NextStates == [st: {"none", "run", "done"}, msg: Items \cup {None}, cancelled: BOOLEAN]

(* The marker is at most that of the running turn. *)
marksTurn(s) == s.intr \in {None, channelOf(cur)}

Control ==
    /\ \A i \in Iterations : i > iter => hand[i] = "off" /\ nx[i] = NoNext
    /\ rpc \in {"drain", "reload"} => hand[iter] = "off"
    /\ \A i \in Iterations : nx[i].st = "done" => i = iter /\ apc \in {"select", "await"}
    /\ bridge = "send" => held \in Messages
    /\ bridge # "send" => held = None
    /\ rpc \in {"drain", "reload", "load", "set", "decide", "wait"} => bridge = "off" /\ apc = "off"
    /\ rpc = "join" => apc \in {"idle", "changed"}
    /\ rpc # "set" => loaded = None
    /\ apc = "turn" => /\ cur \in Items /\ marksTurn(q)
                       /\ disk # None => marksTurn(disk)

Inv == TypeOK /\ Control

LEMMA ChannelOfItem == \A m \in Items : channelOf(m) \in Channels
  BY DEF channelOf, Items, Messages

LEMMA PushTyped ==
  ASSUME TypeOK, NEW m \in Items, Push(m)
  PROVE  /\ q' \in QueueStates /\ disk' = q'
         /\ q'.msgs = Append(q.msgs, m) /\ q'.intr = q.intr
  <1>1. q \in QueueStates /\ q.msgs \in Seq(Items)
    BY DEF TypeOK, QueueStates
  <1>2. Append(q.msgs, m) \in Seq(Items)
    BY <1>1
  <1>3. q' = [q EXCEPT !.msgs = Append(q.msgs, m)] /\ disk' = q'
    BY DEF Push, saveQueue
  <1> QED
    BY <1>1, <1>2, <1>3 DEF QueueStates

LEMMA TypedInit == Init => Inv
  <1> SUFFICES ASSUME Init PROVE Inv
    OBVIOUS
  <1>1. 1 \in Iterations
    BY DEF Iterations
  <1>2. NoNext \in NextStates /\ EmptyQueue \in QueueStates
    BY DEF NoNext, NextStates, EmptyQueue, QueueStates
  <1>3. TypeOK
    <2>1. nx \in [Iterations -> NextStates] /\ hand \in [Iterations -> OtherMsgs \cup {None, "off"}]
      BY <1>2 DEF Init
    <2>2. buf \in [Iterations -> Seq(Items)] /\ \A i \in Iterations : Len(buf[i]) <= 1
      BY DEF Init
    <2>3. crashes \in 0..MaxCrashes /\ changes \in 0..MaxChanges /\ oauth \in 0..MaxOAuth
      BY DEF Init
    <2>4. handled \in Seq(Items) /\ cuts \in Seq(Channels)
      BY DEF Init
    <2> QED
      BY <1>1, <1>2, <2>1, <2>2, <2>3, <2>4 DEF Init, TypeOK, NextStates
  <1>4. Control
    BY <1>1 DEF Init, Control, NoNext, Iterations
  <1> QED
    BY <1>3, <1>4 DEF Inv

LEMMA MergeTyped ==
  ASSUME Inv, NEW i \in Iterations, MergeStep(i) \/ \E m \in Messages : UserMergeTakes(m)
  PROVE  Inv'
  <1> USE DEF routerVars, mergeVars, bridgeVars, agentVars, queueVars, histVars, bounds
  <1>0. TypeOK /\ Control /\ iter \in Iterations
    BY DEF Inv, TypeOK
  <1>1. ASSUME NEW m \in Messages, MergeTakes(i, m) PROVE Inv'
    <2>1. hand' \in [Iterations -> OtherMsgs \cup {None, "off"}] /\ fresh' \subseteq Messages
      BY <1>0, <1>1 DEF MergeTakes, TypeOK
    <2>2. \A j \in Iterations : hand[j] = "off" => hand'[j] = "off"
      BY <1>0, <1>1 DEF MergeTakes, TypeOK
    <2>3. TypeOK'
      BY <1>0, <1>1, <2>1 DEF MergeTakes, TypeOK
    <2>4. Control'
      BY <1>0, <1>1, <2>2 DEF MergeTakes, Control, marksTurn
    <2> QED
      BY <2>3, <2>4 DEF Inv
  <1>2. ASSUME MergeRequeues(i) PROVE Inv'
    <2>1. /\ q' \in QueueStates /\ disk' = q' /\ q'.intr = q.intr
      BY <1>0, <1>2, PushTyped DEF MergeRequeues, mergeRequeues, Items
    <2>2. hand' \in [Iterations -> OtherMsgs \cup {None, "off"}]
      BY <1>0, <1>2 DEF MergeRequeues, TypeOK
    <2>3. \A j \in Iterations : hand[j] = "off" => hand'[j] = "off"
      BY <1>0, <1>2 DEF MergeRequeues, TypeOK
    <2>4. TypeOK'
      BY <1>0, <1>2, <2>1, <2>2 DEF MergeRequeues, TypeOK
    <2>5. Control'
      BY <1>0, <1>2, <2>1, <2>3 DEF MergeRequeues, Control, marksTurn
    <2> QED
      BY <2>4, <2>5 DEF Inv
  <1>3. ASSUME MergeEnds(i) PROVE Inv'
    <2>2. hand' \in [Iterations -> OtherMsgs \cup {None, "off"}]
      BY <1>0, <1>3 DEF MergeEnds, TypeOK
    <2>3. \A j \in Iterations : hand[j] = "off" => hand'[j] = "off"
      BY <1>0, <1>3 DEF MergeEnds, TypeOK
    <2>4. TypeOK'
      BY <1>0, <1>3, <2>2 DEF MergeEnds, TypeOK
    <2>5. Control'
      BY <1>0, <1>3, <2>3 DEF MergeEnds, Control, marksTurn
    <2> QED
      BY <2>4, <2>5 DEF Inv
  <1>4. ASSUME NEW m \in Messages, UserMergeTakes(m) PROVE Inv'
    <2>1. TypeOK'
      BY <1>0, <1>4 DEF UserMergeTakes, TypeOK
    <2>2. Control'
      BY <1>0, <1>4 DEF UserMergeTakes, Control, marksTurn
    <2> QED
      BY <2>1, <2>2 DEF Inv
  <1> QED
    BY <1>1, <1>2, <1>3, <1>4 DEF MergeStep

(* What is received is a message, and only the hand that held it is emptied. *)
LEMMA ReceiveTyped ==
  ASSUME Inv, NEW m, receiveMerged(m)
  PROVE  /\ m \in Messages
         /\ hand' \in [Iterations -> OtherMsgs \cup {None, "off"}]
         /\ userHand' \in UserMsgs \cup {None}
         /\ \A j \in Iterations : hand[j] = "off" => hand'[j] = "off"
  <1>0. hand \in [Iterations -> OtherMsgs \cup {None, "off"}] /\ userHand \in UserMsgs \cup {None}
        /\ iter \in Iterations
    BY DEF Inv, TypeOK
  <1> QED
    BY <1>0 DEF receiveMerged, Items

LEMMA BridgeTyped ==
  ASSUME Inv, BridgeStep
  PROVE  Inv'
  <1> USE DEF routerVars, mergeVars, bridgeVars, agentVars, queueVars, histVars, bounds
  <1>0. TypeOK /\ Control /\ iter \in Iterations /\ handled \in Seq(Items)
    BY DEF Inv, TypeOK
  <1>1. ASSUME NEW m \in Messages, BridgeReads(m) PROVE Inv'
    <2>1. /\ hand' \in [Iterations -> OtherMsgs \cup {None, "off"}]
          /\ userHand' \in UserMsgs \cup {None}
          /\ \A j \in Iterations : hand[j] = "off" => hand'[j] = "off"
      BY <1>1, ReceiveTyped DEF BridgeReads
    <2>2. TypeOK'
      BY <1>0, <1>1, <2>1 DEF BridgeReads, TypeOK
    <2>3. Control'
      BY <1>0, <1>1, <2>1 DEF BridgeReads, Control, marksTurn
    <2> QED
      BY <2>2, <2>3 DEF Inv
  <1>2. ASSUME BridgeIntercepts PROVE Inv'
    <2>1. handled' \in Seq(Items)
      BY <1>0, <1>2 DEF BridgeIntercepts, Items, Messages
    <2>2. TypeOK'
      BY <1>0, <1>2, <2>1 DEF BridgeIntercepts, TypeOK
    <2>3. Control'
      BY <1>0, <1>2 DEF BridgeIntercepts, Control, marksTurn
    <2> QED
      BY <2>2, <2>3 DEF Inv
  <1>3. ASSUME BridgeSends PROVE Inv'
    <2>1. held \in Items
      BY <1>0, <1>3 DEF BridgeSends, Control, Items
    <2>2. buf' \in [Iterations -> Seq(Items)] /\ \A i \in Iterations : Len(buf'[i]) <= 1
      BY <1>0, <1>3, <2>1 DEF BridgeSends, TypeOK
    <2>3. TypeOK'
      BY <1>0, <1>3, <2>2 DEF BridgeSends, TypeOK
    <2>4. Control'
      BY <1>0, <1>3 DEF BridgeSends, Control, marksTurn
    <2> QED
      BY <2>3, <2>4 DEF Inv
  <1>4. ASSUME BridgeEnds PROVE Inv'
    <2>1. /\ q' \in QueueStates /\ disk' \in QueueStates \cup {None} /\ q'.intr = q.intr
          /\ disk' \in {disk, q'}
      <3>1. CASE held \in OtherMsgs
        BY <1>0, <1>4, <3>1, PushTyped DEF BridgeEnds, Items, Messages
      <3>2. CASE held \notin OtherMsgs
        BY <1>0, <1>4, <3>2 DEF BridgeEnds, TypeOK
      <3> QED
        BY <3>1, <3>2
    <2>2. TypeOK'
      BY <1>0, <1>4, <2>1 DEF BridgeEnds, TypeOK
    <2>3. Control'
      BY <1>0, <1>4, <2>1 DEF BridgeEnds, Control, marksTurn
    <2> QED
      BY <2>2, <2>3 DEF Inv
  <1> QED
    BY <1>1, <1>2, <1>3, <1>4 DEF BridgeStep

(* A result goes to the agent of its own iteration, while it waits for one. *)
LEMMA NextReturnsTyped ==
  ASSUME Inv, NEW i \in Iterations, NEW m \in Items \cup {None}, running(i), nextReturns(i, m)
  PROVE  /\ nx' \in [Iterations -> NextStates]
         /\ \A j \in Iterations \ {i} : nx'[j] = nx[j]
         /\ IF i = iter /\ apc \in {"select", "await"}
            THEN nx'[i] = [st |-> "done", msg |-> m, cancelled |-> FALSE]
            ELSE nx'[i] = NoNext
         /\ nx[i].st = "run"
         /\ \A j \in Iterations : j > iter => nx'[j] = NoNext
         /\ \A j \in Iterations : nx'[j].st = "done" => j = iter /\ apc \in {"select", "await"}
  <1>0. nx \in [Iterations -> NextStates] /\ iter \in Iterations
    BY DEF Inv, TypeOK, NextStates
  <1>1. NoNext \in NextStates /\ [st |-> "done", msg |-> m, cancelled |-> FALSE] \in NextStates
    BY DEF NoNext, NextStates
  <1>2. nx[i].st = "run" /\ ~(i > iter) /\ NoNext.st = "none"
    BY DEF running, Inv, Control, NoNext
  <1>3. /\ nx' \in [Iterations -> NextStates]
        /\ \A j \in Iterations \ {i} : nx'[j] = nx[j]
        /\ IF i = iter /\ apc \in {"select", "await"}
           THEN nx'[i] = [st |-> "done", msg |-> m, cancelled |-> FALSE]
           ELSE nx'[i] = NoNext
    BY <1>0, <1>1 DEF nextReturns
  <1>4. ASSUME NEW j \in Iterations
        PROVE  /\ j > iter => nx'[j] = NoNext
               /\ nx'[j].st = "done" => j = iter /\ apc \in {"select", "await"}
    <2>1. CASE j = i
      BY <1>2, <1>3, <2>1
    <2>2. CASE j # i
      BY <1>3, <2>2 DEF Inv, Control
    <2> QED
      BY <2>1, <2>2
  <1> QED
    BY <1>2, <1>3, <1>4

LEMMA NextTyped ==
  ASSUME Inv, NEW i \in Iterations, NextStep(i)
  PROVE  Inv'
  <1> USE DEF routerVars, mergeVars, bridgeVars, agentVars, queueVars, histVars, bounds
  <1>0. TypeOK /\ Control /\ iter \in Iterations /\ buf \in [Iterations -> Seq(Items)]
    BY DEF Inv, TypeOK
  <1>1. ASSUME NextReads(i) PROVE Inv'
    <2>1. Head(buf[i]) \in Items
      BY <1>0, <1>1 DEF NextReads
    <2>2. q' \in QueueStates /\ disk' = q' /\ q'.intr = q.intr
      BY <1>0, <1>1, <2>1, PushTyped DEF NextReads
    <2>3. buf' \in [Iterations -> Seq(Items)] /\ \A j \in Iterations : Len(buf'[j]) <= 1
      BY <1>0, <1>1 DEF NextReads, TypeOK
    <2>4. TypeOK'
      BY <1>0, <1>1, <2>2, <2>3 DEF NextReads, TypeOK
    <2>5. Control'
      BY <1>0, <1>1, <2>2 DEF NextReads, Control, marksTurn
    <2> QED
      BY <2>4, <2>5 DEF Inv
  <1>2. ASSUME NextDequeues(i) PROVE Inv'
    <2>1. PICK k \in DOMAIN q.msgs :
             /\ running(i) /\ nextReturns(i, q.msgs[k])
             /\ saveQueue([q EXCEPT !.msgs = removed(q.msgs, k)])
      BY <1>2 DEF NextDequeues
    <2>2. q \in QueueStates /\ q.msgs \in Seq(Items) /\ q.msgs[k] \in Items
      BY <1>0 DEF TypeOK, QueueStates
    <2>3. /\ nx' \in [Iterations -> NextStates]
          /\ \A j \in Iterations \ {i} : nx'[j] = nx[j]
          /\ IF i = iter /\ apc \in {"select", "await"}
             THEN nx'[i] = [st |-> "done", msg |-> q.msgs[k], cancelled |-> FALSE]
             ELSE nx'[i] = NoNext
          /\ \A j \in Iterations : j > iter => nx'[j] = NoNext
          /\ \A j \in Iterations : nx'[j].st = "done" => j = iter /\ apc \in {"select", "await"}
      BY <2>1, <2>2, NextReturnsTyped
    <2>4. removed(q.msgs, k) \in Seq(Items)
      BY <2>2, RemoveAtIs DEF removed
    <2>5. q' \in QueueStates /\ disk' = q' /\ q'.intr = q.intr
      BY <2>1, <2>2, <2>4 DEF saveQueue, QueueStates
    <2>6. TypeOK'
      BY <1>0, <1>2, <2>3, <2>5 DEF NextDequeues, TypeOK, NextStates
    <2>7. Control'
      BY <1>0, <1>2, <2>3, <2>5 DEF NextDequeues, Control, marksTurn
    <2> QED
      BY <2>6, <2>7 DEF Inv
  <1>3. ASSUME NextCancelled(i) PROVE Inv'
    <2>1. /\ nx' \in [Iterations -> NextStates]
          /\ \A j \in Iterations \ {i} : nx'[j] = nx[j]
          /\ IF i = iter /\ apc \in {"select", "await"}
             THEN nx'[i] = [st |-> "done", msg |-> None, cancelled |-> FALSE]
             ELSE nx'[i] = NoNext
          /\ \A j \in Iterations : j > iter => nx'[j] = NoNext
          /\ \A j \in Iterations : nx'[j].st = "done" => j = iter /\ apc \in {"select", "await"}
      BY <1>3, NextReturnsTyped DEF NextCancelled
    <2>2. TypeOK'
      BY <1>0, <1>3, <2>1 DEF NextCancelled, TypeOK, NextStates
    <2>3. Control'
      BY <1>0, <1>3, <2>1 DEF NextCancelled, Control, marksTurn
    <2> QED
      BY <2>2, <2>3 DEF Inv
  <1> QED
    BY <1>1, <1>2, <1>3 DEF NextStep

(* The agent is there only while the router waits for it. *)
LEMMA AgentIsRunning == Inv /\ apc \notin {"off", "idle", "changed"} => rpc \in {"running", "changing"}
  BY DEF Inv, TypeOK, Control

LEMMA SaveMarkTyped ==
  ASSUME TypeOK, NEW c \in Channels \cup {None}, saveQueue([q EXCEPT !.intr = c])
  PROVE  q' \in QueueStates /\ disk' = q' /\ q'.msgs = q.msgs /\ q'.intr = c
  <1>1. q \in QueueStates
    BY DEF TypeOK
  <1> QED
    BY <1>1 DEF saveQueue, QueueStates

LEMMA AgentTyped ==
  ASSUME Inv,
         \/ AgentCallsNext \/ AgentExits("changed") \/ AgentExits("idle") \/ AgentOAuth
         \/ AgentOAuthGoesOn \/ AgentReceives \/ TurnReads \/ TurnEnds \/ TurnIsCut
  PROVE  Inv'
  <1> USE DEF routerVars, mergeVars, bridgeVars, agentVars, queueVars, histVars, bounds
  <1>0. /\ TypeOK /\ Control /\ iter \in Iterations /\ buf \in [Iterations -> Seq(Items)]
        /\ nx \in [Iterations -> NextStates]
    BY DEF Inv, TypeOK, NextStates
  <1>1. ASSUME AgentCallsNext PROVE Inv'
    <2>1. [st |-> "run", msg |-> None, cancelled |-> FALSE] \in NextStates
      BY DEF NextStates
    <2>2. /\ nx' \in [Iterations -> NextStates] /\ nx'[iter].st = "run"
          /\ \A j \in Iterations \ {iter} : nx'[j] = nx[j]
      BY <1>0, <1>1, <2>1 DEF AgentCallsNext
    <2>3. TypeOK'
      BY <1>0, <1>1, <2>2 DEF AgentCallsNext, TypeOK, NextStates
    <2>4. rpc \in {"running", "changing"} /\ ~(iter > iter)
      BY <1>0, <1>1, AgentIsRunning DEF AgentCallsNext, Iterations
    <2>5. Control'
      BY <1>0, <1>1, <2>2, <2>4 DEF AgentCallsNext, Control, marksTurn
    <2> QED
      BY <2>3, <2>5 DEF Inv
  <1>2. ASSUME NEW reason \in {"changed", "idle"}, AgentExits(reason) PROVE Inv'
    <2>1. cancelled(nx[iter]) \in NextStates /\ NoNext \in NextStates
      BY <1>0 DEF cancelled, NextStates, NoNext
    <2>2. /\ nx' \in [Iterations -> NextStates] /\ nx'[iter].st # "done"
          /\ \A j \in Iterations \ {iter} : nx'[j] = nx[j]
      BY <1>0, <1>2, <2>1 DEF AgentExits, running, cancelled, NextStates, NoNext
    <2>3. TypeOK'
      BY <1>0, <1>2, <2>2 DEF AgentExits, TypeOK, NextStates
    <2>4. rpc \in {"running", "changing"} /\ ~(iter > iter)
      BY <1>0, <1>2, AgentIsRunning DEF AgentExits, Iterations
    <2>5. Control'
      BY <1>0, <1>2, <2>2, <2>4 DEF AgentExits, Control, marksTurn
    <2> QED
      BY <2>3, <2>5 DEF Inv
  <1>3. ASSUME AgentOAuth PROVE Inv'
    <2>1. cancelled(nx[iter]) \in NextStates
      BY <1>0 DEF cancelled, NextStates
    <2>2. /\ nx' \in [Iterations -> NextStates]
          /\ \A j \in Iterations \ {iter} : nx'[j] = nx[j]
      BY <1>0, <1>3, <2>1 DEF AgentOAuth
    <2>3. oauth' \in 0 .. MaxOAuth
      BY <1>0, <1>3 DEF AgentOAuth, TypeOK
    <2>4. TypeOK'
      BY <1>0, <1>3, <2>2, <2>3 DEF AgentOAuth, TypeOK, NextStates
    <2>5. rpc \in {"running", "changing"} /\ ~(iter > iter)
      BY <1>0, <1>3, AgentIsRunning DEF AgentOAuth, Iterations
    <2>6. Control'
      BY <1>0, <1>3, <2>2, <2>5 DEF AgentOAuth, Control, marksTurn
    <2> QED
      BY <2>4, <2>6 DEF Inv
  <1>4. ASSUME AgentOAuthGoesOn PROVE Inv'
    <2>1. /\ nx' \in [Iterations -> NextStates] /\ nx'[iter] = NoNext
          /\ \A j \in Iterations \ {iter} : nx'[j] = nx[j]
      BY <1>0, <1>4 DEF AgentOAuthGoesOn, NextStates, NoNext
    <2>2. TypeOK'
      BY <1>0, <1>4, <2>1 DEF AgentOAuthGoesOn, TypeOK, NextStates
    <2>3. rpc \in {"running", "changing"} /\ ~(iter > iter)
      BY <1>0, <1>4, AgentIsRunning DEF AgentOAuthGoesOn, Iterations
    <2>4. Control'
      BY <1>0, <1>4, <2>1, <2>3 DEF AgentOAuthGoesOn, Control, marksTurn, NoNext
    <2> QED
      BY <2>2, <2>4 DEF Inv
  <1>5. ASSUME AgentReceives PROVE Inv'
    <2>1. /\ nx' \in [Iterations -> NextStates] /\ nx'[iter] = NoNext
          /\ \A j \in Iterations \ {iter} : nx'[j] = nx[j]
      BY <1>0, <1>5 DEF AgentReceives, NextStates, NoNext
    <2>2. nx[iter].msg \in Items /\ channelOf(nx[iter].msg) \in Channels
      BY <1>0, <1>5, ChannelOfItem DEF AgentReceives, NextStates
    <2>3. handled' \in Seq(Items)
      BY <1>0, <1>5, <2>2 DEF AgentReceives, TypeOK
    <2>4. rpc \in {"running", "changing"} /\ ~(iter > iter)
      BY <1>0, <1>5, AgentIsRunning DEF AgentReceives, Iterations
    <2>5. CASE apc' = "loop" /\ UNCHANGED <<cur, q, disk>>
      <3>1. TypeOK'
        BY <1>0, <1>5, <2>1, <2>3, <2>5 DEF AgentReceives, TypeOK, NextStates
      <3>2. Control'
        BY <1>0, <1>5, <2>1, <2>4, <2>5 DEF AgentReceives, Control, NoNext
      <3> QED
        BY <3>1, <3>2 DEF Inv
    <2>6. CASE /\ apc' = "turn" /\ cur' = nx[iter].msg
               /\ saveQueue([q EXCEPT !.intr = channelOf(nx[iter].msg)])
      <3>1. q' \in QueueStates /\ disk' = q' /\ q'.intr = channelOf(nx[iter].msg)
        BY <1>0, <2>2, <2>6, SaveMarkTyped
      <3>2. TypeOK'
        BY <1>0, <1>5, <2>1, <2>2, <2>3, <2>6, <3>1 DEF AgentReceives, TypeOK, NextStates
      <3>3. Control'
        BY <1>0, <1>5, <2>1, <2>2, <2>4, <2>6, <3>1 DEF AgentReceives, Control, NoNext, marksTurn, channelOf
      <3> QED
        BY <3>2, <3>3 DEF Inv
    <2> QED
      BY <1>5, <2>5, <2>6 DEF AgentReceives
  <1>6. ASSUME TurnReads PROVE Inv'
    <2>1. Head(buf[iter]) \in Items
      BY <1>0, <1>6 DEF TurnReads
    <2>2. /\ q' \in QueueStates /\ disk' \in QueueStates \cup {None} /\ disk' \in {disk, q'}
          /\ q'.intr = q.intr /\ handled' \in Seq(Items)
      <3>1. CASE Push(Head(buf[iter])) /\ UNCHANGED handled
        BY <1>0, <3>1, <2>1, PushTyped DEF TypeOK
      <3>2. CASE handled' = Append(handled, Head(buf[iter])) /\ UNCHANGED queueVars
        BY <1>0, <3>2, <2>1 DEF TypeOK
      <3> QED
        BY <1>6, <3>1, <3>2 DEF TurnReads
    <2>3. buf' \in [Iterations -> Seq(Items)] /\ \A j \in Iterations : Len(buf'[j]) <= 1
      BY <1>0, <1>6 DEF TurnReads, TypeOK
    <2>4. TypeOK'
      BY <1>0, <1>6, <2>2, <2>3 DEF TurnReads, TypeOK
    <2>5. Control'
      BY <1>0, <1>6, <2>2 DEF TurnReads, Control, marksTurn
    <2> QED
      BY <2>4, <2>5 DEF Inv
  <1>7. ASSUME TurnEnds \/ TurnIsCut PROVE Inv'
    <2>1. /\ q' \in QueueStates /\ disk' \in QueueStates \cup {None}
          /\ cuts' \in Seq(Channels)
      <3>1. CASE TurnEnds
        BY <1>0, <3>1, SaveMarkTyped DEF TurnEnds, clearsMarker, TypeOK
      <3>2. CASE TurnIsCut
        <4>1. channelOf(cur) \in Channels
          BY <1>0, <3>2, ChannelOfItem DEF TurnIsCut, Control
        <4> QED
          BY <1>0, <3>2, <4>1 DEF TurnIsCut, TypeOK
      <3> QED
        BY <1>7, <3>1, <3>2
    <2>2. apc' \in {"changed", "loop"} /\ cur' = None /\ apc = "turn"
      BY <1>7 DEF TurnEnds, TurnIsCut, afterTurn
    <2>3. TypeOK'
      BY <1>0, <1>7, <2>1, <2>2 DEF TurnEnds, TurnIsCut, TypeOK
    <2>4. rpc \in {"running", "changing"}
      BY <2>2, AgentIsRunning
    <2>5. Control'
      BY <1>0, <1>7, <2>2, <2>4 DEF TurnEnds, TurnIsCut, Control
    <2> QED
      BY <2>3, <2>5 DEF Inv
  <1> QED
    BY <1>1, <1>2, <1>3, <1>4, <1>5, <1>6, <1>7

LEMMA StartTyped ==
  ASSUME Inv, NEW m \in Items \cup {None}, startAgent(m)
  PROVE  buf' \in [Iterations -> Seq(Items)] /\ \A j \in Iterations : Len(buf'[j]) <= 1
  <1>0. buf \in [Iterations -> Seq(Items)] /\ \A j \in Iterations : Len(buf[j]) <= 1
    BY DEF Inv, TypeOK
  <1> DEFINE b == IF m = None THEN <<>> ELSE <<m>>
  <1>1. b \in Seq(Items) /\ Len(b) <= 1
    <2>1. CASE m = None
      BY <2>1
    <2>2. CASE m \in Items
      BY <2>2
    <2> QED
      BY <2>1, <2>2
  <1>2. buf' = [buf EXCEPT ![iter] = b]
    BY DEF startAgent
  <1> HIDE DEF b
  <1> QED
    BY <1>0, <1>1, <1>2

LEMMA RouterTyped ==
  ASSUME Inv,
         RouterStep \/ (\E m \in Messages : FirstMessage(m)) \/ OnChannelChange \/ Crash
  PROVE  Inv'
  <1> USE DEF routerVars, mergeVars, bridgeVars, agentVars, queueVars, histVars, bounds
  <1>0. TypeOK /\ Control /\ iter \in Iterations
    BY DEF Inv, TypeOK
  <1>1. ASSUME OnChannelChange PROVE Inv'
    <2>1. changes' \in 0 .. MaxChanges
      BY <1>0, <1>1 DEF OnChannelChange, TypeOK
    <2>2. TypeOK'
      BY <1>0, <1>1, <2>1 DEF OnChannelChange, TypeOK
    <2>3. Control'
      BY <1>0, <1>1 DEF OnChannelChange, Control, marksTurn
    <2> QED
      BY <2>2, <2>3 DEF Inv
  <1>2. ASSUME Drain \/ LoadRead \/ ChangeSeen \/ ForceCancel \/ AgentReturned PROVE Inv'
    <2>1. TypeOK'
      <3>1. change' \in BOOLEAN /\ notified' \in BOOLEAN /\ agentCtx' \in BOOLEAN /\ stale' \in BOOLEAN
        BY <1>0, <1>2 DEF Drain, LoadRead, ChangeSeen, ForceCancel, forced, AgentReturned, TypeOK
      <3>2. CASE Drain
        BY <1>0, <3>1, <3>2 DEF Drain, TypeOK
      <3>3. CASE LoadRead
        BY <1>0, <3>1, <3>3 DEF LoadRead, TypeOK
      <3>4. CASE ChangeSeen
        BY <1>0, <3>1, <3>4 DEF ChangeSeen, TypeOK
      <3>5. CASE ForceCancel
        BY <1>0, <3>1, <3>5 DEF ForceCancel, TypeOK
      <3>6. CASE AgentReturned
        BY <1>0, <3>1, <3>6 DEF AgentReturned, TypeOK
      <3> QED
        BY <1>2, <3>2, <3>3, <3>4, <3>5, <3>6
    <2>2. Control'
      BY <1>0, <1>2
      DEF Drain, LoadRead, ChangeSeen, ForceCancel, AgentReturned, Control, marksTurn, TypeOK
    <2> QED
      BY <2>1, <2>2 DEF Inv
  <1>3. ASSUME Reload PROVE Inv'
    <2>1. /\ hand' \in [Iterations -> OtherMsgs \cup {None, "off"}]
          /\ \A j \in Iterations \ {iter} : hand'[j] = hand[j]
      BY <1>0, <1>3 DEF Reload, TypeOK
    <2>2. ~(iter > iter)
      BY <1>0 DEF Iterations
    <2>3. TypeOK'
      <3>1. stale' \in BOOLEAN
        BY <1>3 DEF Reload
      <3> QED
        BY <1>0, <1>3, <2>1, <3>1 DEF Reload, TypeOK
    <2>4. Control'
      BY <1>0, <1>3, <2>1, <2>2 DEF Reload, Control, marksTurn
    <2> QED
      BY <2>3, <2>4 DEF Inv
  <1>4. ASSUME LoadSet PROVE Inv'
    <2>1. TypeOK'
      BY <1>0, <1>4 DEF LoadSet, TypeOK
    <2>2. Control'
      BY <1>0, <1>4 DEF LoadSet, Control
    <2> QED
      BY <2>1, <2>2 DEF Inv
  <1>5. ASSUME Decide PROVE Inv'
    <2>1. q' \in QueueStates /\ disk' \in QueueStates \cup {None} /\ q.intr \in Channels \cup {None}
      BY <1>0, <1>5, SaveMarkTyped DEF Decide, TypeOK, QueueStates
    <2>2. CASE \E m \in Items \cup {None} : startAgent(m)
      <3>1. PICK m \in Items \cup {None} : startAgent(m)
        BY <2>2
      <3>2. buf' \in [Iterations -> Seq(Items)] /\ \A j \in Iterations : Len(buf'[j]) <= 1
        BY <3>1, StartTyped
      <3>3. TypeOK'
        BY <1>0, <1>5, <2>1, <3>1, <3>2 DEF Decide, TypeOK, startAgent, signalKept
      <3>4. Control'
        BY <1>0, <1>5, <3>1 DEF Decide, Control, startAgent
      <3> QED
        BY <3>3, <3>4 DEF Inv
    <2>3. CASE rpc' = "wait" /\ UNCHANGED <<change, agentCtx, notified, buf, bridgeVars, agentVars>>
      <3>1. TypeOK'
        BY <1>0, <1>5, <2>1, <2>3 DEF Decide, TypeOK
      <3>2. Control'
        BY <1>0, <1>5, <2>3 DEF Decide, Control
      <3> QED
        BY <3>1, <3>2 DEF Inv
    <2>4. q.intr \in Items \cup {None} /\ None \in Items \cup {None}
      BY <2>1 DEF Items
    <2> QED
      BY <1>5, <2>2, <2>3, <2>4 DEF Decide
  <1>6. ASSUME NEW m \in Messages, FirstMessage(m) PROVE Inv'
    <2>1. /\ hand' \in [Iterations -> OtherMsgs \cup {None, "off"}]
          /\ userHand' \in UserMsgs \cup {None}
          /\ \A j \in Iterations : hand[j] = "off" => hand'[j] = "off"
      BY <1>6, ReceiveTyped DEF FirstMessage
    <2>2. buf' \in [Iterations -> Seq(Items)] /\ \A j \in Iterations : Len(buf'[j]) <= 1
      BY <1>6, StartTyped DEF FirstMessage, Items
    <2>3. TypeOK'
      BY <1>0, <1>6, <2>1, <2>2 DEF FirstMessage, TypeOK, startAgent, signalKept
    <2>4. Control'
      BY <1>0, <1>6, <2>1 DEF FirstMessage, Control, startAgent
    <2> QED
      BY <2>3, <2>4 DEF Inv
  <1>7. ASSUME IterationEnds PROVE Inv'
    <2>1. iter' \in Iterations /\ iter' = iter + 1 /\ iter \in Nat
      BY <1>0, <1>7 DEF IterationEnds, Iterations
    <2>2. q' \in QueueStates /\ disk' \in QueueStates \cup {None}
      BY <1>0, <1>7, SaveMarkTyped DEF IterationEnds, TypeOK
    <2>3. TypeOK'
      BY <1>0, <1>7, <2>1, <2>2 DEF IterationEnds, TypeOK
    <2>4. /\ hand'[iter'] = "off"
          /\ \A i \in Iterations : i > iter' => hand'[i] = "off" /\ nx'[i] = NoNext
          /\ \A i \in Iterations : nx'[i].st # "done"
      BY <1>0, <1>7, <2>1 DEF IterationEnds, Control, Iterations
    <2>5. Control'
      BY <1>0, <1>7, <2>4 DEF IterationEnds, Control
    <2> QED
      BY <2>3, <2>5 DEF Inv
  <1>8. ASSUME Crash PROVE Inv'
    <2>1. iter' \in Iterations /\ crashes' \in 0 .. MaxCrashes
      BY <1>0, <1>8 DEF Crash, Iterations, TypeOK
    <2>2. /\ nx' \in [Iterations -> NextStates] /\ \A i \in Iterations : nx'[i] = NoNext
          /\ NoNext.st = "none"
      BY <1>8 DEF Crash, NoNext, NextStates
    <2>3. hand' \in [Iterations -> OtherMsgs \cup {None, "off"}] /\ \A i \in Iterations : hand'[i] = "off"
      BY <1>8 DEF Crash
    <2>4. buf' \in [Iterations -> Seq(Items)] /\ \A j \in Iterations : Len(buf'[j]) <= 1
      BY <1>8 DEF Crash
    <2>5. cuts' \in Seq(Channels) /\ q' \in QueueStates
      <3>1. apc = "turn" => channelOf(cur) \in Channels
        BY <1>0, ChannelOfItem DEF Control
      <3> QED
        BY <1>0, <1>8, <3>1 DEF Crash, TypeOK, EmptyQueue, QueueStates
    <2>6. TypeOK'
      BY <1>0, <1>8, <2>1, <2>2, <2>3, <2>4, <2>5 DEF Crash, TypeOK, NextStates
    <2>7. Control'
      BY <1>8, <2>1, <2>2, <2>3 DEF Crash, Control
    <2> QED
      BY <2>6, <2>7 DEF Inv
  <1> QED
    BY <1>1, <1>2, <1>3, <1>4, <1>5, <1>6, <1>7, <1>8 DEF RouterStep

LEMMA TypedStep == Inv /\ [Next]_vars => Inv'
  <1> SUFFICES ASSUME Inv, [Next]_vars PROVE Inv'
    OBVIOUS
  <1>1. CASE UNCHANGED vars
    <2>1. TypeOK'
      BY <1>1 DEF Inv, TypeOK, vars
    <2>2. Control'
      BY <1>1 DEF Inv, Control, vars, marksTurn
    <2> QED
      BY <2>1, <2>2 DEF Inv
  <1>2. iter \in Iterations
    BY DEF Inv, TypeOK
  <1> QED
    BY <1>1, <1>2, MergeTyped, BridgeTyped, NextTyped, AgentTyped, RouterTyped DEF Next, AgentStep

-----------------------------------------------------------------------------
(* The requeue guards. *)

LEMMA PushedIsQueued ==
  ASSUME TypeOK, NEW m \in Items, Push(m)
  PROVE  m \in ToSet(q'.msgs)
  <1>1. q'.msgs = Append(q.msgs, m) /\ q.msgs \in Seq(Items)
    BY PushTyped DEF TypeOK, QueueStates
  <1>2. Append(q.msgs, m)[Len(q.msgs) + 1] = m /\ Len(q.msgs) + 1 \in DOMAIN Append(q.msgs, m)
    BY <1>1
  <1> QED
    BY <1>1, <1>2 DEF ToSet

LEMMA BufferedIsThere ==
  ASSUME TypeOK, NEW m, buf' = [buf EXCEPT ![iter] = <<m>>]
  PROVE  m \in ToSet(buf'[iter])
  <1>1. buf'[iter] = <<m>>
    BY DEF TypeOK
  <1> QED
    BY <1>1 DEF ToSet

handedOn(m) == m \in ToSet(q'.msgs) \/ held' = m \/ m \in ToSet(buf'[iter])

keepsNonUser ==
    crashes' = crashes =>
        \A m \in OtherMsgs :
            /\ \A i \in Iterations : hand[i] = m /\ hand'[i] # m => handedOn(m)
            /\ held = m /\ held' # m => handedOn(m)

(* What is received was in one hand only. *)
LEMMA ReceivedWas ==
  ASSUME Inv, NEW m, receiveMerged(m)
  PROVE  \A i \in Iterations, n \in OtherMsgs : hand[i] = n /\ hand'[i] # n => n = m
  BY DEF receiveMerged, Inv, TypeOK

LEMMA HopStep == Inv /\ [Next]_vars => [keepsNonUser]_vars
  <1> SUFFICES ASSUME Inv, Next PROVE keepsNonUser
    BY DEF vars
  <1> USE DEF routerVars, mergeVars, bridgeVars, agentVars, queueVars, histVars, bounds
  <1>0. /\ TypeOK /\ Control /\ iter \in Iterations /\ Messages \subseteq Items /\ OtherMsgs \subseteq Messages
        /\ hand \in [Iterations -> OtherMsgs \cup {None, "off"}]
        /\ None \notin OtherMsgs /\ "off" \notin OtherMsgs
    BY DEF Inv, TypeOK, Items, Messages
  <1>1. ASSUME hand' = hand, held' = held PROVE keepsNonUser
    BY <1>1 DEF keepsNonUser
  <1>2. ASSUME NEW i \in Iterations, MergeStep(i) PROVE keepsNonUser
    <2>1. CASE \E m \in Messages : MergeTakes(i, m)
      BY <1>0, <2>1 DEF MergeTakes, keepsNonUser
    <2>2. CASE MergeRequeues(i)
      <3>1. hand[i] \in ToSet(q'.msgs)
        BY <1>0, <2>2, PushedIsQueued DEF MergeRequeues, mergeRequeues
      <3> QED
        BY <1>0, <2>2, <3>1 DEF MergeRequeues, keepsNonUser, handedOn
    <2>3. CASE MergeEnds(i)
      BY <1>0, <2>3 DEF MergeEnds, keepsNonUser
    <2> QED
      BY <1>2, <2>1, <2>2, <2>3 DEF MergeStep
  <1>3. ASSUME BridgeStep PROVE keepsNonUser
    <2>1. ASSUME NEW m \in Messages, BridgeReads(m) PROVE keepsNonUser
      <3>1. \A i \in Iterations, n \in OtherMsgs : hand[i] = n /\ hand'[i] # n => n = m
        BY <2>1, ReceivedWas DEF BridgeReads
      <3> QED
        BY <1>0, <2>1, <3>1 DEF BridgeReads, keepsNonUser, handedOn, Control
    <2>2. CASE BridgeIntercepts
      BY <1>0, <2>2 DEF BridgeIntercepts, keepsNonUser
    <2>3. CASE BridgeSends
      <3>1. held \in ToSet(buf'[iter])
        BY <1>0, <2>3, BufferedIsThere DEF BridgeSends
      <3> QED
        BY <1>0, <2>3, <3>1 DEF BridgeSends, keepsNonUser, handedOn
    <2>4. CASE BridgeEnds
      <3>1. held \in OtherMsgs => held \in ToSet(q'.msgs)
        BY <1>0, <2>4, PushedIsQueued DEF BridgeEnds
      <3> QED
        BY <1>0, <2>4, <3>1 DEF BridgeEnds, keepsNonUser, handedOn
    <2> QED
      BY <1>3, <2>1, <2>2, <2>3, <2>4 DEF BridgeStep
  <1>4. ASSUME NEW m \in Messages, FirstMessage(m) PROVE keepsNonUser
    <2>1. \A i \in Iterations, n \in OtherMsgs : hand[i] = n /\ hand'[i] # n => n = m
      BY <1>4, ReceivedWas DEF FirstMessage
    <2>2. m \in ToSet(buf'[iter]) /\ held = None
      <3>1. buf' = [buf EXCEPT ![iter] = <<m>>]
        BY <1>0, <1>4 DEF FirstMessage, startAgent
      <3> QED
        BY <1>0, <1>4, <3>1, BufferedIsThere DEF FirstMessage, Control
    <2> QED
      BY <1>0, <2>1, <2>2 DEF keepsNonUser, handedOn
  <1>5. ASSUME Reload PROVE keepsNonUser
    BY <1>0, <1>5 DEF Reload, keepsNonUser, Control
  <1>6. ASSUME Decide PROVE keepsNonUser
    <2>1. held = None /\ hand' = hand
      BY <1>0, <1>6 DEF Decide, Control
    <2> QED
      BY <1>0, <2>1 DEF keepsNonUser
  <1>7. ASSUME Crash PROVE keepsNonUser
    <2>1. crashes' # crashes
      BY <1>0, <1>7 DEF Crash, TypeOK
    <2> QED
      BY <2>1 DEF keepsNonUser
  <1>8. CASE \/ AgentStep \/ (\E m \in Messages : UserMergeTakes(m)) \/ TurnReads \/ TurnEnds
             \/ AgentExits("idle") \/ AgentOAuth \/ OnChannelChange
             \/ Drain \/ LoadRead \/ LoadSet \/ ChangeSeen \/ ForceCancel \/ AgentReturned \/ IterationEnds
    <2>1. hand' = hand /\ held' = held
      BY <1>8 DEF AgentStep, AgentCallsNext, AgentExits, AgentOAuthGoesOn, AgentReceives, TurnIsCut,
                  UserMergeTakes, TurnReads, TurnEnds, AgentOAuth, OnChannelChange, Drain, LoadRead,
                  LoadSet, ChangeSeen, ForceCancel, AgentReturned, IterationEnds
    <2> QED
      BY <1>1, <2>1
  <1>9. ASSUME NEW i \in Iterations, NextStep(i) PROVE keepsNonUser
    <2>1. hand' = hand /\ held' = held
      BY <1>9 DEF NextStep, NextReads, NextDequeues, NextCancelled
    <2> QED
      BY <1>1, <2>1
  <1> QED
    BY <1>2, <1>3, <1>4, <1>5, <1>6, <1>7, <1>8, <1>9 DEF Next, RouterStep

(* No step but a crash loses a non-user message out of the hands of a      *)
(* merge goroutine or of the bridge, for any number of iterations whose    *)
(* goroutines are still around.                                            *)
THEOREM HopsKeep == Spec => HopsKeepNonUser
  <1>1. Spec => []Inv
    BY TypedInit, TypedStep, PTL DEF Spec
  <1>2. [keepsNonUser]_vars =>
          [crashes' = crashes =>
             LET on(m) == m \in ToSet(q'.msgs) \/ held' = m \/ m \in ToSet(buf'[iter])
             IN  \A m \in OtherMsgs :
                   /\ \A i \in Iterations : hand[i] = m /\ hand'[i] # m => on(m)
                   /\ held = m /\ held' # m => on(m)]_vars
    BY DEF keepsNonUser, handedOn
  <1> QED
    BY <1>1, <1>2, HopStep, PTL DEF Spec, HopsKeepNonUser

-----------------------------------------------------------------------------
(***************************************************************************)
(* Every message is worth one turn and every cut turn one resumption.      *)
(* What was handled, what is on its way in the goroutines of any iteration *)
(* and what waits in a copy of the queue (in memory, on disk, or read from *)
(* disk and about to replace the one in memory) never exceeds that.        *)
(***************************************************************************)

isOut(x) == nx[iter].st = "done" /\ nx[iter].msg = x

InHands(x) == one(x \in fresh) + one(userHand = x) + one(held = x) + one(isOut(x))

Elsewhere(x) == Occurrences(handled, x) + Cells(buf, <<x>>) + Cells(hand, x) + InHands(x)

(* The marker of a turn that has not been cut yet owes nothing. *)
Waiting(s, x) ==
    IF s = None THEN 0 ELSE Occurrences(s.msgs, x) + one(s.intr = x /\ apc # "turn")

Credit(x) == IF x \in Channels THEN Occurrences(cuts, x) ELSE 1

Paid(s, x) == Elsewhere(x) + Waiting(s, x) <= Credit(x)

Accounts(x) == Paid(q, x) /\ Paid(disk, x) /\ Paid(loaded, x)

Tally == \A x \in Items : Accounts(x)

LEMMA OneNat == ASSUME NEW P PROVE one(P) \in {0, 1}
  BY DEF one

Numbers(x) ==
    /\ Occurrences(handled, x) \in Nat /\ Cells(buf, <<x>>) \in Nat /\ Cells(hand, x) \in Nat
    /\ InHands(x) \in Nat /\ Elsewhere(x) \in Nat
    /\ Waiting(q, x) \in Nat /\ Waiting(disk, x) \in Nat /\ Waiting(loaded, x) \in Nat
    /\ Credit(x) \in Nat

AllNumbers == \A x \in Items : Numbers(x)

LEMMA TermsNat == TypeOK => AllNumbers
  <1> SUFFICES ASSUME TypeOK, NEW x \in Items PROVE Numbers(x)
    BY DEF AllNumbers
  <1>1. Occurrences(handled, x) \in Nat /\ Occurrences(cuts, x) \in Nat
    BY OccursNat DEF TypeOK
  <1>2. Cells(buf, <<x>>) \in Nat /\ Cells(hand, x) \in Nat
    BY CellsNat
  <1>3. InHands(x) \in Nat
    BY OneNat DEF InHands, one
  <1>4. \A s \in QueueStates : Occurrences(s.msgs, x) \in Nat
    BY OccursNat DEF QueueStates
  <1>5. \A s \in QueueStates \cup {None} : Waiting(s, x) \in Nat
    BY <1>4 DEF Waiting, one
  <1>6. Elsewhere(x) \in Nat
    BY <1>1, <1>2, <1>3 DEF Elsewhere
  <1> QED
    BY <1>1, <1>2, <1>3, <1>5, <1>6 DEF TypeOK, Credit, Numbers

LEMMA TermsNatNext == TypeOK' => AllNumbers'
  BY TermsNat, PTL

(* The queue and the credit stay; what is elsewhere does not grow. *)
LEMMA StaysPaid ==
  ASSUME TypeOK, TypeOK', NEW x \in Items, Accounts(x), q' = q, disk' = disk, loaded' = loaded, cuts' = cuts,
         apc' = "turn" \/ apc # "turn", Elsewhere(x)' <= Elsewhere(x)
  PROVE  Accounts(x)'
  <1>1. Waiting(q, x)' <= Waiting(q, x) /\ Waiting(disk, x)' <= Waiting(disk, x)
        /\ Waiting(loaded, x)' <= Waiting(loaded, x)
    <2>1. \A s \in QueueStates : Occurrences(s.msgs, x) \in Nat
      BY OccursNat DEF QueueStates
    <2> QED
      BY <2>1 DEF Waiting, one, TypeOK
  <1>2. Credit(x)' = Credit(x)
    BY DEF Credit
  <1>3. Numbers(x) /\ Numbers(x)'
    BY TermsNat, TermsNatNext DEF AllNumbers
  <1> QED
    BY <1>1, <1>2, <1>3 DEF Accounts, Paid, Numbers

(* An item moves from elsewhere into the queue. *)
LEMMA PushPays ==
  ASSUME TypeOK, TypeOK', NEW x \in Items, Accounts(x), NEW m \in Items, Push(m), loaded' = loaded, cuts' = cuts,
         apc' = apc, Elsewhere(x)' + one(m = x) <= Elsewhere(x)
  PROVE  Accounts(x)'
  <1>1. q'.msgs = Append(q.msgs, m) /\ q'.intr = q.intr /\ disk' = q' /\ q' \in QueueStates /\ q \in QueueStates
    BY PushTyped DEF TypeOK
  <1>2. Occurrences(q'.msgs, x) = Occurrences(q.msgs, x) + one(m = x) /\ Occurrences(q.msgs, x) \in Nat
    BY <1>1, OccursAppend, OccursNat DEF QueueStates
  <1>3. Waiting(q, x)' = Waiting(q, x) + one(m = x) /\ Waiting(disk, x)' = Waiting(q, x)'
    <2>1. q # None /\ q' # None
      BY <1>1
    <2>2. one(q.intr = x /\ apc # "turn") \in Nat /\ one(m = x) \in Nat
      BY DEF one
    <2>3. one(q'.intr = x /\ apc' # "turn") = one(q.intr = x /\ apc # "turn")
      BY <1>1
    <2>4. Waiting(q, x)' = Waiting(q, x) + one(m = x)
      BY <1>2, <2>1, <2>2, <2>3 DEF Waiting
    <2> QED
      BY <1>1, <2>4 DEF Waiting
  <1>4. Waiting(loaded, x)' = Waiting(loaded, x) /\ Credit(x)' = Credit(x)
    BY DEF Waiting, Credit
  <1>5. Numbers(x) /\ Numbers(x)' /\ one(m = x) \in Nat
    BY TermsNat, TermsNatNext DEF AllNumbers, one
  <1> QED
    BY <1>3, <1>4, <1>5 DEF Accounts, Paid, Numbers

(* A cell of the buffers, or of the hands, is overwritten. *)
LEMMA BufferChange ==
  ASSUME TypeOK, NEW i \in Iterations, NEW b, changesTo(buf, i, b, buf'), NEW x
  PROVE  Cells(buf', <<x>>) = Cells(buf, <<x>>) - one(buf[i] = <<x>>) + one(b = <<x>>)
  <1>1. DOMAIN buf = Iterations /\ MaxIterations \in Nat
    BY DEF TypeOK
  <1> QED
    BY <1>1, CellsChange

LEMMA HandChange ==
  ASSUME TypeOK, NEW i \in Iterations, NEW h, changesTo(hand, i, h, hand'), NEW x
  PROVE  Cells(hand', x) = Cells(hand, x) - one(hand[i] = x) + one(h = x)
  <1>1. DOMAIN hand = Iterations /\ MaxIterations \in Nat
    BY DEF TypeOK
  <1> QED
    BY <1>1, CellsChange

(* The terms of Elsewhere, before and after. *)
LEMMA Terms ==
  ASSUME Inv, Inv', NEW x \in Items
  PROVE  /\ Numbers(x) /\ Numbers(x)' /\ TypeOK /\ TypeOK'
         /\ x # None /\ x # "off" /\ None # "off"
         /\ iter \in Iterations /\ iter' \in Iterations
  <1>1. TypeOK /\ TypeOK'
    BY DEF Inv
  <1>2. Numbers(x) /\ Numbers(x)'
    BY <1>1, TermsNat, TermsNatNext DEF AllNumbers
  <1> QED
    BY <1>1, <1>2 DEF TypeOK

LEMMA MergePays ==
  ASSUME Inv, Inv', NEW x \in Items, Accounts(x), NEW i \in Iterations, MergeStep(i)
  PROVE  Accounts(x)'
  <1> USE DEF routerVars, mergeVars, bridgeVars, agentVars, queueVars, histVars, bounds
  <1>0. /\ Numbers(x) /\ Numbers(x)' /\ TypeOK /\ TypeOK'
        /\ x # None /\ x # "off" /\ None # "off"
    BY Terms
  <1>1. ASSUME NEW m \in Messages, MergeTakes(i, m) PROVE Accounts(x)'
    <2>1. Cells(hand', x) = Cells(hand, x) - one(hand[i] = x) + one(m = x)
      <3>1. changesTo(hand, i, m, hand')
        BY <1>1 DEF MergeTakes, changesTo
      <3> QED
        BY <1>0, <3>1, HandChange
    <2>2. one(hand[i] = x) = 0 /\ one(x \in fresh') + one(m = x) = one(x \in fresh)
      BY <1>0, <1>1 DEF MergeTakes, one
    <2>3. Elsewhere(x)' <= Elsewhere(x)
      BY <1>0, <1>1, <2>1, <2>2 DEF MergeTakes, Elsewhere, InHands, isOut, Numbers, one
    <2> QED
      BY <1>0, <1>1, <2>3, StaysPaid DEF MergeTakes
  <1>2. ASSUME MergeRequeues(i) PROVE Accounts(x)'
    <2>1. Cells(hand', x) = Cells(hand, x) - one(hand[i] = x) + one("off" = x)
      <3>1. changesTo(hand, i, "off", hand')
        BY <1>2 DEF MergeRequeues, changesTo
      <3> QED
        BY <1>0, <3>1, HandChange
    <2>2. one("off" = x) = 0
      BY <1>0 DEF one
    <2>3. Elsewhere(x)' + one(hand[i] = x) <= Elsewhere(x)
      BY <1>0, <1>2, <2>1, <2>2 DEF MergeRequeues, Elsewhere, InHands, isOut, Numbers, one
    <2>4. hand[i] \in Items /\ Push(hand[i])
      BY <1>2 DEF MergeRequeues, mergeRequeues, Items
    <2> QED
      BY <1>0, <1>2, <2>3, <2>4, PushPays DEF MergeRequeues
  <1>3. ASSUME MergeEnds(i) PROVE Accounts(x)'
    <2>1. Cells(hand', x) = Cells(hand, x) - one(hand[i] = x) + one("off" = x)
      <3>1. changesTo(hand, i, "off", hand')
        BY <1>3 DEF MergeEnds, changesTo
      <3> QED
        BY <1>0, <3>1, HandChange
    <2>2. one("off" = x) = 0 /\ one(hand[i] = x) = 0
      BY <1>0, <1>3 DEF one, MergeEnds
    <2>3. Elsewhere(x)' <= Elsewhere(x)
      BY <1>0, <1>3, <2>1, <2>2 DEF MergeEnds, Elsewhere, InHands, isOut, Numbers, one
    <2> QED
      BY <1>0, <1>3, <2>3, StaysPaid DEF MergeEnds
  <1> QED
    BY <1>1, <1>2, <1>3 DEF MergeStep

LEMMA UserMergePays ==
  ASSUME Inv, Inv', NEW x \in Items, Accounts(x), NEW m \in Messages, UserMergeTakes(m)
  PROVE  Accounts(x)'
  <1> USE DEF routerVars, mergeVars, bridgeVars, agentVars, queueVars, histVars, bounds
  <1>0. Numbers(x) /\ Numbers(x)' /\ TypeOK /\ TypeOK' /\ x # None
    BY Terms
  <1>1. one(x \in fresh') + one(userHand' = x) = one(x \in fresh) + one(userHand = x)
    BY <1>0 DEF UserMergeTakes, one
  <1>2. Elsewhere(x)' <= Elsewhere(x)
    BY <1>0, <1>1 DEF UserMergeTakes, Elsewhere, InHands, isOut, Numbers, one
  <1> QED
    BY <1>0, <1>2, StaysPaid DEF UserMergeTakes

LEMMA ReceivePays ==
  ASSUME TypeOK, NEW x \in Items, NEW m \in Messages, receiveMerged(m), x # None
  PROVE  Cells(hand', x) + one(userHand' = x) + one(m = x) = Cells(hand, x) + one(userHand = x)
  <1>0. Cells(hand, x) \in Nat /\ iter \in Iterations
    BY CellsNat DEF TypeOK
  <1>1. CASE hand[iter] = m /\ hand' = [hand EXCEPT ![iter] = None] /\ userHand' = userHand
    <2>1. Cells(hand', x) = Cells(hand, x) - one(hand[iter] = x) + one(None = x)
      <3>1. changesTo(hand, iter, None, hand')
        BY <1>1 DEF changesTo
      <3> QED
        BY <1>0, <3>1, HandChange
    <2> QED
      BY <1>0, <1>1, <2>1 DEF one
  <1>2. CASE userHand = m /\ userHand' = None /\ hand' = hand
    BY <1>0, <1>2 DEF one
  <1> QED
    BY <1>1, <1>2 DEF receiveMerged

LEMMA BridgePays ==
  ASSUME Inv, Inv', NEW x \in Items, Accounts(x), BridgeStep
  PROVE  Accounts(x)'
  <1> USE DEF routerVars, mergeVars, bridgeVars, agentVars, queueVars, histVars, bounds
  <1>0. /\ Numbers(x) /\ Numbers(x)' /\ TypeOK /\ TypeOK' /\ x # None
        /\ bridge = "send" => held \in Messages
        /\ bridge # "send" => held = None
        /\ iter \in Iterations
    BY Terms DEF Inv, Control
  <1>1. ASSUME NEW m \in Messages, BridgeReads(m) PROVE Accounts(x)'
    <2>1. Cells(hand', x) + one(userHand' = x) + one(m = x) = Cells(hand, x) + one(userHand = x)
      BY <1>0, <1>1, ReceivePays DEF BridgeReads
    <2>2. one(held' = x) = one(held = x) + one(m = x)
      BY <1>0, <1>1 DEF BridgeReads, one
    <2>3. Elsewhere(x)' <= Elsewhere(x)
      BY <1>0, <1>1, <2>1, <2>2 DEF BridgeReads, Elsewhere, InHands, isOut, Numbers, one
    <2> QED
      BY <1>0, <1>1, <2>3, StaysPaid DEF BridgeReads
  <1>2. ASSUME BridgeIntercepts PROVE Accounts(x)'
    <2>1. handled \in Seq(Items) /\ held \in Items
      BY <1>0, <1>2 DEF BridgeIntercepts, TypeOK, Items
    <2>2. Occurrences(handled', x) = Occurrences(handled, x) + one(held = x)
      BY <1>2, <2>1, OccursAppend DEF BridgeIntercepts
    <2>3. one(held' = x) = 0
      BY <1>0, <1>2 DEF BridgeIntercepts, one
    <2>4. Elsewhere(x)' <= Elsewhere(x)
      <3>1. UNCHANGED <<hand, userHand, fresh, nx, iter, buf>>
        BY <1>2 DEF BridgeIntercepts
      <3> QED
        BY <1>0, <2>2, <2>3, <3>1 DEF Elsewhere, InHands, isOut, Numbers, one
    <2> QED
      BY <1>0, <1>2, <2>4, StaysPaid DEF BridgeIntercepts
  <1>3. ASSUME BridgeSends PROVE Accounts(x)'
    <2>1. changesTo(buf, iter, <<held>>, buf')
      BY <1>3 DEF BridgeSends, changesTo
    <2>2. Cells(buf', <<x>>) = Cells(buf, <<x>>) - one(buf[iter] = <<x>>) + one(<<held>> = <<x>>)
      BY <1>0, <2>1, BufferChange
    <2>3. one(buf[iter] = <<x>>) = 0 /\ one(<<held>> = <<x>>) = one(held = x) /\ one(held' = x) = 0
      BY <1>0, <1>3 DEF BridgeSends, one
    <2>4. Elsewhere(x)' <= Elsewhere(x)
      <3>1. UNCHANGED <<hand, userHand, fresh, nx, iter, handled>>
        BY <1>3 DEF BridgeSends
      <3> QED
        BY <1>0, <2>2, <2>3, <3>1 DEF Elsewhere, InHands, isOut, Numbers, one
    <2> QED
      BY <1>0, <1>3, <2>4, StaysPaid DEF BridgeSends
  <1>4. ASSUME BridgeEnds PROVE Accounts(x)'
    <2>1. one(held' = x) = 0
      BY <1>0, <1>4 DEF BridgeEnds, one
    <2>2. Elsewhere(x)' + one(held = x) <= Elsewhere(x)
      BY <1>0, <1>4, <2>1 DEF BridgeEnds, Elsewhere, InHands, isOut, Numbers, one
    <2>3. CASE held \in OtherMsgs
      <3>1. held \in Items /\ Push(held)
        BY <1>4, <2>3 DEF BridgeEnds, Items, Messages
      <3> QED
        BY <1>0, <1>4, <2>2, <3>1, PushPays DEF BridgeEnds
    <2>4. CASE held \notin OtherMsgs
      <3>1. Elsewhere(x)' <= Elsewhere(x)
        BY <1>0, <2>2 DEF one, Numbers
      <3> QED
        BY <1>0, <1>4, <2>4, <3>1, StaysPaid DEF BridgeEnds
    <2> QED
      BY <2>3, <2>4
  <1> QED
    BY <1>1, <1>2, <1>3, <1>4 DEF BridgeStep

(* Taking the only message of a buffer out of it. *)
LEMMA BufferEmptied ==
  ASSUME TypeOK, NEW x \in Items, NEW i \in Iterations, buf[i] # <<>>,
         changesTo(buf, i, <<>>, buf')
  PROVE  /\ Head(buf[i]) \in Items
         /\ Cells(buf', <<x>>) + one(Head(buf[i]) = x) = Cells(buf, <<x>>)
  <1>0. PICK b : b = <<>>
    OBVIOUS
  <1>1. Cells(buf', <<x>>) = Cells(buf, <<x>>) - one(buf[i] = <<x>>) + one(b = <<x>>)
    BY <1>0, BufferChange
  <1>2. buf[i] \in Seq(Items) /\ Len(buf[i]) <= 1
    BY DEF TypeOK
  <1>3. buf[i] = <<Head(buf[i])>> /\ Head(buf[i]) \in Items
    BY <1>2
  <1>4. one(b = <<x>>) = 0 /\ one(buf[i] = <<x>>) = one(Head(buf[i]) = x)
    BY <1>0, <1>3 DEF one
  <1>5. Cells(buf, <<x>>) \in Nat
    BY CellsNat
  <1> QED
    BY <1>1, <1>3, <1>4, <1>5 DEF one

(* What a copy of the queue holds. *)
LEMMA WaitingIs ==
  ASSUME TypeOK, NEW x \in Items
  PROVE  /\ q \in QueueStates /\ Occurrences(q.msgs, x) \in Nat
         /\ Waiting(q, x) = Occurrences(q.msgs, x) + one(q.intr = x /\ apc # "turn")
         /\ Waiting(None, x) = 0
         /\ disk # None => /\ Occurrences(disk.msgs, x) \in Nat
                           /\ Waiting(disk, x) = Occurrences(disk.msgs, x)
                                                 + one(disk.intr = x /\ apc # "turn")
  <1>1. q \in QueueStates /\ q # None /\ disk \in QueueStates \cup {None}
    BY DEF TypeOK
  <1>2. \A s \in QueueStates : Occurrences(s.msgs, x) \in Nat
    BY OccursNat DEF QueueStates
  <1> QED
    BY <1>1, <1>2 DEF Waiting

LEMMA NextPays ==
  ASSUME Inv, Inv', NEW x \in Items, Accounts(x), NEW i \in Iterations, NextStep(i)
  PROVE  Accounts(x)'
  <1> USE DEF routerVars, mergeVars, bridgeVars, agentVars, queueVars, histVars, bounds
  <1>0. /\ Numbers(x) /\ Numbers(x)' /\ TypeOK /\ TypeOK' /\ x # None
        /\ iter \in Iterations
    BY Terms
  <1>1. ASSUME NextReads(i) PROVE Accounts(x)'
    <2>1. changesTo(buf, i, <<>>, buf') /\ buf[i] # <<>> /\ Push(Head(buf[i]))
      BY <1>1 DEF NextReads, changesTo
    <2>2. Head(buf[i]) \in Items /\ Cells(buf', <<x>>) + one(Head(buf[i]) = x) = Cells(buf, <<x>>)
      BY <1>0, <2>1, BufferEmptied
    <2>3. Elsewhere(x)' + one(Head(buf[i]) = x) <= Elsewhere(x)
      <3>1. UNCHANGED <<hand, userHand, held, fresh, nx, iter, handled>>
        BY <1>1 DEF NextReads
      <3>2. one(Head(buf[i]) = x) \in Nat
        BY DEF one
      <3> QED
        BY <1>0, <2>2, <3>1, <3>2 DEF Elsewhere, InHands, isOut, Numbers, one
    <2> QED
      BY <1>0, <1>1, <2>1, <2>2, <2>3, PushPays DEF NextReads
  <1>2. ASSUME NextCancelled(i) PROVE Accounts(x)'
    <2>1. /\ \A j \in Iterations \ {i} : nx'[j] = nx[j]
          /\ IF i = iter /\ apc \in {"select", "await"}
             THEN nx'[i] = [st |-> "done", msg |-> None, cancelled |-> FALSE]
             ELSE nx'[i] = NoNext
      BY <1>2, NextReturnsTyped DEF NextCancelled
    <2>2. isOut(x)' => isOut(x)
      BY <1>0, <1>2, <2>1 DEF isOut, NextCancelled, NoNext
    <2>3. Elsewhere(x)' <= Elsewhere(x)
      BY <1>0, <1>2, <2>2 DEF NextCancelled, Elsewhere, InHands, Numbers, one
    <2> QED
      BY <1>0, <1>2, <2>3, StaysPaid DEF NextCancelled
  <1>3. ASSUME NextDequeues(i) PROVE Accounts(x)'
    <2>1. PICK k \in DOMAIN q.msgs :
            /\ running(i) /\ nextReturns(i, q.msgs[k])
            /\ saveQueue([q EXCEPT !.msgs = removed(@, k)])
            /\ UNCHANGED <<routerVars, mergeVars, bridgeVars, buf, agentVars, fresh, histVars,
                           bounds>>
      BY <1>3 DEF NextDequeues
    <2> DEFINE m == q.msgs[k]
    <2>2. q \in QueueStates /\ q.msgs \in Seq(Items) /\ m \in Items
      <3>1. q \in QueueStates
        BY <1>0 DEF TypeOK
      <3>2. q.msgs \in Seq(Items)
        BY <3>1 DEF QueueStates
      <3> QED BY <3>1, <3>2
    <2>3. /\ Occurrences(RemoveAt(q.msgs, k), x) = Occurrences(q.msgs, x) - one(m = x)
          /\ RemoveAt(q.msgs, k) \in Seq(Items)
      BY <2>2, OccursRemoved, RemoveAtIs
    <2>4. q'.msgs = RemoveAt(q.msgs, k) /\ q'.intr = q.intr /\ disk' = q' /\ disk' # None
      BY <1>0, <2>1, <2>2 DEF saveQueue, removed, QueueStates, TypeOK
    <2>5. /\ Waiting(q, x)' = Waiting(q, x) - one(m = x)
          /\ Waiting(disk, x)' = Waiting(q, x)'
          /\ one(m = x) <= Waiting(q, x)
      <3>1. /\ Waiting(q, x) = Occurrences(q.msgs, x) + one(q.intr = x /\ apc # "turn")
            /\ Occurrences(q.msgs, x) \in Nat
        BY <1>0, WaitingIs
      <3>2. Waiting(q, x)' = Occurrences(q'.msgs, x) + one(q'.intr = x /\ apc' # "turn")
        BY <1>0, <2>4 DEF Waiting
      <3>3. one(q'.intr = x /\ apc' # "turn") = one(q.intr = x /\ apc # "turn")
        BY <2>1, <2>4
      <3>4. one(q.intr = x /\ apc # "turn") \in Nat /\ one(m = x) \in Nat
        BY DEF one
      <3>5. Waiting(disk, x)' = Waiting(q, x)'
        BY <2>4 DEF Waiting
      <3>6. Occurrences(q'.msgs, x) \in Nat
        BY <2>3, <2>4, OccursNat
      <3> HIDE DEF m
      <3> QED
        BY <2>3, <2>4, <3>1, <3>2, <3>3, <3>4, <3>5, <3>6
    <2>6. /\ \A j \in Iterations \ {i} : nx'[j] = nx[j]
          /\ IF i = iter /\ apc \in {"select", "await"}
             THEN nx'[i] = [st |-> "done", msg |-> m, cancelled |-> FALSE]
             ELSE nx'[i] = NoNext
          /\ nx[i].st = "run"
      BY <2>1, <2>2, NextReturnsTyped
    <2> HIDE DEF m
    <2>7. Credit(x)' = Credit(x) /\ loaded' = loaded /\ Waiting(loaded, x)' = Waiting(loaded, x)
      BY <2>1 DEF Credit, Waiting
    <2>8. one(m = x) \in Nat
      BY DEF one
    <2>9. CASE i = iter /\ apc \in {"select", "await"}
      <3>1. ~isOut(x) /\ (isOut(x)' <=> m = x)
        BY <1>0, <2>1, <2>6, <2>9 DEF isOut
      <3>2. Elsewhere(x)' = Elsewhere(x) + one(m = x)
        BY <1>0, <2>1, <3>1 DEF Elsewhere, InHands, Numbers, one
      <3>3. Waiting(loaded, x) = 0
        BY <2>9 DEF Inv, Control, Waiting
      <3> QED
        BY <1>0, <2>5, <2>7, <2>8, <3>2, <3>3 DEF Accounts, Paid, Numbers
    <2>10. CASE ~(i = iter /\ apc \in {"select", "await"})
      <3>1. isOut(x)' => isOut(x)
        BY <1>0, <2>1, <2>6, <2>10 DEF isOut, NoNext
      <3>2. Elsewhere(x)' <= Elsewhere(x)
        BY <1>0, <2>1, <3>1 DEF Elsewhere, InHands, Numbers, one
      <3> QED
        BY <1>0, <2>5, <2>7, <2>8, <3>2 DEF Accounts, Paid, Numbers
    <2> QED
      BY <2>9, <2>10
  <1> QED
    BY <1>1, <1>2, <1>3 DEF NextStep

(* The agent waits for Next, leaves the wait, or discards what Next gave it. *)
LEMMA WaitPays ==
  ASSUME Inv, Inv', NEW x \in Items, Accounts(x),
         AgentCallsNext \/ AgentExits("changed") \/ AgentExits("idle") \/ AgentOAuth
         \/ AgentOAuthGoesOn
  PROVE  Accounts(x)'
  <1> USE DEF routerVars, mergeVars, bridgeVars, agentVars, queueVars, histVars, bounds
  <1>0. /\ Numbers(x) /\ Numbers(x)' /\ TypeOK /\ TypeOK' /\ x # None
        /\ iter \in Iterations /\ nx \in [Iterations -> NextStates]
    BY Terms DEF TypeOK, NextStates
  <1>1. UNCHANGED <<iter, hand, userHand, held, fresh, buf, handled, cuts, q, disk, loaded>>
    BY DEF AgentCallsNext, AgentExits, AgentOAuth, AgentOAuthGoesOn
  <1>2. apc # "turn"
    BY DEF AgentCallsNext, AgentExits, AgentOAuth, AgentOAuthGoesOn
  <1>3. isOut(x)' => isOut(x)
    <2>1. CASE AgentCallsNext
      BY <1>0, <1>1, <2>1 DEF AgentCallsNext, isOut
    <2>2. CASE AgentExits("changed") \/ AgentExits("idle")
      <3>1. nx'[iter] = IF running(iter) THEN cancelled(nx[iter]) ELSE NoNext
        BY <1>0, <2>2 DEF AgentExits
      <3>2. nx[iter].st = "run" => cancelled(nx[iter]).st = "run"
        BY <1>0 DEF cancelled, NextStates
      <3>3. nx'[iter].st # "done"
        BY <3>1, <3>2 DEF running, NoNext
      <3> QED
        BY <1>1, <3>3 DEF isOut
    <2>3. CASE AgentOAuth
      <3>1. nx'[iter] = cancelled(nx[iter])
        BY <1>0, <2>3 DEF AgentOAuth
      <3>2. cancelled(nx[iter]).st = nx[iter].st /\ cancelled(nx[iter]).msg = nx[iter].msg
        BY <1>0 DEF cancelled, NextStates
      <3> QED
        BY <1>1, <3>1, <3>2 DEF isOut
    <2>4. CASE AgentOAuthGoesOn
      BY <1>0, <1>1, <2>4 DEF AgentOAuthGoesOn, isOut, NoNext
    <2> QED
      BY <2>1, <2>2, <2>3, <2>4
  <1>4. Elsewhere(x)' <= Elsewhere(x)
    BY <1>0, <1>1, <1>3 DEF Elsewhere, InHands, Numbers, one
  <1> QED
    BY <1>0, <1>1, <1>2, <1>4, StaysPaid

(* A marker is set during a turn, or cleared: it owes nothing then. *)
LEMMA MarkerPays ==
  ASSUME Inv, Inv', NEW x \in Items, Accounts(x), NEW c,
         saveQueue([q EXCEPT !.intr = c]), c = None \/ apc' = "turn",
         loaded' = loaded, loaded = None, cuts' = cuts, Elsewhere(x)' <= Elsewhere(x)
  PROVE  Accounts(x)'
  <1>0. Numbers(x) /\ Numbers(x)' /\ TypeOK /\ TypeOK' /\ x # None
    BY Terms
  <1>1. q'.msgs = q.msgs /\ q'.intr = c /\ disk' = q' /\ q' # None /\ q \in QueueStates
    BY <1>0 DEF saveQueue, QueueStates, TypeOK
  <1>2. one(q'.intr = x /\ apc' # "turn") = 0
    BY <1>0, <1>1 DEF one
  <1>3. Waiting(q, x)' = Occurrences(q'.msgs, x) /\ Waiting(disk, x)' = Waiting(q, x)'
    <2>1. Occurrences(q'.msgs, x) \in Nat
      BY <1>0, <1>1, WaitingIs
    <2>2. Waiting(q, x)' = Occurrences(q'.msgs, x) + one(q'.intr = x /\ apc' # "turn")
      BY <1>1 DEF Waiting
    <2>3. Waiting(disk, x)' = Waiting(q, x)'
      BY <1>1 DEF Waiting
    <2> QED
      BY <1>2, <2>1, <2>2, <2>3
  <1>4. Occurrences(q'.msgs, x) <= Waiting(q, x)
    <2>1. Occurrences(q.msgs, x) \in Nat
          /\ Waiting(q, x) = Occurrences(q.msgs, x) + one(q.intr = x /\ apc # "turn")
      BY <1>0, WaitingIs
    <2>2. one(q.intr = x /\ apc # "turn") \in Nat
      BY DEF one
    <2> QED
      BY <1>1, <2>1, <2>2
  <1>5. Waiting(loaded, x)' = Waiting(loaded, x) /\ Credit(x)' = Credit(x)
    BY DEF Waiting, Credit
  <1> QED
    BY <1>0, <1>3, <1>4, <1>5 DEF Accounts, Paid, Numbers

LEMMA TurnPays ==
  ASSUME Inv, Inv', NEW x \in Items, Accounts(x), AgentReceives \/ TurnReads \/ TurnEnds
  PROVE  Accounts(x)'
  <1> USE DEF routerVars, mergeVars, bridgeVars, agentVars, queueVars, histVars, bounds
  <1>0. /\ Numbers(x) /\ Numbers(x)' /\ TypeOK /\ TypeOK' /\ x # None
        /\ iter \in Iterations /\ nx \in [Iterations -> NextStates] /\ handled \in Seq(Items)
    BY Terms DEF TypeOK, NextStates
  <1>n. Numbers(x) /\ Numbers(x)'
    BY Terms
  <1>1. ASSUME AgentReceives PROVE Accounts(x)'
    <2> DEFINE m == nx[iter].msg
    <2>1. m \in Items /\ handled' = Append(handled, m)
      BY <1>0, <1>1 DEF AgentReceives, NextStates
    <2>2. /\ UNCHANGED <<iter, hand, userHand, held, fresh, buf, cuts, loaded>>
          /\ apc = "select" /\ nx[iter].st = "done"
      BY <1>1 DEF AgentReceives
    <2>3. isOut(x) <=> m = x
      BY <2>2 DEF isOut
    <2>4. ~isOut(x)'
      BY <1>0, <1>1, <2>2 DEF AgentReceives, isOut, NoNext
    <2>5. \/ apc' = "loop" /\ q' = q /\ disk' = disk
          \/ apc' = "turn" /\ saveQueue([q EXCEPT !.intr = channelOf(m)])
      BY <1>1 DEF AgentReceives
    <2> HIDE DEF m
    <2>6. Occurrences(handled', x) = Occurrences(handled, x) + one(m = x)
      BY <1>0, <2>1, OccursAppend
    <2>7. Elsewhere(x)' <= Elsewhere(x)
      <3>1. UNCHANGED <<iter, hand, userHand, held, fresh, buf>>
        BY <2>2
      <3> QED
        BY <1>n, <2>3, <2>4, <2>6, <3>1 DEF Elsewhere, InHands, Numbers, one
    <2>8. loaded = None
      BY <2>2, AgentIsRunning DEF Inv, Control
    <2>9. CASE apc' = "loop" /\ q' = q /\ disk' = disk
      BY <1>0, <2>2, <2>7, <2>9, StaysPaid
    <2>10. CASE apc' = "turn" /\ saveQueue([q EXCEPT !.intr = channelOf(m)])
      BY <1>0, <2>2, <2>7, <2>8, <2>10, MarkerPays
    <2> QED
      BY <2>5, <2>9, <2>10
  <1>2. ASSUME TurnReads PROVE Accounts(x)'
    <2> DEFINE m == Head(buf[iter])
    <2>1. /\ UNCHANGED <<iter, hand, userHand, held, fresh, nx, cuts, loaded, apc>>
          /\ changesTo(buf, iter, <<>>, buf') /\ buf[iter] # <<>>
          /\ \/ Push(m) /\ handled' = handled
             \/ handled' = Append(handled, m) /\ q' = q /\ disk' = disk
      BY <1>2 DEF TurnReads, changesTo
    <2>2. m \in Items /\ Cells(buf', <<x>>) + one(m = x) = Cells(buf, <<x>>)
      BY <1>0, <2>1, BufferEmptied
    <2> HIDE DEF m
    <2>3. one(m = x) \in Nat
      BY DEF one
    <2>4. CASE Push(m) /\ handled' = handled
      <3>0. UNCHANGED <<iter, hand, userHand, held, fresh, nx, handled>>
        BY <2>1, <2>4
      <3>1. Elsewhere(x)' + one(m = x) <= Elsewhere(x)
        BY <1>n, <2>2, <2>3, <3>0 DEF Elsewhere, InHands, isOut, Numbers, one
      <3> QED
        BY <1>0, <2>1, <2>2, <2>4, <3>1, PushPays
    <2>5. CASE handled' = Append(handled, m) /\ q' = q /\ disk' = disk
      <3>1. Occurrences(handled', x) = Occurrences(handled, x) + one(m = x)
        BY <1>0, <2>2, <2>5, OccursAppend
      <3>2. UNCHANGED <<iter, hand, userHand, held, fresh, nx>>
        BY <2>1
      <3>3. Elsewhere(x)' <= Elsewhere(x)
        BY <1>n, <2>2, <2>3, <3>1, <3>2 DEF Elsewhere, InHands, isOut, Numbers, one
      <3>4. UNCHANGED <<cuts, loaded, apc>>
        BY <2>1
      <3>5. apc' = "turn"
        BY <1>2, <3>4 DEF TurnReads
      <3> QED
        BY <1>0, <2>5, <3>3, <3>4, <3>5, StaysPaid
    <2> QED
      BY <2>1, <2>4, <2>5
  <1>3. ASSUME TurnEnds PROVE Accounts(x)'
    <2>1. /\ UNCHANGED <<iter, hand, userHand, held, fresh, nx, buf, handled, cuts, loaded>>
          /\ apc = "turn" /\ saveQueue([q EXCEPT !.intr = None])
      BY <1>3 DEF TurnEnds, clearsMarker
    <2>2. Elsewhere(x)' <= Elsewhere(x)
      BY <1>0, <2>1 DEF Elsewhere, InHands, isOut, Numbers
    <2>3. loaded = None
      BY <2>1, AgentIsRunning DEF Inv, Control
    <2> QED
      BY <2>1, <2>2, <2>3, MarkerPays
  <1> QED
    BY <1>1, <1>2, <1>3

LEMMA EmptyWaits == ASSUME NEW x \in Items PROVE EmptyQueue # None /\ Waiting(EmptyQueue, x) = 0
  <1>1. EmptyQueue \in QueueStates
    BY DEF EmptyQueue, QueueStates
  <1>2. Occurrences(EmptyQueue.msgs, x) = 0
    BY OccursNone DEF EmptyQueue
  <1>3. one(EmptyQueue.intr = x /\ apc # "turn") = 0
    BY DEF EmptyQueue, one
  <1> QED
    BY <1>1, <1>2, <1>3 DEF Waiting

(* The turn is cut: its marker, wherever it is, is what the cut pays for. *)
LEMMA CutPays ==
  ASSUME Inv, Inv', NEW x \in Items, Accounts(x), apc = "turn", apc' # "turn",
         cuts' = Append(cuts, channelOf(cur)), disk' = disk, loaded' = None,
         q' = q \/ q' = EmptyQueue, Elsewhere(x)' <= Elsewhere(x)
  PROVE  Accounts(x)'
  <1>0. Numbers(x) /\ Numbers(x)' /\ TypeOK /\ TypeOK' /\ x # None
    BY Terms
  <1> DEFINE c == channelOf(cur)
             d == IF x \in Channels THEN one(c = x) ELSE 0
  <1>1. c \in Channels /\ marksTurn(q) /\ (disk # None => marksTurn(disk)) /\ cuts \in Seq(Channels)
    BY ChannelOfItem DEF Inv, Control, TypeOK
  <1>2. d \in Nat /\ Credit(x)' = Credit(x) + d
    <2>1. Occurrences(cuts', x) = Occurrences(cuts, x) + one(c = x)
      BY <1>1, OccursAppend
    <2> HIDE DEF c
    <2> QED
      BY <2>1 DEF Credit, one
  <1>3. \A s : marksTurn(s) => one(s.intr = x) <= d
    BY <1>0, <1>1 DEF marksTurn, one
  <1> HIDE DEF d
  <1>4. Waiting(q, x)' <= Waiting(q, x) + d
    <2>1. Waiting(q, x) = Occurrences(q.msgs, x) /\ Occurrences(q.msgs, x) \in Nat
      BY <1>0, WaitingIs DEF one
    <2>2. CASE q' = q
      <3>1. Waiting(q, x)' = Occurrences(q.msgs, x) + one(q.intr = x)
        <4>1. q # None /\ q' # None
          BY <1>0 DEF TypeOK
        <4>2. one(q'.intr = x /\ apc' # "turn") = one(q.intr = x)
          BY <2>2 DEF one
        <4>3. Waiting(q, x)' = Occurrences(q'.msgs, x) + one(q'.intr = x /\ apc' # "turn")
          BY <4>1 DEF Waiting
        <4> QED
          BY <2>2, <4>2, <4>3
      <3>2. one(q.intr = x) \in Nat /\ one(q.intr = x) <= d
        BY <1>1, <1>3 DEF one
      <3> QED
        BY <1>2, <2>1, <3>1, <3>2
    <2>3. CASE q' = EmptyQueue
      <3>1. Waiting(q, x)' = 0
        <4>1. EmptyQueue # None /\ Occurrences(EmptyQueue.msgs, x) = 0
          BY EmptyWaits, OccursNone DEF EmptyQueue
        <4>2. one(q'.intr = x /\ apc' # "turn") = 0
          BY <1>0, <2>3 DEF EmptyQueue, one
        <4>3. Waiting(q, x)' = Occurrences(q'.msgs, x) + one(q'.intr = x /\ apc' # "turn")
          BY <2>3, <4>1 DEF Waiting
        <4> QED
          BY <2>3, <4>1, <4>2, <4>3
      <3> QED
        BY <1>2, <2>1, <3>1
    <2> QED
      BY <2>2, <2>3
  <1>5. Waiting(disk, x)' <= Waiting(disk, x) + d
    <2>1. CASE disk = None
      <3>1. Waiting(disk, x)' = 0 /\ Waiting(disk, x) = 0
        BY <2>1 DEF Waiting
      <3> QED
        BY <1>2, <3>1
    <2>2. CASE disk # None
      <3>1. Waiting(disk, x) = Occurrences(disk.msgs, x) /\ Occurrences(disk.msgs, x) \in Nat
        BY <1>0, <2>2, WaitingIs DEF one
      <3>2. Waiting(disk, x)' = Occurrences(disk.msgs, x) + one(disk.intr = x)
        <4>1. one(disk'.intr = x /\ apc' # "turn") = one(disk.intr = x)
          BY DEF one
        <4>2. Waiting(disk, x)' = Occurrences(disk'.msgs, x) + one(disk'.intr = x /\ apc' # "turn")
          BY <2>2 DEF Waiting
        <4> QED
          BY <4>1, <4>2
      <3>3. one(disk.intr = x) \in Nat /\ one(disk.intr = x) <= d
        BY <1>1, <1>3, <2>2 DEF one
      <3> QED
        BY <1>2, <3>1, <3>2, <3>3
    <2> QED
      BY <2>1, <2>2
  <1>6. Waiting(loaded, x)' = 0
    BY DEF Waiting
  <1>n. Numbers(x) /\ Numbers(x)'
    BY Terms
  <1>h. Accounts(x) /\ Elsewhere(x)' <= Elsewhere(x)
    OBVIOUS
  <1>7. Paid(q, x)'
    BY ONLY <1>n, <1>h, <1>2, <1>4 DEF Accounts, Paid, Numbers
  <1>8. Paid(disk, x)'
    BY ONLY <1>n, <1>h, <1>2, <1>5 DEF Accounts, Paid, Numbers
  <1>9. Paid(loaded, x)'
    BY ONLY <1>n, <1>h, <1>2, <1>6 DEF Accounts, Paid, Numbers
  <1> QED
    BY <1>7, <1>8, <1>9 DEF Accounts

LEMMA TurnIsCutPays ==
  ASSUME Inv, Inv', NEW x \in Items, Accounts(x), TurnIsCut
  PROVE  Accounts(x)'
  <1> USE DEF routerVars, mergeVars, bridgeVars, agentVars, queueVars, histVars, bounds
  <1>0. Numbers(x) /\ Numbers(x)'
    BY Terms
  <1>1. /\ UNCHANGED <<iter, hand, userHand, held, fresh, nx, buf, handled, q, disk, loaded>>
        /\ apc = "turn" /\ cuts' = Append(cuts, channelOf(cur)) /\ apc' # "turn"
    BY DEF TurnIsCut, afterTurn
  <1>2. Elsewhere(x)' <= Elsewhere(x)
    <2>1. UNCHANGED <<iter, hand, userHand, held, fresh, nx, buf, handled>>
      BY <1>1
    <2> QED
      BY <1>0, <2>1 DEF Elsewhere, InHands, isOut, Numbers
  <1>3. loaded' = None
    BY <1>1, AgentIsRunning DEF Inv, Control
  <1> QED
    BY <1>1, <1>2, <1>3, CutPays

(* A crash: only the file and the messages nobody has read survive. *)
LEMMA CrashPays ==
  ASSUME Inv, Inv', NEW x \in Items, Accounts(x), Crash
  PROVE  Accounts(x)'
  <1>0. Numbers(x) /\ Numbers(x)' /\ TypeOK /\ TypeOK' /\ x # None /\ x # "off" /\ iter' \in Iterations
    BY Terms
  <1>1. Cells(hand', x) = 0 /\ Cells(buf', <<x>>) = 0
    <2>1. /\ \A i \in Iterations : hand'[i] # x
          /\ \A i \in Iterations : buf'[i] # <<x>>
      BY <1>0 DEF Crash
    <2> QED
      BY <2>1, CellsNone
  <1>2. /\ one(userHand' = x) = 0 /\ one(held' = x) = 0 /\ one(x \in fresh') = one(x \in fresh)
        /\ one(isOut(x)') = 0
    BY <1>0 DEF Crash, isOut, NoNext, one
  <1>3. handled' = handled
    BY DEF Crash
  <1>4. Elsewhere(x)' <= Elsewhere(x)
    <2>1. InHands(x)' = one(x \in fresh)
      BY <1>2 DEF InHands, one
    <2>2. one(x \in fresh) <= InHands(x)
      BY DEF InHands, one
    <2>3. Elsewhere(x)' = Occurrences(handled, x) + one(x \in fresh)
      BY <1>0, <1>1, <1>3, <2>1 DEF Elsewhere, Numbers, one
    <2> QED
      BY <1>0, <2>2, <2>3 DEF Elsewhere, Numbers, one
  <1>5. q' = EmptyQueue /\ disk' = disk /\ loaded' = None /\ apc' = "off"
    BY DEF Crash
  <1>6. CASE apc = "turn"
    <2>1. cuts' = Append(cuts, channelOf(cur))
      BY <1>6 DEF Crash
    <2> QED
      BY <1>4, <1>5, <1>6, <2>1, CutPays
  <1>7. CASE apc # "turn"
    <2>1. Credit(x)' = Credit(x)
      BY <1>7 DEF Crash, Credit
    <2>2. Waiting(loaded, x)' = 0
      BY <1>5 DEF Waiting
    <2>3. Waiting(q, x)' = 0
      <3>1. EmptyQueue # None /\ Occurrences(EmptyQueue.msgs, x) = 0
        BY EmptyWaits, OccursNone DEF EmptyQueue
      <3>2. one(q'.intr = x /\ apc' # "turn") = 0
        BY <1>0, <1>5 DEF EmptyQueue, one
      <3>3. Waiting(q, x)' = Occurrences(q'.msgs, x) + one(q'.intr = x /\ apc' # "turn")
        BY <1>5, <3>1 DEF Waiting
      <3> QED
        BY <1>5, <3>1, <3>2, <3>3
    <2>4. Waiting(disk, x)' = Waiting(disk, x)
      BY <1>5, <1>7 DEF Waiting, one
    <2> QED
      BY <1>0, <1>4, <2>1, <2>2, <2>3, <2>4 DEF Accounts, Paid, Numbers
  <1> QED
    BY <1>6, <1>7

(* The router's own steps. *)
LEMMA RouterPays ==
  ASSUME Inv, Inv', NEW x \in Items, Accounts(x),
         Drain \/ Reload \/ LoadRead \/ LoadSet \/ ChangeSeen \/ ForceCancel \/ AgentReturned
         \/ OnChannelChange
  PROVE  Accounts(x)'
  <1> USE DEF routerVars, mergeVars, bridgeVars, agentVars, queueVars, histVars, bounds
  <1>0. /\ TypeOK /\ TypeOK' /\ x # None /\ x # "off" /\ iter \in Iterations
        /\ rpc \in {"drain", "reload"} => hand[iter] = "off"
    BY Terms DEF Inv, Control
  <1>n. Numbers(x) /\ Numbers(x)'
    BY Terms
  <1>1. /\ UNCHANGED <<iter, userHand, held, fresh, nx, buf, handled>>
        /\ UNCHANGED <<cuts, apc, disk>>
    BY DEF Drain, Reload, LoadRead, LoadSet, ChangeSeen, ForceCancel, AgentReturned, OnChannelChange
  <1>2. Cells(hand', x) = Cells(hand, x)
    <2>1. CASE Reload
      <3>1. changesTo(hand, iter, None, hand')
        BY <2>1 DEF Reload, changesTo
      <3>2. Cells(hand', x) = Cells(hand, x) - one(hand[iter] = x) + one(None = x)
        BY <1>0, <3>1, HandChange
      <3>3. one(hand[iter] = x) = 0 /\ one(None = x) = 0
        BY <1>0, <2>1 DEF Reload, one
      <3> QED
        BY <1>n, <3>2, <3>3 DEF Numbers
    <2>2. CASE ~Reload
      <3>1. hand' = hand
        BY <2>2 DEF Drain, LoadRead, LoadSet, ChangeSeen, ForceCancel, AgentReturned, OnChannelChange
      <3> QED
        BY <3>1
    <2> QED
      BY <2>1, <2>2
  <1>3. Elsewhere(x)' <= Elsewhere(x)
    BY <1>n, <1>1, <1>2 DEF Elsewhere, InHands, isOut, Numbers, one
  <1>4. CASE q' = q /\ loaded' = loaded
    BY <1>0, <1>1, <1>3, <1>4, StaysPaid
  <1>5. CASE LoadRead \/ LoadSet
    <2>1. /\ Waiting(disk, x)' = Waiting(disk, x)
          /\ Waiting(q, x)' \in {Waiting(q, x), Waiting(loaded, x)}
          /\ Waiting(loaded, x)' \in {0, Waiting(disk, x)}
      <3>1. CASE LoadRead
        <4>1. loaded' = disk /\ q' = q
          BY <3>1 DEF LoadRead
        <4> QED
          BY <1>1, <4>1 DEF Waiting, one
      <3>2. CASE LoadSet
        <4>1. q' = (IF loaded = None THEN q ELSE loaded) /\ loaded' = None
          BY <3>2 DEF LoadSet
        <4> QED
          BY <1>1, <4>1 DEF Waiting, one
      <3> QED
        BY <1>5, <3>1, <3>2
    <2>2. Credit(x)' = Credit(x)
      BY <1>1 DEF Credit
    <2> QED
      BY <1>n, <1>3, <2>1, <2>2 DEF Accounts, Paid, Numbers
  <1> QED
    BY <1>4, <1>5 DEF Drain, Reload, ChangeSeen, ForceCancel, AgentReturned, OnChannelChange

(* The agent starts, with m in its buffer. *)
LEMMA StartPays ==
  ASSUME Inv, Inv', NEW x \in Items, NEW m \in Items \cup {None}, startAgent(m)
  PROVE  Cells(buf', <<x>>) <= Cells(buf, <<x>>) + one(m = x) /\ one(held' = x) = 0
  <1>0. /\ TypeOK /\ x # None /\ iter \in Iterations
    BY Terms
  <1> DEFINE b == IF m = None THEN <<>> ELSE <<m>>
  <1>1. changesTo(buf, iter, b, buf') /\ held' = None
    BY DEF startAgent, changesTo
  <1>2. one(b = <<x>>) = one(m = x)
    BY <1>0 DEF one
  <1> HIDE DEF b
  <1>3. Cells(buf', <<x>>) = Cells(buf, <<x>>) - one(buf[iter] = <<x>>) + one(b = <<x>>)
    BY <1>0, <1>1, BufferChange
  <1>4. Cells(buf, <<x>>) \in Nat
    BY CellsNat
  <1> QED
    BY <1>0, <1>1, <1>2, <1>3, <1>4 DEF one

LEMMA FirstPays ==
  ASSUME Inv, Inv', NEW x \in Items, Accounts(x), NEW m \in Messages, FirstMessage(m)
  PROVE  Accounts(x)'
  <1> USE DEF routerVars, mergeVars, bridgeVars, agentVars, queueVars, histVars, bounds
  <1>0. TypeOK /\ TypeOK' /\ x # None /\ m \in Items \cup {None}
    BY Terms DEF Items
  <1>n. Numbers(x) /\ Numbers(x)'
    BY Terms
  <1>1. Cells(hand', x) + one(userHand' = x) + one(m = x) = Cells(hand, x) + one(userHand = x)
    BY <1>0, ReceivePays DEF FirstMessage
  <1>2. Cells(buf', <<x>>) <= Cells(buf, <<x>>) + one(m = x) /\ one(held' = x) = 0
    BY <1>0, StartPays DEF FirstMessage
  <1>3. UNCHANGED <<iter, fresh, nx, handled>>
    BY DEF FirstMessage
  <1>4. Elsewhere(x)' <= Elsewhere(x)
    BY <1>n, <1>1, <1>2, <1>3 DEF Elsewhere, InHands, isOut, Numbers, one
  <1>5. UNCHANGED <<q, disk, loaded, cuts>> /\ apc # "turn"
    BY DEF FirstMessage, Inv, Control
  <1> QED
    BY <1>0, <1>4, <1>5, StaysPaid

LEMMA IterationEndPays ==
  ASSUME Inv, Inv', NEW x \in Items, Accounts(x), IterationEnds
  PROVE  Accounts(x)'
  <1> USE DEF routerVars, mergeVars, bridgeVars, agentVars, queueVars, histVars, bounds
  <1>0. /\ TypeOK /\ TypeOK' /\ x # None /\ iter \in Iterations /\ iter' \in Iterations
        /\ apc # "turn" /\ loaded = None
        /\ \A i \in Iterations : nx[i].st = "done" => i = iter
    BY Terms DEF Inv, Control, IterationEnds
  <1>n. Numbers(x) /\ Numbers(x)'
    BY Terms
  <1>1. one(isOut(x)') = 0 /\ one(userHand' = x) = 0
    <2>1. iter' # iter /\ nx' = nx /\ userHand' = None
      BY <1>0 DEF IterationEnds, Iterations
    <2> QED
      BY <1>0, <2>1 DEF isOut, one
  <1>2. UNCHANGED <<hand, held, fresh, buf, handled>>
    BY DEF IterationEnds
  <1>3. Elsewhere(x)' <= Elsewhere(x)
    BY <1>n, <1>1, <1>2 DEF Elsewhere, InHands, Numbers, one
  <1>4. UNCHANGED <<loaded, cuts>>
    BY DEF IterationEnds
  <1>5. CASE saveQueue([q EXCEPT !.intr = None])
    BY <1>0, <1>3, <1>4, <1>5, MarkerPays
  <1>6. CASE q' = q /\ disk' = disk
    BY <1>0, <1>3, <1>4, <1>6, StaysPaid
  <1> QED
    BY <1>5, <1>6 DEF IterationEnds

(* A marker becomes the first message, or is dropped. *)
LEMMA DecidePays ==
  ASSUME Inv, Inv', NEW x \in Items, Accounts(x), Decide
  PROVE  Accounts(x)'
  <1> USE DEF routerVars, mergeVars, bridgeVars, agentVars, queueVars, histVars, bounds
  <1>0. TypeOK /\ TypeOK' /\ x # None /\ apc = "off" /\ loaded = None /\ held = None
    BY Terms DEF Inv, Control, Decide
  <1>n. Numbers(x) /\ Numbers(x)'
    BY Terms
  <1>1. UNCHANGED <<iter, hand, userHand, fresh, nx, handled>> /\ UNCHANGED <<cuts, loaded>>
    BY DEF Decide
  <1>2. q.intr \in Items \cup {None} /\ None \in Items \cup {None}
    BY <1>0 DEF TypeOK, QueueStates, Items
  <1>3. CASE q.intr # None /\ startAgent(q.intr)
    <2>1. Cells(buf', <<x>>) <= Cells(buf, <<x>>) + one(q.intr = x) /\ one(held' = x) = 0
      BY <1>2, <1>3, StartPays
    <2>2. one(q.intr = x) \in Nat /\ one(held = x) = 0
      BY <1>0 DEF one
    <2>3. Elsewhere(x)' <= Elsewhere(x) + one(q.intr = x)
      BY <1>n, <1>1, <2>1, <2>2 DEF Elsewhere, InHands, isOut, Numbers, one
    <2>4. q'.msgs = q.msgs /\ q'.intr = None /\ disk' = q' /\ q' # None
      BY <1>0, <1>3 DEF Decide, saveQueue, TypeOK, QueueStates
    <2>5. Waiting(q, x) = Occurrences(q.msgs, x) + one(q.intr = x) /\ Occurrences(q.msgs, x) \in Nat
      <3>1. one(q.intr = x /\ apc # "turn") = one(q.intr = x)
        BY <1>0 DEF one
      <3> QED
        BY <1>0, <3>1, WaitingIs
    <2>6. Waiting(q, x)' = Occurrences(q.msgs, x) /\ Waiting(disk, x)' = Waiting(q, x)'
      <3>1. one(q'.intr = x /\ apc' # "turn") = 0
        BY <1>0, <2>4 DEF one
      <3>2. Waiting(q, x)' = Occurrences(q'.msgs, x) + one(q'.intr = x /\ apc' # "turn")
        BY <2>4 DEF Waiting
      <3>3. Waiting(disk, x)' = Waiting(q, x)'
        BY <2>4 DEF Waiting
      <3> QED
        BY <2>4, <2>5, <3>1, <3>2, <3>3
    <2>7. Waiting(loaded, x)' = 0 /\ Credit(x)' = Credit(x)
      BY <1>0, <1>1 DEF Waiting, Credit
    <2> QED
      BY <1>n, <2>2, <2>3, <2>5, <2>6, <2>7 DEF Accounts, Paid, Numbers
  <1>4. CASE startAgent(None) \/ UNCHANGED <<buf, held>>
    <2>1. Elsewhere(x)' <= Elsewhere(x)
      <3>1. CASE startAgent(None)
        <4>1. Cells(buf', <<x>>) <= Cells(buf, <<x>>) + one(None = x) /\ one(held' = x) = 0
          BY <1>2, <3>1, StartPays
        <4>2. one(None = x) = 0
          BY <1>0 DEF one
        <4> QED
          BY <1>n, <1>1, <4>1, <4>2 DEF Elsewhere, InHands, isOut, Numbers, one
      <3>2. CASE UNCHANGED <<buf, held>>
        BY <1>n, <1>1, <3>2 DEF Elsewhere, InHands, isOut, Numbers
      <3> QED
        BY <1>4, <3>1, <3>2
    <2>2. CASE q.intr = None
      BY <1>0, <1>1, <2>1, <2>2, StaysPaid DEF Decide
    <2>3. CASE q.intr # None
      <3>1. saveQueue([q EXCEPT !.intr = None])
        BY <2>3 DEF Decide
      <3> QED
        BY <1>0, <1>1, <2>1, <3>1, MarkerPays
    <2> QED
      BY <2>2, <2>3
  <1> QED
    BY <1>3, <1>4 DEF Decide

LEMMA StandsStill ==
  ASSUME Inv, Inv', NEW x \in Items, Accounts(x), UNCHANGED vars
  PROVE  Accounts(x)'
  <1>1. UNCHANGED <<iter, hand, userHand, held, fresh, nx, buf, handled>>
    BY DEF vars
  <1>2. UNCHANGED <<q, disk, loaded, cuts, apc>>
    BY DEF vars
  <1>n. Numbers(x) /\ Numbers(x)' /\ TypeOK /\ TypeOK'
    BY Terms
  <1>3. Elsewhere(x)' <= Elsewhere(x)
    BY <1>n, <1>1 DEF Elsewhere, InHands, isOut, Numbers
  <1> QED
    BY <1>n, <1>2, <1>3, StaysPaid

LEMMA TallyInit == Init => Tally
  <1> SUFFICES ASSUME Init, NEW x \in Items PROVE Accounts(x)
    BY DEF Tally
  <1>0. TypeOK /\ x # None /\ x # "off" /\ 1 \in Iterations
    BY TypedInit DEF Inv, Iterations
  <1>1. Cells(hand, x) = 0 /\ Cells(buf, <<x>>) = 0
    <2>1. /\ \A i \in Iterations : hand[i] # x
          /\ \A i \in Iterations : buf[i] # <<x>>
      BY <1>0 DEF Init
    <2> QED
      BY <2>1, CellsNone
  <1>2. Occurrences(handled, x) = 0 /\ Occurrences(cuts, x) = 0
    BY OccursNone DEF Init
  <1>3. InHands(x) = one(x \in Messages)
    <2>1. ~isOut(x)
      BY <1>0 DEF Init, isOut, NoNext
    <2>2. userHand # x /\ held # x /\ fresh = Messages
      BY <1>0 DEF Init
    <2> QED
      BY <2>1, <2>2 DEF InHands, one
  <1>4. one(x \in Messages) <= Credit(x)
    BY <1>2 DEF one, Credit, Items
  <1>5. Waiting(q, x) = 0 /\ Waiting(disk, x) = 0 /\ Waiting(loaded, x) = 0
    <2>1. q = EmptyQueue /\ disk = None /\ loaded = None
      BY DEF Init
    <2> QED
      BY <2>1, EmptyWaits DEF Waiting
  <1>6. Elsewhere(x) = one(x \in Messages)
    BY <1>1, <1>2, <1>3 DEF Elsewhere, one
  <1> QED
    BY <1>4, <1>5, <1>6 DEF Accounts, Paid, one

LEMMA TallyStep == Inv /\ Inv' /\ Tally /\ [Next]_vars => Tally'
  <1> SUFFICES ASSUME Inv, Inv', Tally, [Next]_vars PROVE Tally'
    OBVIOUS
  <1>1. ASSUME NEW x \in Items PROVE Accounts(x)'
    <2>1. Accounts(x)
      BY DEF Tally
    <2>2. CASE UNCHANGED vars
      BY <2>1, <2>2, StandsStill
    <2>3. CASE RouterStep
      BY <2>1, <2>3, RouterPays, DecidePays, IterationEndPays DEF RouterStep
    <2>4. CASE BridgeStep
      BY <2>1, <2>4, BridgePays
    <2>5. CASE AgentStep \/ AgentExits("idle") \/ AgentOAuth \/ TurnReads \/ TurnEnds
      BY <2>1, <2>5, WaitPays, TurnPays, TurnIsCutPays DEF AgentStep
    <2>6. CASE \E m \in Messages : FirstMessage(m) \/ UserMergeTakes(m)
      BY <2>1, <2>6, FirstPays, UserMergePays
    <2>7. CASE \E i \in Iterations : MergeStep(i) \/ NextStep(i)
      BY <2>1, <2>7, MergePays, NextPays
    <2>8. CASE OnChannelChange \/ Crash
      BY <2>1, <2>8, RouterPays, CrashPays
    <2> QED
      BY <2>2, <2>3, <2>4, <2>5, <2>6, <2>7, <2>8 DEF Next
  <1> QED
    BY <1>1 DEF Tally

(***************************************************************************)
(* A signal is dropped only by Drain, which a reload follows, and by       *)
(* ChangeSeen, which ends the iteration.                                   *)
(***************************************************************************)
LEMMA SignalStep == Inv /\ StaleIsSignalled /\ [Next]_vars => StaleIsSignalled'
  <1> SUFFICES ASSUME Inv, StaleIsSignalled, [Next]_vars PROVE StaleIsSignalled'
    OBVIOUS
  <1> USE DEF StaleIsSignalled, routerVars
  <1>1. CASE UNCHANGED routerVars
    BY <1>1
  <1>2. CASE UNCHANGED vars
    BY <1>2 DEF vars
  <1>3. CASE RouterStep
    BY <1>3
    DEF RouterStep, Drain, Reload, LoadRead, LoadSet, Decide, ChangeSeen, ForceCancel,
        AgentReturned, IterationEnds, startAgent, signalKept
  <1>4. ASSUME NEW m \in Messages, FirstMessage(m) PROVE StaleIsSignalled'
    BY <1>4 DEF FirstMessage, startAgent, signalKept
  <1>5. CASE OnChannelChange \/ Crash
    BY <1>5 DEF OnChannelChange, Crash
  <1>6. ASSUME BridgeStep \/ AgentStep \/ (\E i \in Iterations : MergeStep(i) \/ NextStep(i))
               \/ (\E m \in Messages : UserMergeTakes(m)) \/ TurnReads \/ TurnEnds
               \/ AgentExits("idle") \/ AgentOAuth
        PROVE  UNCHANGED routerVars
    BY <1>6
    DEF BridgeStep, BridgeReads, BridgeIntercepts, BridgeSends, BridgeEnds, AgentStep,
        AgentCallsNext, AgentExits, AgentOAuth, AgentOAuthGoesOn, AgentReceives, TurnReads,
        TurnEnds, TurnIsCut, MergeStep, MergeTakes, MergeRequeues, MergeEnds, UserMergeTakes,
        NextStep, NextReads, NextDequeues, NextCancelled
  <1> QED
    BY <1>1, <1>2, <1>3, <1>4, <1>5, <1>6 DEF Next

(* What is in order in every state. *)
LoopInv == Inv /\ Tally /\ StaleIsSignalled

LEMMA TallySuffices == LoopInv => LoopOK
  <1> SUFFICES ASSUME LoopInv PROVE LoopOK
    OBVIOUS
  <1>1. ASSUME NEW x \in Items PROVE Occurrences(handled, x) <= Credit(x)
    <2>1. Numbers(x) /\ Accounts(x)
      BY TermsNat DEF LoopInv, Inv, Tally, AllNumbers
    <2>2. InHands(x) \in Nat
      BY <2>1 DEF Numbers
    <2>3. Occurrences(handled, x) <= Elsewhere(x)
      BY <2>1 DEF Numbers, Elsewhere
    <2> QED
      BY <2>1, <2>3 DEF Accounts, Paid, Numbers
  <1>2. HandledOnce
    BY <1>1 DEF HandledOnce, Credit, Items
  <1>3. ResumeIsOwed
    BY <1>1 DEF ResumeIsOwed, Credit, Items
  <1> QED
    BY <1>2, <1>3 DEF LoopInv, Inv, LoopOK

(***************************************************************************)
(* Whatever goroutines outlive their iteration, and wherever the process   *)
(* dies: no message gets two turns, a channel is resumed at most once for  *)
(* each of its turns that was cut, and a change of the configuration stays *)
(* signalled until the loop restarts with it.                              *)
(***************************************************************************)
THEOREM LoopIsSound == Spec => []LoopOK
  <1>1. Init => LoopInv
    BY TypedInit, TallyInit DEF LoopInv, Init, StaleIsSignalled
  <1>2. LoopInv /\ [Next]_vars => LoopInv'
    BY TypedStep, TallyStep, SignalStep DEF LoopInv
  <1> QED
    BY <1>1, <1>2, TallySuffices, PTL DEF Spec

-----------------------------------------------------------------------------
(* The life of a channel.                                                  *)
(*                                                                         *)
(* LifeInv is the invariant that steps keep.  Away from a name where       *)
(* something failed or two operations met, one process is at the name      *)
(* (Alone), and what configuration, tokens, teardown states and bots hold  *)
(* of it is what the process is at (NamesSound); a transport whose bot was *)
(* deleted has somebody who tells the router (Told), and activity on       *)
(* record a message behind it (Heard).                                     *)
(*                                                                         *)
(* First the types, and what a process may be at: which operation, on      *)
(* which name, holding which bot.                                          *)

Links == (SUBSET Names) \cup {Nothing}
BotOrNothing == Bots \cup {Nothing}
ownedBy(b, n) == b # Nothing => b \in 1 .. minted /\ ownerOf[b] = n

LifeTyped ==
    /\ config \in [Names -> Links]
    /\ secret \in [Names -> BotOrNothing] /\ live \in [Names -> BotOrNothing]
    /\ runtime \in [Names -> [bot : BotOrNothing, at : BOOLEAN]]
    /\ minted \in 0 .. MaxBots /\ bots \subseteq 1 .. minted
    /\ ownerOf \in [Bots -> Names \cup {Nothing}]
    /\ \A b \in 1 .. minted : ownerOf[b] \in Names
    /\ \A n \in Names : /\ ownedBy(secret[n], n) /\ ownedBy(live[n], n)
                        /\ ownedBy(runtime[n].bot, n)
    /\ registry \subseteq Names /\ bootList \subseteq Names /\ current \subseteq Names
    /\ tracker \in [Names -> {"unknown", "active", "idle"}]
    /\ signal \in BOOLEAN /\ phase \in {"reload", "reconcile", "running", "down"}

Provisioning == {"reconcile", "minted", "sealed", "ready", "unready", "aborted"}
TearingDown == {"tearing", "unconfigure", "forget", "unseal", "removed"}

Fits(p, w) ==
    \/ w = Rest
    \/ /\ w.kind = "create" /\ p \in Callers
       /\ w.at \in Provisioning \cup {"adding"} /\ w.list = {} /\ ~ w.stale
    \/ /\ (w.kind = "delete" /\ p \in Callers) \/ (w.kind = "confirmed" /\ p = Bridge)
       /\ w.at \in TearingDown /\ w.list = {}
    \/ w.kind = "reap" /\ p = Reaper /\ w.at \in TearingDown \cup {"reaping"}
    \/ w.kind = "iterate" /\ p = Router /\ w.at \in Provisioning \cup {"picking"}

Shape(p, w) ==
    /\ w \in Work
    /\ Fits(p, w)
    /\ (w.name = Nothing) <=> (w.at \in {"rest", "reaping", "picking"})
    /\ w.at \in {"minted", "sealed", "tearing"} => w.bot # Nothing
    /\ w.at \notin {"minted", "sealed"} \cup TearingDown => w.bot = Nothing
    /\ ownedBy(w.bot, w.name)

Shaped ==
    /\ work \in [Procs -> Work]
    /\ \A p \in Procs : Shape(p, work[p])
    /\ phase # "reconcile" => work[Router] = Rest

-----------------------------------------------------------------------------
(* One process at most is at a name where nothing failed and no two met.   *)
Alone ==
    \A n \in Names \ disturbed : \A p, o \in Procs : worksOn(p, n) /\ worksOn(o, n) => p = o

(* A name at rest: its token and its teardown state name the same bot,     *)
(* which exists; without a configuration there is neither.                 *)
Rested(n) ==
    /\ secret[n] = runtime[n].bot
    /\ config[n] = Nothing => secret[n] = Nothing
    /\ secret[n] # Nothing => secret[n] \in bots

(* And between the writes of an operation on it.                           *)
Midway(w) ==
    LET n == w.name
    IN  /\ w.at # "aborted"
        /\ w.at \in {"adding", "reconcile", "ready", "unready", "tearing"} => Rested(n)
        /\ w.at = "reconcile" /\ ~ w.stale => config[n] # Nothing
        /\ w.at \in {"minted", "sealed"} =>
              /\ config[n] # Nothing /\ runtime[n].bot = Nothing /\ w.bot \in bots
              /\ secret[n] = IF w.at = "minted" THEN Nothing ELSE w.bot
        /\ w.at = "tearing" => w.bot = runtime[n].bot
        /\ w.at \in TearingDown \ {"tearing"} => w.bot \notin bots /\ secret[n] \notin bots
        /\ w.at \in {"unconfigure", "forget"} => secret[n] = runtime[n].bot
        /\ w.at \in {"unseal", "removed"} => runtime[n].bot = Nothing
        /\ w.at = "removed" => secret[n] = Nothing
        /\ config[n] = Nothing /\ w.at = "unconfigure" => secret[n] = Nothing
        /\ w.at \in {"forget", "unseal", "removed"} => config[n] = Nothing

heldAt(b, n) == \E p \in Procs : work[p].name = n /\ work[p].bot = b

Sound(n) ==
    /\ (\A p \in Procs : work[p].name # n) => Rested(n)
    /\ \A p \in Procs : work[p].name = n => Midway(work[p])
    /\ \A b \in bots : ownerOf[b] = n => runtime[n].bot = b \/ heldAt(b, n)
    /\ n \in work[Router].list /\ ~ work[Router].stale => config[n] # Nothing

NamesSound == \A n \in Names \ disturbed : Sound(n)

(* Whose transport is on a deleted bot: the router was told, or will be.   *)
tellsOf(w, n) ==
    /\ w.name = n
    /\ w.at \in {"forget", "unseal", "removed"} \/ (w.at = "unconfigure" /\ config[n] # Nothing)

Told ==
    /\ phase # "running" => \A n \in Names : live[n] = Nothing
    /\ \A n \in Names \ disturbed :
          live[n] # Nothing /\ live[n] \notin bots =>
              signal \/ n \in work[Reaper].done \/ \E p \in Procs : tellsOf(work[p], n)

(* Activity is on record only of a name that was spoken on, or had a       *)
(* record when it was created.                                             *)
Heard ==
    /\ \A n \in Names : tracker[n] # "unknown" \/ runtime[n].at => n \in spoken \cup inherited
    /\ ReapsOnlyTheIdle

LifeInv == LifeTyped /\ Shaped /\ Alone /\ NamesSound /\ Told /\ Heard /\ MintsAreWanted

-----------------------------------------------------------------------------
(* The constants.                                                          *)
LEMMA LifeConstants ==
    /\ Callers \subseteq Procs /\ Bridge \in Procs /\ Reaper \in Procs /\ Router \in Procs
    /\ Bridge \notin Callers /\ Reaper \notin Callers /\ Router \notin Callers
    /\ Bridge # Reaper /\ Bridge # Router /\ Reaper # Router
    /\ Procs = Callers \cup {Bridge, Reaper, Router}
    /\ Nothing \notin Bots /\ Nothing \notin Names /\ Nothing \notin SUBSET Names
    /\ MaxBots \in Nat /\ Bots = 1 .. MaxBots
  BY ChannelsAssumption DEF Procs, Bots

LEMMA RestIs ==
    /\ Rest \in Work /\ Rest.at = "rest" /\ Rest.kind = "none" /\ Rest.name = Nothing
    /\ Rest.bot = Nothing /\ Rest.list = {} /\ Rest.done = {} /\ Rest.stale = FALSE
    /\ \A p : Shape(p, Rest)
  BY DEF Rest, Work, Shape, Fits, ownedBy, TearingDown

(* One process moves.                                                      *)
LEMMA Moved ==
    ASSUME Shaped, NEW p \in Procs, NEW w, work' = [work EXCEPT ![p] = w]
    PROVE  work'[p] = w /\ \A o \in Procs : o # p => work'[o] = work[o]
  BY DEF Shaped

LEMMA ShapedMoves ==
    ASSUME LifeTyped, Shaped, NEW p \in Procs, NEW w, work' = [work EXCEPT ![p] = w],
           Shape(p, w), UNCHANGED <<minted, ownerOf>>,
           phase' = phase, p = Router => phase = "reconcile"
    PROVE  Shaped'
<1>1. work'[p] = w /\ \A o \in Procs : o # p => work'[o] = work[o]
  BY Moved
<1>2. work' \in [Procs -> Work]
  BY DEF Shaped, Shape
<1>3. \A o \in Procs : Shape(o, work'[o])
  BY <1>1 DEF Shaped
<1>4. \A o \in Procs : Shape(o, work[o])'
  BY <1>3 DEF Shape, ownedBy
<1>5. phase' # "reconcile" => work'[Router] = Rest
  BY <1>1, LifeConstants DEF Shaped
<1> QED BY <1>2, <1>4, <1>5 DEF Shaped

(* A name is taken only from its list, or when no other process is at it.  *)
takes(p, w, n) ==
    w.name = n \/ n \in w.list => worksOn(p, n) \/ \A o \in Procs \ {p} : ~ worksOn(o, n)

LEMMA AloneMoves ==
    ASSUME Shaped, Alone, NEW p \in Procs, NEW w, work' = [work EXCEPT ![p] = w],
           disturbed \subseteq disturbed', \A n \in Names \ disturbed' : takes(p, w, n)
    PROVE  Alone'
<1>1. work'[p] = w /\ \A o \in Procs : o # p => work'[o] = work[o]
  BY Moved
<1> SUFFICES ASSUME NEW n \in Names \ disturbed', NEW a \in Procs, NEW o \in Procs,
                    worksOn(a, n)', worksOn(o, n)'
             PROVE a = o
  BY DEF Alone
<1>2. n \in Names \ disturbed /\ takes(p, w, n)
  OBVIOUS
<1>3. \A c \in Procs : c # p => (worksOn(c, n)' <=> worksOn(c, n))
  BY <1>1 DEF worksOn
<1>4. worksOn(p, n)' => worksOn(p, n) \/ \A c \in Procs \ {p} : ~ worksOn(c, n)
  BY <1>1, <1>2 DEF worksOn, takes
<1>5. \A c, d \in Procs : worksOn(c, n) /\ worksOn(d, n) => c = d
  BY <1>2 DEF Alone
<1> QED BY <1>3, <1>4, <1>5

(* What a process moves to does not concern a name it neither leaves nor   *)
(* takes up.                                                               *)
LEMMA SoundElsewhere ==
    ASSUME LifeTyped, Shaped, NEW p \in Procs, NEW w, work' = [work EXCEPT ![p] = w],
           NEW n \in Names, Sound(n), work[p].name # n, w.name # n,
           (config'[n] = Nothing) <=> (config[n] = Nothing),
           secret'[n] = secret[n], runtime'[n].bot = runtime[n].bot,
           \A b \in 1 .. minted : ownerOf[b] = n => (b \in bots' <=> b \in bots),
           \A b \in bots' : ownerOf'[b] = n => b \in bots /\ ownerOf[b] = n,
           bots' \subseteq Bots,
           p = Router /\ n \in w.list /\ ~ w.stale => config[n] # Nothing
    PROVE  Sound(n)'
<1>1. work'[p] = w /\ \A o \in Procs : o # p => work'[o] = work[o]
  BY Moved
<1>2. \A o \in Procs : work'[o].name = n <=> work[o].name = n
  BY <1>1
<1>3. \A o \in Procs : work[o].name = n => work'[o] = work[o]
  BY <1>1
<1>4. \A b : ownedBy(b, n) => (b \in bots' <=> b \in bots)
  <2>1. bots \subseteq Bots /\ bots' \subseteq Bots /\ 1 .. minted \subseteq Bots
    BY LifeConstants DEF LifeTyped
  <2>2. \A b \in bots : ownerOf[b] \in Names
    BY DEF LifeTyped
  <2> SUFFICES ASSUME NEW b, ownedBy(b, n) PROVE b \in bots' <=> b \in bots
    OBVIOUS
  <2>3. CASE b = Nothing
    BY <2>1, <2>3, LifeConstants
  <2>4. CASE b \in 1 .. minted /\ ownerOf[b] = n
    BY <2>4
  <2> QED BY <2>1, <2>3, <2>4 DEF ownedBy
<1>5. Rested(n) => Rested(n)'
  BY <1>4 DEF Rested, LifeTyped
<1>6. (\A o \in Procs : work'[o].name # n) => Rested(n)'
  BY <1>2, <1>5 DEF Sound
<1>7. ASSUME NEW o \in Procs, work'[o].name = n PROVE Midway(work[o])'
  <2>1. work'[o] = work[o] /\ work[o].name = n
    BY <1>2, <1>3, <1>7
  <2>2. Midway(work[o])
    BY <2>1 DEF Sound
  <2>3. ownedBy(work[o].bot, n) /\ ownedBy(secret[n], n)
    BY <2>1 DEF Shaped, Shape, LifeTyped
  <2>4. (work[o].bot \in bots' <=> work[o].bot \in bots) /\ (secret[n] \in bots' <=> secret[n] \in bots)
    BY <2>3, <1>4
  <2> QED BY <2>1, <2>2, <2>4, <1>5 DEF Midway
<1>8. ASSUME NEW b \in bots', ownerOf'[b] = n PROVE runtime'[n].bot = b \/ heldAt(b, n)'
  <2>1. b \in bots /\ ownerOf[b] = n
    BY <1>8
  <2>2. runtime[n].bot = b \/ heldAt(b, n)
    BY <2>1 DEF Sound
  <2> QED BY <2>2, <1>2, <1>3 DEF heldAt
<1>9. n \in work'[Router].list /\ ~ work'[Router].stale => config'[n] # Nothing
  BY <1>1, LifeConstants DEF Sound
<1> QED BY <1>6, <1>7, <1>8, <1>9 DEF Sound

(* A name nobody else is at.                                               *)
LEMMA SoundHere ==
    ASSUME Shaped, NEW p \in Procs, NEW w, work' = [work EXCEPT ![p] = w], NEW n \in Names,
           \A o \in Procs \ {p} : work[o].name # n,
           w.name # n => Rested(n)',
           w.name = n => Midway(w)',
           \A b \in bots' : ownerOf'[b] = n => runtime'[n].bot = b \/ (w.name = n /\ w.bot = b),
           n \in work'[Router].list /\ ~ work'[Router].stale => config'[n] # Nothing
    PROVE  Sound(n)'
<1>1. work'[p] = w /\ \A o \in Procs : o # p => work'[o] = work[o]
  BY Moved
<1>2. (\A o \in Procs : work'[o].name # n) => Rested(n)'
  BY <1>1
<1>3. ASSUME NEW o \in Procs, work'[o].name = n PROVE Midway(work[o])'
  <2>1. o = p /\ work'[o] = w
    BY <1>1, <1>3
  <2> QED BY <2>1, <1>3 DEF Midway
<1>4. \A b \in bots' : ownerOf'[b] = n => runtime'[n].bot = b \/ heldAt(b, n)'
  BY <1>1 DEF heldAt
<1> QED BY <1>2, <1>3, <1>4 DEF Sound

(* No bot of n but the one its teardown state names.                       *)
onlyBot(n) == \A b \in bots : ownerOf[b] = n => runtime[n].bot = b

LEMMA SoundAlone ==
    ASSUME Shaped, Alone, NEW p \in Procs, NEW n \in Names \ disturbed, Sound(n), worksOn(p, n)
    PROVE  /\ \A o \in Procs \ {p} : work[o].name # n
           /\ \A b \in bots : ownerOf[b] = n => runtime[n].bot = b \/ (work[p].name = n /\ work[p].bot = b)
<1>1. \A o \in Procs \ {p} : work[o].name # n
  BY DEF Alone, worksOn
<1> QED BY <1>1 DEF Sound, heldAt

(* What a step of p to w has to see to: the name it leaves is at rest, the *)
(* name it takes is in the state of its step, what it signals.             *)
keeps(p, w) ==
    /\ \A n \in Names \ disturbed' :
          /\ takes(p, w, n)
          /\ work[p].name = n /\ w.name # n => Rested(n) /\ onlyBot(n)
          /\ w.name = n =>
                Midway(w) /\ \A b \in bots : ownerOf[b] = n => runtime[n].bot = b \/ w.bot = b
    /\ p = Router /\ ~ w.stale => \A n \in w.list \ disturbed' : config[n] # Nothing
tells(p, w) ==
    \A n \in Names \ disturbed' :
        tellsOf(work[p], n) \/ (p = Reaper /\ n \in work[p].done) =>
            signal' \/ (p = Reaper /\ n \in w.done) \/ tellsOf(w, n)
reapsIdle(p, w) ==
    p = Reaper /\ w.at \in {"tearing", "unconfigure"} =>
        \A n \in Names : w.name = n => n \in spoken \cup inherited \cup disturbed'

LEMMA NamesMove ==
    ASSUME LifeTyped, Shaped, Alone, NamesSound,
           NEW p \in Procs, NEW w, work' = [work EXCEPT ![p] = w],
           disturbed \subseteq disturbed', UNCHANGED <<storeVars, botVars>>,
           keeps(p, w)
    PROVE  NamesSound'
<1> USE DEF storeVars, botVars, keeps
<1>0. work'[p] = w /\ \A o \in Procs : o # p => work'[o] = work[o]
  BY Moved
<1> SUFFICES ASSUME NEW n \in Names \ disturbed' PROVE Sound(n)'
  BY DEF NamesSound
<1>1. n \in Names \ disturbed /\ Sound(n)
  BY DEF NamesSound
<1>2. bots \subseteq Bots
  BY LifeConstants DEF LifeTyped
<1>3. CASE work[p].name # n /\ w.name # n
  BY <1>1, <1>2, <1>3, SoundElsewhere
<1>4. CASE work[p].name = n \/ w.name = n
  <2>1. \A o \in Procs \ {p} : work[o].name # n
    <3>1. CASE worksOn(p, n)
      BY <3>1, <1>1, SoundAlone
    <3>2. CASE ~ worksOn(p, n)
      BY <3>2, <1>4 DEF takes, worksOn
    <3> QED BY <3>1, <3>2
  <2>2. w.name # n => Rested(n)' /\ onlyBot(n)
    <3>1. Rested(n) => Rested(n)'
      BY DEF Rested
    <3> QED BY <3>1, <1>4
  <2>3. w.name = n => Midway(w)'
    BY DEF Midway, Rested
  <2>4. \A b \in bots' : ownerOf'[b] = n => runtime'[n].bot = b \/ (w.name = n /\ w.bot = b)
    BY <2>2 DEF onlyBot
  <2>5. n \in work'[Router].list /\ ~ work'[Router].stale => config'[n] # Nothing
    BY <1>0, <1>1, LifeConstants DEF Sound
  <2> QED BY <2>1, <2>2, <2>3, <2>4, <2>5, SoundHere
<1> QED BY <1>3, <1>4

LEMMA ToldMoves ==
    ASSUME Shaped, Told, NEW p \in Procs, NEW w, work' = [work EXCEPT ![p] = w],
           disturbed \subseteq disturbed', UNCHANGED <<live, bots, config, phase>>,
           signal => signal',
           tells(p, w)
    PROVE  Told'
<1> USE DEF tells
<1>0. work'[p] = w /\ \A o \in Procs : o # p => work'[o] = work[o]
  BY Moved
<1>1. \A n : \A o \in Procs : (o # p /\ tellsOf(work[o], n) => tellsOf(work[o], n)')
  BY <1>0 DEF tellsOf
<1>2. \A n : tellsOf(w, n) => tellsOf(work[p], n)'
  BY <1>0 DEF tellsOf
<1> SUFFICES ASSUME NEW n \in Names \ disturbed', live[n] # Nothing, live[n] \notin bots
             PROVE  signal' \/ n \in work'[Reaper].done \/ \E o \in Procs : tellsOf(work[o], n)'
  BY DEF Told
<1>3. signal \/ n \in work[Reaper].done \/ \E o \in Procs : tellsOf(work[o], n)
  BY DEF Told
<1>4. CASE signal
  BY <1>4
<1>5. CASE n \in work[Reaper].done
  <2>1. CASE p = Reaper
    BY <2>1, <1>0, <1>2, <1>5
  <2>2. CASE p # Reaper
    BY <2>2, <1>0, <1>5, LifeConstants
  <2> QED BY <2>1, <2>2
<1>6. ASSUME NEW o \in Procs, tellsOf(work[o], n)
      PROVE  signal' \/ n \in work'[Reaper].done \/ \E v \in Procs : tellsOf(work[v], n)'
  <2>1. CASE o = p
    BY <2>1, <1>0, <1>2, <1>6
  <2>2. CASE o # p
    BY <2>2, <1>1, <1>6
  <2> QED BY <2>1, <2>2
<1> QED BY <1>3, <1>4, <1>5, <1>6

LEMMA HeardMoves ==
    ASSUME Shaped, Heard, NEW p \in Procs, NEW w, work' = [work EXCEPT ![p] = w],
           disturbed \subseteq disturbed', UNCHANGED <<tracker, runtime, lifeVars>>,
           reapsIdle(p, w)
    PROVE  Heard'
<1> USE DEF reapsIdle
<1>0. work'[p] = w /\ \A o \in Procs : o # p => work'[o] = work[o]
  BY Moved
<1>1. ReapsOnlyTheIdle'
  BY <1>0, LifeConstants DEF Heard, ReapsOnlyTheIdle, lifeVars
<1> QED BY <1>1 DEF Heard, lifeVars

(* A step that writes nothing but what the process is at.                  *)
LEMMA WorkMoves ==
    ASSUME LifeInv, NEW p \in Procs, NEW w, work' = [work EXCEPT ![p] = w], Shape(p, w),
           UNCHANGED <<storeVars, botVars, memVars, roundVars, lifeVars, unwanted>>,
           signal' \in BOOLEAN, signal => signal', disturbed \subseteq disturbed',
           p = Router => phase = "reconcile",
           keeps(p, w),
           tells(p, w),
           reapsIdle(p, w)
    PROVE  LifeInv'
<1> USE DEF LifeInv
<1>1. UNCHANGED <<config, secret, runtime, bots, minted, ownerOf, registry, tracker, live,
                  bootList, current, phase, spoken, inherited>>
  BY DEF storeVars, botVars, memVars, roundVars, lifeVars
<1>2. LifeTyped'
  BY <1>1 DEF LifeTyped, ownedBy
<1>3. Shaped'
  BY <1>1, ShapedMoves
<1>4. Alone'
  BY AloneMoves DEF keeps
<1>5. NamesSound'
  <2>1. LifeTyped /\ Shaped /\ Alone /\ NamesSound /\ UNCHANGED <<storeVars, botVars>>
    OBVIOUS
  <2> QED BY <2>1, NamesMove
<1>6. Told'
  BY <1>1, ToldMoves
<1>7. Heard'
  BY <1>1, HeardMoves
<1>8. MintsAreWanted'
  BY DEF MintsAreWanted
<1> QED BY <1>2, <1>3, <1>4, <1>5, <1>6, <1>7, <1>8

-----------------------------------------------------------------------------
(* Of a process that is at a name where it is alone.                       *)
LEMMA AtName ==
    ASSUME LifeInv, NEW p \in Procs
    PROVE  LET n == work[p].name
           IN  /\ Shape(p, work[p]) /\ work[p] \in Work
               /\ n \in Names \cup {Nothing}
               /\ p = Router /\ work[p] # Rest => phase = "reconcile"
               /\ n \in Names \ disturbed =>
                     /\ Midway(work[p]) /\ Sound(n)
                     /\ \A o \in Procs \ {p} : work[o].name # n
                     /\ \A b \in bots : ownerOf[b] = n => runtime[n].bot = b \/ work[p].bot = b
<1> DEFINE n == work[p].name
<1>1. Shape(p, work[p]) /\ work[p] \in Work
  BY DEF LifeInv, Shaped
<1>2. n \in Names \cup {Nothing}
  BY <1>1 DEF Work
<1>3. ASSUME n \in Names \ disturbed
      PROVE  /\ Midway(work[p]) /\ Sound(n)
             /\ \A o \in Procs \ {p} : work[o].name # n
             /\ \A b \in bots : ownerOf[b] = n => runtime[n].bot = b \/ work[p].bot = b
  <2>1. Sound(n) /\ worksOn(p, n)
    BY <1>3 DEF LifeInv, NamesSound, worksOn
  <2> QED BY <2>1, <1>3, SoundAlone DEF LifeInv, Sound
<1> QED BY <1>1, <1>2, <1>3 DEF LifeInv, Shaped

(* A process that goes on with its name.                                   *)
LEMMA StaysAtName ==
    ASSUME LifeInv, NEW p \in Procs, NEW w, w.name = work[p].name, w.list \subseteq work[p].list,
           w.stale = work[p].stale, disturbed \subseteq disturbed',
           w.name \in Names \ disturbed' => Midway(w) /\ (w.bot = work[p].bot \/ onlyBot(w.name))
    PROVE  keeps(p, w)
<1>1. \A n : takes(p, w, n)
  BY DEF takes, worksOn
<1>2. ASSUME NEW n \in Names \ disturbed', w.name = n
      PROVE  \A b \in bots : ownerOf[b] = n => runtime[n].bot = b \/ w.bot = b
  BY <1>2, AtName DEF onlyBot
<1>3. p = Router /\ ~ w.stale => \A n \in w.list \ disturbed' : config[n] # Nothing
  <2> SUFFICES ASSUME p = Router, ~ w.stale, NEW n \in w.list \ disturbed' PROVE config[n] # Nothing
    OBVIOUS
  <2>1. n \in work[Router].list /\ ~ work[Router].stale /\ n \notin disturbed
    OBVIOUS
  <2>2. n \in Names
    BY <2>1, LifeConstants, AtName DEF Work
  <2> QED BY <2>1, <2>2 DEF LifeInv, NamesSound, Sound
<1> QED BY <1>1, <1>2, <1>3 DEF keeps

(* And one that leaves it.                                                 *)
LEMMA LeavesName ==
    ASSUME LifeInv, NEW p \in Procs, NEW w, w.name = Nothing, w.list \subseteq work[p].list,
           w.list = {} \/ w.stale = work[p].stale, disturbed \subseteq disturbed',
           work[p].name \in Names \ disturbed' => Rested(work[p].name) /\ onlyBot(work[p].name)
    PROVE  keeps(p, w)
<1>1. \A n \in Names : takes(p, w, n)
  BY LifeConstants DEF takes, worksOn
<1>2. p = Router /\ ~ w.stale => \A n \in w.list \ disturbed' : config[n] # Nothing
  <2> SUFFICES ASSUME p = Router, ~ w.stale, NEW n \in w.list \ disturbed' PROVE config[n] # Nothing
    OBVIOUS
  <2>1. n \in work[Router].list /\ ~ work[Router].stale /\ n \notin disturbed
    OBVIOUS
  <2>2. n \in Names
    BY <2>1, LifeConstants, AtName DEF Work
  <2> QED BY <2>1, <2>2 DEF LifeInv, NamesSound, Sound
<1> QED BY <1>1, <1>2, LifeConstants DEF keeps

LEMMA LooksInv == ASSUME LifeInv, NEW p \in Procs, Looks(p) PROVE LifeInv'
<1> DEFINE n == work[p].name
<1>1. PICK w : /\ work' = [work EXCEPT ![p] = w]
               /\ w \in {[work[p] EXCEPT !.at = "ready"], [work[p] EXCEPT !.at = "unready"]}
  BY DEF Looks
<1>2. /\ work[p].at = "reconcile" /\ Shape(p, work[p]) /\ work[p] \in Work
      /\ p = Router => phase = "reconcile"
  BY AtName, RestIs DEF Looks
<1>3. Shape(p, w)
  BY <1>1, <1>2 DEF Shape, Fits, Work, Rest, Provisioning, TearingDown, ownedBy
<1>4. /\ w.name = n /\ w.list = work[p].list /\ w.stale = work[p].stale /\ w.bot = work[p].bot
      /\ w.done = work[p].done /\ w.at \in {"ready", "unready"}
  BY <1>1, <1>2 DEF Work
<1>5. n \in Names \ disturbed => Midway(w)
  BY <1>2, <1>4, AtName DEF Midway, TearingDown
<1>6. UNCHANGED <<storeVars, botVars, memVars, roundVars, lifeVars, unwanted, signal, disturbed>>
  BY DEF Looks
<1>7. keeps(p, w)
  BY <1>4, <1>5, <1>6, StaysAtName
<1>8. tells(p, w) /\ reapsIdle(p, w)
  BY <1>2, <1>4 DEF tells, reapsIdle, tellsOf
<1>9. signal' \in BOOLEAN /\ (signal => signal') /\ disturbed \subseteq disturbed'
  BY <1>6 DEF LifeInv, LifeTyped
<1> QED BY <1>1, <1>2, <1>3, <1>6, <1>7, <1>8, <1>9, WorkMoves

LEMMA MintRefusedInv == ASSUME LifeInv, NEW p \in Procs, MintRefused(p) PROVE LifeInv'
<1> DEFINE w == [work[p] EXCEPT !.at = "unready"]
<1>1. work' = [work EXCEPT ![p] = w]
  BY DEF MintRefused
<1>2. /\ work[p].at = "reconcile" /\ Shape(p, work[p]) /\ work[p] \in Work
      /\ p = Router => phase = "reconcile"
  BY AtName, RestIs DEF MintRefused, provisions
<1>3. Shape(p, w)
  BY <1>1, <1>2 DEF Shape, Fits, Work, Rest, Provisioning, TearingDown, ownedBy
<1>4. /\ w.name = work[p].name /\ w.list = work[p].list /\ w.stale = work[p].stale
      /\ w.bot = work[p].bot /\ w.done = work[p].done /\ w.at = "unready"
  BY <1>1, <1>2 DEF Work
<1> HIDE DEF w
<1>5. w.name \in Names \ disturbed => Midway(w)
  BY <1>2, <1>4, AtName DEF Midway, TearingDown
<1>6. UNCHANGED <<storeVars, botVars, memVars, roundVars, lifeVars, unwanted, signal, disturbed>>
  BY DEF MintRefused
<1>7. keeps(p, w)
  BY <1>4, <1>5, <1>6, StaysAtName
<1>8. tells(p, w) /\ reapsIdle(p, w)
  BY <1>2, <1>4 DEF tells, reapsIdle, tellsOf
<1>9. signal' \in BOOLEAN /\ (signal => signal') /\ disturbed \subseteq disturbed'
  BY <1>6 DEF LifeInv, LifeTyped
<1> QED BY <1>1, <1>2, <1>3, <1>6, <1>7, <1>8, <1>9, WorkMoves

LEMMA StoreFailsInv == ASSUME LifeInv, NEW p \in Procs, StoreFails(p) PROVE LifeInv'
<1> DEFINE w == [work[p] EXCEPT !.at = IF @ = "minted" THEN "unready" ELSE "aborted", !.bot = Nothing]
<1>1. work' = [work EXCEPT ![p] = w]
  BY DEF StoreFails
<1>2. /\ work[p].at \in {"minted", "sealed"} /\ Shape(p, work[p]) /\ work[p] \in Work
      /\ p = Router => phase = "reconcile"
  BY AtName, RestIs DEF StoreFails
<1>4. /\ w.name = work[p].name /\ w.list = work[p].list /\ w.stale = work[p].stale
      /\ w.done = work[p].done /\ w.kind = work[p].kind /\ w.bot = Nothing
      /\ w.at \in {"unready", "aborted"} /\ w \in Work
  BY <1>1, <1>2 DEF Work
<1> HIDE DEF w
<1>3. Shape(p, w)
  BY <1>2, <1>4, RestIs DEF Shape, Fits, Provisioning, TearingDown, ownedBy
<1>5. disturbed' = disturbed \cup {w.name}
  BY <1>4 DEF StoreFails
<1>6. UNCHANGED <<storeVars, botVars, memVars, roundVars, lifeVars, unwanted, signal>>
  BY DEF StoreFails
<1>7. keeps(p, w)
  BY <1>4, <1>5, <1>6, StaysAtName
<1>8. tells(p, w) /\ reapsIdle(p, w)
  BY <1>2, <1>4 DEF tells, reapsIdle, tellsOf
<1>9. signal' \in BOOLEAN /\ (signal => signal') /\ disturbed \subseteq disturbed'
  BY <1>5, <1>6 DEF LifeInv, LifeTyped
<1> QED BY <1>1, <1>2, <1>3, <1>6, <1>7, <1>8, <1>9, WorkMoves

(* A name nobody is at, or that only waits in the list of the one who is.  *)
LEMMA FreshName ==
    ASSUME LifeInv, NEW p \in Procs, NEW n \in Names \ disturbed, work[p].name # n,
           worksOn(p, n) \/ \A o \in Procs \ {p} : ~ worksOn(o, n)
    PROVE  Rested(n) /\ onlyBot(n) /\ \A o \in Procs : work[o].name # n
<1>1. \A o \in Procs : work[o].name # n
  BY DEF LifeInv, Alone, worksOn
<1> QED BY <1>1 DEF LifeInv, NamesSound, Sound, onlyBot, heldAt

LEMMA NobodyElse ==
    ASSUME NEW p, NEW n, n \notin meets(p, n) PROVE \A o \in Procs \ {p} : ~ worksOn(o, n)
  BY DEF meets

LEMMA TearingIs ==
    ASSUME LifeTyped, NEW n \in Names, NEW w \in Work, NEW k \in {"delete", "confirmed", "reap"}
    PROVE  LET t == tearing(w, k, n)
           IN  /\ t \in Work /\ t.kind = k /\ t.name = n /\ t.bot = runtime[n].bot
               /\ t.list = w.list \ {n} /\ t.done = w.done /\ t.stale = w.stale
               /\ t.at = IF runtime[n].bot # Nothing THEN "tearing" ELSE "unconfigure"
               /\ ownedBy(t.bot, n)
               /\ Rested(n) => Midway(t)
<1> DEFINE t == tearing(w, k, n)
<1>1. /\ t \in Work /\ t.kind = k /\ t.name = n /\ t.bot = runtime[n].bot
      /\ t.list = w.list \ {n} /\ t.done = w.done /\ t.stale = w.stale
      /\ t.at = IF runtime[n].bot # Nothing THEN "tearing" ELSE "unconfigure"
  BY DEF tearing, Work, LifeTyped, BotOrNothing
<1>2. ownedBy(t.bot, n)
  BY <1>1 DEF LifeTyped
<1> HIDE DEF t
<1>3. Nothing \notin bots
  <2>1. bots \subseteq Bots
    BY LifeConstants DEF LifeTyped
  <2> QED BY <2>1, LifeConstants
<1>4. Rested(n) => Midway(t)
  BY <1>1, <1>3 DEF Midway, Rested, TearingDown
<1> QED BY <1>1, <1>2, <1>4 DEF t

LEMMA CreateBeginsInv ==
    ASSUME LifeInv, NEW p \in Callers, NEW n \in Names, NEW l \in SUBSET Names, CreateBegins(p, n, l)
    PROVE  LifeInv'
<1> DEFINE w == [Rest EXCEPT !.at = "adding", !.kind = "create", !.name = n, !.done = l]
<1>0. p \in Procs /\ p # Router /\ p # Reaper /\ work[p] = Rest
  BY LifeConstants DEF CreateBegins, callBegins
<1>1. work' = [work EXCEPT ![p] = w]
  BY DEF CreateBegins
<1>2. /\ w \in Work /\ w.at = "adding" /\ w.kind = "create" /\ w.name = n /\ w.bot = Nothing
      /\ w.list = {} /\ ~ w.stale
  BY RestIs DEF Work, Rest
<1> HIDE DEF w
<1>3. Shape(p, w)
  BY <1>2, LifeConstants DEF Shape, Fits, ownedBy, TearingDown
<1>4. disturbed' = disturbed \cup meets(p, n)
  BY DEF CreateBegins
<1>5. UNCHANGED <<storeVars, botVars, memVars, roundVars, lifeVars, unwanted, signal>>
  BY DEF CreateBegins
<1>6. n \notin disturbed' =>
         Rested(n) /\ onlyBot(n) /\ \A o \in Procs \ {p} : ~ worksOn(o, n)
  BY <1>0, <1>4, NobodyElse, FreshName, RestIs, LifeConstants
<1>7. keeps(p, w)
  <2>1. \A m \in Names \ disturbed' : takes(p, w, m)
    BY <1>2, <1>6 DEF takes
  <2>2. \A m \in Names : work[p].name # m
    BY <1>0, RestIs, LifeConstants
  <2>3. n \notin disturbed' => Midway(w) /\ \A b \in bots : ownerOf[b] = n => runtime[n].bot = b
    BY <1>2, <1>6 DEF Midway, TearingDown, onlyBot
  <2> QED BY <1>0, <1>2, <2>1, <2>2, <2>3 DEF keeps
<1>8. tells(p, w) /\ reapsIdle(p, w)
  BY <1>0, RestIs, LifeConstants DEF tells, reapsIdle, tellsOf
<1>9. signal' \in BOOLEAN /\ (signal => signal') /\ disturbed \subseteq disturbed'
  BY <1>4, <1>5 DEF LifeInv, LifeTyped
<1> QED BY <1>0, <1>1, <1>3, <1>5, <1>7, <1>8, <1>9, WorkMoves

(* A call or the bridge takes a channel down.                              *)
LEMMA DeletionBegins ==
    ASSUME LifeInv, NEW p \in Procs, NEW k, NEW n \in Names,
           (k = "delete" /\ p \in Callers) \/ (k = "confirmed" /\ p = Bridge),
           work[p] = Rest, work' = [work EXCEPT ![p] = tearing(Rest, k, n)],
           disturbed' = disturbed \cup meets(p, n),
           UNCHANGED <<storeVars, botVars, memVars, roundVars, lifeVars, unwanted, signal>>
    PROVE  LifeInv'
<1> DEFINE w == tearing(Rest, k, n)
<1>0. p # Router /\ p # Reaper
  BY LifeConstants
<1>2. /\ w \in Work /\ w.kind = k /\ w.name = n /\ w.list = {} /\ w.bot = runtime[n].bot
      /\ w.at = (IF runtime[n].bot # Nothing THEN "tearing" ELSE "unconfigure")
      /\ ownedBy(w.bot, n) /\ (Rested(n) => Midway(w))
  BY TearingIs, RestIs DEF LifeInv
<1> HIDE DEF w
<1>3. Shape(p, w)
  BY <1>2, LifeConstants DEF Shape, Fits, TearingDown
<1>6. n \notin disturbed' =>
         Rested(n) /\ onlyBot(n) /\ \A o \in Procs \ {p} : ~ worksOn(o, n)
  BY NobodyElse, FreshName, RestIs, LifeConstants
<1>7. keeps(p, w)
  <2>1. \A m \in Names \ disturbed' : takes(p, w, m)
    BY <1>2, <1>6 DEF takes
  <2>2. \A m \in Names : work[p].name # m
    BY RestIs, LifeConstants
  <2>3. n \notin disturbed' => Midway(w) /\ \A b \in bots : ownerOf[b] = n => runtime[n].bot = b
    BY <1>2, <1>6 DEF onlyBot
  <2> QED BY <1>0, <1>2, <2>1, <2>2, <2>3 DEF keeps
<1>8. tells(p, w) /\ reapsIdle(p, w)
  BY <1>0, RestIs, LifeConstants DEF tells, reapsIdle, tellsOf
<1>9. signal' \in BOOLEAN /\ (signal => signal') /\ disturbed \subseteq disturbed'
  BY DEF LifeInv, LifeTyped
<1>10. work' = [work EXCEPT ![p] = w]
  BY DEF w
<1> QED BY <1>0, <1>10, <1>3, <1>7, <1>8, <1>9, WorkMoves

LEMMA DeleteBeginsInv ==
    ASSUME LifeInv, NEW p \in Callers, NEW n \in Names, DeleteBegins(p, n) PROVE LifeInv'
<1>1. p \in Procs /\ work[p] = Rest
  BY LifeConstants DEF DeleteBegins, callBegins
<1> QED BY <1>1, DeletionBegins DEF DeleteBegins

LEMMA ConfirmBeginsInv == ASSUME LifeInv, NEW n \in Names, ConfirmBegins(n) PROVE LifeInv'
<1>1. Bridge \in Procs /\ work[Bridge] = Rest
  BY LifeConstants DEF ConfirmBegins, callBegins
<1> QED BY <1>1, DeletionBegins DEF ConfirmBegins

LEMMA ReaperTicksInv == ASSUME LifeInv, ReaperTicks PROVE LifeInv'
<1> DEFINE l == named(config) \cap Ephemeral
           w == [Rest EXCEPT !.at = "reaping", !.kind = "reap", !.list = l]
<1>0. Reaper \in Procs /\ Reaper # Router /\ work[Reaper] = Rest
  BY LifeConstants DEF ReaperTicks
<1>1. work' = [work EXCEPT ![Reaper] = w]
  BY DEF ReaperTicks
<1>2. /\ w \in Work /\ w.at = "reaping" /\ w.kind = "reap" /\ w.name = Nothing /\ w.bot = Nothing
      /\ w.list = l /\ l \subseteq Names /\ w.done = {}
  BY RestIs DEF Work, Rest, named
<1>4. disturbed' = disturbed \cup UNION {meets(Reaper, n) : n \in l}
  BY DEF ReaperTicks
<1> HIDE DEF w, l
<1>3. Shape(Reaper, w)
  BY <1>2 DEF Shape, Fits, ownedBy, TearingDown
<1>5. UNCHANGED <<storeVars, botVars, memVars, roundVars, lifeVars, unwanted, signal>>
  BY DEF ReaperTicks
<1>6. \A n \in l \ disturbed' : \A o \in Procs \ {Reaper} : ~ worksOn(o, n)
  BY <1>4, NobodyElse
<1>7. keeps(Reaper, w)
  <2>1. \A m \in Names \ disturbed' : takes(Reaper, w, m)
    BY <1>2, <1>6, LifeConstants DEF takes
  <2>2. \A m \in Names : work[Reaper].name # m /\ w.name # m
    BY <1>0, <1>2, RestIs, LifeConstants
  <2> QED BY <1>0, <2>1, <2>2 DEF keeps
<1>8. tells(Reaper, w) /\ reapsIdle(Reaper, w)
  BY <1>0, <1>2, RestIs, LifeConstants DEF tells, reapsIdle, tellsOf
<1>9. signal' \in BOOLEAN /\ (signal => signal') /\ disturbed \subseteq disturbed'
  BY <1>4, <1>5 DEF LifeInv, LifeTyped
<1> QED BY <1>0, <1>1, <1>3, <1>5, <1>7, <1>8, <1>9, WorkMoves

LEMMA ReaperChecksInv == ASSUME LifeInv, NEW n \in Names, ReaperChecks(n) PROVE LifeInv'
<1>0. /\ Reaper \in Procs /\ Reaper # Router /\ work[Reaper].at = "reaping"
      /\ n \in work[Reaper].list /\ work[Reaper] \in Work /\ Shape(Reaper, work[Reaper])
      /\ work[Reaper].name = Nothing /\ work[Reaper].bot = Nothing
      /\ work[Reaper].kind = "reap"
  BY LifeConstants, AtName, RestIs DEF ReaperChecks, Shape, TearingDown, Fits, Provisioning
<1>1. UNCHANGED <<storeVars, botVars, memVars, roundVars, lifeVars, unwanted, signal, disturbed>>
  BY DEF ReaperChecks
<1>2. signal' \in BOOLEAN /\ (signal => signal') /\ disturbed \subseteq disturbed'
  BY <1>1 DEF LifeInv, LifeTyped
<1>3. CASE idleFor(n)
  <2> DEFINE w == tearing(work[Reaper], "reap", n)
  <2>1. work' = [work EXCEPT ![Reaper] = w]
    BY <1>3 DEF ReaperChecks
  <2>2. /\ w \in Work /\ w.kind = "reap" /\ w.name = n /\ w.list = work[Reaper].list \ {n}
        /\ w.bot = runtime[n].bot /\ w.done = work[Reaper].done
        /\ w.at = (IF runtime[n].bot # Nothing THEN "tearing" ELSE "unconfigure")
        /\ ownedBy(w.bot, n) /\ (Rested(n) => Midway(w))
    BY <1>0, TearingIs DEF LifeInv
  <2> HIDE DEF w
  <2>3. Shape(Reaper, w)
    BY <2>2, LifeConstants DEF Shape, Fits, TearingDown
  <2>4. n \notin disturbed => Rested(n) /\ onlyBot(n)
    BY <1>0, FreshName, LifeConstants DEF worksOn
  <2>5. keeps(Reaper, w)
    <3>1. \A m \in Names \ disturbed' : takes(Reaper, w, m)
      BY <1>0, <2>2 DEF takes, worksOn
    <3>2. \A m \in Names : work[Reaper].name # m
      BY <1>0, LifeConstants
    <3>3. n \notin disturbed' => Midway(w) /\ \A b \in bots : ownerOf[b] = n => runtime[n].bot = b
      BY <1>1, <2>2, <2>4 DEF onlyBot
    <3> QED BY <1>0, <2>2, <3>1, <3>2, <3>3 DEF keeps
  <2>6. tells(Reaper, w)
    BY <1>0, <2>2, LifeConstants DEF tells, tellsOf
  <2>7. reapsIdle(Reaper, w)
    BY <1>3, <2>2 DEF reapsIdle, idleFor, LifeInv, Heard
  <2> QED BY <1>0, <1>1, <1>2, <2>1, <2>3, <2>5, <2>6, <2>7, WorkMoves
<1>4. CASE ~ idleFor(n)
  <2> DEFINE w == [work[Reaper] EXCEPT !.list = work[Reaper].list \ {n}]
  <2>1. work' = [work EXCEPT ![Reaper] = w]
    <3>1. work' = [work EXCEPT ![Reaper] = IF idleFor(n) THEN tearing(work[Reaper], "reap", n) ELSE w]
      BY DEF ReaperChecks
    <3> QED BY <3>1, <1>4
  <2>2. /\ w \in Work /\ w.kind = "reap" /\ w.name = Nothing /\ w.bot = Nothing /\ w.at = "reaping"
        /\ w.list \subseteq work[Reaper].list /\ w.done = work[Reaper].done
        /\ w.stale = work[Reaper].stale
    BY <1>0 DEF Work
  <2> HIDE DEF w
  <2>3. Shape(Reaper, w)
    BY <2>2 DEF Shape, Fits, TearingDown, ownedBy
  <2>5. keeps(Reaper, w)
    BY <1>0, <1>1, <2>2, LifeConstants, LeavesName
  <2>6. tells(Reaper, w) /\ reapsIdle(Reaper, w)
    BY <1>0, <2>2, LifeConstants DEF tells, tellsOf, reapsIdle
  <2> QED BY <1>0, <1>1, <1>2, <2>1, <2>3, <2>5, <2>6, WorkMoves
<1> QED BY <1>3, <1>4

-----------------------------------------------------------------------------
(* What follows a name.                                                    *)
LEMMA OverIs ==
    ASSUME NEW p \in Procs, NEW w, Shape(p, w), w.at \in TearingDown
    PROVE  /\ p # Router
           /\ Shape(p, over(w)) /\ over(w).name = Nothing /\ over(w).at \in {"rest", "reaping"}
           /\ over(w).list \subseteq w.list /\ (over(w).list = {} \/ over(w).stale = w.stale)
           /\ p = Reaper => over(w).done = w.done
<1>1. w \in Work /\ w.kind \in {"delete", "confirmed", "reap"} /\ (p = Reaper <=> w.kind = "reap")
      /\ p # Router
  BY LifeConstants, RestIs DEF Shape, Fits, TearingDown, Provisioning
<1>2. CASE w.kind = "reap"
  <2>1. over(w) = [w EXCEPT !.at = "reaping", !.name = Nothing, !.bot = Nothing]
    BY <1>2 DEF over
  <2> DEFINE v == over(w)
  <2>2. /\ v \in Work /\ v.at = "reaping" /\ v.name = Nothing /\ v.bot = Nothing /\ v.kind = "reap"
        /\ v.list = w.list /\ v.done = w.done /\ v.stale = w.stale
    BY <1>1, <1>2, <2>1 DEF Work
  <2> HIDE DEF v
  <2>3. Shape(p, v)
    BY <1>1, <1>2, <2>2 DEF Shape, Fits, ownedBy, TearingDown
  <2> QED BY <1>1, <2>2, <2>3 DEF v
<1>3. CASE w.kind # "reap"
  BY <1>1, <1>3, RestIs DEF over
<1> QED BY <1>2, <1>3

(* The deletion of a channel's bot, reported or not.                       *)
tellsThen(w, n) ==
    /\ w.name = n
    /\ w.at \in {"forget", "unseal", "removed"} \/ (w.at = "unconfigure" /\ config'[n] # Nothing)

LEMMA ToldSteps ==
    ASSUME Shaped, Told, NEW p \in Procs, NEW w, work' = [work EXCEPT ![p] = w],
           disturbed \subseteq disturbed', UNCHANGED <<live, phase>>, signal => signal',
           \A n \in Names \ disturbed' :
               /\ live[n] \in bots => live[n] \in bots' \/ tellsThen(w, n)
               /\ \A o \in Procs \ {p} :
                      work[o].name = n /\ config[n] # Nothing => config'[n] # Nothing
               /\ tellsOf(work[p], n) \/ (p = Reaper /\ n \in work[p].done) =>
                      signal' \/ (p = Reaper /\ n \in w.done) \/ tellsThen(w, n)
    PROVE  Told'
<1>0. work'[p] = w /\ \A o \in Procs : o # p => work'[o] = work[o]
  BY Moved
<1> SUFFICES ASSUME NEW n \in Names \ disturbed', live[n] # Nothing, live[n] \notin bots'
             PROVE  signal' \/ n \in work'[Reaper].done \/ \E o \in Procs : tellsOf(work[o], n)'
  BY DEF Told
<1>1. \A o \in Procs \ {p} : tellsOf(work[o], n) => tellsOf(work[o], n)'
  BY <1>0 DEF tellsOf
<1>2. tellsThen(w, n) => tellsOf(work[p], n)'
  BY <1>0 DEF tellsOf, tellsThen
<1>3. tellsThen(w, n) \/ signal \/ n \in work[Reaper].done \/ \E o \in Procs : tellsOf(work[o], n)
  BY DEF Told
<1>4. CASE tellsThen(w, n) \/ signal
  BY <1>2, <1>4
<1>5. CASE n \in work[Reaper].done
  <2>1. CASE p = Reaper
    BY <2>1, <1>0, <1>2, <1>5
  <2>2. CASE p # Reaper
    BY <2>2, <1>0, <1>5, LifeConstants
  <2> QED BY <2>1, <2>2
<1>6. ASSUME NEW o \in Procs, tellsOf(work[o], n)
      PROVE  signal' \/ n \in work'[Reaper].done \/ \E v \in Procs : tellsOf(work[v], n)'
  <2>1. CASE o = p
    BY <2>1, <1>0, <1>2, <1>6
  <2>2. CASE o # p
    BY <2>2, <1>1, <1>6
  <2> QED BY <2>1, <2>2
<1> QED BY <1>3, <1>4, <1>5, <1>6

LEMMA BotGoes ==
    ASSUME LifeInv, NEW p \in Procs, NEW w, work' = [work EXCEPT ![p] = w], Shape(p, w),
           work[p].at = "tearing", bots' \subseteq bots, \A b \in bots \ bots' : b = work[p].bot,
           UNCHANGED <<storeVars, minted, ownerOf, memVars, roundVars, lifeVars, signal, unwanted>>,
           disturbed \subseteq disturbed', w.list \subseteq work[p].list,
           p = Reaper => w.done = work[p].done,
           \/ w.name = Nothing /\ w.at \in {"rest", "reaping"} /\ work[p].name \in disturbed'
           \/ /\ w.name = work[p].name /\ w.at = "unconfigure" /\ w.bot = work[p].bot
              /\ w.bot \notin bots'
    PROVE  LifeInv'
<1> DEFINE m == work[p].name
<1>0. /\ Shape(p, work[p]) /\ work[p] \in Work /\ m \in Names /\ p # Router /\ work[p].bot # Nothing
      /\ ownedBy(work[p].bot, m)
  BY AtName, LifeConstants, RestIs DEF Shape, Fits, TearingDown, Provisioning
<1>1. UNCHANGED <<config, secret, runtime, minted, ownerOf, registry, tracker, live,
                  bootList, current, phase, spoken, inherited>>
  BY DEF storeVars, memVars, roundVars, lifeVars
<1>2. LifeTyped'
  BY <1>1 DEF LifeInv, LifeTyped, ownedBy
<1>3. Shaped'
  BY <1>0, <1>1, ShapedMoves DEF LifeInv
<1>4. Alone'
  <2>1. \A n \in Names : takes(p, w, n)
    BY LifeConstants DEF takes, worksOn
  <2> QED BY <2>1, AloneMoves DEF LifeInv
<1>5. NamesSound'
  <2> SUFFICES ASSUME NEW n \in Names \ disturbed' PROVE Sound(n)'
    BY DEF NamesSound
  <2>1. n \in Names \ disturbed /\ Sound(n)
    BY DEF LifeInv, NamesSound
  <2>2. CASE m # n
    <3>1. \A b \in bots \ bots' : ownerOf[b] # n
      BY <1>0, <2>2 DEF ownedBy
    <3>2. bots' \subseteq Bots
      BY LifeConstants DEF LifeInv, LifeTyped
    <3>3. w.name # n
      BY <2>2, LifeConstants
    <3> QED BY <1>0, <1>1, <2>1, <2>2, <3>1, <3>2, <3>3, SoundElsewhere DEF LifeInv
  <2>3. CASE m = n
    <3>1. w.name = n /\ w.at = "unconfigure" /\ w.bot \notin bots' /\ w.bot = work[p].bot
      BY <2>3
    <3>2. /\ Midway(work[p])
          /\ \A o \in Procs \ {p} : work[o].name # n
          /\ \A b \in bots : ownerOf[b] = n => runtime[n].bot = b \/ work[p].bot = b
      BY <2>1, <2>3, AtName
    <3>3. Rested(n) /\ work[p].bot = runtime[n].bot
      BY <3>2, <2>3 DEF Midway
    <3>4. Midway(w)'
      BY <3>1, <3>3, <1>1 DEF Midway, Rested, TearingDown
    <3>5. n \in work'[Router].list /\ ~ work'[Router].stale => config'[n] # Nothing
      BY <1>0, <1>1, <2>1, Moved, LifeConstants DEF Sound, LifeInv
    <3>6. \A b \in bots' : ownerOf'[b] = n => runtime'[n].bot = b \/ (w.name = n /\ w.bot = b)
      BY <1>1, <3>1, <3>2
    <3> QED BY <3>1, <3>2, <3>4, <3>5, <3>6, SoundHere DEF LifeInv
  <2> QED BY <2>2, <2>3
<1>6. Told'
  <2> SUFFICES ASSUME NEW n \in Names \ disturbed'
               PROVE  /\ live[n] \in bots => live[n] \in bots' \/ tellsThen(w, n)
                      /\ \A o \in Procs \ {p} :
                             work[o].name = n /\ config[n] # Nothing => config'[n] # Nothing
                      /\ tellsOf(work[p], n) \/ (p = Reaper /\ n \in work[p].done) =>
                             signal' \/ (p = Reaper /\ n \in w.done) \/ tellsThen(w, n)
    BY <1>1, ToldSteps DEF LifeInv
  <2>1. n \in Names \ disturbed
    OBVIOUS
  <2>2. ASSUME live[n] \in bots, live[n] \notin bots' PROVE tellsThen(w, n)
    <3>1. live[n] = work[p].bot /\ ownedBy(live[n], n)
      BY <2>2 DEF LifeInv, LifeTyped
    <3>2. n = m
      BY <3>1, <1>0 DEF ownedBy
    <3>3. Midway(work[p])
      BY <2>1, <3>2, AtName
    <3>4. config[n] # Nothing
      BY <3>2, <3>3, <1>0 DEF Midway, Rested
    <3> QED BY <3>2, <3>4, <1>1 DEF tellsThen
  <2>3. ~ tellsOf(work[p], n)
    BY DEF tellsOf
  <2> QED BY <1>1, <2>2, <2>3
<1>7. Heard'
  BY <1>1, HeardMoves DEF LifeInv, reapsIdle, lifeVars, Heard, ReapsOnlyTheIdle
<1>8. MintsAreWanted'
  BY DEF MintsAreWanted, LifeInv
<1> QED BY <1>2, <1>3, <1>4, <1>5, <1>6, <1>7, <1>8 DEF LifeInv

LEMMA TearsDownInv == ASSUME LifeInv, NEW p \in Procs, TearsDown(p) PROVE LifeInv'
<1>1. /\ Shape(p, work[p]) /\ work[p] \in Work
  BY AtName
<1>2. PICK w : w = [work[p] EXCEPT !.at = "unconfigure"]
  OBVIOUS
<1>3. work' = [work EXCEPT ![p] = w] /\ work[p].at = "tearing"
  BY <1>2 DEF TearsDown
<1>4. /\ w \in Work /\ w.at = "unconfigure" /\ w.name = work[p].name /\ w.bot = work[p].bot
      /\ w.list = work[p].list /\ w.kind = work[p].kind /\ w.done = work[p].done
  BY <1>1, <1>2 DEF Work
<1>5. Shape(p, w)
  BY <1>1, <1>3, <1>4, RestIs DEF Shape, Fits, TearingDown, Provisioning
<1>6. bots' = bots \ {work[p].bot}
  BY DEF TearsDown
<1> QED BY <1>3, <1>4, <1>5, <1>6, BotGoes DEF TearsDown

LEMMA TeardownFailsInv == ASSUME LifeInv, NEW p \in Procs, TeardownFails(p) PROVE LifeInv'
<1>1. /\ Shape(p, work[p]) /\ work[p] \in Work /\ work[p].at = "tearing"
  BY AtName DEF TeardownFails
<1>2. PICK w : w = over(work[p])
  OBVIOUS
<1>3. work' = [work EXCEPT ![p] = w]
  BY <1>2 DEF TeardownFails
<1>4. /\ Shape(p, w) /\ w.name = Nothing /\ w.at \in {"rest", "reaping"} /\ w.list \subseteq work[p].list
      /\ p = Reaper => w.done = work[p].done
  BY <1>1, <1>2, OverIs DEF TearingDown
<1>5. bots' \subseteq bots /\ \A b \in bots \ bots' : b = work[p].bot
  BY DEF TeardownFails
<1>6. work[p].name \in disturbed' /\ disturbed \subseteq disturbed'
  BY DEF TeardownFails
<1> QED BY <1>1, <1>3, <1>4, <1>5, <1>6, BotGoes DEF TeardownFails

-----------------------------------------------------------------------------
(* A write to the stores of the name a process is at.                      *)
fitsThen(p, w, n) ==
    /\ Midway(w)'
    /\ \A b \in bots : ownerOf[b] = n => runtime'[n].bot = b \/ w.bot = b
    /\ tellsOf(work[p], n) => tellsThen(w, n)
writesAt(n) ==
    \A m \in Names \ {n} : /\ (config'[m] = Nothing) <=> (config[m] = Nothing)
                           /\ secret'[m] = secret[m] /\ runtime'[m].bot = runtime[m].bot

LEMMA StoreMoves ==
    ASSUME LifeInv, NEW p \in Procs, NEW w, work' = [work EXCEPT ![p] = w], Shape(p, w),
           NEW n \in Names, work[p].name = n, w.name = n, w.list \subseteq work[p].list,
           w.stale = work[p].stale, p = Reaper => w.done = work[p].done,
           LifeTyped', Heard',
           UNCHANGED <<botVars, live, roundVars, signal, unwanted, disturbed>>,
           writesAt(n),
           p = Router => config' = config,
           n \notin disturbed => fitsThen(p, w, n)
    PROVE  LifeInv'
<1> USE DEF fitsThen, writesAt
<1>0. /\ Shape(p, work[p]) /\ work[p] \in Work /\ work[p] # Rest
  BY AtName, RestIs, LifeConstants
<1>1. UNCHANGED <<bots, minted, ownerOf, bootList, current, phase>>
  BY DEF botVars, roundVars
<1>3. Shaped'
  BY <1>0, <1>1, ShapedMoves, AtName DEF LifeInv
<1>4. Alone'
  <2>1. \A m \in Names : takes(p, w, m)
    BY DEF takes, worksOn
  <2> QED BY <2>1, AloneMoves DEF LifeInv
<1>5. NamesSound'
  <2> SUFFICES ASSUME NEW m \in Names \ disturbed' PROVE Sound(m)'
    BY DEF NamesSound
  <2>1. m \in Names \ disturbed /\ Sound(m)
    BY DEF LifeInv, NamesSound
  <2>0. m \in work'[Router].list /\ ~ work'[Router].stale => config[m] # Nothing
    <3>1. CASE p = Router
      BY <3>1, <2>1, Moved, LifeConstants DEF Sound, LifeInv
    <3>2. CASE p # Router
      BY <3>2, <2>1, Moved, LifeConstants DEF Sound, LifeInv
    <3> QED BY <3>1, <3>2
  <2>2. CASE m # n
    <3>1. bots' \subseteq Bots
      BY <1>1, LifeConstants DEF LifeInv, LifeTyped
    <3>2. p = Router /\ m \in w.list /\ ~ w.stale => config[m] # Nothing
      BY <2>1 DEF Sound
    <3> QED BY <1>1, <2>1, <2>2, <3>1, <3>2, SoundElsewhere DEF LifeInv
  <2>3. CASE m = n
    <3>1. \A o \in Procs \ {p} : work[o].name # n
      BY <2>1, <2>3, AtName
    <3>2. n \in work'[Router].list /\ ~ work'[Router].stale => config'[n] # Nothing
      <4>1. CASE p = Router
        BY <4>1, <2>0, <2>3
      <4>2. CASE p # Router
        <5>1. n \notin work[Router].list
          BY <4>2, <2>1, <2>3, LifeConstants DEF LifeInv, Alone, worksOn
        <5> QED BY <4>2, <5>1, Moved, LifeConstants DEF LifeInv
      <4> QED BY <4>1, <4>2
    <3>3. \A b \in bots' : ownerOf'[b] = n => runtime'[n].bot = b \/ (w.name = n /\ w.bot = b)
      BY <1>1, <2>1, <2>3
    <3>4. Midway(w)' /\ w.name = m
      BY <2>1, <2>3
    <3>5. work'[p] = w /\ \A o \in Procs : o # p => work'[o] = work[o]
      BY Moved DEF LifeInv
    <3>6. ASSUME NEW o \in Procs, work'[o].name = n PROVE Midway(work[o])'
      <4>1. work'[o] = w
        BY <3>1, <3>5, <3>6
      <4> QED BY <3>4, <4>1 DEF Midway
    <3>7. work'[p].name = n
      BY <3>5
    <3>8. \A b \in bots' : ownerOf'[b] = n => runtime'[n].bot = b \/ heldAt(b, n)'
      BY <3>3, <3>5 DEF heldAt
    <3>9. Sound(n)'
      BY <3>2, <3>6, <3>7, <3>8 DEF Sound
    <3> QED BY <3>9, <2>3
  <2> QED BY <2>2, <2>3
<1>6. Told'
  <2> SUFFICES ASSUME NEW m \in Names \ disturbed'
               PROVE  /\ live[m] \in bots => live[m] \in bots' \/ tellsThen(w, m)
                      /\ \A o \in Procs \ {p} :
                             work[o].name = m /\ config[m] # Nothing => config'[m] # Nothing
                      /\ tellsOf(work[p], m) \/ (p = Reaper /\ m \in work[p].done) =>
                             signal' \/ (p = Reaper /\ m \in w.done) \/ tellsThen(w, m)
    BY <1>1, ToldSteps DEF LifeInv
  <2>1. m \in Names \ disturbed
    OBVIOUS
  <2>2. \A o \in Procs \ {p} : work[o].name = m /\ config[m] # Nothing => config'[m] # Nothing
    BY <2>1, AtName
  <2>3. tellsOf(work[p], m) => m = n
    BY DEF tellsOf
  <2> QED BY <1>1, <2>1, <2>2, <2>3
<1>8. MintsAreWanted'
  BY DEF MintsAreWanted, LifeInv
<1> QED BY <1>3, <1>4, <1>5, <1>6, <1>8 DEF LifeInv

LEMMA RealBots == ASSUME LifeTyped PROVE bots \subseteq Bots /\ Nothing \notin bots
<1>1. bots \subseteq Bots
  BY LifeConstants DEF LifeTyped
<1> QED BY <1>1, LifeConstants

LEMMA StoresInv == ASSUME LifeInv, NEW p \in Procs, Stores(p) PROVE LifeInv'
<1>n. PICK n : n = work[p].name
  OBVIOUS
<1> USE <1>n
<1>0. /\ Shape(p, work[p]) /\ work[p] \in Work /\ work[p].at \in {"minted", "sealed"}
      /\ n \in Names /\ work[p].bot # Nothing /\ ownedBy(work[p].bot, n)
      /\ n \notin disturbed =>
            Midway(work[p]) /\ \A b \in bots : ownerOf[b] = n => runtime[n].bot = b \/ work[p].bot = b
  <2>1. work[p].at \in {"minted", "sealed"}
    BY DEF Stores
  <2> QED BY <2>1, AtName, LifeConstants DEF Shape
<1>1. PICK w : work' = [work EXCEPT ![p] = w] /\
         \/ /\ work[p].at = "minted" /\ w = [work[p] EXCEPT !.at = "sealed"]
            /\ secret' = [secret EXCEPT ![n] = work[p].bot] /\ UNCHANGED runtime
         \/ /\ work[p].at = "sealed" /\ w = [work[p] EXCEPT !.at = "ready", !.bot = Nothing]
            /\ runtime' = [runtime EXCEPT ![n].bot = work[p].bot] /\ UNCHANGED secret
  <2>1. CASE work[p].at = "minted"
    <3>1. PICK w : w = [work[p] EXCEPT !.at = "sealed"]
      OBVIOUS
    <3>2. /\ secret' = [secret EXCEPT ![n] = work[p].bot] /\ UNCHANGED runtime
          /\ work' = [work EXCEPT ![p] = w]
      BY <2>1, <3>1 DEF Stores
    <3> QED BY <2>1, <3>1, <3>2
  <2>2. CASE work[p].at = "sealed"
    <3>1. PICK w : w = [work[p] EXCEPT !.at = "ready", !.bot = Nothing]
      OBVIOUS
    <3>2. /\ runtime' = [runtime EXCEPT ![n].bot = work[p].bot] /\ UNCHANGED secret
      BY <2>2 DEF Stores
    <3>3. work' = [work EXCEPT ![p] = w]
      BY <2>2, <3>1 DEF Stores
    <3> QED BY <2>2, <3>1, <3>2, <3>3
  <2> QED BY <1>0, <2>1, <2>2
<1>2. /\ w \in Work /\ w.name = n /\ w.list = work[p].list /\ w.stale = work[p].stale
      /\ w.kind = work[p].kind /\ w.done = work[p].done
      /\ \/ w.at = "sealed" /\ work[p].at = "minted" /\ w.bot = work[p].bot
         \/ w.at = "ready" /\ work[p].at = "sealed" /\ w.bot = Nothing
  <2>1. CASE work[p].at = "minted" /\ w = [work[p] EXCEPT !.at = "sealed"]
    BY <1>0, <2>1 DEF Work
  <2>2. CASE work[p].at = "sealed" /\ w = [work[p] EXCEPT !.at = "ready", !.bot = Nothing]
    BY <1>0, <2>2 DEF Work
  <2> QED BY <1>1, <2>1, <2>2
<1>3. Shape(p, w)
  BY <1>0, <1>2, RestIs DEF Shape, Fits, TearingDown, Provisioning, ownedBy
<1>4. UNCHANGED <<config, botVars, memVars, roundVars, lifeVars, signal, unwanted, disturbed>>
  BY DEF Stores
<1>5. /\ secret \in [Names -> BotOrNothing] /\ runtime \in [Names -> [bot : BotOrNothing, at : BOOLEAN]]
      /\ work[p].bot \in BotOrNothing
  BY <1>0 DEF LifeInv, LifeTyped, Work, BotOrNothing
<1>6. /\ secret' \in [Names -> BotOrNothing] /\ runtime' \in [Names -> [bot : BotOrNothing, at : BOOLEAN]]
      /\ \A m \in Names : runtime'[m].at = runtime[m].at
      /\ \A m \in Names \ {n} : secret'[m] = secret[m] /\ runtime'[m].bot = runtime[m].bot
      /\ w.at = "sealed" => secret'[n] = work[p].bot /\ runtime'[n].bot = runtime[n].bot
      /\ w.at = "ready" => secret'[n] = secret[n] /\ runtime'[n].bot = work[p].bot
  <2>1. CASE w.at = "sealed"
    BY <1>0, <1>1, <1>2, <1>5, <2>1
  <2>2. CASE w.at = "ready"
    <3>1. runtime' = [runtime EXCEPT ![n] = [runtime[n] EXCEPT !.bot = work[p].bot]] /\ UNCHANGED secret
      BY <1>1, <1>2, <2>2
    <3> QED BY <1>0, <1>5, <2>2, <3>1
  <2> QED BY <1>2, <2>1, <2>2
<1>7. LifeTyped'
  <2>1. UNCHANGED <<config, bots, minted, ownerOf, registry, tracker, live, signal, bootList,
                    current, phase>>
    BY <1>4 DEF botVars, memVars, roundVars
  <2>2. \A m \in Names : ownedBy(secret'[m], m) /\ ownedBy(runtime'[m].bot, m)
    BY <1>0, <1>2, <1>6 DEF LifeInv, LifeTyped
  <2> QED BY <1>6, <2>1, <2>2 DEF LifeInv, LifeTyped, ownedBy
<1>8. Heard'
  <2>1. ReapsOnlyTheIdle'
    <3>1. work'[Reaper].at \in {"tearing", "unconfigure"} => work'[Reaper] = work[Reaper]
      BY <1>1, <1>2, Moved, LifeConstants DEF LifeInv
    <3> QED BY <1>4, <3>1 DEF ReapsOnlyTheIdle, LifeInv, Heard, lifeVars
  <2> QED BY <1>4, <1>6, <2>1 DEF LifeInv, Heard, lifeVars, memVars
<1>9. n \notin disturbed => fitsThen(p, w, n)
  <2> SUFFICES ASSUME n \notin disturbed
               PROVE  /\ Midway(w)'
                      /\ \A b \in bots : ownerOf[b] = n => runtime'[n].bot = b \/ w.bot = b
                      /\ tellsOf(work[p], n) => tellsThen(w, n)
    BY DEF fitsThen
  <2>1. Midway(work[p]) /\ \A b \in bots : ownerOf[b] = n => runtime[n].bot = b \/ work[p].bot = b
    BY <1>0
  <2>2. /\ config[n] # Nothing /\ runtime[n].bot = Nothing /\ work[p].bot \in bots
        /\ secret[n] = IF work[p].at = "minted" THEN Nothing ELSE work[p].bot
    BY <1>0, <2>1 DEF Midway
  <2>3. config' = config /\ bots' = bots
    BY <1>4 DEF botVars
  <2>4. Midway(w)'
    BY <1>2, <1>6, <2>2, <2>3 DEF Midway, Rested, TearingDown
  <2>5. ~ tellsOf(work[p], n)
    BY <1>0 DEF tellsOf
  <2>6. Nothing \notin bots
    BY RealBots DEF LifeInv
  <2> QED BY <1>2, <1>6, <2>1, <2>2, <2>4, <2>5, <2>6
<1>10. UNCHANGED <<botVars, live, roundVars, signal, unwanted, disturbed>> /\ config' = config
  BY <1>4 DEF memVars
<1>11. /\ work[p].name = n /\ w.name = n /\ n \in Names /\ w.list \subseteq work[p].list
       /\ w.stale = work[p].stale /\ w.done = work[p].done /\ work' = [work EXCEPT ![p] = w]
       /\ writesAt(n)
  BY <1>0, <1>1, <1>2, <1>6, <1>10 DEF writesAt
<1> QED BY <1>3, <1>7, <1>8, <1>9, <1>10, <1>11, StoreMoves

LEMMA CleansInv == ASSUME LifeInv, NEW p \in Procs, Cleans(p) PROVE LifeInv'
<1>n. PICK n : n = work[p].name
  OBVIOUS
<1> USE <1>n
<1>0. /\ Shape(p, work[p]) /\ work[p] \in Work /\ work[p].at \in {"forget", "unseal"}
      /\ n \in Names
      /\ n \notin disturbed =>
            Midway(work[p]) /\ \A b \in bots : ownerOf[b] = n => runtime[n].bot = b \/ work[p].bot = b
  <2>1. work[p].at \in {"forget", "unseal"}
    BY DEF Cleans
  <2> QED BY <2>1, AtName, LifeConstants DEF Shape
<1>1. PICK w : work' = [work EXCEPT ![p] = w] /\
         \/ /\ work[p].at = "forget" /\ w = [work[p] EXCEPT !.at = "unseal"]
            /\ runtime' = [runtime EXCEPT ![n] = NoState] /\ UNCHANGED secret
         \/ /\ work[p].at = "unseal" /\ w = [work[p] EXCEPT !.at = "removed"]
            /\ secret' = [secret EXCEPT ![n] = Nothing] /\ UNCHANGED runtime
  BY DEF Cleans
<1>2. /\ w \in Work /\ w.name = n /\ w.list = work[p].list /\ w.stale = work[p].stale
      /\ w.kind = work[p].kind /\ w.done = work[p].done /\ w.bot = work[p].bot
      /\ \/ w.at = "unseal" /\ work[p].at = "forget"
         \/ w.at = "removed" /\ work[p].at = "unseal"
  BY <1>0, <1>1 DEF Work
<1>3. Shape(p, w)
  BY <1>0, <1>2, RestIs DEF Shape, Fits, TearingDown, Provisioning, ownedBy
<1>4. UNCHANGED <<config, botVars, memVars, roundVars, lifeVars, signal, unwanted, disturbed>>
  BY DEF Cleans
<1>5. /\ secret \in [Names -> BotOrNothing] /\ runtime \in [Names -> [bot : BotOrNothing, at : BOOLEAN]]
      /\ Nothing \in BotOrNothing /\ NoState \in [bot : BotOrNothing, at : BOOLEAN]
      /\ NoState.bot = Nothing /\ NoState.at = FALSE
  BY <1>0 DEF LifeInv, LifeTyped, Work, BotOrNothing, NoState
<1>6. /\ secret' \in [Names -> BotOrNothing] /\ runtime' \in [Names -> [bot : BotOrNothing, at : BOOLEAN]]
      /\ \A m \in Names : runtime'[m].at => runtime[m].at
      /\ \A m \in Names \ {n} : secret'[m] = secret[m] /\ runtime'[m].bot = runtime[m].bot
      /\ w.at = "unseal" => secret'[n] = secret[n] /\ runtime'[n].bot = Nothing
      /\ w.at = "removed" => secret'[n] = Nothing /\ runtime'[n].bot = runtime[n].bot
  BY <1>0, <1>1, <1>2, <1>5
<1>7. LifeTyped'
  <2>1. UNCHANGED <<config, bots, minted, ownerOf, registry, tracker, live, signal, bootList,
                    current, phase>>
    BY <1>4 DEF botVars, memVars, roundVars
  <2>2. \A m \in Names : ownedBy(secret'[m], m) /\ ownedBy(runtime'[m].bot, m)
    BY <1>0, <1>2, <1>6 DEF LifeInv, LifeTyped, ownedBy
  <2> QED BY <1>6, <2>1, <2>2 DEF LifeInv, LifeTyped, ownedBy
<1>8. Heard'
  <2>1. ReapsOnlyTheIdle'
    <3>1. work'[Reaper].at \in {"tearing", "unconfigure"} => work'[Reaper] = work[Reaper]
      BY <1>1, <1>2, Moved, LifeConstants DEF LifeInv
    <3> QED BY <1>4, <3>1 DEF ReapsOnlyTheIdle, LifeInv, Heard, lifeVars
  <2> QED BY <1>4, <1>6, <2>1 DEF LifeInv, Heard, lifeVars, memVars
<1>9. n \notin disturbed => fitsThen(p, w, n)
  <2> SUFFICES ASSUME n \notin disturbed
               PROVE  /\ Midway(w)'
                      /\ \A b \in bots : ownerOf[b] = n => runtime'[n].bot = b \/ w.bot = b
                      /\ tellsOf(work[p], n) => tellsThen(w, n)
    BY DEF fitsThen
  <2>1. Midway(work[p]) /\ \A b \in bots : ownerOf[b] = n => runtime[n].bot = b \/ work[p].bot = b
    BY <1>0
  <2>2. /\ config[n] = Nothing /\ work[p].bot \notin bots /\ secret[n] \notin bots
        /\ work[p].at = "forget" => secret[n] = runtime[n].bot
        /\ work[p].at = "unseal" => runtime[n].bot = Nothing
    BY <1>0, <2>1 DEF Midway, TearingDown
  <2>3. config' = config /\ bots' = bots
    BY <1>4 DEF botVars
  <2>6. Nothing \notin bots
    BY RealBots DEF LifeInv
  <2>4. Midway(w)'
    BY <1>2, <1>6, <2>2, <2>3, <2>6 DEF Midway, Rested, TearingDown
  <2>5. tellsThen(w, n)
    BY <1>2 DEF tellsThen
  <2>7. \A b \in bots : ownerOf[b] # n
    BY <1>0, <2>1, <2>2, <2>6
  <2> QED BY <2>4, <2>5, <2>7
<1>10. UNCHANGED <<botVars, live, roundVars, signal, unwanted, disturbed>> /\ config' = config
  BY <1>4 DEF memVars
<1>11. /\ work[p].name = n /\ w.name = n /\ n \in Names /\ w.list \subseteq work[p].list
       /\ w.stale = work[p].stale /\ w.done = work[p].done /\ work' = [work EXCEPT ![p] = w]
       /\ writesAt(n)
  BY <1>0, <1>1, <1>2, <1>6, <1>10 DEF writesAt
<1> QED BY <1>3, <1>7, <1>8, <1>9, <1>10, <1>11, StoreMoves

LEMMA CleaningFailsInv == ASSUME LifeInv, NEW p \in Procs, CleaningFails(p) PROVE LifeInv'
<1> DEFINE w == [work[p] EXCEPT !.at = IF @ = "forget" THEN "unseal" ELSE "removed"]
<1>1. work' = [work EXCEPT ![p] = w]
  BY DEF CleaningFails
<1>2. /\ work[p].at \in {"forget", "unseal"} /\ Shape(p, work[p]) /\ work[p] \in Work
      /\ p = Router => phase = "reconcile"
  BY AtName, RestIs DEF CleaningFails
<1>4. /\ w.name = work[p].name /\ w.list = work[p].list /\ w.stale = work[p].stale
      /\ w.done = work[p].done /\ w.kind = work[p].kind /\ w.bot = work[p].bot
      /\ w.at \in {"unseal", "removed"} /\ w \in Work
  BY <1>1, <1>2 DEF Work
<1> HIDE DEF w
<1>3. Shape(p, w)
  BY <1>2, <1>4, RestIs DEF Shape, Fits, Provisioning, TearingDown, ownedBy
<1>5. disturbed' = disturbed \cup {w.name}
  BY <1>4 DEF CleaningFails
<1>6. UNCHANGED <<storeVars, botVars, memVars, roundVars, lifeVars, unwanted, signal>>
  BY DEF CleaningFails
<1>7. keeps(p, w)
  BY <1>4, <1>5, <1>6, StaysAtName
<1>8. tells(p, w) /\ reapsIdle(p, w)
  BY <1>2, <1>4 DEF tells, reapsIdle, tellsOf
<1>9. signal' \in BOOLEAN /\ (signal => signal') /\ disturbed \subseteq disturbed'
  BY <1>5, <1>6 DEF LifeInv, LifeTyped
<1> QED BY <1>1, <1>2, <1>3, <1>6, <1>7, <1>8, <1>9, WorkMoves

LEMMA UnconfigureFailsInv == ASSUME LifeInv, NEW p \in Procs, UnconfigureFails(p) PROVE LifeInv'
<1>1. PICK w : w = over(work[p])
  OBVIOUS
<1>2. work' = [work EXCEPT ![p] = w] /\ work[p].at = "unconfigure" /\ Shape(p, work[p])
  BY <1>1, AtName DEF UnconfigureFails
<1>3. /\ p # Router /\ Shape(p, w) /\ w.name = Nothing /\ w.at \in {"rest", "reaping"}
      /\ w.list \subseteq work[p].list /\ (w.list = {} \/ w.stale = work[p].stale)
      /\ p = Reaper => w.done = work[p].done
  BY <1>1, <1>2, OverIs DEF TearingDown
<1>5. disturbed' = disturbed \cup {work[p].name}
  BY DEF UnconfigureFails
<1>6. UNCHANGED <<storeVars, botVars, memVars, roundVars, lifeVars, unwanted, signal>>
  BY DEF UnconfigureFails
<1>7. keeps(p, w)
  BY <1>3, <1>5, LeavesName
<1>8. tells(p, w) /\ reapsIdle(p, w)
  BY <1>3, <1>5 DEF tells, reapsIdle, tellsOf
<1>9. signal' \in BOOLEAN /\ (signal => signal') /\ disturbed \subseteq disturbed'
  BY <1>5, <1>6 DEF LifeInv, LifeTyped
<1> QED BY <1>2, <1>3, <1>6, <1>7, <1>8, <1>9, WorkMoves

LEMMA UnconfiguresInv == ASSUME LifeInv, NEW p \in Procs, Unconfigures(p) PROVE LifeInv'
<1>n. PICK n : n = work[p].name
  OBVIOUS
<1> USE <1>n
<1>0. /\ Shape(p, work[p]) /\ work[p] \in Work /\ work[p].at = "unconfigure" /\ p # Router
      /\ n \in Names
      /\ n \notin disturbed =>
            Midway(work[p]) /\ \A b \in bots : ownerOf[b] = n => runtime[n].bot = b \/ work[p].bot = b
  <2>1. work[p].at = "unconfigure"
    BY DEF Unconfigures
  <2> QED BY <2>1, AtName, OverIs, LifeConstants DEF Shape, TearingDown
<1>1. n \notin disturbed =>
         /\ work[p].bot \notin bots /\ secret[n] \notin bots /\ secret[n] = runtime[n].bot
         /\ config[n] = Nothing => secret[n] = Nothing
         /\ \A b \in bots : ownerOf[b] # n
  BY <1>0 DEF Midway, TearingDown
<1>2. UNCHANGED <<secret, runtime, botVars, tracker, live, roundVars, budget, lifeVars,
                  signal, disturbed, unwanted>>
  BY DEF Unconfigures
<1>3. CASE config[n] = Nothing
  <2>1. PICK w : w = over(work[p])
    OBVIOUS
  <2>2. work' = [work EXCEPT ![p] = w] /\ UNCHANGED <<config, registry>>
    BY <1>3, <2>1 DEF Unconfigures
  <2>3. /\ Shape(p, w) /\ w.name = Nothing /\ w.at \in {"rest", "reaping"}
        /\ w.list \subseteq work[p].list /\ (w.list = {} \/ w.stale = work[p].stale)
        /\ p = Reaper => w.done = work[p].done
    BY <1>0, <2>1, OverIs DEF TearingDown
  <2>4. n \notin disturbed => Rested(n) /\ onlyBot(n)
    BY <1>1, <1>3, RealBots DEF Rested, onlyBot, LifeInv
  <2>5. UNCHANGED <<storeVars, botVars, memVars, roundVars, lifeVars, unwanted, signal, disturbed>>
    BY <1>2, <2>2 DEF storeVars, memVars
  <2>6. keeps(p, w)
    BY <2>3, <2>4, <2>5, LeavesName
  <2>7. tells(p, w) /\ reapsIdle(p, w)
    BY <1>0, <1>3, <2>3 DEF tells, reapsIdle, tellsOf
  <2>8. signal' \in BOOLEAN /\ (signal => signal') /\ disturbed \subseteq disturbed'
    BY <2>5 DEF LifeInv, LifeTyped
  <2> QED BY <1>0, <2>2, <2>3, <2>5, <2>6, <2>7, <2>8, WorkMoves
<1>4. CASE config[n] # Nothing
  <2>1. PICK w : w = [work[p] EXCEPT !.at = "forget"]
    OBVIOUS
  <2>2. /\ work' = [work EXCEPT ![p] = w] /\ config' = without(config, n)
        /\ registry' \subseteq registry
    BY <1>4, <2>1 DEF Unconfigures
  <2>3. /\ w \in Work /\ w.at = "forget" /\ w.name = n /\ w.bot = work[p].bot /\ w.kind = work[p].kind
        /\ w.list = work[p].list /\ w.done = work[p].done /\ w.stale = work[p].stale
    BY <1>0, <2>1 DEF Work
  <2>4. Shape(p, w)
    BY <1>0, <2>3, RestIs DEF Shape, Fits, TearingDown, Provisioning, ownedBy
  <2>5. /\ config \in [Names -> Links] /\ Nothing \notin SUBSET Names
    BY LifeConstants DEF LifeInv, LifeTyped
  <2>6. /\ config' \in [Names -> Links] /\ config'[n] = Nothing
        /\ \A m \in Names \ {n} : (config'[m] = Nothing) <=> (config[m] = Nothing)
    <3>1. \A m \in Names : config'[m] = IF m = n \/ config[m] = Nothing THEN Nothing ELSE config[m] \ {n}
      BY <2>2 DEF without
    <3>2. \A m \in Names : config[m] # Nothing => config[m] \ {n} \in SUBSET Names /\ config[m] \ {n} # Nothing
      <4> SUFFICES ASSUME NEW m \in Names, config[m] # Nothing
                   PROVE  config[m] \ {n} \in SUBSET Names /\ config[m] \ {n} # Nothing
        OBVIOUS
      <4>1. config[m] \in SUBSET Names
        BY <2>5 DEF Links
      <4> QED BY <4>1, <2>5
    <3>3. \A m \in Names : config'[m] \in Links
      <4> SUFFICES ASSUME NEW m \in Names PROVE config'[m] \in Links
        OBVIOUS
      <4>1. CASE m = n \/ config[m] = Nothing
        BY <3>1, <4>1 DEF Links
      <4>2. CASE ~ (m = n \/ config[m] = Nothing)
        BY <3>1, <3>2, <4>2 DEF Links
      <4> QED BY <4>1, <4>2
    <3>4. config' = [m \in Names |-> config'[m]]
      BY <2>2 DEF without
    <3> QED BY <1>0, <3>1, <3>2, <3>3, <3>4
  <2>7. LifeTyped'
    <3>1. UNCHANGED <<secret, runtime, bots, minted, ownerOf, tracker, live, signal, bootList,
                      current, phase>>
      BY <1>2 DEF botVars, roundVars
    <3> QED BY <2>2, <2>6, <3>1 DEF LifeInv, LifeTyped, ownedBy
  <2>8. Heard'
    <3>1. ReapsOnlyTheIdle'
      <4>1. work'[Reaper].at \in {"tearing", "unconfigure"} => work'[Reaper] = work[Reaper]
        BY <2>2, <2>3, Moved, LifeConstants DEF LifeInv
      <4> QED BY <1>2, <4>1 DEF ReapsOnlyTheIdle, LifeInv, Heard, lifeVars
    <3> QED BY <1>2, <3>1 DEF LifeInv, Heard, lifeVars
  <2>9. n \notin disturbed => fitsThen(p, w, n)
    <3> SUFFICES ASSUME n \notin disturbed PROVE fitsThen(p, w, n)
      OBVIOUS
    <3>1. bots' = bots /\ secret' = secret /\ runtime' = runtime
      BY <1>2 DEF botVars
    <3>2. Midway(w)'
      BY <1>1, <2>3, <2>6, <3>1 DEF Midway, TearingDown
    <3>3. tellsThen(w, n)
      BY <2>3 DEF tellsThen
    <3> QED BY <1>1, <3>2, <3>3 DEF fitsThen
  <2>10. writesAt(n)
    BY <1>2, <2>6 DEF writesAt
  <2> QED BY <1>0, <1>2, <2>2, <2>3, <2>4, <2>7, <2>8, <2>9, <2>10, StoreMoves
<1> QED BY <1>3, <1>4

LEMMA TeardownReturnsInv == ASSUME LifeInv, NEW p \in Procs, TeardownReturns(p) PROVE LifeInv'
<1>0. /\ Shape(p, work[p]) /\ work[p] \in Work /\ work[p].at \in {"removed", "reaping"} /\ p # Router
      /\ work[p].kind = "reap" <=> p = Reaper
  <2>1. work[p].at \in {"removed", "reaping"} /\ Shape(p, work[p]) /\ work[p] \in Work
    BY AtName DEF TeardownReturns
  <2> QED BY <2>1, LifeConstants, RestIs DEF Shape, Fits, TearingDown, Provisioning
<1>1. PICK w : work' = [work EXCEPT ![p] = w] /\
         \/ work[p].at = "removed" /\ work[p].kind # "reap" /\ w = Rest /\ signal' = TRUE
         \/ /\ work[p].at = "removed" /\ work[p].kind = "reap"
            /\ w = [over(work[p]) EXCEPT !.done = over(work[p]).done \cup {work[p].name}]
            /\ UNCHANGED signal
         \/ work[p].at = "reaping" /\ w = Rest /\ signal' = (signal \/ work[p].done # {})
  BY DEF TeardownReturns, onChannelChange
<1>2. UNCHANGED <<storeVars, botVars, memVars, roundVars, lifeVars, unwanted, disturbed>>
  BY DEF TeardownReturns
<1>3. /\ Shape(p, w) /\ w.name = Nothing /\ w.at \in {"rest", "reaping"}
      /\ w.list \subseteq work[p].list /\ (w.list = {} \/ w.stale = work[p].stale)
      /\ p = Reaper /\ work[p].at = "removed" => w.done = work[p].done \cup {work[p].name}
  <2>1. CASE ~ (work[p].at = "removed" /\ work[p].kind = "reap")
    BY <1>0, <1>1, <2>1, RestIs
  <2>2. CASE work[p].at = "removed" /\ work[p].kind = "reap"
    <3>1. PICK v : v = over(work[p])
      OBVIOUS
    <3>2. /\ Shape(p, v) /\ v.name = Nothing /\ v.at \in {"rest", "reaping"} /\ v \in Work
          /\ v.list \subseteq work[p].list /\ (v.list = {} \/ v.stale = work[p].stale)
          /\ v.done = work[p].done
      BY <1>0, <1>1, <2>2, <3>1, OverIs DEF TearingDown, Shape
    <3>3. w = [v EXCEPT !.done = v.done \cup {work[p].name}] /\ work[p].at = "removed"
      BY <1>1, <2>2, <3>1
    <3>4. work[p].name \in Names
      BY <1>0, <3>3 DEF Shape, Work
    <3>5. /\ w \in Work /\ w.at = v.at /\ w.kind = v.kind /\ w.name = v.name /\ w.bot = v.bot
          /\ w.list = v.list /\ w.stale = v.stale /\ w.done = work[p].done \cup {work[p].name}
      BY <3>2, <3>3, <3>4 DEF Work
    <3>6. v # Rest
      <4>1. v.kind = "reap"
        BY <1>0, <1>1, <2>2, <3>1, <3>3 DEF over, Work
      <4> QED BY <4>1, RestIs
    <3>7. Shape(p, w)
      BY <3>2, <3>5, <3>6 DEF Shape, Fits, ownedBy, TearingDown
    <3> QED BY <3>2, <3>5, <3>7
  <2> QED BY <2>1, <2>2
<1>4. work[p].name \in Names \ disturbed => Rested(work[p].name) /\ onlyBot(work[p].name)
  <2>1. PICK n : n = work[p].name
    OBVIOUS
  <2> SUFFICES ASSUME n \in Names \ disturbed PROVE Rested(n) /\ onlyBot(n)
    BY <2>1
  <2>2. /\ Midway(work[p]) /\ work[p].at = "removed"
        /\ \A b \in bots : ownerOf[b] = n => runtime[n].bot = b \/ work[p].bot = b
    BY <1>0, <2>1, AtName, LifeConstants DEF Shape
  <2> QED BY <2>1, <2>2 DEF Midway, Rested, onlyBot, TearingDown
<1>5. keeps(p, w)
  BY <1>2, <1>3, <1>4, LeavesName
<1>6. tells(p, w)
  BY <1>0, <1>1, <1>3 DEF tells, tellsOf
<1>7. reapsIdle(p, w)
  BY <1>3 DEF reapsIdle
<1>8. signal' \in BOOLEAN /\ (signal => signal') /\ disturbed \subseteq disturbed'
  BY <1>1, <1>2 DEF LifeInv, LifeTyped
<1> QED BY <1>0, <1>1, <1>2, <1>3, <1>5, <1>6, <1>7, <1>8, WorkMoves

-----------------------------------------------------------------------------
(* The tools that create and edit.                                         *)
LEMMA CreateAddsInv == ASSUME LifeInv, NEW p \in Callers, CreateAdds(p) PROVE LifeInv'
<1>n. PICK n : n = work[p].name
  OBVIOUS
<1> USE <1>n
<1>0. /\ p \in Procs /\ p # Router /\ p # Reaper
      /\ Shape(p, work[p]) /\ work[p] \in Work /\ work[p].at = "adding" /\ n \in Names
      /\ work[p].kind = "create" /\ work[p].bot = Nothing /\ ~ work[p].stale
      /\ n \notin disturbed =>
            /\ Rested(n) /\ onlyBot(n)
            /\ \A o \in Procs \ {p} : work[o].name # n
  <2>1. p \in Procs /\ p # Router /\ p # Reaper /\ work[p].at = "adding"
    BY LifeConstants DEF CreateAdds
  <2>2. Shape(p, work[p]) /\ work[p] \in Work
    BY <2>1, AtName
  <2>3. n \in Names /\ work[p].kind = "create" /\ work[p].bot = Nothing /\ ~ work[p].stale
    BY <2>1, <2>2, LifeConstants, RestIs DEF Shape, Fits, Work, TearingDown, Provisioning
  <2>4. bots \subseteq Bots /\ Nothing \notin bots
    BY RealBots DEF LifeInv
  <2>5. n \notin disturbed =>
            /\ Rested(n) /\ onlyBot(n)
            /\ \A o \in Procs \ {p} : work[o].name # n
    BY <2>1, <2>3, <2>4, AtName DEF Midway, onlyBot
  <2> QED BY <2>1, <2>2, <2>3, <2>5
<1>2. UNCHANGED <<secret, runtime, botVars, tracker, live, roundVars, budget, signal,
                  disturbed, unwanted>>
  BY DEF CreateAdds
<1>3. CASE config[n] # Nothing
  <2>1. work' = [work EXCEPT ![p] = Rest] /\ UNCHANGED <<config, registry, lifeVars>>
    BY <1>3 DEF CreateAdds
  <2>2. UNCHANGED <<storeVars, botVars, memVars, roundVars, lifeVars, unwanted, signal, disturbed>>
    BY <1>2, <2>1 DEF storeVars, memVars
  <2>3. keeps(p, Rest)
    BY <1>0, <2>2, LeavesName, RestIs
  <2>4. tells(p, Rest) /\ reapsIdle(p, Rest)
    BY <1>0 DEF tells, reapsIdle, tellsOf
  <2>5. signal' \in BOOLEAN /\ (signal => signal') /\ disturbed \subseteq disturbed'
    BY <2>2 DEF LifeInv, LifeTyped
  <2> QED BY <1>0, <2>1, <2>2, <2>3, <2>4, <2>5, RestIs, WorkMoves
<1>4. CASE config[n] = Nothing
  <2>1. PICK w : w = [work[p] EXCEPT !.at = "reconcile", !.done = {}]
    OBVIOUS
  <2>2. /\ work' = [work EXCEPT ![p] = w] /\ config' = [config EXCEPT ![n] = work[p].done]
        /\ registry' = registry \cup {n} /\ spoken' = spoken \ {n}
        /\ inherited' = IF tracker[n] # "unknown" \/ runtime[n].at
                        THEN inherited \cup {n} ELSE inherited \ {n}
    <3>1. /\ work' = [work EXCEPT ![p].at = "reconcile", ![p].done = {}]
          /\ config' = [config EXCEPT ![n] = work[p].done]
          /\ registry' = registry \cup {n} /\ spoken' = spoken \ {n}
          /\ inherited' = IF tracker[n] # "unknown" \/ runtime[n].at
                          THEN inherited \cup {n} ELSE inherited \ {n}
      BY <1>4, Zenon DEF CreateAdds
    <3>2. work' = [work EXCEPT ![p] = w]
      BY <2>1, <3>1
    <3> QED BY <3>1, <3>2
  <2>3. /\ w \in Work /\ w.at = "reconcile" /\ w.name = n /\ w.bot = Nothing /\ w.kind = "create"
        /\ w.list = work[p].list /\ ~ w.stale /\ w.stale = work[p].stale
    BY <1>0, <2>1 DEF Work
  <2>4. Shape(p, w)
    BY <1>0, <2>3, RestIs DEF Shape, Fits, TearingDown, Provisioning, ownedBy
  <2>5. /\ config \in [Names -> Links] /\ work[p].done \in SUBSET Names /\ work[p].done # Nothing
    BY <1>0, LifeConstants DEF LifeInv, LifeTyped, Work
  <2>6. /\ config' \in [Names -> Links] /\ config'[n] # Nothing
        /\ \A m \in Names \ {n} : (config'[m] = Nothing) <=> (config[m] = Nothing)
    BY <1>0, <2>2, <2>5 DEF Links
  <2>7. LifeTyped'
    <3>1. UNCHANGED <<secret, runtime, bots, minted, ownerOf, tracker, live, signal, bootList,
                      current, phase>>
      BY <1>2 DEF botVars, roundVars
    <3> QED BY <1>0, <2>2, <2>6, <3>1 DEF LifeInv, LifeTyped, ownedBy
  <2>8. Heard'
    <3>1. \A m \in Names : m # n /\ m \in spoken \cup inherited => m \in (spoken \cup inherited)'
      BY <2>2
    <3>2. tracker[n] # "unknown" \/ runtime[n].at => n \in inherited'
      BY <2>2
    <3>3. \A m \in Names : tracker[m] # "unknown" \/ runtime[m].at => m \in (spoken \cup inherited)'
      BY <3>1, <3>2 DEF LifeInv, Heard
    <3>4. ReapsOnlyTheIdle'
      <4>1. work'[Reaper] = work[Reaper]
        BY <1>0, <2>2, Moved, LifeConstants DEF LifeInv
      <4>2. work[Reaper].name = n => n \in disturbed
        BY <1>0, LifeConstants
      <4> QED BY <1>2, <3>1, <4>1, <4>2 DEF ReapsOnlyTheIdle, LifeInv, Heard
    <3> QED BY <1>2, <3>3, <3>4 DEF Heard
  <2>9. n \notin disturbed => fitsThen(p, w, n)
    <3> SUFFICES ASSUME n \notin disturbed PROVE fitsThen(p, w, n)
      OBVIOUS
    <3>1. bots' = bots /\ secret' = secret /\ runtime' = runtime
      BY <1>2 DEF botVars
    <3>2. Midway(w)'
      BY <1>0, <2>3, <2>6, <3>1 DEF Midway, Rested, TearingDown
    <3>3. ~ tellsOf(work[p], n)
      BY <1>0 DEF tellsOf
    <3> QED BY <1>0, <3>1, <3>2, <3>3 DEF fitsThen, onlyBot
  <2>10. writesAt(n)
    BY <1>2, <2>6 DEF writesAt
  <2> QED BY <1>0, <1>2, <2>2, <2>3, <2>4, <2>7, <2>8, <2>9, <2>10, StoreMoves
<1> QED BY <1>3, <1>4

LEMMA CreateReturnsInv == ASSUME LifeInv, NEW p \in Callers, CreateReturns(p) PROVE LifeInv'
<1>0. /\ p \in Procs /\ p # Router /\ p # Reaper /\ work[p].at \in {"ready", "unready", "aborted"}
      /\ Shape(p, work[p]) /\ work[p].bot = Nothing
  <2>1. p \in Procs /\ p # Router /\ p # Reaper /\ work[p].at \in {"ready", "unready", "aborted"}
    BY LifeConstants DEF CreateReturns
  <2> QED BY <2>1, AtName DEF Shape, TearingDown
<1>1. /\ work' = [work EXCEPT ![p] = Rest] /\ (signal' = TRUE \/ signal' = signal)
      /\ UNCHANGED <<storeVars, botVars, memVars, roundVars, budget, lifeVars, disturbed, unwanted>>
  BY DEF CreateReturns, onChannelChange
<1>2. work[p].name \in Names \ disturbed => Rested(work[p].name) /\ onlyBot(work[p].name)
  <2>1. PICK n : n = work[p].name
    OBVIOUS
  <2> SUFFICES ASSUME n \in Names \ disturbed PROVE Rested(n) /\ onlyBot(n)
    BY <2>1
  <2>2. /\ Midway(work[p])
        /\ \A b \in bots : ownerOf[b] = n => runtime[n].bot = b \/ work[p].bot = b
    BY <1>0, <2>1, AtName
  <2>3. Nothing \notin bots
    BY RealBots DEF LifeInv
  <2> QED BY <1>0, <2>1, <2>2, <2>3 DEF Midway, onlyBot
<1>3. keeps(p, Rest)
  BY <1>0, <1>1, <1>2, LeavesName, RestIs
<1>4. tells(p, Rest) /\ reapsIdle(p, Rest)
  BY <1>0 DEF tells, reapsIdle, tellsOf
<1>5. signal' \in BOOLEAN /\ (signal => signal') /\ disturbed \subseteq disturbed'
  BY <1>1 DEF LifeInv, LifeTyped
<1> QED BY <1>0, <1>1, <1>3, <1>4, <1>5, RestIs, WorkMoves

(* A step at which no process moves, no bot comes or goes and no name      *)
(* enters or leaves the configuration.                                     *)
LEMMA NobodyMoves ==
    ASSUME LifeInv, UNCHANGED <<secret, botVars, work, disturbed, unwanted>>,
           \A n \in Names : /\ (config'[n] = Nothing) <=> (config[n] = Nothing)
                            /\ runtime'[n].bot = runtime[n].bot,
           phase' # "reconcile" => work[Router] = Rest,
           LifeTyped', Heard', Told'
    PROVE  LifeInv'
<1>0. UNCHANGED <<bots, minted, ownerOf>>
  BY DEF botVars
<1>1. Shaped'
  <2>1. \A p \in Procs : Shape(p, work[p])'
    BY <1>0 DEF LifeInv, Shaped, Shape, ownedBy
  <2> QED BY <2>1 DEF LifeInv, Shaped
<1>2. Alone'
  BY DEF LifeInv, Alone, worksOn
<1>3. NamesSound'
  <2> SUFFICES ASSUME NEW n \in Names \ disturbed PROVE Sound(n)'
    BY DEF NamesSound
  <2>1. Sound(n)
    BY DEF LifeInv, NamesSound
  <2>2. Rested(n) => Rested(n)'
    BY <1>0 DEF Rested
  <2>3. ASSUME NEW p \in Procs, work'[p].name = n PROVE Midway(work[p])'
    <3>1. work'[p] = work[p] /\ Midway(work[p])
      BY <2>1, <2>3 DEF Sound
    <3> QED BY <1>0, <2>2, <2>3, <3>1 DEF Midway
  <2>4. \A b \in bots : ownerOf[b] = n => runtime'[n].bot = b \/ heldAt(b, n)'
    BY <2>1 DEF Sound, heldAt
  <2> QED BY <1>0, <2>1, <2>2, <2>3, <2>4 DEF Sound
<1>4. MintsAreWanted'
  BY DEF LifeInv, MintsAreWanted
<1> QED BY <1>1, <1>2, <1>3, <1>4 DEF LifeInv

LEMMA EditInv ==
    ASSUME LifeInv, NEW p \in Callers, NEW n \in Names, NEW l \in SUBSET Names, Edit(p, n, l)
    PROVE  LifeInv'
<1>0. /\ UNCHANGED <<secret, runtime, botVars, memVars, roundVars, lifeVars, work, disturbed, unwanted>>
      /\ \/ UNCHANGED <<config, signal>>
         \/ config[n] # Nothing /\ config' = [config EXCEPT ![n] = l] /\ signal' = TRUE
  BY DEF Edit, onChannelChange
<1>1. UNCHANGED <<bots, minted, ownerOf, registry, tracker, live, bootList, current, phase,
                  spoken, inherited>>
  BY <1>0 DEF botVars, memVars, roundVars, lifeVars
<1>2. /\ config' \in [Names -> Links] /\ signal' \in BOOLEAN /\ (signal => signal')
      /\ \A m \in Names : (config'[m] = Nothing) <=> (config[m] = Nothing)
  <2>1. config \in [Names -> Links] /\ signal \in BOOLEAN /\ l # Nothing /\ l \in Links
    BY LifeConstants DEF LifeInv, LifeTyped, Links
  <2> QED BY <1>0, <2>1
<1>3. LifeTyped'
  BY <1>0, <1>1, <1>2 DEF LifeInv, LifeTyped, ownedBy
<1>4. Heard'
  BY <1>0, <1>1 DEF LifeInv, Heard, ReapsOnlyTheIdle
<1>5. Told'
  <2> SUFFICES ASSUME NEW m \in Names \ disturbed, live[m] # Nothing, live[m] \notin bots
               PROVE  signal' \/ m \in work[Reaper].done \/ \E o \in Procs : tellsOf(work[o], m)'
    BY <1>0, <1>1 DEF LifeInv, Told
  <2>1. signal \/ m \in work[Reaper].done \/ \E o \in Procs : tellsOf(work[o], m)
    BY DEF LifeInv, Told
  <2>2. \A o \in Procs : tellsOf(work[o], m) => tellsOf(work[o], m)'
    BY <1>0, <1>2 DEF tellsOf
  <2> QED BY <1>2, <2>1, <2>2
<1>6. phase' # "reconcile" => work[Router] = Rest
  BY <1>1 DEF LifeInv, Shaped
<1> QED BY <1>0, <1>2, <1>3, <1>4, <1>5, <1>6, NobodyMoves

-----------------------------------------------------------------------------
(* A bot is created.                                                       *)
LEMMA MintsInv == ASSUME LifeInv, NEW p \in Procs, Mints(p) PROVE LifeInv'
<1>n. PICK n : n = work[p].name
  OBVIOUS
<1> USE <1>n
<1>0. /\ Shape(p, work[p]) /\ work[p] \in Work /\ work[p].at = "reconcile" /\ n \in Names
      /\ work[p].bot = Nothing /\ ~ work[p].stale /\ secret[n] = Nothing
      /\ minted < MaxBots /\ (p = Router => phase = "reconcile")
      /\ n \notin disturbed =>
            /\ config[n] # Nothing /\ runtime[n].bot = Nothing
            /\ \A o \in Procs \ {p} : work[o].name # n
            /\ \A b \in bots : ownerOf[b] # n
  <2>1. work[p].at = "reconcile" /\ ~ work[p].stale /\ secret[n] = Nothing /\ minted < MaxBots
    BY DEF Mints, provisions
  <2>2. Shape(p, work[p]) /\ work[p] \in Work /\ (p = Router => phase = "reconcile")
    BY <2>1, AtName, RestIs
  <2>3. n \in Names /\ work[p].bot = Nothing
    BY <2>1, <2>2, LifeConstants DEF Shape, Work, TearingDown
  <2>4. Nothing \notin bots
    BY RealBots DEF LifeInv
  <2>5. n \notin disturbed =>
            /\ Midway(work[p])
            /\ \A o \in Procs \ {p} : work[o].name # n
            /\ \A b \in bots : ownerOf[b] = n => runtime[n].bot = b \/ work[p].bot = b
    BY <2>3, AtName
  <2>6. n \notin disturbed => config[n] # Nothing /\ runtime[n].bot = Nothing
    BY <2>1, <2>5 DEF Midway, Rested
  <2> QED BY <2>1, <2>2, <2>3, <2>4, <2>5, <2>6
<1>1. PICK w : work' = [work EXCEPT ![p] = w] /\
         \/ w = [work[p] EXCEPT !.at = "minted", !.bot = minted + 1] /\ disturbed' = disturbed
         \/ w = [work[p] EXCEPT !.at = "unready"] /\ disturbed' = disturbed \cup {n}
  BY DEF Mints
<1>2. /\ w \in Work /\ w.name = n /\ w.list = work[p].list /\ w.stale = work[p].stale
      /\ w.kind = work[p].kind /\ w.done = work[p].done
      /\ \/ w.at = "minted" /\ w.bot = minted + 1 /\ disturbed' = disturbed
         \/ w.at = "unready" /\ w.bot = Nothing /\ n \in disturbed'
  <2>1. minted + 1 \in Bots
    BY <1>0, LifeConstants DEF LifeInv, LifeTyped
  <2>2. CASE w = [work[p] EXCEPT !.at = "minted", !.bot = minted + 1] /\ disturbed' = disturbed
    BY <1>0, <2>1, <2>2 DEF Work
  <2>3. CASE w = [work[p] EXCEPT !.at = "unready"] /\ disturbed' = disturbed \cup {n}
    BY <1>0, <2>3 DEF Work
  <2> QED BY <1>1, <2>2, <2>3
<1>3. /\ UNCHANGED <<storeVars, memVars, roundVars, lifeVars, signal>>
      /\ minted' = minted + 1 /\ bots' = bots \cup {minted + 1}
      /\ ownerOf' = [ownerOf EXCEPT ![minted + 1] = n]
      /\ unwanted' = IF config[n] = Nothing THEN unwanted \cup {n} ELSE unwanted
      /\ disturbed \subseteq disturbed'
  BY <1>1 DEF Mints
<1>4. UNCHANGED <<config, secret, runtime, registry, tracker, live, bootList, current, phase,
                  spoken, inherited, signal>>
  BY <1>3 DEF storeVars, memVars, roundVars, lifeVars
<1>5. /\ minted \in Nat /\ minted + 1 \in Bots /\ ownerOf' \in [Bots -> Names \cup {Nothing}]
      /\ ownerOf'[minted + 1] = n /\ minted' \in 0 .. MaxBots /\ bots' \subseteq 1 .. minted'
      /\ \A b \in 1 .. minted : ownerOf'[b] = ownerOf[b] /\ b \in 1 .. minted'
      /\ \A b \in 1 .. minted' : b \in 1 .. minted \/ b = minted + 1
      /\ minted + 1 \notin bots /\ bots \subseteq 1 .. minted
  BY <1>0, <1>3, LifeConstants DEF LifeInv, LifeTyped
<1>6. \A b, m : ownedBy(b, m) => ownedBy(b, m)'
  BY <1>5 DEF ownedBy
<1>7. LifeTyped'
  <2>1. \A b \in 1 .. minted' : ownerOf'[b] \in Names
    BY <1>0, <1>5 DEF LifeInv, LifeTyped
  <2>2. \A m \in Names : ownedBy(secret[m], m)' /\ ownedBy(live[m], m)' /\ ownedBy(runtime[m].bot, m)'
    BY <1>4, <1>5 DEF LifeInv, LifeTyped, ownedBy
  <2> QED BY <1>4, <1>5, <2>1, <2>2 DEF LifeInv, LifeTyped
<1>8. work'[p] = w /\ \A o \in Procs : o # p => work'[o] = work[o]
  BY <1>1, Moved DEF LifeInv
<1>9. Shaped'
  <2>1. \A o \in Procs : o # p => Shape(o, work[o])'
    BY <1>6, <1>8 DEF LifeInv, Shaped, Shape, ownedBy
  <2>2. w.bot = minted + 1 => ownedBy(w.bot, n)'
    <3>1. minted + 1 \in 1 .. minted'
      BY <1>3, <1>5
    <3> QED BY <1>5, <3>1 DEF ownedBy
  <2>3. ownedBy(w.bot, n)'
    BY <1>2, <2>2 DEF ownedBy
  <2>4. Shape(p, work[p])'
    <3>1. minted + 1 # Nothing
      BY <1>5, LifeConstants
    <3>2. Fits(p, w)
      BY <1>0, <1>2, RestIs DEF Shape, Fits, Provisioning, TearingDown
    <3>3. ownedBy(w.bot, w.name)'
      BY <1>2, <2>3 DEF ownedBy
    <3> QED BY <1>0, <1>2, <1>8, <3>1, <3>2, <3>3, LifeConstants DEF Shape, TearingDown, ownedBy
  <2>5. work' \in [Procs -> Work]
    BY <1>1, <1>2 DEF LifeInv, Shaped
  <2>6. phase' # "reconcile" => work'[Router] = Rest
    BY <1>0, <1>4, <1>8, LifeConstants DEF LifeInv, Shaped
  <2> QED BY <2>1, <2>4, <2>5, <2>6 DEF Shaped
<1>10. Alone'
  <2>1. \A m \in Names : takes(p, w, m)
    BY <1>2 DEF takes, worksOn
  <2> QED BY <1>1, <1>3, <2>1, AloneMoves DEF LifeInv
<1>11. NamesSound'
  <2> SUFFICES ASSUME NEW m \in Names \ disturbed' PROVE Sound(m)'
    BY DEF NamesSound
  <2>1. m \in Names \ disturbed /\ Sound(m)
    BY <1>3 DEF LifeInv, NamesSound
  <2>2. CASE m # n
    <3>1. bots' \subseteq Bots
      BY <1>7, RealBots, LifeConstants DEF LifeTyped
    <3>2. p = Router /\ m \in w.list /\ ~ w.stale => config[m] # Nothing
      BY <1>2, <2>1 DEF Sound
    <3>3. \A b \in bots' : ownerOf'[b] = m => b \in bots /\ ownerOf[b] = m
      BY <1>3, <1>5, <2>2
    <3>4. \A b \in 1 .. minted : ownerOf[b] = m => (b \in bots' <=> b \in bots)
      BY <1>3, <1>5
    <3> QED BY <1>1, <1>2, <1>4, <2>1, <2>2, <3>1, <3>2, <3>3, <3>4, SoundElsewhere DEF LifeInv
  <2>3. CASE m = n
    <3>1. w.at = "minted" /\ w.bot = minted + 1 /\ n \notin disturbed
      BY <1>2, <2>1, <2>3
    <3>2. Midway(w)'
      BY <1>0, <1>2, <1>3, <1>4, <3>1 DEF Midway, TearingDown
    <3>3. ASSUME NEW o \in Procs, work'[o].name = n PROVE Midway(work[o])'
      <4>1. work'[o] = w
        BY <1>0, <1>8, <3>1, <3>3
      <4> QED BY <3>2, <4>1 DEF Midway
    <3>4. \A b \in bots' : ownerOf'[b] = n => heldAt(b, n)'
      BY <1>0, <1>2, <1>3, <1>5, <1>8, <3>1 DEF heldAt
    <3>5. work'[p].name = n
      BY <1>2, <1>8
    <3>6. Sound(n)'
      BY <1>0, <1>4, <3>1, <3>3, <3>4, <3>5 DEF Sound
    <3> QED BY <2>3, <3>6
  <2> QED BY <2>2, <2>3
<1>12. Told'
  <2> SUFFICES ASSUME NEW m \in Names \ disturbed'
               PROVE  /\ live[m] \in bots => live[m] \in bots' \/ tellsThen(w, m)
                      /\ \A o \in Procs \ {p} :
                             work[o].name = m /\ config[m] # Nothing => config'[m] # Nothing
                      /\ tellsOf(work[p], m) \/ (p = Reaper /\ m \in work[p].done) =>
                             signal' \/ (p = Reaper /\ m \in w.done) \/ tellsThen(w, m)
    <3>1. Shaped /\ Told /\ work' = [work EXCEPT ![p] = w] /\ UNCHANGED <<live, phase>>
          /\ (signal => signal') /\ disturbed \subseteq disturbed'
      BY <1>1, <1>3, <1>4 DEF LifeInv
    <3> QED BY <3>1, ToldSteps
  <2>1. ~ tellsOf(work[p], m)
    BY <1>0 DEF tellsOf
  <2> QED BY <1>2, <1>3, <1>4, <2>1
<1>13. Heard'
  <2>1. reapsIdle(p, w)
    BY <1>2 DEF reapsIdle
  <2> QED BY <1>1, <1>3, <1>4, <2>1, HeardMoves DEF LifeInv
<1>14. MintsAreWanted'
  BY <1>0, <1>3 DEF LifeInv, MintsAreWanted
<1> QED BY <1>7, <1>9, <1>10, <1>11, <1>12, <1>13, <1>14 DEF LifeInv

-----------------------------------------------------------------------------
(* The router.                                                             *)
LEMMA RouterIs ==
    ASSUME LifeInv, work[Router] # Rest
    PROVE  /\ Router \in Procs /\ Router # Reaper /\ phase = "reconcile"
           /\ Shape(Router, work[Router]) /\ work[Router] \in Work
           /\ work[Router].kind = "iterate" /\ work[Router].at \in Provisioning \cup {"picking"}
<1>1. Router \in Procs /\ Router # Reaper
  BY LifeConstants
<1>2. /\ Shape(Router, work[Router]) /\ work[Router] \in Work /\ phase = "reconcile"
  BY <1>1, AtName
<1> QED BY <1>1, <1>2, LifeConstants DEF Shape, Fits

LEMMA PicksInv == ASSUME LifeInv, NEW n \in Names, Picks(n) PROVE LifeInv'
<1>1. PICK w : w = [work[Router] EXCEPT !.at = "reconcile", !.name = n, !.list = work[Router].list \ {n}]
  OBVIOUS
<1>2. work' = [work EXCEPT ![Router] = w]
  BY <1>1 DEF Picks
<1>3. /\ Router \in Procs /\ Router # Reaper /\ phase = "reconcile" /\ work[Router].at = "picking"
      /\ Shape(Router, work[Router]) /\ work[Router] \in Work /\ work[Router].kind = "iterate"
      /\ n \in work[Router].list /\ work[Router].name = Nothing /\ work[Router].bot = Nothing
  BY RouterIs, RestIs DEF Picks, Shape, TearingDown
<1>4. /\ w \in Work /\ w.at = "reconcile" /\ w.name = n /\ w.list = work[Router].list \ {n}
      /\ w.bot = Nothing /\ w.kind = "iterate" /\ w.stale = work[Router].stale
  BY <1>1, <1>3 DEF Work
<1>5. Shape(Router, w)
  BY <1>3, <1>4, LifeConstants DEF Shape, Fits, Provisioning, TearingDown, ownedBy
<1>6. UNCHANGED <<storeVars, botVars, memVars, roundVars, lifeVars, unwanted, signal, disturbed>>
  BY DEF Picks
<1>7. n \notin disturbed => Rested(n) /\ onlyBot(n) /\ (~ w.stale => config[n] # Nothing)
  <2> SUFFICES ASSUME n \notin disturbed
               PROVE  Rested(n) /\ onlyBot(n) /\ (~ w.stale => config[n] # Nothing)
    OBVIOUS
  <2>1. Rested(n) /\ onlyBot(n)
    BY <1>3, FreshName, LifeConstants DEF worksOn
  <2>2. Sound(n)
    BY DEF LifeInv, NamesSound
  <2> QED BY <1>3, <1>4, <2>1, <2>2 DEF Sound
<1>8. keeps(Router, w)
  <2>1. \A m \in Names : takes(Router, w, m)
    BY <1>3, <1>4 DEF takes, worksOn
  <2>2. \A m \in Names : work[Router].name # m
    BY <1>3, LifeConstants
  <2>3. n \notin disturbed => Midway(w) /\ \A b \in bots : ownerOf[b] = n => runtime[n].bot = b
    BY <1>4, <1>7 DEF Midway, TearingDown, onlyBot
  <2>4. ~ w.stale => \A m \in w.list \ disturbed : config[m] # Nothing
    <3>1. w.list \subseteq Names /\ w.list \subseteq work[Router].list
      BY <1>4 DEF Work
    <3> QED BY <1>4, <3>1 DEF LifeInv, NamesSound, Sound
  <2> QED BY <1>4, <1>6, <2>1, <2>2, <2>3, <2>4 DEF keeps
<1>9. tells(Router, w) /\ reapsIdle(Router, w)
  BY <1>3 DEF tells, reapsIdle, tellsOf
<1>10. signal' \in BOOLEAN /\ (signal => signal') /\ disturbed \subseteq disturbed'
  BY <1>6 DEF LifeInv, LifeTyped
<1> QED BY <1>2, <1>3, <1>5, <1>6, <1>8, <1>9, <1>10, WorkMoves

LEMMA PickFailsInv == ASSUME LifeInv, PickFails PROVE LifeInv'
<1>1. PICK w : w = [work[Router] EXCEPT !.list = {}, !.done = {}]
  OBVIOUS
<1>2. work' = [work EXCEPT ![Router] = w]
  BY <1>1 DEF PickFails
<1>3. /\ Router \in Procs /\ Router # Reaper /\ phase = "reconcile" /\ work[Router].at = "picking"
      /\ Shape(Router, work[Router]) /\ work[Router] \in Work /\ work[Router].kind = "iterate"
      /\ work[Router].name = Nothing /\ work[Router].bot = Nothing
  BY RouterIs, RestIs DEF PickFails, Shape, TearingDown
<1>4. /\ w \in Work /\ w.at = "picking" /\ w.name = Nothing /\ w.list = {}
      /\ w.bot = Nothing /\ w.kind = "iterate"
  BY <1>1, <1>3 DEF Work
<1>5. Shape(Router, w)
  BY <1>3, <1>4, LifeConstants DEF Shape, Fits, Provisioning, TearingDown, ownedBy
<1>6. UNCHANGED <<storeVars, botVars, memVars, roundVars, lifeVars, unwanted, signal>>
  BY DEF PickFails
<1>7. signal' \in BOOLEAN /\ (signal => signal') /\ disturbed \subseteq disturbed'
  BY <1>6 DEF LifeInv, LifeTyped, PickFails
<1>8. keeps(Router, w)
  BY <1>3, <1>4, <1>7, LeavesName, LifeConstants
<1>9. tells(Router, w) /\ reapsIdle(Router, w)
  BY <1>3 DEF tells, reapsIdle, tellsOf
<1> QED BY <1>2, <1>3, <1>5, <1>6, <1>7, <1>8, <1>9, WorkMoves

LEMMA ReconciledInv == ASSUME LifeInv, Reconciled PROVE LifeInv'
<1>1. PICK v : v = work[Router]
  OBVIOUS
<1>2. /\ Router \in Procs /\ Router # Reaper /\ phase = "reconcile"
      /\ Shape(Router, v) /\ v \in Work /\ v.kind = "iterate" /\ v.bot = Nothing
      /\ v.at \in {"ready", "unready", "aborted"}
  BY <1>1, RouterIs, RestIs DEF Reconciled, Shape, TearingDown
<1>3. PICK w : work' = [work EXCEPT ![Router] = w] /\
         w = CASE v.at = "ready" -> [[v EXCEPT !.at = "picking", !.name = Nothing] EXCEPT !.done = v.done \cup {v.name}]
               [] v.at = "unready" -> [v EXCEPT !.at = "picking", !.name = Nothing]
               [] v.at = "aborted" -> [[v EXCEPT !.at = "picking", !.name = Nothing] EXCEPT !.list = {}, !.done = {}]
  BY <1>1 DEF Reconciled
<1>4. v.name \in Names
  BY <1>2 DEF Shape, Work
<1>5. /\ w \in Work /\ w.at = "picking" /\ w.name = Nothing /\ w.list \subseteq v.list
      /\ w.bot = Nothing /\ w.kind = "iterate" /\ w.stale = v.stale
  <2>1. PICK u : u = [v EXCEPT !.at = "picking", !.name = Nothing]
    OBVIOUS
  <2>2. /\ u \in Work /\ u.at = "picking" /\ u.name = Nothing /\ u.list = v.list
        /\ u.bot = Nothing /\ u.kind = "iterate" /\ u.stale = v.stale
    BY <1>2, <2>1 DEF Work
  <2>3. w = [u EXCEPT !.done = v.done \cup {v.name}] \/ w = u \/ w = [u EXCEPT !.list = {}, !.done = {}]
    BY <1>2, <1>3, <2>1
  <2>4. CASE w = u
    BY <2>2, <2>4
  <2>5. CASE w = [u EXCEPT !.done = v.done \cup {v.name}]
    <3>1. v.done \cup {v.name} \in SUBSET Names
      BY <1>2, <1>4 DEF Work
    <3> QED BY <2>2, <2>5, <3>1 DEF Work
  <2>6. CASE w = [u EXCEPT !.list = {}, !.done = {}]
    BY <2>2, <2>6 DEF Work
  <2> QED BY <2>3, <2>4, <2>5, <2>6
<1>6. Shape(Router, w)
  BY <1>2, <1>5, LifeConstants DEF Shape, Fits, Provisioning, TearingDown, ownedBy
<1>7. UNCHANGED <<storeVars, botVars, memVars, roundVars, lifeVars, unwanted, signal>>
  BY DEF Reconciled
<1>8. signal' \in BOOLEAN /\ (signal => signal') /\ disturbed \subseteq disturbed'
  BY <1>7 DEF LifeInv, LifeTyped, Reconciled
<1>9. v.name \notin disturbed => Rested(v.name) /\ onlyBot(v.name)
  <2>1. Nothing \notin bots
    BY RealBots DEF LifeInv
  <2>2. v.name \notin disturbed =>
           /\ Midway(v) /\ \A b \in bots : ownerOf[b] = v.name => runtime[v.name].bot = b \/ v.bot = b
    BY <1>1, <1>2, <1>4, AtName
  <2> QED BY <1>2, <2>1, <2>2 DEF Midway, onlyBot
<1>10. keeps(Router, w)
  BY <1>1, <1>2, <1>5, <1>8, <1>9, LeavesName
<1>11. tells(Router, w) /\ reapsIdle(Router, w)
  BY <1>1, <1>2 DEF tells, reapsIdle, tellsOf
<1> QED BY <1>2, <1>3, <1>6, <1>7, <1>8, <1>10, <1>11, WorkMoves

LEMMA IteratesInv ==
    ASSUME LifeInv, NEW l \in SUBSET Names, NEW old \in BOOLEAN, NEW missed,
           iterates(l, old, missed), ~ old => l = named(config)
    PROVE  LifeInv'
<1>1. PICK w : w = [Rest EXCEPT !.at = "picking", !.kind = "iterate", !.list = l, !.stale = old]
  OBVIOUS
<1>2. /\ work' = [work EXCEPT ![Router] = w] /\ phase = "reload" /\ phase' = "reconcile"
      /\ signal' = FALSE /\ current' = l
      /\ disturbed' = disturbed \cup missed \cup UNION {meets(Router, n) : n \in l}
      /\ UNCHANGED <<storeVars, botVars, memVars, bootList, lifeVars, unwanted, announced>>
  BY <1>1 DEF iterates
<1>3. UNCHANGED <<config, secret, runtime, bots, minted, ownerOf, registry, tracker, live,
                  bootList, spoken, inherited>>
  BY <1>2 DEF storeVars, botVars, memVars, lifeVars
<1>4. Router \in Procs /\ Router # Reaper /\ work[Router] = Rest
  BY <1>2, LifeConstants DEF LifeInv, Shaped
<1>5. /\ w \in Work /\ w.at = "picking" /\ w.kind = "iterate" /\ w.name = Nothing /\ w.bot = Nothing
      /\ w.list = l /\ w.stale = old
  BY <1>1, RestIs DEF Work, Rest
<1>6. Shape(Router, w)
  BY <1>5 DEF Shape, Fits, ownedBy, TearingDown
<1>7. keeps(Router, w)
  <2>1. \A n \in l \ disturbed' : \A o \in Procs \ {Router} : ~ worksOn(o, n)
    BY <1>2, NobodyElse
  <2>2. \A n \in Names \ disturbed' : takes(Router, w, n)
    BY <1>5, <2>1, LifeConstants DEF takes
  <2>3. \A n \in Names : work[Router].name # n /\ w.name # n
    BY <1>4, <1>5, RestIs, LifeConstants
  <2>4. ~ w.stale => \A n \in w.list : config[n] # Nothing
    BY <1>5 DEF named
  <2> QED BY <2>2, <2>3, <2>4 DEF keeps
<1>8. LifeTyped'
  BY <1>2, <1>3 DEF LifeInv, LifeTyped, ownedBy
<1>9. Shaped'
  <2>1. work'[Router] = w /\ \A o \in Procs : o # Router => work'[o] = work[o]
    BY <1>2, <1>4, Moved DEF LifeInv
  <2>2. \A o \in Procs : Shape(o, work'[o])
    BY <1>6, <2>1 DEF LifeInv, Shaped
  <2>3. \A o \in Procs : Shape(o, work[o])'
    BY <1>3, <2>2 DEF Shape, ownedBy
  <2>4. work' \in [Procs -> Work]
    BY <1>2, <1>5 DEF LifeInv, Shaped
  <2> QED BY <1>2, <2>3, <2>4 DEF Shaped
<1>10. Alone' /\ NamesSound'
  <2>1. UNCHANGED <<storeVars, botVars>> /\ disturbed \subseteq disturbed'
    BY <1>2
  <2>2. \A n \in Names \ disturbed' : takes(Router, w, n)
    BY <1>7 DEF keeps
  <2>3. Alone'
    BY <1>2, <1>4, <2>1, <2>2, AloneMoves DEF LifeInv
  <2>4. NamesSound'
    BY <1>2, <1>4, <1>7, <2>1, NamesMove DEF LifeInv
  <2> QED BY <2>3, <2>4
<1>11. Told'
  BY <1>2, <1>3 DEF LifeInv, Told
<1>12. Heard'
  <2>1. reapsIdle(Router, w)
    BY <1>4 DEF reapsIdle
  <2> QED BY <1>2, <1>3, <1>4, <2>1, HeardMoves DEF LifeInv
<1>13. MintsAreWanted'
  BY <1>2 DEF LifeInv, MintsAreWanted
<1> QED BY <1>8, <1>9, <1>10, <1>11, <1>12, <1>13 DEF LifeInv

LEMMA ReloadsInv == ASSUME LifeInv, Reloads PROVE LifeInv'
<1>1. named(config) \in SUBSET Names /\ bootList \in SUBSET Names
  BY DEF LifeInv, LifeTyped, named
<1>2. CASE iterates(named(config), FALSE, {})
  BY <1>1, <1>2, IteratesInv
<1>3. CASE iterates(bootList, TRUE, {})
  BY <1>1, <1>3, IteratesInv
<1>4. CASE iterates(bootList, TRUE, named(config) \ bootList)
  BY <1>1, <1>4, IteratesInv
<1> QED BY <1>2, <1>3, <1>4 DEF Reloads

LEMMA BuildsInv == ASSUME LifeInv, Builds PROVE LifeInv'
<1>1. /\ Router \in Procs /\ Router # Reaper /\ work[Router].at = "picking"
      /\ work[Router].name = Nothing
  BY RouterIs, RestIs DEF Builds, Shape
<1>2. /\ work' = [work EXCEPT ![Router] = Rest] /\ registry' = current
      /\ live' = [n \in Names |-> IF n \in work[Router].done THEN secret[n] ELSE Nothing]
      /\ phase' = "running"
      /\ UNCHANGED <<storeVars, botVars, tracker, bootList, current, budget, lifeVars, signal,
                     disturbed, unwanted>>
  BY DEF Builds
<1>3. UNCHANGED <<config, secret, runtime, bots, minted, ownerOf, spoken, inherited>>
  BY <1>2 DEF storeVars, botVars, lifeVars
<1>4. work'[Router] = Rest /\ \A o \in Procs : o # Router => work'[o] = work[o]
  BY <1>1, <1>2, Moved DEF LifeInv
<1>5. keeps(Router, Rest)
  BY <1>1, <1>2, LeavesName, RestIs, LifeConstants
<1>6. LifeTyped'
  <2>1. live' \in [Names -> BotOrNothing]
    BY <1>2 DEF LifeInv, LifeTyped, BotOrNothing
  <2>2. \A n \in Names : ownedBy(live'[n], n)
    BY <1>2 DEF LifeInv, LifeTyped, ownedBy
  <2> QED BY <1>2, <1>3, <2>1, <2>2 DEF LifeInv, LifeTyped, ownedBy
<1>7. Shaped'
  <2>1. \A o \in Procs : Shape(o, work'[o])
    BY <1>4, RestIs DEF LifeInv, Shaped
  <2>2. \A o \in Procs : Shape(o, work[o])'
    BY <1>3, <2>1 DEF Shape, ownedBy
  <2>3. work' \in [Procs -> Work]
    BY <1>2, RestIs DEF LifeInv, Shaped
  <2> QED BY <1>4, <2>2, <2>3 DEF Shaped
<1>8. Alone' /\ NamesSound'
  <2>1. \A n \in Names \ disturbed' : takes(Router, Rest, n)
    BY <1>5 DEF keeps
  <2>2. Alone'
    BY <1>1, <1>2, <2>1, AloneMoves DEF LifeInv
  <2>3. NamesSound'
    BY <1>1, <1>2, <1>5, NamesMove DEF LifeInv
  <2> QED BY <2>2, <2>3
<1>9. Told'
  <2> SUFFICES ASSUME NEW n \in Names \ disturbed, live'[n] # Nothing, live'[n] \notin bots
               PROVE  \E o \in Procs : tellsOf(work[o], n)'
    BY <1>2, <1>3 DEF Told
  <2>1. secret[n] # Nothing /\ secret[n] \notin bots
    BY <1>2
  <2>2. ~ Rested(n)
    BY <2>1 DEF Rested
  <2>3. Sound(n)
    BY DEF LifeInv, NamesSound
  <2>4. PICK o \in Procs : work[o].name = n
    BY <2>2, <2>3 DEF Sound
  <2>5. Midway(work[o]) /\ Shape(o, work[o]) /\ o # Router
    BY <1>1, <2>3, <2>4, AtName, LifeConstants DEF Sound
  <2>6. work[o].at \in {"unconfigure", "forget", "unseal", "removed"}
    BY <2>1, <2>2, <2>4, <2>5, LifeConstants DEF Midway, Shape, Work
  <2>7. work[o].at = "unconfigure" => config[n] # Nothing
    BY <2>1, <2>4, <2>5 DEF Midway
  <2>8. tellsOf(work[o], n)'
    BY <1>3, <1>4, <2>4, <2>5, <2>6, <2>7 DEF tellsOf
  <2> QED BY <2>8
<1>10. Heard'
  <2>1. reapsIdle(Router, Rest)
    BY <1>1 DEF reapsIdle
  <2> QED BY <1>1, <1>2, <1>3, <2>1, HeardMoves DEF LifeInv
<1>11. MintsAreWanted'
  BY <1>2 DEF LifeInv, MintsAreWanted
<1> QED BY <1>6, <1>7, <1>8, <1>9, <1>10, <1>11 DEF LifeInv

LEMMA RestartsInv == ASSUME LifeInv, Restarts PROVE LifeInv'
<1>1. /\ UNCHANGED <<storeVars, botVars, registry, tracker, bootList, current, lifeVars,
                     signal, work, disturbed, unwanted>>
      /\ phase = "running" /\ phase' = "reload" /\ live' = [n \in Names |-> Nothing]
  BY DEF Restarts
<1>2. UNCHANGED <<config, secret, runtime, bots, minted, ownerOf, spoken, inherited>>
  BY <1>1 DEF storeVars, botVars, lifeVars
<1>3. LifeTyped'
  BY <1>1, <1>2 DEF LifeInv, LifeTyped, ownedBy, BotOrNothing
<1>4. Heard' /\ Told'
  BY <1>1, <1>2 DEF LifeInv, Heard, ReapsOnlyTheIdle, Told
<1>5. work[Router] = Rest
  BY <1>1 DEF LifeInv, Shaped
<1> QED BY <1>1, <1>2, <1>3, <1>4, <1>5, NobodyMoves

(* What Told says is kept by a step that leaves the transports and the     *)
(* processes alone.                                                        *)
LEMMA ToldStays ==
    ASSUME LifeInv, UNCHANGED <<config, live, bots, signal, phase, work, disturbed>> PROVE Told'
<1>1. \A n : \A o \in Procs : tellsOf(work[o], n) => tellsOf(work[o], n)'
  BY DEF tellsOf
<1> QED BY <1>1 DEF LifeInv, Told

LEMMA MessageReceivedInv == ASSUME LifeInv, NEW n \in Names, MessageReceived(n) PROVE LifeInv'
<1>1. /\ UNCHANGED <<config, secret, botVars, registry, live, roundVars, signal, work,
                     disturbed, inherited, unwanted>>
      /\ tracker' = [tracker EXCEPT ![n] = "active"]
      /\ runtime' = [runtime EXCEPT ![n].at = TRUE]
      /\ spoken' = spoken \cup {n}
  BY DEF MessageReceived
<1>2. UNCHANGED <<bots, minted, ownerOf, bootList, current, phase>>
  BY <1>1 DEF botVars, roundVars
<1>3. /\ runtime' \in [Names -> [bot : BotOrNothing, at : BOOLEAN]]
      /\ \A m \in Names : runtime'[m].bot = runtime[m].bot
      /\ \A m \in Names : m # n => runtime'[m].at = runtime[m].at
  <2>1. runtime' = [runtime EXCEPT ![n] = [runtime[n] EXCEPT !.at = TRUE]]
    BY <1>1
  <2>2. runtime \in [Names -> [bot : BotOrNothing, at : BOOLEAN]]
    BY DEF LifeInv, LifeTyped
  <2>3. \E r \in [bot : BotOrNothing, at : BOOLEAN] :
          r.bot = runtime[n].bot /\ runtime' = [runtime EXCEPT ![n] = r]
    <3>1. /\ [runtime[n] EXCEPT !.at = TRUE] \in [bot : BotOrNothing, at : BOOLEAN]
          /\ [runtime[n] EXCEPT !.at = TRUE].bot = runtime[n].bot
      BY <2>2
    <3> QED BY ONLY <2>1, <3>1
  <2> QED BY ONLY <2>2, <2>3, n \in Names
<1>4. LifeTyped'
  BY <1>1, <1>2, <1>3 DEF LifeInv, LifeTyped, ownedBy
<1>5. Heard'
  <2>1. \A m \in Names : tracker'[m] # "unknown" \/ runtime'[m].at => m \in spoken' \cup inherited'
    BY <1>1, <1>3 DEF LifeInv, LifeTyped, Heard
  <2>2. ReapsOnlyTheIdle'
    BY <1>1 DEF LifeInv, Heard, ReapsOnlyTheIdle
  <2> QED BY <2>1, <2>2 DEF Heard
<1>6. Told'
  BY <1>1, <1>2, ToldStays
<1>7. phase' # "reconcile" => work[Router] = Rest
  BY <1>2 DEF LifeInv, Shaped
<1> QED BY <1>1, <1>3, <1>4, <1>5, <1>6, <1>7, NobodyMoves

LEMMA GoesIdleInv == ASSUME LifeInv, NEW n \in Names, GoesIdle(n) PROVE LifeInv'
<1>1. /\ UNCHANGED <<storeVars, botVars, registry, live, roundVars, signal, work, lifeVars,
                     disturbed, unwanted>>
      /\ tracker[n] = "active" /\ tracker' = [tracker EXCEPT ![n] = "idle"]
  BY DEF GoesIdle
<1>2. UNCHANGED <<config, secret, runtime, bots, minted, ownerOf, bootList, current, phase,
                  spoken, inherited>>
  BY <1>1 DEF storeVars, botVars, roundVars, lifeVars
<1>3. LifeTyped'
  BY <1>1, <1>2 DEF LifeInv, LifeTyped, ownedBy
<1>4. Heard'
  BY <1>1, <1>2 DEF LifeInv, LifeTyped, Heard, ReapsOnlyTheIdle
<1>5. Told'
  BY <1>1, <1>2, ToldStays
<1>6. phase' # "reconcile" => work[Router] = Rest
  BY <1>2 DEF LifeInv, Shaped
<1> QED BY <1>1, <1>2, <1>3, <1>4, <1>5, <1>6, NobodyMoves

LEMMA BootInv == ASSUME LifeInv, Boot PROVE LifeInv'
<1>1. /\ UNCHANGED <<storeVars, botVars, live, current, lifeVars, signal, work, disturbed, unwanted>>
      /\ phase = "down" /\ phase' = "reload"
      /\ bootList' = named(config) /\ registry' = named(config)
      /\ tracker' = [n \in Names |->
                        IF n \in named(config) /\ runtime[n].at THEN "active" ELSE "unknown"]
  BY DEF Boot
<1>2. UNCHANGED <<config, secret, runtime, bots, minted, ownerOf, spoken, inherited>>
  BY <1>1 DEF storeVars, botVars, lifeVars
<1>3. LifeTyped'
  BY <1>1, <1>2 DEF LifeInv, LifeTyped, ownedBy, named
<1>4. Heard'
  BY <1>1, <1>2 DEF LifeInv, Heard, ReapsOnlyTheIdle
<1>5. Told' /\ work[Router] = Rest
  BY <1>1, <1>2 DEF LifeInv, Told, Shaped
<1> QED BY <1>1, <1>2, <1>3, <1>4, <1>5, NobodyMoves

LEMMA LifeStutters == ASSUME LifeInv, UNCHANGED channelVars PROVE LifeInv'
<1>1. UNCHANGED <<config, secret, runtime, bots, minted, ownerOf, registry, tracker, live, signal,
                  bootList, current, phase, work, disturbed, spoken, inherited, unwanted>>
  BY DEF channelVars
<1>2. LifeTyped' /\ Heard'
  BY <1>1 DEF LifeInv, LifeTyped, ownedBy, Heard, ReapsOnlyTheIdle
<1>3. Told'
  BY <1>1, ToldStays
<1>4. phase' # "reconcile" => work[Router] = Rest
  BY <1>1 DEF LifeInv, Shaped
<1> QED BY <1>1, <1>2, <1>3, <1>4, NobodyMoves DEF botVars

LEMMA DiesInv == ASSUME LifeInv, Dies PROVE LifeInv'
<1>1. /\ phase' = "down" /\ work' = [p \in Procs |-> Rest]
      /\ disturbed' = disturbed \cup ({work[p].name : p \in Procs} \ {Nothing})
      /\ registry' = {} /\ signal' = FALSE /\ tracker' = [n \in Names |-> "unknown"]
      /\ live' = [n \in Names |-> Nothing]
      /\ UNCHANGED <<storeVars, botVars, bootList, current, lifeVars, unwanted>>
  BY DEF Dies
<1>2. UNCHANGED <<config, secret, runtime, bots, minted, ownerOf, spoken, inherited>>
  BY <1>1 DEF storeVars, botVars, lifeVars
<1>3. LifeTyped'
  BY <1>1, <1>2 DEF LifeInv, LifeTyped, ownedBy, BotOrNothing
<1>4. \A p \in Procs : work'[p] = Rest
  BY <1>1
<1>5. Shaped'
  <2>1. \A p \in Procs : Shape(p, work[p])'
    BY <1>4, RestIs DEF Shape, ownedBy
  <2> QED BY <1>1, <1>4, <2>1, RestIs, LifeConstants DEF Shaped
<1>6. Alone'
  BY <1>4, RestIs, LifeConstants DEF Alone, worksOn
<1>7. NamesSound'
  <2> SUFFICES ASSUME NEW n \in Names \ disturbed' PROVE Sound(n)'
    BY DEF NamesSound
  <2>1. n \notin disturbed /\ \A p \in Procs : work[p].name # n
    BY <1>1, LifeConstants
  <2>2. Sound(n)
    BY <2>1 DEF LifeInv, NamesSound
  <2>3. Rested(n) /\ \A b \in bots : ownerOf[b] = n => runtime[n].bot = b
    BY <2>1, <2>2 DEF Sound, heldAt
  <2>4. Rested(n)'
    BY <1>2, <2>3 DEF Rested
  <2>5. \A p \in Procs : work'[p].name # n /\ work'[p].list = {}
    BY <1>4, RestIs, LifeConstants
  <2> QED BY <1>2, <2>3, <2>4, <2>5, LifeConstants DEF Sound
<1>8. Told'
  BY <1>1, <1>2 DEF Told
<1>9. Heard'
  BY <1>1, <1>2, <1>4, RestIs, LifeConstants DEF LifeInv, Heard, ReapsOnlyTheIdle
<1>10. MintsAreWanted'
  BY <1>1 DEF LifeInv, MintsAreWanted
<1> QED BY <1>3, <1>5, <1>6, <1>7, <1>8, <1>9, <1>10 DEF LifeInv

-----------------------------------------------------------------------------
LEMMA LifeInit == ASSUME ChannelsInit PROVE LifeInv
<1> USE DEF ChannelsInit
<1>1. PICK f \in [Configured -> bots] :
         /\ {f[n] : n \in Configured} = bots
         /\ secret = [n \in Names |-> IF n \in Configured THEN f[n] ELSE Nothing]
         /\ runtime = [n \in Names |-> IF n \in Configured THEN [bot |-> f[n], at |-> FALSE] ELSE NoState]
         /\ ownerOf = [b \in Bots |->
                          IF b \in bots THEN CHOOSE n \in Configured : f[n] = b ELSE Nothing]
         /\ \A m, n \in Configured : f[m] = f[n] => m = n
  OBVIOUS
<1>2. /\ Configured \subseteq Names /\ MaxBots \in Nat /\ minted \in 0 .. MaxBots
      /\ bots = 1 .. minted /\ bots \subseteq Bots /\ Nothing \notin bots
  <2>1. IsFiniteSet(Configured) /\ Cardinality(Configured) \in Nat
    BY ChannelsAssumption, FS_Subset, FS_CardinalityType
  <2>2. Configured \subseteq Names /\ minted \in 0 .. MaxBots /\ bots = 1 .. minted
    BY <2>1, ChannelsAssumption
  <2>3. bots \subseteq Bots
    BY <2>2, LifeConstants
  <2> QED BY <2>2, <2>3, LifeConstants
<1>3. \A b \in bots : ownerOf[b] \in Configured /\ f[ownerOf[b]] = b
  <2> SUFFICES ASSUME NEW b \in bots PROVE ownerOf[b] \in Configured /\ f[ownerOf[b]] = b
    OBVIOUS
  <2>1. PICK n \in Configured : f[n] = b
    BY <1>1
  <2>2. ownerOf[b] = CHOOSE m \in Configured : f[m] = b
    BY <1>1, <1>2
  <2> QED BY <2>1, <2>2
<1>4. \A n \in Configured : f[n] \in bots /\ ownerOf[f[n]] = n
  <2>1. \A m, n \in Configured : f[m] = f[n] => m = n
    BY <1>1
  <2>2. \A n \in Configured : f[n] \in bots
    OBVIOUS
  <2> HIDE DEF ChannelsInit
  <2> QED BY <1>3, <2>1, <2>2
<1>5. \A n \in Names : /\ secret[n] = runtime[n].bot /\ ~ runtime[n].at
                       /\ n \in Configured => secret[n] = f[n]
                       /\ n \notin Configured => secret[n] = Nothing
  BY <1>1 DEF NoState
<1>6. LifeTyped
  <2>1. config \in [Names -> Links]
    BY DEF Links
  <2>2. secret \in [Names -> BotOrNothing] /\ live \in [Names -> BotOrNothing]
    BY <1>1, <1>2, <1>4 DEF BotOrNothing
  <2>3. runtime \in [Names -> [bot : BotOrNothing, at : BOOLEAN]]
    <3>1. NoState \in [bot : BotOrNothing, at : BOOLEAN]
      BY DEF NoState, BotOrNothing
    <3>2. \A n \in Configured : [bot |-> f[n], at |-> FALSE] \in [bot : BotOrNothing, at : BOOLEAN]
      BY <1>2, <1>4 DEF BotOrNothing
    <3> QED BY <1>1, <3>1, <3>2
  <2>4. ownerOf \in [Bots -> Names \cup {Nothing}] /\ \A b \in 1 .. minted : ownerOf[b] \in Names
    <3>1. \A b \in Bots : ownerOf[b] \in Names \cup {Nothing}
      BY <1>1, <1>2, <1>3
    <3> QED BY <1>1, <1>2, <1>3, <3>1
  <2>5. \A n \in Names : ownedBy(secret[n], n) /\ ownedBy(live[n], n) /\ ownedBy(runtime[n].bot, n)
    BY <1>2, <1>4, <1>5 DEF ownedBy
  <2> QED BY <1>2, <2>1, <2>2, <2>3, <2>4, <2>5 DEF LifeTyped
<1>7. \A p \in Procs : work[p] = Rest
  OBVIOUS
<1>8. Shaped
  <2>1. work \in [Procs -> Work]
    BY RestIs
  <2> QED BY <1>7, <2>1, RestIs, LifeConstants DEF Shaped
<1>9. Alone
  BY <1>7, RestIs, LifeConstants DEF Alone, worksOn
<1>10. NamesSound
  <2> SUFFICES ASSUME NEW n \in Names PROVE Sound(n)
    BY DEF NamesSound
  <2>1. Rested(n)
    <3>1. config[n] = Nothing => n \notin Configured
      <4>1. {} # Nothing
        BY LifeConstants
      <4> QED BY <4>1
    <3> QED BY <1>4, <1>5, <3>1 DEF Rested
  <2>2. \A b \in bots : ownerOf[b] = n => runtime[n].bot = b
    <3> HIDE DEF ChannelsInit
    <3> QED BY <1>3, <1>5
  <2>3. \A p \in Procs : work[p].name # n /\ work[p].list = {}
    BY <1>7, RestIs, LifeConstants
  <2> QED BY <2>1, <2>2, <2>3, LifeConstants DEF Sound
<1>11. Told
  BY DEF Told
<1>12. Heard
  BY <1>5, <1>7, RestIs, LifeConstants DEF Heard, ReapsOnlyTheIdle
<1> QED BY <1>6, <1>8, <1>9, <1>10, <1>11, <1>12 DEF LifeInv, MintsAreWanted

LEMMA LifeNext == LifeInv /\ [ChannelsNext]_channelVars => LifeInv'
<1> SUFFICES ASSUME LifeInv, [ChannelsNext]_channelVars PROVE LifeInv'
  OBVIOUS
<1>1. ASSUME NEW p \in Callers, Creates(p) PROVE LifeInv'
  BY <1>1, CreateBeginsInv, EditInv, CreateAddsInv, CreateReturnsInv DEF Creates
<1>2. ASSUME NEW p \in Callers, NEW n \in Names, DeleteBegins(p, n) PROVE LifeInv'
  BY <1>2, DeleteBeginsInv
<1>3. ASSUME NEW p \in Procs, Provisions(p) PROVE LifeInv'
  BY <1>3, LooksInv, MintsInv, MintRefusedInv, StoresInv, StoreFailsInv DEF Provisions
<1>4. ASSUME NEW p \in Procs, Teardowns(p) PROVE LifeInv'
  BY <1>4, TearsDownInv, TeardownFailsInv, UnconfiguresInv, UnconfigureFailsInv, CleansInv,
     CleaningFailsInv, TeardownReturnsInv DEF Teardowns
<1>5. ASSUME NEW n \in Names, ConfirmBegins(n) \/ ReaperChecks(n) PROVE LifeInv'
  BY <1>5, ConfirmBeginsInv, ReaperChecksInv
<1>6. CASE ReaperTicks
  BY <1>6, ReaperTicksInv
<1>7. CASE Iterates
  BY <1>7, ReloadsInv, PickFailsInv, ReconciledInv, BuildsInv, RestartsInv, DiesInv, BootInv,
     PicksInv, MessageReceivedInv, GoesIdleInv DEF Iterates
<1>8. CASE UNCHANGED channelVars
  BY <1>8, LifeStutters
<1> QED BY <1>1, <1>2, <1>3, <1>4, <1>5, <1>6, <1>7, <1>8 DEF ChannelsNext

LEMMA LifeInvariance == ChannelsSpec => []LifeInv
<1>1. ChannelsInit => LifeInv
  BY LifeInit
<1> QED BY <1>1, LifeNext, PTL DEF ChannelsSpec

(* Of every bot the runtime state, or an operation under way, knows: no    *)
(* number of channels, callers and restarts loses one, and a deleted       *)
(* channel leaves neither token nor teardown state; failures excepted, and *)
(* operations that met on the name.                                        *)
THEOREM NothingLeaksInvariance == ChannelsSpec => []NothingLeaks
<1>1. LifeInv => NothingLeaks
  <2> SUFFICES ASSUME LifeInv PROVE NothingLeaks
    OBVIOUS
  <2>1. BotsAreTracked
    <3> SUFFICES ASSUME NEW b \in bots, ownerOf[b] \notin disturbed
                 PROVE  \/ runtime[ownerOf[b]].bot = b
                        \/ \E p \in Procs : work[p].name = ownerOf[b] /\ work[p].bot = b
      BY DEF BotsAreTracked
    <3>1. ownerOf[b] \in Names
      BY DEF LifeInv, LifeTyped
    <3> QED BY <3>1 DEF LifeInv, NamesSound, Sound, heldAt
  <2>2. NothingLeftBehind
    BY DEF NothingLeftBehind, named, LifeInv, NamesSound, Sound, Rested
  <2> QED BY <2>1, <2>2 DEF NothingLeaks
<1> QED BY <1>1, LifeInvariance, PTL

(* Bots are created for configured channels, a transport on a deleted bot  *)
(* is dropped or about to be, and only an idle channel is reaped.          *)
THEOREM LifecycleHolds == ChannelsSpec => []LifecycleOK
<1>1. LifeInv => LifecycleOK
  <2> SUFFICES ASSUME LifeInv PROVE LifecycleOK
    OBVIOUS
  <2>1. ChannelsTypeOK
    <3>1. \A n \in Names : config[n] = Nothing \/ config[n] \subseteq Names
      BY DEF LifeInv, LifeTyped, Links
    <3>2. \A g \in {secret, live, [n \in Names |-> runtime[n].bot]} :
             \A n \in Names : g[n] # Nothing => g[n] \in 1 .. minted /\ ownerOf[g[n]] = n
      BY DEF LifeInv, LifeTyped, ownedBy
    <3> QED BY <3>1, <3>2 DEF LifeInv, LifeTyped, Shaped, BotOrNothing, ChannelsTypeOK
  <2>2. DeadTransportIsDropped
    BY LifeConstants DEF DeadTransportIsDropped, LifeInv, Told, tellsOf, worksOn
  <2> QED BY <2>1, <2>2 DEF LifecycleOK, LifeInv, Heard
<1> QED BY <1>1, LifeInvariance, PTL

=============================================================================
