----------------------------- MODULE TurnsProofs -----------------------------
(***************************************************************************)
(* Proofs about a turn.  First about TurnStream, its output on the way to  *)
(* the user's chat, for any limits of a message, any length of the turn    *)
(* and any memory of the transport; then about Turns, for any finite set   *)
(* of channels, any texts the user and others may say, and any bounds.     *)
(***************************************************************************)
EXTENDS Turns, TurnStream, SequenceLemmas, FiniteSetTheorems, TLAPS

-----------------------------------------------------------------------------
(* The output of a turn.                                                   *)

(* What the user sees and what is still under way, in the order in which   *)
(* they came: the messages of the chats, then the operations.  Showing the *)
(* next message leaves it as it is.                                        *)
Items == [id : Nat \ {0}, kind : {"reply", "status"}, text : PieceTexts]
itemOf(x) == [id |-> x.id, kind |-> x.kind, text |-> x.text]
items(scr, ops) ==
  [k \in 1 .. Len(scr) + Len(ops) |-> IF k <= Len(scr) THEN itemOf(scr[k]) ELSE itemOf(ops[k - Len(scr)])]

(* An item above another: under one id it is an earlier state of the same  *)
(* message; replies come in the order of their ids and say what was said   *)
(* before, and so does everything while no call has failed.                *)
Alike(a, b) == a.id = b.id => a.kind = b.kind /\ piecesOf(a.text) \subseteq piecesOf(b.text)
Related(f, a, b) == f = 0 \/ (a.kind = "reply" /\ b.kind = "reply")
Before(f, a, b) ==
  /\ Alike(a, b)
  /\ Related(f, a, b) => a.id <= b.id /\ (a.id # b.id => precedes(a.text, b.text))

(* A text holds what was said so far, a reply nothing else. *)
Holds(x, s, H) ==
  /\ rises(x.text)
  /\ \A p \in piecesOf(x.text) : p <= s
  /\ x.kind = "reply" => piecesOf(x.text) \subseteq H

(* The line of the items, with ids below n and f failures so far. *)
Line(q, n, f, s, H) ==
  /\ q \in Seq(Items)
  /\ \A k \in DOMAIN q : q[k].id < n /\ Holds(q[k], s, H)
  /\ \A k, l \in DOMAIN q : k < l => Before(f, q[k], q[l])

(* A send is the first of its id. *)
SendsAreNew(q, m, ops) ==
  \A k \in DOMAIN q, l \in DOMAIN ops : k < m + l /\ ops[l].op = "send" => q[k].id < q[m + l].id

(* The messages the writer has open, under the id they will have if they   *)
(* have none yet.                                                          *)
openReply(w, n) == [id |-> IF w.respID # 0 THEN w.respID ELSE n, kind |-> "reply", text |-> w.respBuf]
openStatus(w, n) == [id |-> IF w.statusID # 0 THEN w.statusID ELSE n, kind |-> "status", text |-> w.statusBuf]
Tops(q, f, s, H, x) == Holds(x, s, H) /\ \A k \in DOMAIN q : Before(f, q[k], x)

Writes(q, w, n, f, s, H) ==
  /\ w \in TurnWriters
  /\ w.statusID < n /\ w.respID < n
  /\ w.drafting => w.drafts /\ w.respID = 0 /\ ~w.respSealed
  /\ (w.respID # 0 /\ ~w.respSealed) \/ w.drafting => w.statusSealed \/ w.statusID = 0
  /\ w.respID = 0 /\ ~w.drafting /\ ~w.respSealed => blank(w.respBuf)
  /\ f = 0 /\ w.statusID = 0 /\ ~w.statusSealed => blank(w.statusBuf)
  /\ ~w.respSealed => Tops(q, f, s, H, openReply(w, n))
  /\ ~w.statusSealed => Tops(q, f, s, H, openStatus(w, n))

drafted(w) == IF w.drafting THEN piecesOf(w.respBuf) ELSE {}
repliesIn(q) == UNION {piecesOf(q[k].text) : k \in {k \in DOMAIN q : q[k].kind = "reply"}}

(* What the transport remembers as rich. *)
Latest(order, scr, x) == (\E i \in DOMAIN scr : scr[i].id = x) => order # <<>> /\ Last(order) = x
Newest(x) == Latest(richOrder, screen, x)
Forms ==
  /\ \A x \in ToSet(richOrder) : x < nextID
  /\ \A x \in ToSet(richOrder), i \in DOMAIN screen : screen[i].id = x => screen[i].kind = "reply"
  /\ \A x \in ToSet(richOrder), i \in DOMAIN outgoing : outgoing[i].id = x => outgoing[i].kind = "reply"
  /\ outcome = "running" /\ ~tw.statusSealed => tw.statusID \notin ToSet(richOrder)
  /\ \A i \in DOMAIN outgoing : outgoing[i].op = "send" => (outgoing[i].rich <=> outgoing[i].kind = "reply")
  /\ rebuilds = 0 =>
       /\ \A i \in DOMAIN outgoing :
            outgoing[i].op = "edit" /\ outgoing[i].kind = "reply" => Newest(outgoing[i].id)
       /\ outcome = "running" /\ ~tw.respSealed => Newest(tw.respID)
  /\ FormIsKept

now == items(screen, outgoing)

(* A message is there once, unless a call that failed showed it. *)
CopiesAreFaults ==
  /\ repeated => faults # 0
  /\ ~repeated => \A i, j \in DOMAIN screen : screen[i].id = screen[j].id => i = j

Streams == cli \in {"message", "opened", "text", "thinking", "tool"} => streaming

Whole ==
  givenUp = {} => saidPieces \subseteq
    repliesIn(now) \cup (CASE outcome = "running" -> drafted(tw) [] outcome = "done" -> {} [] OTHER -> {Len(said)})

StreamInv ==
  /\ StreamTypeOK
  /\ Line(now, nextID, faults, Len(said), saidPieces)
  /\ SendsAreNew(now, Len(screen), outgoing)
  /\ CopiesAreFaults
  /\ outcome = "running" => Writes(now, tw, nextID, faults, Len(said), saidPieces)
  /\ Whole
  /\ Forms
  /\ Streams

Based(scr, ops, n, f, s, H) ==
  /\ scr \in Seq(Messages) /\ ops \in Seq(Operations)
  /\ n \in Nat \ {0} /\ f \in Nat /\ s \in Nat
  /\ Line(items(scr, ops), n, f, s, H)
  /\ SendsAreNew(items(scr, ops), Len(scr), ops)

(* The writer while a piece of a reply is on its way: the reply is open and *)
(* no status is.                                                           *)
Ready(q, w, n, f, s, H) ==
  /\ w \in TurnWriters
  /\ w.statusID < n /\ w.respID < n /\ ~w.respSealed
  /\ w.drafting => w.drafts /\ w.respID = 0
  /\ w.statusSealed \/ w.statusID = 0
  /\ f = 0 /\ w.statusID = 0 /\ ~w.statusSealed => blank(w.statusBuf)
  /\ Tops(q, f, s, H, openReply(w, n))
  /\ ~w.statusSealed => Tops(q, f, s, H, openStatus(w, n))

(* The writer v that has begun with a reply, from the writer w. *)
Begun(w, v) ==
  /\ ~v.respSealed /\ (v.statusSealed \/ v.statusID = 0)
  /\ (v.drafting <=> w.drafting) /\ (w.drafting => v.respBuf = w.respBuf)
  /\ v.respID = 0 \/ (v.respID = w.respID /\ ~w.respSealed)
  /\ v.statusID = w.statusID /\ (~v.statusSealed => ~w.statusSealed)

(* A piece p that is written when s pieces were said before. *)
Fresh(p, s, H, t, G) ==
  /\ p \in Nat /\ s \in Nat /\ t \in Nat
  /\ s <= t /\ p <= t /\ (p = 0 \/ s < p) /\ H \subseteq G

(* What a write may put into the outbox, and which messages it leaves open. *)
Marked(w, n, ops) ==
  \A i \in DOMAIN ops :
    /\ ops[i].op = "send" => n <= ops[i].id /\ (ops[i].rich <=> ops[i].kind = "reply")
    /\ ops[i].op = "edit" /\ ops[i].kind = "reply" => ~w.respSealed /\ w.respID # 0 /\ ops[i].id = w.respID
    /\ ops[i].op = "edit" /\ ops[i].kind = "status" =>
         ~w.statusSealed /\ w.statusID # 0 /\ ops[i].id = w.statusID
LeavesOpen(w, n, v) ==
  /\ ~v.respSealed => v.respID = 0 \/ n <= v.respID \/ (v.respID = w.respID /\ ~w.respSealed)
  /\ ~v.statusSealed => v.statusID = 0 \/ n <= v.statusID \/ (v.statusID = w.statusID /\ ~w.statusSealed)

Done(scr, ops, w, n, f, r, t, G) ==
  /\ r.ops \in Seq(Operations) /\ r.w \in TurnWriters /\ r.err \in BOOLEAN
  /\ Based(scr, ops \o r.ops, n + sends(r.ops), f, t, G)
  /\ ~r.err => Writes(items(scr, ops \o r.ops), r.w, n + sends(r.ops), f, t, G) /\ LeavesOpen(w, n, r.w)
  /\ Marked(w, n, r.ops)
  /\ repliesIn(items(scr, ops)) \cup drafted(w)
       \subseteq repliesIn(items(scr, ops \o r.ops)) \cup (IF r.err THEN {} ELSE drafted(r.w))

-----------------------------------------------------------------------------
(* PieceTexts.                                                                  *)

LEMMA PiecesAppend ==
  ASSUME NEW x \in PieceTexts, NEW p \in Nat
  PROVE  /\ Append(x, p) \in PieceTexts
         /\ piecesOf(Append(x, p)) = piecesOf(x) \cup ({p} \ {0})
  <1>1. ToSet(Append(x, p)) = ToSet(x) \cup {p}
    BY ToSetAppend DEF PieceTexts
  <1> QED
    BY <1>1 DEF piecesOf, PieceTexts

LEMMA PiecesShort ==
  ASSUME NEW p \in Nat
  PROVE  /\ <<>> \in PieceTexts /\ piecesOf(<<>>) = {} /\ rises(<<>>)
         /\ <<p>> \in PieceTexts /\ piecesOf(<<p>>) = {p} \ {0} /\ rises(<<p>>)
  <1>1. Append(<<>>, p) = <<p>>
    OBVIOUS
  <1>2. <<>> \in PieceTexts /\ piecesOf(<<>>) = {}
    BY ToSetEmpty DEF piecesOf, PieceTexts
  <1>3. rises(<<>>) /\ rises(<<p>>)
    BY DEF rises
  <1>4. Append(<<>>, p) \in PieceTexts /\ piecesOf(Append(<<>>, p)) = piecesOf(<<>>) \cup ({p} \ {0})
    BY <1>2, PiecesAppend
  <1> QED
    BY <1>1, <1>2, <1>3, <1>4

LEMMA PieceOf ==
  ASSUME NEW x \in PieceTexts, NEW k \in DOMAIN x, x[k] # 0
  PROVE  x[k] \in piecesOf(x) /\ x[k] \in Nat
  BY DEF PieceTexts, piecesOf, ToSet

LEMMA RisesAppend ==
  ASSUME NEW x \in PieceTexts, NEW p \in Nat, rises(x), p = 0 \/ \A y \in piecesOf(x) : y < p
  PROVE  rises(Append(x, p))
  <1> DEFINE z == Append(x, p)
  <1>1. /\ Len(x) \in Nat /\ DOMAIN x = 1 .. Len(x) /\ DOMAIN z = 1 .. Len(x) + 1
        /\ z[Len(x) + 1] = p /\ \A k \in 1 .. Len(x) : z[k] = x[k]
    BY DEF PieceTexts
  <1> HIDE DEF z
  <1>2. ASSUME NEW k \in DOMAIN z, NEW l \in DOMAIN z, k < l, z[k] # 0, z[l] # 0 PROVE z[k] < z[l]
    <2>1. k \in DOMAIN x /\ z[k] = x[k]
      BY <1>1, <1>2
    <2>2. CASE l \in DOMAIN x
      BY <1>1, <1>2, <2>1, <2>2 DEF rises
    <2>3. CASE l = Len(x) + 1
      BY <1>1, <1>2, <2>1, <2>3, PieceOf
    <2> QED
      BY <1>1, <2>2, <2>3
  <1> QED
    BY <1>2 DEF rises, z

LEMMA HoldsMore ==
  ASSUME NEW x, NEW y, NEW p, NEW s, NEW H, NEW t, NEW G, Fresh(p, s, H, t, G),
         Holds(x, s, H), x.text \in PieceTexts, y.kind = x.kind, y.text = Append(x.text, p),
         x.kind = "reply" => p \in G \cup {0}
  PROVE  Holds(y, t, G) /\ y.text \in PieceTexts
  <1>1. /\ p \in Nat /\ s \in Nat /\ t \in Nat /\ s <= t /\ p <= t /\ (p = 0 \/ s < p) /\ H \subseteq G
    BY DEF Fresh
  <1>2. piecesOf(y.text) = piecesOf(x.text) \cup ({p} \ {0}) /\ y.text \in PieceTexts
    BY <1>1, PiecesAppend
  <1>3. \A z \in piecesOf(x.text) : z \in Nat /\ z <= s
    BY DEF Holds, piecesOf, ToSet, PieceTexts
  <1>4. rises(y.text)
    <2>1. p = 0 \/ \A z \in piecesOf(x.text) : z < p
      BY <1>1, <1>3
    <2>2. rises(x.text)
      BY DEF Holds
    <2> QED
      BY <1>1, <2>1, <2>2, RisesAppend
  <1>5. \A z \in piecesOf(y.text) : z <= t
    BY <1>1, <1>2, <1>3
  <1>6. y.kind = "reply" => piecesOf(y.text) \subseteq G
    BY <1>1, <1>2 DEF Holds
  <1> QED
    BY <1>2, <1>4, <1>5, <1>6 DEF Holds

LEMMA HoldsStill ==
  ASSUME NEW x, NEW s \in Nat, NEW H, NEW t \in Nat, NEW G, s <= t, H \subseteq G,
         Holds(x, s, H), x.text \in PieceTexts
  PROVE  Holds(x, t, G)
  <1>1. \A z \in piecesOf(x.text) : z \in Nat /\ z <= s
    BY DEF Holds, piecesOf, ToSet, PieceTexts
  <1> QED
    BY <1>1 DEF Holds

LEMMA BeforeMore ==
  ASSUME NEW f, NEW a, NEW x, NEW y, NEW p, NEW s, NEW H, NEW t, NEW G, Fresh(p, s, H, t, G),
         Before(f, a, x), Holds(a, s, H), a.text \in PieceTexts, x.text \in PieceTexts,
         y.id = x.id, y.kind = x.kind, y.text = Append(x.text, p)
  PROVE  Before(f, a, y)
  <1>1. p \in Nat /\ s \in Nat /\ (p = 0 \/ s < p)
    BY DEF Fresh
  <1>2. piecesOf(y.text) = piecesOf(x.text) \cup ({p} \ {0})
    BY <1>1, PiecesAppend
  <1>3. \A z \in piecesOf(a.text) : z \in Nat /\ z <= s
    BY DEF Holds, piecesOf, ToSet, PieceTexts
  <1>4. precedes(a.text, x.text) => precedes(a.text, y.text)
    BY <1>1, <1>2, <1>3 DEF precedes
  <1>5. Alike(a, y)
    BY <1>2 DEF Before, Alike
  <1> QED
    BY <1>4, <1>5 DEF Before, Related

-----------------------------------------------------------------------------
(* The line of the items.                                                  *)

LEMMA ItemOf ==
  ASSUME NEW x \in Messages \cup Operations
  PROVE  /\ itemOf(x) \in Items
         /\ itemOf(x).id = x.id /\ itemOf(x).kind = x.kind /\ itemOf(x).text = x.text
  BY DEF itemOf, Items, Messages, Operations

LEMMA ItemsAre ==
  ASSUME NEW scr \in Seq(Messages), NEW ops \in Seq(Operations)
  PROVE  /\ items(scr, ops) \in Seq(Items)
         /\ Len(items(scr, ops)) = Len(scr) + Len(ops)
         /\ DOMAIN items(scr, ops) = 1 .. Len(scr) + Len(ops)
         /\ Len(scr) \in Nat /\ DOMAIN scr = 1 .. Len(scr)
         /\ Len(ops) \in Nat /\ DOMAIN ops = 1 .. Len(ops)
         /\ \A k \in DOMAIN scr : k \in DOMAIN items(scr, ops) /\ items(scr, ops)[k] = itemOf(scr[k])
         /\ \A k \in DOMAIN ops :
              Len(scr) + k \in DOMAIN items(scr, ops) /\ items(scr, ops)[Len(scr) + k] = itemOf(ops[k])
         /\ \A k \in DOMAIN items(scr, ops) :
              k \in DOMAIN scr \/ (k - Len(scr) \in DOMAIN ops /\ Len(scr) + (k - Len(scr)) = k)
  <1> DEFINE m == Len(scr)
             c == Len(ops)
             q == items(scr, ops)
  <1>1. m \in Nat /\ DOMAIN scr = 1 .. m /\ c \in Nat /\ DOMAIN ops = 1 .. c
    OBVIOUS
  <1>2. \A k \in 1 .. m : scr[k] \in Messages
    OBVIOUS
  <1>3. \A k \in 1 .. c : ops[k] \in Operations
    OBVIOUS
  <1> HIDE DEF m, c
  <1>4. q = [k \in 1 .. m + c |-> IF k <= m THEN itemOf(scr[k]) ELSE itemOf(ops[k - m])]
    BY DEF items, m, c
  <1>5. DOMAIN q = 1 .. m + c
    BY <1>4
  <1>6. \A k \in 1 .. m : k \in 1 .. m + c /\ q[k] = itemOf(scr[k])
    BY <1>1, <1>4
  <1>7. \A k \in 1 .. c : m + k \in 1 .. m + c /\ q[m + k] = itemOf(ops[k])
    <2> TAKE k \in 1 .. c
    <2>1. m + k \in 1 .. m + c /\ ~(m + k <= m) /\ (m + k) - m = k
      BY <1>1
    <2> QED
      BY <1>4, <2>1
  <1>8. \A k \in 1 .. m + c : k \in 1 .. m \/ (k - m \in 1 .. c /\ m + (k - m) = k)
    BY <1>1
  <1>9. \A k \in 1 .. m + c : q[k] \in Items
    <2> TAKE k \in 1 .. m + c
    <2>1. CASE k \in 1 .. m
      BY <1>2, <1>6, <2>1, ItemOf
    <2>2. CASE k - m \in 1 .. c /\ m + (k - m) = k
      <3>1. q[m + (k - m)] = itemOf(ops[k - m])
        BY <1>7, <2>2
      <3> QED
        BY <1>3, <2>2, <3>1, ItemOf
    <2> QED
      BY <1>8, <2>1, <2>2
  <1>10. q \in Seq(Items) /\ Len(q) = m + c
    <2>1. q \in [1 .. m + c -> Items]
      BY <1>4, <1>9
    <2> HIDE DEF q
    <2> QED
      BY <1>1, <2>1
  <1> QED
    BY <1>1, <1>5, <1>6, <1>7, <1>8, <1>10 DEF m, c

LEMMA ItemsAppend ==
  ASSUME NEW scr \in Seq(Messages), NEW ops \in Seq(Operations), NEW op \in Operations
  PROVE  items(scr, Append(ops, op)) = Append(items(scr, ops), itemOf(op))
  <1> DEFINE m == Len(scr)
             c == Len(ops)
             q == items(scr, ops)
             z == Append(q, itemOf(op))
  <1> DEFINE a == Append(ops, op)
  <1>1. a \in Seq(Operations) /\ Len(a) = c + 1 /\ DOMAIN a = 1 .. c + 1
        /\ a[c + 1] = op /\ \A k \in 1 .. c : a[k] = ops[k]
    OBVIOUS
  <1> HIDE DEF a
  <1>2. /\ q \in Seq(Items) /\ Len(q) = m + c /\ m \in Nat /\ c \in Nat
        /\ DOMAIN scr = 1 .. m /\ DOMAIN ops = 1 .. c
        /\ \A k \in 1 .. m : q[k] = itemOf(scr[k])
        /\ \A k \in 1 .. c : q[m + k] = itemOf(ops[k])
    BY ItemsAre
  <1> DEFINE ra == items(scr, a)
  <1>3. /\ ra \in Seq(Items) /\ DOMAIN ra = 1 .. m + (c + 1)
        /\ \A k \in 1 .. m : ra[k] = itemOf(scr[k])
        /\ \A k \in 1 .. c + 1 : ra[m + k] = itemOf(a[k])
    <2>1. /\ items(scr, a) \in Seq(Items)
          /\ DOMAIN items(scr, a) = 1 .. Len(scr) + Len(a)
          /\ DOMAIN scr = 1 .. Len(scr)
          /\ \A k \in DOMAIN scr : items(scr, a)[k] = itemOf(scr[k])
          /\ \A k \in DOMAIN a : items(scr, a)[Len(scr) + k] = itemOf(a[k])
      BY <1>1, ItemsAre
    <2> QED
      BY <1>1, <2>1
  <1> HIDE DEF m, c, q, ra
  <1>4. z \in Seq(Items) /\ DOMAIN z = 1 .. (m + c) + 1 /\ z[(m + c) + 1] = itemOf(op)
        /\ \A k \in 1 .. m + c : z[k] = q[k]
    <2>1. itemOf(op) \in Items
      BY ItemOf
    <2> QED
      BY <1>2, <2>1
  <1> HIDE DEF z
  <1>5. ASSUME NEW k \in 1 .. m + (c + 1) PROVE ra[k] = z[k]
    <2>1. CASE k \in 1 .. m
      <3>1. k \in 1 .. m + c
        BY <1>2, <2>1
      <3> QED
        BY <1>2, <1>3, <1>4, <2>1, <3>1
    <2>2. CASE k - m \in 1 .. c /\ k = m + (k - m)
      <3>1. k - m \in 1 .. c + 1 /\ k \in 1 .. m + c
        BY <1>2, <2>2
      <3>2. ra[m + (k - m)] = itemOf(a[k - m]) /\ q[m + (k - m)] = itemOf(ops[k - m])
        BY <1>2, <1>3, <2>2, <3>1
      <3> QED
        BY <1>1, <1>4, <2>2, <3>1, <3>2
    <2>3. CASE k = m + (c + 1)
      <3>1. c + 1 \in 1 .. c + 1
        BY <1>2
      <3>2. ra[m + (c + 1)] = itemOf(op)
        BY <1>1, <1>3, <3>1
      <3> QED
        BY <1>2, <1>4, <2>3, <3>2
    <2> QED
      BY <1>2, <2>1, <2>2, <2>3
  <1>6. DOMAIN ra = DOMAIN z
    BY <1>2, <1>3, <1>4
  <1>7. ra = z
    <2>1. ra \in [1 .. m + (c + 1) -> Items] /\ z \in [1 .. m + (c + 1) -> Items]
      BY <1>2, <1>3, <1>4, <1>6
    <2>2. /\ ra = [k \in 1 .. m + (c + 1) |-> ra[k]]
          /\ z = [k \in 1 .. m + (c + 1) |-> z[k]]
      BY <2>1
    <2> QED
      BY <1>5, <2>2
  <1> QED
    BY <1>7 DEF ra, a, z, q

(* What Line says of the elements, in the form the steps use. *)
LEMMA LineSays ==
  ASSUME NEW q, NEW n, NEW f, NEW s, NEW H, Line(q, n, f, s, H), NEW k \in DOMAIN q
  PROVE  /\ q[k] \in Items /\ q[k].id \in Nat \ {0} /\ q[k].text \in PieceTexts
         /\ q[k].kind \in {"reply", "status"}
         /\ q[k].id < n /\ Holds(q[k], s, H)
         /\ \A l \in DOMAIN q : k < l => Before(f, q[k], q[l])
  <1>1. q[k] \in Items
    BY DEF Line
  <1> QED
    BY <1>1 DEF Line, Items

LEMMA BeforeStill ==
  ASSUME NEW f, NEW g, NEW a, NEW b, f # 0 => g # 0, Before(f, a, b)
  PROVE  Before(g, a, b)
  BY DEF Before, Related

LEMMA LineStill ==
  ASSUME NEW q, NEW n \in Nat, NEW f, NEW s \in Nat, NEW H, Line(q, n, f, s, H),
         NEW m \in Nat, NEW g, NEW t \in Nat, NEW G,
         n <= m, f # 0 => g # 0, s <= t, H \subseteq G
  PROVE  Line(q, m, g, t, G)
  <1>1. \A k \in DOMAIN q : q[k].id < m /\ Holds(q[k], t, G)
    <2> TAKE k \in DOMAIN q
    <2>1. q[k].id \in Nat \ {0} /\ q[k].text \in PieceTexts /\ q[k].id < n /\ Holds(q[k], s, H)
      BY LineSays
    <2>2. Holds(q[k], t, G)
      BY <2>1, HoldsStill
    <2> QED
      BY <2>1, <2>2
  <1>2. \A k, l \in DOMAIN q : k < l => Before(g, q[k], q[l])
    BY BeforeStill DEF Line
  <1> QED
    BY <1>1, <1>2 DEF Line

LEMMA LineGrows ==
  ASSUME NEW q, NEW n \in Nat, NEW f, NEW s, NEW H, Line(q, n, f, s, H),
         NEW y \in Items, y.id < n, Holds(y, s, H), \A k \in DOMAIN q : Before(f, q[k], y)
  PROVE  Line(Append(q, y), n, f, s, H)
  <1> DEFINE z == Append(q, y)
  <1>1. /\ z \in Seq(Items) /\ Len(q) \in Nat /\ DOMAIN z = 1 .. Len(q) + 1 /\ DOMAIN q = 1 .. Len(q)
        /\ z[Len(q) + 1] = y /\ \A k \in 1 .. Len(q) : z[k] = q[k]
    <2>1. q \in Seq(Items)
      BY DEF Line
    <2> QED
      BY <2>1
  <1> HIDE DEF z
  <1>2. \A k \in DOMAIN z : z[k].id < n /\ Holds(z[k], s, H)
    BY <1>1 DEF Line
  <1>3. \A k, l \in DOMAIN z : k < l => Before(f, z[k], z[l])
    <2>1. ASSUME NEW k \in DOMAIN z, NEW l \in DOMAIN z, k < l PROVE Before(f, z[k], z[l])
      <3>1. k \in DOMAIN q /\ z[k] = q[k]
        BY <1>1, <2>1
      <3>2. CASE l \in DOMAIN q
        BY <1>1, <2>1, <3>1, <3>2 DEF Line
      <3>3. CASE l = Len(q) + 1
        BY <1>1, <3>1, <3>3
      <3> QED
        BY <1>1, <3>2, <3>3
    <2> QED
      BY <2>1
  <1>4. Line(z, n, f, s, H)
    BY <1>1, <1>2, <1>3 DEF Line
  <1> QED
    BY <1>4 DEF z

(* The same message with another piece, or a new one with its first. *)
LEMMA BeforeFirst ==
  ASSUME NEW f, NEW a, NEW y, NEW p, NEW s, NEW H, NEW t, NEW G, Fresh(p, s, H, t, G),
         Holds(a, s, H), a.text \in PieceTexts, a.id \in Nat, y.id \in Nat, a.id < y.id, y.text = <<p>>
  PROVE  Before(f, a, y)
  <1>1. p \in Nat /\ s \in Nat /\ (p = 0 \/ s < p)
    BY DEF Fresh
  <1>2. piecesOf(y.text) = {p} \ {0}
    BY <1>1, PiecesShort
  <1>3. \A z \in piecesOf(a.text) : z \in Nat /\ z <= s
    BY DEF Holds, piecesOf, ToSet, PieceTexts
  <1>4. precedes(a.text, y.text)
    BY <1>1, <1>2, <1>3 DEF precedes
  <1> QED
    BY <1>4 DEF Before, Alike, Related

LEMMA HoldsFirst ==
  ASSUME NEW y, NEW p, NEW s, NEW H, NEW t, NEW G, Fresh(p, s, H, t, G),
         y.text = <<p>>, y.kind = "reply" => p \in G \cup {0}
  PROVE  Holds(y, t, G) /\ y.text \in PieceTexts
  <1>1. p \in Nat /\ s \in Nat /\ t \in Nat /\ p <= t
    BY DEF Fresh
  <1>2. piecesOf(y.text) = {p} \ {0} /\ rises(y.text) /\ y.text \in PieceTexts
    BY <1>1, PiecesShort
  <1> QED
    BY <1>1, <1>2 DEF Holds

LEMMA BasedSays ==
  ASSUME NEW scr, NEW ops, NEW n, NEW f, NEW s, NEW H, Based(scr, ops, n, f, s, H)
  PROVE  /\ scr \in Seq(Messages) /\ ops \in Seq(Operations) /\ n \in Nat \ {0} /\ f \in Nat /\ s \in Nat
         /\ items(scr, ops) \in Seq(Items)
         /\ \A k \in DOMAIN items(scr, ops) :
              /\ items(scr, ops)[k] \in Items
              /\ items(scr, ops)[k].id \in Nat \ {0} /\ items(scr, ops)[k].text \in PieceTexts
              /\ items(scr, ops)[k].id < n /\ Holds(items(scr, ops)[k], s, H)
  <1> DEFINE q == items(scr, ops)
  <1>1. Line(q, n, f, s, H)
    BY DEF Based
  <1> HIDE DEF q
  <1>2. q \in Seq(Items) /\ \A k \in DOMAIN q : q[k] \in Items /\ q[k].id \in Nat \ {0} /\ q[k].text \in PieceTexts
                               /\ q[k].id < n /\ Holds(q[k], s, H)
    BY <1>1, LineSays DEF Line
  <1> QED
    BY <1>2 DEF q, Based

(* An operation is put into the outbox. *)
LEMMA BasedGrows ==
  ASSUME NEW scr, NEW ops, NEW n, NEW f, NEW s, NEW H, Based(scr, ops, n, f, s, H),
         NEW op \in Operations, NEW m \in {n, n + 1}, NEW t \in Nat, NEW G,
         s <= t, H \subseteq G,
         op.id < m, op.op = "send" => op.id = n,
         Holds(itemOf(op), t, G),
         \A k \in DOMAIN items(scr, ops) : Before(f, items(scr, ops)[k], itemOf(op))
  PROVE  /\ Based(scr, Append(ops, op), m, f, t, G)
         /\ items(scr, Append(ops, op)) = Append(items(scr, ops), itemOf(op))
  <1> DEFINE q == items(scr, ops)
             y == itemOf(op)
             a == Append(ops, op)
  <1>1. /\ scr \in Seq(Messages) /\ ops \in Seq(Operations)
        /\ n \in Nat \ {0} /\ f \in Nat /\ s \in Nat
        /\ Line(q, n, f, s, H) /\ SendsAreNew(q, Len(scr), ops)
    BY DEF Based
  <1>2. items(scr, a) = Append(q, y)
    BY <1>1, ItemsAppend
  <1>3. /\ y \in Items /\ y.id = op.id
    BY ItemOf
  <1>4. /\ Len(q) = Len(scr) + Len(ops) /\ DOMAIN q = 1 .. Len(q) /\ Len(scr) \in Nat /\ Len(ops) \in Nat
        /\ q \in Seq(Items) /\ DOMAIN ops = 1 .. Len(ops)
    BY <1>1, ItemsAre
  <1>5. /\ a \in Seq(Operations) /\ DOMAIN a = 1 .. Len(ops) + 1
        /\ a[Len(ops) + 1] = op /\ \A k \in 1 .. Len(ops) : a[k] = ops[k]
    BY <1>1
  <1> DEFINE z == Append(q, y)
  <1>6. /\ DOMAIN z = 1 .. Len(q) + 1 /\ z[Len(q) + 1] = y /\ \A k \in 1 .. Len(q) : z[k] = q[k]
    BY <1>3, <1>4
  <1>8. \A k \in DOMAIN q : q[k].id < n /\ q[k].id \in Nat
    BY <1>1, LineSays
  <1> HIDE DEF q, y, a
  <1>7. Line(z, m, f, t, G)
    <2>1. Line(q, m, f, t, G)
      BY <1>1, LineStill
    <2>2. Holds(y, t, G) /\ \A k \in DOMAIN q : Before(f, q[k], y)
      BY DEF q, y
    <2> QED
      BY <1>1, <1>3, <2>1, <2>2, LineGrows
  <1> HIDE DEF z
  <1>9. SendsAreNew(z, Len(scr), a)
    <2>1. ASSUME NEW k \in DOMAIN z, NEW l \in DOMAIN a, k < Len(scr) + l, a[l].op = "send"
          PROVE  z[k].id < z[Len(scr) + l].id
      <3>1. k \in DOMAIN q /\ z[k] = q[k]
        BY <1>4, <1>5, <1>6, <2>1
      <3>2. CASE l \in DOMAIN ops
        <4>1. a[l] = ops[l] /\ z[Len(scr) + l] = q[Len(scr) + l]
          BY <1>4, <1>5, <1>6, <3>2
        <4> QED
          BY <1>1, <2>1, <3>1, <3>2, <4>1 DEF SendsAreNew
      <3>3. CASE l = Len(ops) + 1
        <4>1. a[l] = op /\ z[Len(scr) + l] = y
          BY <1>4, <1>5, <1>6, <3>3
        <4> QED
          BY <1>3, <1>8, <2>1, <3>1, <4>1
      <3> QED
        BY <1>4, <1>5, <3>2, <3>3
    <2> QED
      BY <2>1 DEF SendsAreNew
  <1>10. Based(scr, a, m, f, t, G)
    BY <1>1, <1>2, <1>5, <1>7, <1>9 DEF Based, z
  <1> QED
    BY <1>2, <1>10 DEF a, q, y

(* An open message keeps its place when an item before it is added; one    *)
(* that has no id yet may get a later one.                                 *)
LEMMA TopsStill ==
  ASSUME NEW q, NEW n \in Nat, NEW f, NEW s \in Nat, NEW H, Line(q, n, f, s, H), NEW x, Tops(q, f, s, H, x),
         x.text \in PieceTexts,
         NEW t \in Nat, NEW G, s <= t, H \subseteq G, NEW z, z.kind = x.kind, z.text = x.text,
         z.id = x.id \/ (x.id = n /\ z.id \in Nat /\ n <= z.id)
  PROVE  Tops(q, f, t, G, z)
  <1>1. Holds(z, t, G)
    BY HoldsStill DEF Tops, Holds
  <1>2. ASSUME NEW k \in DOMAIN q PROVE Before(f, q[k], z)
    <2>1. Before(f, q[k], x)
      BY DEF Tops
    <2>2. q[k].id \in Nat /\ q[k].id < n
      BY LineSays
    <2> QED
      BY <2>1, <2>2 DEF Before, Alike, Related
  <1> QED
    BY <1>1, <1>2 DEF Tops

LEMMA TopsGrow ==
  ASSUME NEW q \in Seq(Items), NEW f, NEW s, NEW H, NEW z, Tops(q, f, s, H, z),
         NEW y \in Items, Before(f, y, z)
  PROVE  Tops(Append(q, y), f, s, H, z)
  <1>1. /\ Len(q) \in Nat /\ DOMAIN Append(q, y) = 1 .. Len(q) + 1 /\ DOMAIN q = 1 .. Len(q)
        /\ Append(q, y)[Len(q) + 1] = y /\ \A k \in 1 .. Len(q) : Append(q, y)[k] = q[k]
    OBVIOUS
  <1> QED
    BY <1>1 DEF Tops

-----------------------------------------------------------------------------
(* The turnWriter.                                                         *)

LEMMA OpenAre ==
  ASSUME NEW w \in TurnWriters, NEW n \in Nat \ {0}
  PROVE  /\ openReply(w, n) \in Items /\ openStatus(w, n) \in Items
         /\ openReply(w, n).kind = "reply" /\ openReply(w, n).text = w.respBuf
         /\ openReply(w, n).id = IF w.respID # 0 THEN w.respID ELSE n
         /\ openStatus(w, n).kind = "status" /\ openStatus(w, n).text = w.statusBuf
         /\ openStatus(w, n).id = IF w.statusID # 0 THEN w.statusID ELSE n
         /\ w.respBuf \in PieceTexts /\ w.statusBuf \in PieceTexts /\ w.respID \in Nat /\ w.statusID \in Nat
         /\ {w.statusSealed, w.respSealed, w.drafts, w.drafting} \subseteq BOOLEAN
  BY DEF openReply, openStatus, TurnWriters, Items

LEMMA OpsAre ==
  ASSUME NEW n \in Nat \ {0}, NEW kind \in {"reply", "status"}, NEW x \in PieceTexts
  PROVE  /\ send(n, kind, x) \in Operations /\ edit(n, kind, x) \in Operations
         /\ send(n, kind, x).op = "send" /\ edit(n, kind, x).op = "edit"
         /\ send(n, kind, x).rich <=> kind = "reply"
         /\ send(n, kind, x).id = n /\ edit(n, kind, x).id = n
         /\ send(n, kind, x).kind = kind /\ edit(n, kind, x).kind = kind
         /\ itemOf(send(n, kind, x)) = [id |-> n, kind |-> kind, text |-> x]
         /\ itemOf(edit(n, kind, x)) = [id |-> n, kind |-> kind, text |-> x]
  BY DEF send, edit, itemOf, Operations

(* A reply that has no id yet is sent under the next. *)
LEMMA ReplySent ==
  ASSUME NEW scr, NEW ops, NEW n, NEW f, NEW s, NEW H, Based(scr, ops, n, f, s, H),
         NEW w, Ready(items(scr, ops), w, n, f, s, H), w.respID = 0,
         NEW v \in TurnWriters, v.respID = n, ~v.drafting, v.respBuf = w.respBuf, ~v.respSealed,
         v.statusID = w.statusID, v.statusBuf = w.statusBuf, v.statusSealed = w.statusSealed,
         NEW op, op = send(n, "reply", w.respBuf)
  PROVE  /\ op \in Operations
         /\ items(scr, Append(ops, op)) = Append(items(scr, ops), itemOf(op))
         /\ Based(scr, Append(ops, op), n + 1, f, s, H)
         /\ Writes(items(scr, Append(ops, op)), v, n + 1, f, s, H)
  <1> DEFINE q == items(scr, ops)
             x == openReply(w, n)
             y == itemOf(op)
  <1>1. /\ n \in Nat \ {0} /\ f \in Nat /\ s \in Nat /\ Line(q, n, f, s, H) /\ q \in Seq(Items)
        /\ scr \in Seq(Messages) /\ ops \in Seq(Operations)
    BY BasedSays DEF Based
  <1>2. /\ w \in TurnWriters /\ w.respID = 0 /\ ~w.respSealed
        /\ w.statusID < n /\ (w.statusSealed \/ w.statusID = 0)
        /\ f = 0 /\ w.statusID = 0 /\ ~w.statusSealed => blank(w.statusBuf)
        /\ Tops(q, f, s, H, x) /\ (~w.statusSealed => Tops(q, f, s, H, openStatus(w, n)))
    BY DEF Ready
  <1>3. /\ w.respBuf \in PieceTexts /\ w.statusBuf \in PieceTexts /\ w.statusID \in Nat
        /\ x \in Items /\ x.kind = "reply" /\ x.id = n /\ x.text = w.respBuf
    BY <1>1, <1>2, OpenAre
  <1>4. /\ op \in Operations /\ op.op = "send" /\ op.id = n /\ y = [id |-> n, kind |-> "reply", text |-> w.respBuf]
    BY <1>1, <1>3, OpsAre
  <1>5. y \in Items /\ y.id = n /\ y.kind = "reply" /\ y.text = w.respBuf
    BY <1>3, <1>4, ItemOf
  <1>6. x = y
    BY <1>2, <1>4 DEF openReply
  <1>7. /\ v \in TurnWriters /\ v.respID = n /\ ~v.drafting /\ v.respBuf = w.respBuf /\ ~v.respSealed
        /\ v.statusID = w.statusID /\ v.statusBuf = w.statusBuf /\ v.statusSealed = w.statusSealed
    OBVIOUS
  <1>8. openReply(v, n + 1) = y
    BY <1>1, <1>4, <1>7 DEF openReply
  <1>9. Before(f, y, y)
    BY <1>5, <1>1 DEF Before, Alike, Related
  <1> HIDE DEF q, x, y
  <1>10. Holds(y, s, H) /\ \A k \in DOMAIN q : Before(f, q[k], y)
    BY <1>2, <1>6 DEF Tops
  <1>11. /\ Based(scr, Append(ops, op), n + 1, f, s, H)
         /\ items(scr, Append(ops, op)) = Append(q, y)
    <2>1. op.id < n + 1 /\ n + 1 \in {n, n + 1} /\ s <= s /\ H \subseteq H
      BY <1>1, <1>4
    <2> QED
      BY <1>1, <1>4, <1>10, <2>1, BasedGrows DEF q, y
  <1>12. Tops(Append(q, y), f, s, H, openReply(v, n + 1))
    BY <1>1, <1>2, <1>5, <1>6, <1>8, <1>9, TopsGrow
  <1>13. ASSUME ~v.statusSealed PROVE Tops(Append(q, y), f, s, H, openStatus(v, n + 1))
    <2> DEFINE o == openStatus(w, n)
               z == openStatus(v, n + 1)
    <2>1. /\ o.kind = "status" /\ o.text = w.statusBuf /\ o.id = n
      BY <1>1, <1>2, <1>7, <1>13, OpenAre
    <2>2. /\ z.kind = "status" /\ z.text = w.statusBuf /\ z.id = n + 1
      <3>1. n + 1 \in Nat \ {0} /\ v \in TurnWriters /\ v.statusID = 0 /\ v.statusBuf = w.statusBuf
        BY <1>1, <1>2, <1>7, <1>13
      <3> QED
        BY ONLY <3>1, OpenAre
    <2> HIDE DEF o, z
    <2>3. Tops(q, f, s, H, z)
      <3>1. Tops(q, f, s, H, o)
        BY <1>2, <1>7, <1>13 DEF o
      <3>2. n \in Nat /\ z.id \in Nat /\ n <= z.id /\ s <= s /\ H \subseteq H /\ o.text \in PieceTexts
        BY <1>1, <1>3, <2>1, <2>2
      <3> QED
        BY <1>1, <2>1, <2>2, <3>1, <3>2, TopsStill
    <2>4. Before(f, y, z)
      <3>1. f = 0 => precedes(y.text, z.text)
        BY <1>2, <1>7, <1>13, <2>2 DEF blank, precedes
      <3> QED
        BY <1>1, <1>5, <2>2, <3>1 DEF Before, Alike, Related
    <2> QED
      BY <1>1, <1>5, <2>3, <2>4, TopsGrow DEF z
  <1>14. Writes(Append(q, y), v, n + 1, f, s, H)
    BY <1>1, <1>2, <1>3, <1>7, <1>12, <1>13 DEF Writes
  <1> QED
    BY <1>4, <1>11, <1>14 DEF q, y

LEMMA FreshStatusKeeps ==
  ASSUME NEW q, NEW w, NEW n, NEW f, NEW s, NEW H, Line(q, n, f, s, H), n \in Nat \ {0}, s \in Nat,
         Writes(q, w, n, f, s, H),
         NEW v, v = freshStatus(w)
  PROVE  /\ Writes(q, v, n, f, s, H) /\ ~v.statusSealed
         /\ (v.drafting <=> w.drafting) /\ v.respID = w.respID /\ (v.respSealed <=> w.respSealed)
         /\ v.statusID = 0 \/ (v.statusID = w.statusID /\ ~w.statusSealed)
  <1>1. CASE ~w.statusSealed
    <2>1. v = w
      BY <1>1 DEF freshStatus
    <2> QED
      BY <1>1, <2>1
  <1>2. CASE w.statusSealed
    <2>1. v = [w EXCEPT !.statusBuf = <<>>, !.statusID = 0, !.statusSealed = FALSE]
      BY <1>2 DEF freshStatus
    <2>2. w \in TurnWriters
      BY DEF Writes
    <2>3. <<>> \in PieceTexts /\ piecesOf(<<>>) = {} /\ rises(<<>>)
      <3>1. 0 \in Nat
        OBVIOUS
      <3> QED
        BY <3>1, PiecesShort
    <2>4. /\ v \in TurnWriters /\ v.statusBuf = <<>> /\ v.statusID = 0 /\ ~v.statusSealed
          /\ v.respID = w.respID /\ v.respBuf = w.respBuf /\ v.respSealed = w.respSealed
          /\ v.drafts = w.drafts /\ v.drafting = w.drafting
      <3> DEFINE e == <<>>
      <3>1. v = [w EXCEPT !.statusBuf = e, !.statusID = 0, !.statusSealed = FALSE] /\ e \in PieceTexts
        BY <2>1, <2>3
      <3> HIDE DEF e
      <3>2. /\ v \in TurnWriters /\ v.statusBuf = e /\ v.statusID = 0 /\ ~v.statusSealed
            /\ v.respID = w.respID /\ v.respBuf = w.respBuf /\ v.respSealed = w.respSealed
            /\ v.drafts = w.drafts /\ v.drafting = w.drafting
        BY ONLY <2>2, <3>1 DEF TurnWriters
      <3> QED
        BY <3>2 DEF e
    <2>5. openReply(v, n) = openReply(w, n)
      BY <2>4 DEF openReply
    <2>6. Tops(q, f, s, H, openStatus(v, n))
      <3> DEFINE z == openStatus(v, n)
      <3>1. z.kind = "status" /\ z.text = <<>> /\ z.id = n
        BY <2>4, OpenAre
      <3>2. Holds(z, s, H)
        BY <2>3, <3>1 DEF Holds
      <3>3. ASSUME NEW k \in DOMAIN q PROVE Before(f, q[k], z)
        <4>1. q[k].id \in Nat /\ q[k].id < n
          BY LineSays
        <4>2. precedes(q[k].text, z.text)
          BY <2>3, <3>1 DEF precedes
        <4> QED
          BY <3>1, <4>1, <4>2 DEF Before, Alike, Related
      <3> QED
        BY <3>2, <3>3 DEF Tops
    <2>7. blank(v.statusBuf)
      BY <2>3, <2>4 DEF blank
    <2> QED
      BY <2>4, <2>5, <2>6, <2>7 DEF Writes
  <1> QED
    BY <1>1, <1>2

(* A status message goes out under the next id, with a piece more or as a  *)
(* new message, and ends the reply above it.                               *)
lined(w, text) == [w EXCEPT !.statusBuf = text]
unsent(w, text) == [w EXCEPT !.statusBuf = text, !.statusID = 0]
sentAs(w, text, n) == [w EXCEPT !.statusBuf = text, !.statusID = n, !.respSealed = sealed(w)]

LEMMA FreshStatusWrites ==
  ASSUME NEW q, NEW w, NEW n, NEW f, NEW s, NEW H, Line(q, n, f, s, H), n \in Nat \ {0}, s \in Nat,
         Writes(q, w, n, f, s, H)
  PROVE  Writes(q, freshStatus(w), n, f, s, H)
  <1> DEFINE v == freshStatus(w)
  <1>1. v = freshStatus(w)
    OBVIOUS
  <1> HIDE DEF v
  <1>2. Writes(q, v, n, f, s, H)
    BY <1>1, FreshStatusKeeps
  <1> QED
    BY <1>1, <1>2

LEMMA StatusSent ==
  ASSUME NEW scr, NEW ops, NEW n, NEW f, NEW s, NEW H, Based(scr, ops, n, f, s, H),
         NEW w, Writes(items(scr, ops), w, n, f, s, H), ~w.drafting, ~w.statusSealed,
         NEW p, NEW t, NEW G, Fresh(p, s, H, t, G),
         NEW buf, (w.statusID = 0 /\ buf = Append(w.statusBuf, p)) \/ buf = <<p>>,
         NEW op, op = send(n, "status", buf),
         NEW u, u = unsent(w, buf), NEW v, v = sentAs(w, buf, n)
  PROVE  /\ op \in Operations
         /\ items(scr, Append(ops, op)) = Append(items(scr, ops), itemOf(op))
         /\ Based(scr, Append(ops, op), n + 1, f, t, G)
         /\ Writes(items(scr, Append(ops, op)), v, n + 1, f, t, G)
         /\ f # 0 => Writes(items(scr, Append(ops, op)), u, n + 1, f, t, G)
  <1> DEFINE q == items(scr, ops)
             x == openStatus(w, n)
             y == itemOf(op)
             r == openReply(w, n)
  <1>1. /\ n \in Nat \ {0} /\ f \in Nat /\ s \in Nat /\ Line(q, n, f, s, H) /\ q \in Seq(Items)
        /\ scr \in Seq(Messages) /\ ops \in Seq(Operations)
    BY BasedSays DEF Based
  <1>2. /\ p \in Nat /\ t \in Nat /\ s <= t /\ p <= t /\ (p = 0 \/ s < p) /\ H \subseteq G
    BY DEF Fresh
  <1>3. /\ w \in TurnWriters /\ w.statusID < n /\ w.respID < n
        /\ (w.respID # 0 /\ ~w.respSealed => w.statusID = 0)
        /\ (w.respID = 0 /\ ~w.respSealed => blank(w.respBuf))
        /\ (~w.respSealed => Tops(q, f, s, H, r)) /\ Tops(q, f, s, H, x)
    BY DEF Writes
  <1>4. /\ w.respBuf \in PieceTexts /\ w.statusBuf \in PieceTexts /\ w.statusID \in Nat /\ w.respID \in Nat
        /\ x.kind = "status" /\ x.text = w.statusBuf
        /\ x.id = (IF w.statusID # 0 THEN w.statusID ELSE n)
        /\ r.kind = "reply" /\ r.text = w.respBuf /\ r.id = (IF w.respID # 0 THEN w.respID ELSE n)
    BY <1>1, <1>3, OpenAre
  <1>5. buf \in PieceTexts
    <2>1. CASE buf = Append(w.statusBuf, p)
      BY <1>2, <1>4, <2>1, PiecesAppend
    <2>2. CASE buf = <<p>>
      BY <1>2, <2>2, PiecesShort
    <2> QED
      BY <2>1, <2>2
  <1>6. /\ op \in Operations /\ op.op = "send" /\ op.id = n /\ y = [id |-> n, kind |-> "status", text |-> buf]
    BY <1>1, <1>5, OpsAre
  <1>7. y \in Items /\ y.id = n /\ y.kind = "status" /\ y.text = buf
    BY <1>5, <1>6, ItemOf
  <1>8. /\ v \in TurnWriters /\ v.respID = w.respID /\ v.drafting = w.drafting /\ v.respBuf = w.respBuf
        /\ v.respSealed = sealed(w) /\ v.statusID = n /\ v.statusBuf = buf /\ v.statusSealed = w.statusSealed
        /\ v.drafts = w.drafts
    <2>1. sealed(w) \in BOOLEAN /\ n \in Nat
      BY <1>1, <1>3 DEF sealed, TurnWriters
    <2> QED
      BY ONLY <2>1, <1>3, <1>5, v = sentAs(w, buf, n)
      DEF TurnWriters, sentAs
  <1>9. /\ u \in TurnWriters /\ u.respID = w.respID /\ u.drafting = w.drafting /\ u.respBuf = w.respBuf
        /\ u.respSealed = w.respSealed /\ u.statusID = 0 /\ u.statusBuf = buf /\ u.statusSealed = w.statusSealed
        /\ u.drafts = w.drafts
    BY ONLY <1>3, <1>5, u = unsent(w, buf) DEF TurnWriters, unsent
  <1>10. /\ openReply(v, n + 1) = [id |-> IF w.respID # 0 THEN w.respID ELSE n + 1, kind |-> "reply", text |-> w.respBuf]
         /\ openReply(u, n + 1) = openReply(v, n + 1)
         /\ openStatus(v, n + 1) = y
         /\ openStatus(u, n + 1) = [id |-> n + 1, kind |-> "status", text |-> buf]
    BY <1>1, <1>6, <1>8, <1>9 DEF openReply, openStatus
  <1> DEFINE o == openReply(v, n + 1)
             z == openStatus(u, n + 1)
  <1>11. /\ o.kind = "reply" /\ o.text = w.respBuf /\ o.id = (IF w.respID # 0 THEN w.respID ELSE n + 1)
         /\ z.kind = "status" /\ z.text = buf /\ z.id = n + 1
    BY <1>10
  <1> HIDE DEF q, x, y, r, o, z
  <1>12. \A k \in DOMAIN q : q[k].id \in Nat /\ q[k].id < n /\ q[k].text \in PieceTexts /\ Holds(q[k], s, H)
    BY <1>1, LineSays
  <1>13. Holds(y, t, G) /\ \A k \in DOMAIN q : Before(f, q[k], y)
    <2>1. CASE w.statusID = 0 /\ buf = Append(w.statusBuf, p)
      <3>1. Holds(x, s, H) /\ \A k \in DOMAIN q : Before(f, q[k], x)
        BY <1>3 DEF Tops
      <3>2. x.text \in PieceTexts /\ y.kind = x.kind /\ y.text = Append(x.text, p) /\ y.id = x.id
        BY <1>4, <1>7, <2>1
      <3>3. Holds(y, t, G)
        BY <1>4, <3>1, <3>2, HoldsMore
      <3>4. \A k \in DOMAIN q : Before(f, q[k], y)
        BY <1>12, <3>1, <3>2, BeforeMore
      <3> QED
        BY <3>3, <3>4
    <2>2. CASE buf = <<p>>
      <3>1. Holds(y, t, G)
        BY <1>7, <2>2, HoldsFirst
      <3>2. \A k \in DOMAIN q : Before(f, q[k], y)
        BY <1>1, <1>7, <1>12, <2>2, BeforeFirst
      <3> QED
        BY <3>1, <3>2
    <2> QED
      BY <2>1, <2>2
  <1>14. /\ Based(scr, Append(ops, op), n + 1, f, t, G)
         /\ items(scr, Append(ops, op)) = Append(q, y)
    <2>1. op.id < n + 1 /\ n + 1 \in {n, n + 1}
      BY <1>1, <1>6
    <2>2. items(scr, Append(ops, op)) = Append(q, y)
      BY <1>1, <1>6, ItemsAppend DEF q, y
    <2>3. /\ Holds(itemOf(op), t, G) /\ op \in Operations /\ (op.op = "send" => op.id = n)
          /\ \A k \in DOMAIN items(scr, ops) : Before(f, items(scr, ops)[k], itemOf(op))
      BY <1>6, <1>13 DEF q, y
    <2>4. Based(scr, Append(ops, op), n + 1, f, t, G)
      BY ONLY <1>2, <2>1, <2>3, Based(scr, ops, n, f, s, H), BasedGrows
    <2> QED
      BY <2>2, <2>4
  <1>15. w.respID = 0 \/ f # 0 => (~w.respSealed => Tops(Append(q, y), f, t, G, o))
    <2> SUFFICES ASSUME w.respID = 0 \/ f # 0, ~w.respSealed PROVE Tops(Append(q, y), f, t, G, o)
      OBVIOUS
    <2>1. Tops(q, f, t, G, o)
      <3>1. o.kind = r.kind /\ o.text = r.text /\ (o.id = r.id \/ (r.id = n /\ o.id \in Nat /\ n <= o.id))
        BY <1>1, <1>4, <1>11
      <3>2. n \in Nat /\ Tops(q, f, s, H, r) /\ r.text \in PieceTexts
        BY <1>1, <1>3, <1>4
      <3> QED
        BY <1>1, <1>2, <3>1, <3>2, TopsStill
    <2>2. Before(f, y, o)
      <3>1. CASE w.respID = 0
        <4>1. o.id = n + 1 /\ precedes(y.text, o.text)
          BY <1>3, <1>11, <3>1 DEF blank, precedes
        <4> QED
          BY <1>1, <1>7, <4>1 DEF Before, Alike
      <3>2. CASE w.respID # 0 /\ f # 0
        <4>1. o.id # y.id
          BY <1>1, <1>3, <1>4, <1>7, <1>11, <3>2
        <4> QED
          BY <1>7, <1>11, <3>2, <4>1 DEF Before, Alike, Related
      <3> QED
        BY <3>1, <3>2
    <2> QED
      BY <1>1, <1>7, <2>1, <2>2, TopsGrow
  <1>16. Writes(Append(q, y), v, n + 1, f, t, G)
    <2>1. Tops(Append(q, y), f, t, G, openStatus(v, n + 1))
      <3>1. Tops(q, f, t, G, y)
        BY <1>13 DEF Tops
      <3>2. Before(f, y, y)
        BY <1>1, <1>7 DEF Before, Alike, Related
      <3> QED
        BY <1>1, <1>7, <1>10, <3>1, <3>2, TopsGrow
    <2>2. ~v.respSealed => w.respID = 0 /\ ~w.respSealed
      BY <1>8 DEF sealed
    <2>3. ~v.respSealed => Tops(Append(q, y), f, t, G, openReply(v, n + 1))
      BY <1>15, <2>2 DEF o
    <2> QED
      BY <1>1, <1>3, <1>4, <1>8, <2>1, <2>2, <2>3 DEF Writes
  <1>17. ASSUME f # 0 PROVE Writes(Append(q, y), u, n + 1, f, t, G)
    <2>1. Tops(Append(q, y), f, t, G, z)
      <3>1. Holds(z, t, G)
        BY <1>7, <1>11, <1>13 DEF Holds
      <3>2. ASSUME NEW k \in DOMAIN q PROVE Before(f, q[k], z)
        BY <1>1, <1>11, <1>12, <1>17, <3>2 DEF Before, Alike, Related
      <3>3. Tops(q, f, t, G, z)
        BY <3>1, <3>2 DEF Tops
      <3>4. Before(f, y, z)
        BY <1>1, <1>7, <1>11, <1>17 DEF Before, Alike, Related
      <3> QED
        BY <1>1, <1>7, <3>3, <3>4, TopsGrow
    <2>2. ~u.respSealed => Tops(Append(q, y), f, t, G, openReply(u, n + 1))
      BY <1>9, <1>10, <1>15, <1>17 DEF o
    <2> QED
      BY <1>1, <1>3, <1>4, <1>9, <1>17, <2>1, <2>2 DEF Writes, z
  <1> QED
    BY <1>6, <1>14, <1>16, <1>17 DEF q, y

(* A status message is edited while it is the last there is. *)
LEMMA StatusEdited ==
  ASSUME NEW scr, NEW ops, NEW n, NEW f, NEW s, NEW H, Based(scr, ops, n, f, s, H),
         NEW w, Writes(items(scr, ops), w, n, f, s, H), ~w.drafting, ~w.statusSealed, w.statusID # 0,
         NEW p, NEW t, NEW G, Fresh(p, s, H, t, G),
         NEW buf, buf = Append(w.statusBuf, p),
         NEW op, op = edit(w.statusID, "status", buf),
         NEW v, v = lined(w, buf)
  PROVE  /\ op \in Operations
         /\ items(scr, Append(ops, op)) = Append(items(scr, ops), itemOf(op))
         /\ Based(scr, Append(ops, op), n, f, t, G)
         /\ Writes(items(scr, Append(ops, op)), v, n, f, t, G)
  <1> DEFINE q == items(scr, ops)
             x == openStatus(w, n)
             y == itemOf(op)
             r == openReply(w, n)
  <1>1. /\ n \in Nat \ {0} /\ f \in Nat /\ s \in Nat /\ Line(q, n, f, s, H) /\ q \in Seq(Items)
        /\ scr \in Seq(Messages) /\ ops \in Seq(Operations)
    BY BasedSays DEF Based
  <1>2. /\ p \in Nat /\ t \in Nat /\ s <= t /\ p <= t /\ (p = 0 \/ s < p) /\ H \subseteq G
    BY DEF Fresh
  <1>3. /\ w \in TurnWriters /\ w.statusID < n /\ w.respID < n
        /\ (~w.respSealed => w.respID = 0)
        /\ (w.respID = 0 /\ ~w.respSealed => blank(w.respBuf))
        /\ (~w.respSealed => Tops(q, f, s, H, r)) /\ Tops(q, f, s, H, x)
    BY DEF Writes
  <1>4. /\ w.respBuf \in PieceTexts /\ w.statusBuf \in PieceTexts /\ w.statusID \in Nat \ {0} /\ w.respID \in Nat
        /\ x.kind = "status" /\ x.text = w.statusBuf /\ x.id = w.statusID
        /\ r.kind = "reply" /\ r.text = w.respBuf /\ r.id = (IF w.respID # 0 THEN w.respID ELSE n)
    BY <1>1, <1>3, OpenAre
  <1>5. buf \in PieceTexts
    BY <1>2, <1>4, PiecesAppend
  <1>6. /\ op \in Operations /\ op.op = "edit" /\ op.id = w.statusID
        /\ y = [id |-> w.statusID, kind |-> "status", text |-> buf]
    <2>1. "status" \in {"reply", "status"} /\ w.statusID \in Nat \ {0}
      BY <1>4
    <2> QED
      BY ONLY <2>1, <1>5, op = edit(w.statusID, "status", buf), OpsAre
  <1>7. y \in Items /\ y.id = w.statusID /\ y.kind = "status" /\ y.text = buf
    BY <1>5, <1>6, ItemOf
  <1>8. /\ v \in TurnWriters /\ v.respID = w.respID /\ v.drafting = w.drafting /\ v.respBuf = w.respBuf
        /\ v.respSealed = w.respSealed /\ v.statusID = w.statusID /\ v.statusBuf = buf
        /\ v.statusSealed = w.statusSealed /\ v.drafts = w.drafts
    BY ONLY <1>3, <1>5, v = lined(w, buf) DEF TurnWriters, lined
  <1>9. openReply(v, n) = r /\ openStatus(v, n) = y
    BY <1>4, <1>6, <1>8 DEF openReply, openStatus
  <1> HIDE DEF q, x, y, r
  <1>12. \A k \in DOMAIN q : q[k].id \in Nat /\ q[k].id < n /\ q[k].text \in PieceTexts /\ Holds(q[k], s, H)
    BY <1>1, LineSays
  <1>13. Holds(y, t, G) /\ \A k \in DOMAIN q : Before(f, q[k], y)
    <2>1. Holds(x, s, H) /\ \A k \in DOMAIN q : Before(f, q[k], x)
      BY <1>3 DEF Tops
    <2>2. x.text \in PieceTexts /\ y.kind = x.kind /\ y.text = Append(x.text, p) /\ y.id = x.id
      BY <1>4, <1>7
    <2>3. Holds(y, t, G)
      BY <1>4, <2>1, <2>2, HoldsMore
    <2>4. \A k \in DOMAIN q : Before(f, q[k], y)
      BY <1>12, <2>1, <2>2, BeforeMore
    <2> QED
      BY <2>3, <2>4
  <1>14. /\ Based(scr, Append(ops, op), n, f, t, G)
         /\ items(scr, Append(ops, op)) = Append(q, y)
    <2>1. op.id < n /\ n \in {n, n + 1} /\ (op.op = "send" => op.id = n)
      BY <1>3, <1>6
    <2>2. /\ op \in Operations /\ t \in Nat /\ s <= t /\ H \subseteq G /\ Holds(itemOf(op), t, G)
          /\ \A k \in DOMAIN items(scr, ops) : Before(f, items(scr, ops)[k], itemOf(op))
      BY <1>2, <1>6, <1>13 DEF q, y
    <2> QED
      BY ONLY Based(scr, ops, n, f, s, H), <2>1, <2>2, BasedGrows DEF q, y
  <1>15. ASSUME ~w.respSealed PROVE Tops(Append(q, y), f, t, G, r)
    <2>1. Tops(q, f, t, G, r)
      <3>1. n \in Nat /\ Tops(q, f, s, H, r) /\ r.text \in PieceTexts /\ r.id = r.id
        BY <1>1, <1>3, <1>4, <1>15
      <3> QED
        BY <1>1, <1>2, <3>1, TopsStill
    <2>2. Before(f, y, r)
      <3>1. r.id = n /\ precedes(y.text, r.text)
        BY <1>3, <1>4, <1>15 DEF blank, precedes
      <3> QED
        BY <1>1, <1>3, <1>4, <1>7, <3>1 DEF Before, Alike
    <2> QED
      BY <1>1, <1>7, <2>1, <2>2, TopsGrow
  <1>16. Writes(Append(q, y), v, n, f, t, G)
    <2>1. Tops(Append(q, y), f, t, G, y)
      <3>1. Tops(q, f, t, G, y)
        BY <1>13 DEF Tops
      <3>2. Before(f, y, y)
        BY <1>1, <1>4, <1>7 DEF Before, Alike, Related
      <3> QED
        BY <1>1, <1>7, <3>1, <3>2, TopsGrow
    <2> QED
      BY <1>1, <1>3, <1>4, <1>8, <1>9, <1>15, <2>1 DEF Writes
  <1> QED
    BY <1>6, <1>14, <1>16 DEF q, y

(* A reply that is open is edited. *)
LEMMA ReplyEdited ==
  ASSUME NEW scr, NEW ops, NEW n, NEW f, NEW s, NEW H, Based(scr, ops, n, f, s, H),
         NEW w, Ready(items(scr, ops), w, n, f, s, H), w.respID # 0,
         NEW op, op = edit(w.respID, "reply", w.respBuf)
  PROVE  /\ op \in Operations
         /\ items(scr, Append(ops, op)) = Append(items(scr, ops), itemOf(op))
         /\ Based(scr, Append(ops, op), n, f, s, H)
         /\ Writes(items(scr, Append(ops, op)), w, n, f, s, H)
  <1> DEFINE q == items(scr, ops)
             x == openReply(w, n)
             y == itemOf(op)
             z == openStatus(w, n)
  <1>1. /\ n \in Nat \ {0} /\ f \in Nat /\ s \in Nat /\ Line(q, n, f, s, H) /\ q \in Seq(Items)
        /\ scr \in Seq(Messages) /\ ops \in Seq(Operations)
    BY BasedSays DEF Based
  <1>2. /\ w \in TurnWriters /\ ~w.respSealed /\ ~w.drafting
        /\ w.statusID < n /\ w.respID < n /\ (w.statusSealed \/ w.statusID = 0)
        /\ f = 0 /\ w.statusID = 0 /\ ~w.statusSealed => blank(w.statusBuf)
        /\ Tops(q, f, s, H, x) /\ (~w.statusSealed => Tops(q, f, s, H, z))
    BY DEF Ready
  <1>3. /\ w.respBuf \in PieceTexts /\ w.statusBuf \in PieceTexts /\ w.respID \in Nat \ {0} /\ w.statusID \in Nat
        /\ z.kind = "status" /\ z.text = w.statusBuf /\ z.id = (IF w.statusID # 0 THEN w.statusID ELSE n)
    BY <1>1, <1>2, OpenAre
  <1>4. /\ op \in Operations /\ op.op = "edit" /\ op.id = w.respID
        /\ y = [id |-> w.respID, kind |-> "reply", text |-> w.respBuf]
    <2>1. "reply" \in {"reply", "status"}
      OBVIOUS
    <2> QED
      BY ONLY <2>1, <1>3, op = edit(w.respID, "reply", w.respBuf), OpsAre
  <1>5. y \in Items /\ y.id = w.respID /\ y.kind = "reply" /\ y.text = w.respBuf
    BY <1>3, <1>4, ItemOf
  <1>6. x = y
    BY <1>4 DEF openReply
  <1> HIDE DEF q, x, y, z
  <1>7. Holds(y, s, H) /\ \A k \in DOMAIN q : Before(f, q[k], y)
    BY <1>2, <1>6 DEF Tops
  <1>8. /\ Based(scr, Append(ops, op), n, f, s, H)
        /\ items(scr, Append(ops, op)) = Append(q, y)
    <2>1. op.id < n /\ n \in {n, n + 1} /\ (op.op = "send" => op.id = n) /\ s <= s /\ H \subseteq H
      BY <1>1, <1>2, <1>4
    <2>2. /\ op \in Operations /\ s \in Nat /\ Holds(itemOf(op), s, H)
          /\ \A k \in DOMAIN items(scr, ops) : Before(f, items(scr, ops)[k], itemOf(op))
      BY <1>1, <1>4, <1>7 DEF q, y
    <2> QED
      BY ONLY Based(scr, ops, n, f, s, H), <2>1, <2>2, BasedGrows DEF q, y
  <1>9. Tops(Append(q, y), f, s, H, x)
    <2>1. Before(f, y, x)
      BY <1>3, <1>5, <1>6 DEF Before, Alike, Related
    <2> QED
      BY <1>1, <1>2, <1>5, <2>1, TopsGrow
  <1>10. ASSUME ~w.statusSealed PROVE Tops(Append(q, y), f, s, H, z)
    <2>1. z.id = n
      BY <1>2, <1>3, <1>10
    <2>2. f = 0 => precedes(y.text, z.text)
      BY <1>2, <1>3, <1>10 DEF blank, precedes
    <2>3. Before(f, y, z)
      BY <1>1, <1>2, <1>3, <1>5, <2>1, <2>2 DEF Before, Alike, Related
    <2> QED
      BY <1>1, <1>2, <1>5, <1>10, <2>3, TopsGrow
  <1>11. Writes(Append(q, y), w, n, f, s, H)
    BY <1>2, <1>3, <1>9, <1>10 DEF Writes, x, z
  <1> QED
    BY <1>4, <1>8, <1>11 DEF q, y

LEMMA ReplyBegun ==
  ASSUME NEW q, NEW w, NEW n, NEW f, NEW s, NEW H, Line(q, n, f, s, H), n \in Nat \ {0}, s \in Nat,
         Writes(q, w, n, f, s, H),
         NEW v, v = sealsStatus(freshReply(w))
  PROVE  Writes(q, v, n, f, s, H) /\ Begun(w, v)
  <1> DEFINE u == freshReply(w)
  <1>1. w \in TurnWriters
    BY DEF Writes
  <1>2. /\ Writes(q, u, n, f, s, H) /\ ~u.respSealed
        /\ u.drafting = w.drafting /\ (w.drafting => u.respBuf = w.respBuf)
        /\ u.respID = 0 \/ (u.respID = w.respID /\ ~w.respSealed)
        /\ u.statusID = w.statusID /\ u.statusSealed = w.statusSealed
    <2>1. CASE ~w.respSealed
      <3>1. u = w
        BY <2>1 DEF freshReply
      <3> QED
        BY <2>1, <3>1
    <2>2. CASE w.respSealed
      <3>1. <<>> \in PieceTexts /\ piecesOf(<<>>) = {} /\ rises(<<>>)
        <4>1. 0 \in Nat
          OBVIOUS
        <4> QED
          BY <4>1, PiecesShort
      <3>2. /\ u \in TurnWriters /\ u.respBuf = <<>> /\ u.respID = 0 /\ ~u.respSealed
            /\ u.statusID = w.statusID /\ u.statusBuf = w.statusBuf /\ u.statusSealed = w.statusSealed
            /\ u.drafts = w.drafts /\ u.drafting = w.drafting
        <4> DEFINE e == <<>>
        <4>1. u = [w EXCEPT !.respBuf = e, !.respID = 0, !.respSealed = FALSE] /\ e \in PieceTexts
          BY <2>2, <3>1 DEF freshReply
        <4> HIDE DEF e, u
        <4>2. /\ u \in TurnWriters /\ u.respBuf = e /\ u.respID = 0 /\ ~u.respSealed
              /\ u.statusID = w.statusID /\ u.statusBuf = w.statusBuf /\ u.statusSealed = w.statusSealed
              /\ u.drafts = w.drafts /\ u.drafting = w.drafting
          BY ONLY <1>1, <4>1 DEF TurnWriters
        <4> QED
          BY <4>2 DEF e
      <3> HIDE DEF u
      <3>3. openStatus(u, n) = openStatus(w, n)
        BY <3>2 DEF openStatus
      <3>4. Tops(q, f, s, H, openReply(u, n))
        <4> DEFINE z == openReply(u, n)
        <4>1. z.kind = "reply" /\ z.text = <<>> /\ z.id = n
          BY <3>2, OpenAre
        <4>2. Holds(z, s, H)
          BY <3>1, <4>1 DEF Holds
        <4>3. ASSUME NEW k \in DOMAIN q PROVE Before(f, q[k], z)
          <5>1. q[k].id \in Nat /\ q[k].id < n
            BY LineSays
          <5>2. precedes(q[k].text, z.text)
            BY <3>1, <4>1 DEF precedes
          <5> QED
            BY <4>1, <5>1, <5>2 DEF Before, Alike, Related
        <4> QED
          BY <4>2, <4>3 DEF Tops
      <3>5. blank(u.respBuf)
        BY <3>1, <3>2 DEF blank
      <3>6. ~w.drafting
        BY <2>2 DEF Writes
      <3> QED
        BY <3>2, <3>3, <3>4, <3>5, <3>6 DEF Writes
    <2> QED
      BY <2>1, <2>2
  <1> HIDE DEF u
  <1>3. CASE u.respID # 0
    <2>1. v = u
      BY <1>3 DEF sealsStatus, u
    <2>2. v.statusSealed \/ v.statusID = 0
      BY <1>2, <1>3, <2>1 DEF Writes
    <2> QED
      BY <1>2, <2>1, <2>2 DEF Begun
  <1>4. CASE u.respID = 0
    <2>1. v = [u EXCEPT !.statusSealed = TRUE]
      BY <1>4 DEF sealsStatus, u
    <2>2. u \in TurnWriters
      BY <1>2 DEF Writes
    <2>3. /\ v \in TurnWriters /\ v.statusSealed /\ v.statusID = u.statusID
          /\ v.respID = u.respID /\ v.respBuf = u.respBuf /\ v.respSealed = u.respSealed
          /\ v.drafts = u.drafts /\ v.drafting = u.drafting
      BY ONLY <2>1, <2>2 DEF TurnWriters
    <2>4. openReply(v, n) = openReply(u, n)
      BY <2>3 DEF openReply
    <2>5. Writes(q, v, n, f, s, H)
      BY <1>2, <2>3, <2>4 DEF Writes
    <2> QED
      BY <1>2, <2>3, <2>5 DEF Begun
  <1> QED
    BY <1>3, <1>4

(* A piece of a reply that is full begins another. *)
LEMMA ReplyRolled ==
  ASSUME NEW q, NEW w, NEW n, NEW f, NEW s, NEW H, Line(q, n, f, s, H), n \in Nat \ {0},
         Writes(q, w, n, f, s, H), ~w.respSealed, w.statusSealed \/ w.statusID = 0, ~w.drafting,
         NEW p, NEW t, NEW G, Fresh(p, s, H, t, G), p \in G \cup {0},
         NEW r, r = [w EXCEPT !.respBuf = <<p>>, !.respID = 0]
  PROVE  /\ Ready(q, r, n, f, t, G) /\ r.respBuf = <<p>> /\ r.respID = 0 /\ ~r.drafting
         /\ r.statusID = w.statusID /\ r.statusSealed = w.statusSealed
  <1>1. /\ w \in TurnWriters /\ w.statusID < n
        /\ f = 0 /\ w.statusID = 0 /\ ~w.statusSealed => blank(w.statusBuf)
        /\ ~w.statusSealed => Tops(q, f, s, H, openStatus(w, n))
    BY DEF Writes
  <1>2. p \in Nat /\ s \in Nat /\ t \in Nat /\ s <= t /\ H \subseteq G
    BY DEF Fresh
  <1>3. /\ r \in TurnWriters /\ r.respBuf = <<p>> /\ r.respID = 0 /\ r.respSealed = w.respSealed
        /\ r.statusID = w.statusID /\ r.statusBuf = w.statusBuf /\ r.statusSealed = w.statusSealed
        /\ r.drafts = w.drafts /\ r.drafting = w.drafting
    <2> DEFINE e == <<p>>
    <2>1. e \in PieceTexts
      BY <1>2, PiecesShort
    <2>2. r = [w EXCEPT !.respBuf = e, !.respID = 0]
      OBVIOUS
    <2> HIDE DEF e
    <2>3. /\ r \in TurnWriters /\ r.respBuf = e /\ r.respID = 0 /\ r.respSealed = w.respSealed
          /\ r.statusID = w.statusID /\ r.statusBuf = w.statusBuf /\ r.statusSealed = w.statusSealed
          /\ r.drafts = w.drafts /\ r.drafting = w.drafting
      BY ONLY <1>1, <2>1, <2>2 DEF TurnWriters
    <2> QED
      BY <2>3 DEF e
  <1>4. Tops(q, f, t, G, openReply(r, n))
    <2> DEFINE z == openReply(r, n)
    <2>1. z.kind = "reply" /\ z.text = <<p>> /\ z.id = n
      BY <1>3, OpenAre
    <2> HIDE DEF z
    <2>2. Holds(z, t, G)
      BY <2>1, HoldsFirst
    <2>3. ASSUME NEW k \in DOMAIN q PROVE Before(f, q[k], z)
      <3>1. q[k].id \in Nat /\ q[k].id < n /\ q[k].text \in PieceTexts /\ Holds(q[k], s, H)
        BY LineSays
      <3> QED
        BY <2>1, <3>1, BeforeFirst
    <2> QED
      BY <2>2, <2>3 DEF Tops, z
  <1>5. ASSUME ~r.statusSealed PROVE Tops(q, f, t, G, openStatus(r, n))
    <2>1. openStatus(r, n) = openStatus(w, n) /\ openStatus(w, n).text \in PieceTexts
      BY <1>1, <1>3, OpenAre DEF openStatus
    <2>2. Tops(q, f, s, H, openStatus(w, n)) /\ n \in Nat
      BY <1>1, <1>3, <1>5
    <2> QED
      BY <1>2, <2>1, <2>2, TopsStill
  <1> QED
    BY <1>1, <1>3, <1>4, <1>5 DEF Ready

(* A piece is added to the open reply. *)
LEMMA ReplyGrown ==
  ASSUME NEW q, NEW w, NEW n, NEW f, NEW s, NEW H, Line(q, n, f, s, H), n \in Nat \ {0},
         Writes(q, w, n, f, s, H), ~w.respSealed, w.statusSealed \/ w.statusID = 0,
         NEW p, NEW t, NEW G, Fresh(p, s, H, t, G), p \in G \cup {0},
         NEW r, r = [w EXCEPT !.respBuf = Append(@, p)]
  PROVE  /\ Ready(q, r, n, f, t, G) /\ r.respBuf = Append(w.respBuf, p) /\ r.respID = w.respID
         /\ r.drafting = w.drafting /\ r.drafts = w.drafts
         /\ r.statusID = w.statusID /\ r.statusSealed = w.statusSealed
  <1>1. /\ w \in TurnWriters /\ w.statusID < n /\ w.respID < n
        /\ f = 0 /\ w.statusID = 0 /\ ~w.statusSealed => blank(w.statusBuf)
        /\ Tops(q, f, s, H, openReply(w, n))
        /\ w.drafting => w.drafts /\ w.respID = 0
        /\ ~w.statusSealed => Tops(q, f, s, H, openStatus(w, n))
    BY DEF Writes
  <1>2. p \in Nat /\ s \in Nat /\ t \in Nat /\ s <= t /\ H \subseteq G
    BY DEF Fresh
  <1>0. w.respBuf \in PieceTexts
    BY <1>1, OpenAre
  <1>3. /\ r \in TurnWriters /\ r.respBuf = Append(w.respBuf, p) /\ r.respID = w.respID
        /\ r.respSealed = w.respSealed
        /\ r.statusID = w.statusID /\ r.statusBuf = w.statusBuf /\ r.statusSealed = w.statusSealed
        /\ r.drafts = w.drafts /\ r.drafting = w.drafting
    <2> DEFINE e == Append(w.respBuf, p)
    <2>1. e \in PieceTexts
      BY <1>0, <1>2, PiecesAppend
    <2>2. r = [w EXCEPT !.respBuf = e]
      OBVIOUS
    <2> HIDE DEF e
    <2>3. /\ r \in TurnWriters /\ r.respBuf = e /\ r.respID = w.respID /\ r.respSealed = w.respSealed
          /\ r.statusID = w.statusID /\ r.statusBuf = w.statusBuf /\ r.statusSealed = w.statusSealed
          /\ r.drafts = w.drafts /\ r.drafting = w.drafting
      BY ONLY <1>1, <2>1, <2>2 DEF TurnWriters
    <2> QED
      BY <2>3 DEF e
  <1>4. Tops(q, f, t, G, openReply(r, n))
    <2> DEFINE x == openReply(w, n)
               z == openReply(r, n)
    <2>1. x.kind = "reply" /\ x.text = w.respBuf
          /\ x.id = (IF w.respID # 0 THEN w.respID ELSE n)
      BY <1>1, OpenAre
    <2>2. z.kind = "reply" /\ z.text = Append(w.respBuf, p)
          /\ z.id = (IF w.respID # 0 THEN w.respID ELSE n)
      <3>1. r \in TurnWriters /\ n \in Nat \ {0}
        BY <1>3
      <3>2. z.kind = "reply" /\ z.text = r.respBuf /\ z.id = (IF r.respID # 0 THEN r.respID ELSE n)
        BY ONLY <3>1, OpenAre
      <3> HIDE DEF z
      <3> QED
        BY <1>3, <3>2
    <2>3. Holds(x, s, H) /\ \A k \in DOMAIN q : Before(f, q[k], x)
      BY <1>1 DEF Tops
    <2> HIDE DEF x, z
    <2>4. Holds(z, t, G)
      BY <1>0, <2>1, <2>2, <2>3, HoldsMore
    <2>5. ASSUME NEW k \in DOMAIN q PROVE Before(f, q[k], z)
      <3>1. q[k].text \in PieceTexts /\ Holds(q[k], s, H)
        BY LineSays
      <3> QED
        BY <1>0, <2>1, <2>2, <2>3, <3>1, BeforeMore
    <2> QED
      BY <2>4, <2>5 DEF Tops, z
  <1>5. ASSUME ~r.statusSealed PROVE Tops(q, f, t, G, openStatus(r, n))
    <2>1. openStatus(r, n) = openStatus(w, n) /\ openStatus(w, n).text \in PieceTexts
      BY <1>1, <1>3, OpenAre DEF openStatus
    <2>2. Tops(q, f, s, H, openStatus(w, n)) /\ n \in Nat
      BY <1>1, <1>3, <1>5
    <2> QED
      BY <1>2, <2>1, <2>2, TopsStill
  <1> QED
    BY <1>1, <1>3, <1>4, <1>5 DEF Ready

LEMMA SendsAppend ==
  ASSUME NEW o \in Seq(Operations), NEW op \in Operations
  PROVE  /\ sends(o) \in Nat /\ Append(o, op) \in Seq(Operations)
         /\ sends(Append(o, op)) = sends(o) + (IF op.op = "send" THEN 1 ELSE 0)
  <1> DEFINE a == Append(o, op)
             S == {i \in DOMAIN o : o[i].op = "send"}
             T == {i \in DOMAIN a : a[i].op = "send"}
  <1>1. /\ a \in Seq(Operations) /\ Len(o) \in Nat /\ DOMAIN a = 1 .. Len(o) + 1 /\ DOMAIN o = 1 .. Len(o)
        /\ a[Len(o) + 1] = op /\ \A k \in 1 .. Len(o) : a[k] = o[k]
    OBVIOUS
  <1> HIDE DEF a
  <1>2. IsFiniteSet(S) /\ Cardinality(S) \in Nat
    <2>1. IsFiniteSet(1 .. Len(o))
      BY <1>1, FS_Interval
    <2>2. S \subseteq 1 .. Len(o)
      BY <1>1
    <2> QED
      BY <2>1, <2>2, FS_Subset, FS_CardinalityType
  <1>3. CASE op.op = "send"
    <2>1. T = S \cup {Len(o) + 1} /\ Len(o) + 1 \notin S
      BY <1>1, <1>3
    <2>2. Cardinality(T) = Cardinality(S) + 1
      BY <1>2, <2>1, FS_AddElement
    <2> QED
      BY <1>1, <1>2, <1>3, <2>2 DEF sends, a
  <1>4. CASE op.op # "send"
    <2>1. T = S
      BY <1>1, <1>4
    <2>2. sends(o) = Cardinality(S) /\ sends(a) = Cardinality(T)
      BY DEF sends
    <2> HIDE DEF S, T
    <2>3. sends(a) = sends(o) + 0 /\ sends(o) \in Nat
      BY <1>2, <2>1, <2>2
    <2> QED
      BY <1>1, <1>4, <2>3 DEF a
  <1> QED
    BY <1>3, <1>4

LEMMA SendsNone == sends(<<>>) = 0
  <1>1. {i \in DOMAIN <<>> : <<>>[i].op = "send"} = {}
    OBVIOUS
  <1> QED
    BY <1>1, FS_EmptySet DEF sends

LEMMA RepliesAppend ==
  ASSUME NEW q \in Seq(Items), NEW y \in Items
  PROVE  repliesIn(Append(q, y)) = repliesIn(q) \cup (IF y.kind = "reply" THEN piecesOf(y.text) ELSE {})
  <1>1. /\ Len(q) \in Nat /\ DOMAIN Append(q, y) = 1 .. Len(q) + 1 /\ DOMAIN q = 1 .. Len(q)
        /\ Append(q, y)[Len(q) + 1] = y /\ \A k \in 1 .. Len(q) : Append(q, y)[k] = q[k]
    OBVIOUS
  <1> DEFINE z == Append(q, y)
  <1> HIDE DEF z
  <1>2. \A x : x \in repliesIn(q) <=> \E k \in DOMAIN q : q[k].kind = "reply" /\ x \in piecesOf(q[k].text)
    BY DEF repliesIn
  <1>3. \A x : x \in repliesIn(z) <=> \E k \in DOMAIN z : z[k].kind = "reply" /\ x \in piecesOf(z[k].text)
    BY DEF repliesIn
  <1>4. ASSUME NEW x \in repliesIn(z)
        PROVE  x \in repliesIn(q) \cup (IF y.kind = "reply" THEN piecesOf(y.text) ELSE {})
    <2>1. PICK k \in DOMAIN z : z[k].kind = "reply" /\ x \in piecesOf(z[k].text)
      BY <1>3
    <2>2. CASE k \in DOMAIN q
      BY <1>1, <1>2, <2>1, <2>2 DEF z
    <2>3. CASE k = Len(q) + 1
      BY <1>1, <2>1, <2>3 DEF z
    <2> QED
      BY <1>1, <2>1, <2>2, <2>3 DEF z
  <1>5. repliesIn(q) \subseteq repliesIn(z)
    BY <1>1, <1>2, <1>3 DEF z
  <1>6. y.kind = "reply" => piecesOf(y.text) \subseteq repliesIn(z)
    BY <1>1, <1>3 DEF z
  <1>7. repliesIn(z) = repliesIn(q) \cup (IF y.kind = "reply" THEN piecesOf(y.text) ELSE {})
    BY <1>4, <1>5, <1>6
  <1> QED
    BY <1>7 DEF z

LEMMA ConcatAppend ==
  ASSUME NEW o \in Seq(Operations), NEW e \in Seq(Operations), NEW op \in Operations
  PROVE  /\ o \o e \in Seq(Operations) /\ Append(e, op) \in Seq(Operations)
         /\ o \o Append(e, op) = Append(o \o e, op)
         /\ o \o <<>> = o /\ o \o <<op>> = Append(o, op)
  OBVIOUS

LEMMA MarkedAppend ==
  ASSUME NEW w, NEW n, NEW o \in Seq(Operations), NEW op \in Operations, Marked(w, n, o), Marked(w, n, <<op>>)
  PROVE  Marked(w, n, Append(o, op))
  <1>1. /\ Len(o) \in Nat /\ DOMAIN Append(o, op) = 1 .. Len(o) + 1 /\ DOMAIN o = 1 .. Len(o)
        /\ Append(o, op)[Len(o) + 1] = op /\ \A k \in 1 .. Len(o) : Append(o, op)[k] = o[k]
    OBVIOUS
  <1>2. DOMAIN <<op>> = {1} /\ <<op>>[1] = op
    OBVIOUS
  <1> DEFINE a == Append(o, op)
             b == <<op>>
  <1> HIDE DEF a, b
  <1>3. ASSUME NEW i \in DOMAIN a
        PROVE  /\ a[i].op = "send" => n <= a[i].id /\ (a[i].rich <=> a[i].kind = "reply")
               /\ a[i].op = "edit" /\ a[i].kind = "reply" => ~w.respSealed /\ w.respID # 0 /\ a[i].id = w.respID
               /\ a[i].op = "edit" /\ a[i].kind = "status" =>
                    ~w.statusSealed /\ w.statusID # 0 /\ a[i].id = w.statusID
    <2>1. CASE i \in DOMAIN o
      <3>1. a[i] = o[i]
        BY <1>1, <2>1 DEF a
      <3> QED
        BY <2>1, <3>1 DEF Marked
    <2>2. CASE i = Len(o) + 1
      <3>1. 1 \in DOMAIN b /\ b[1] = op /\ a[i] = op /\ Marked(w, n, b)
        BY <1>1, <1>2, <2>2 DEF a, b
      <3> QED
        BY <3>1 DEF Marked
    <2> QED
      BY <1>1, <1>3, <2>1, <2>2 DEF a
  <1> QED
    BY <1>3 DEF Marked, a

LEMMA FlushDone ==
  ASSUME NEW scr, NEW ops, NEW n, NEW f, NEW s, NEW H, Based(scr, ops, n, f, s, H),
         NEW w, Writes(items(scr, ops), w, n, f, s, H),
         NEW ok \in BOOLEAN, NEW r, r = flushDraft(w, n, ok)
  PROVE  /\ Done(scr, ops, w, n, f, r, s, H)
         /\ n + Len(r.ops) = n + sends(r.ops)
         /\ ~w.drafting \/ ok => ~r.err
         /\ ~r.err => /\ ~r.w.drafting
                      /\ r.w.statusID = w.statusID /\ r.w.statusBuf = w.statusBuf
                      /\ r.w.statusSealed = w.statusSealed /\ r.w.respSealed = w.respSealed
  <1> DEFINE q == items(scr, ops)
  <1>1. /\ n \in Nat \ {0} /\ f \in Nat /\ s \in Nat /\ q \in Seq(Items)
        /\ scr \in Seq(Messages) /\ ops \in Seq(Operations)
    BY BasedSays
  <1>2. /\ w \in TurnWriters /\ (w.drafting => w.respID = 0 /\ ~w.respSealed)
        /\ w.statusID < n /\ w.respID < n
    BY DEF Writes
  <1>3. w.respBuf \in PieceTexts /\ {w.statusSealed, w.respSealed, w.drafting} \subseteq BOOLEAN
        /\ w.respID \in Nat /\ w.statusID \in Nat
    BY <1>2 DEF TurnWriters
  <1>4. CASE ~w.drafting
    <2>1. r = written(w, <<>>, FALSE)
      BY <1>4 DEF flushDraft
    <2>2. r.w = w /\ r.ops = <<>> /\ ~r.err /\ r.err \in BOOLEAN
      BY <2>1 DEF written
    <2>3. ops \o r.ops = ops /\ sends(r.ops) = 0 /\ Len(r.ops) = 0 /\ r.ops \in Seq(Operations)
      BY <1>1, <2>2, SendsNone
    <2>4. n + sends(r.ops) = n
      BY <1>1, <2>3
    <2>5. LeavesOpen(w, n, r.w)
      BY <2>2 DEF LeavesOpen
    <2>6. Marked(w, n, r.ops)
      BY <2>2 DEF Marked
    <2>7. Done(scr, ops, w, n, f, r, s, H)
      BY <1>1, <1>2, <2>2, <2>3, <2>4, <2>5, <2>6 DEF Done
    <2> QED
      BY <1>4, <2>2, <2>3, <2>7
  <1>5. CASE w.drafting
    <2> DEFINE op == send(n, "reply", w.respBuf)
               v == [w EXCEPT !.drafting = FALSE, !.respID = n]
    <2>1. r = written([w EXCEPT !.drafting = FALSE, !.respID = IF ok THEN n ELSE @], <<op>>, ~ok)
      BY <1>5 DEF flushDraft
    <2>2. /\ r.ops = <<op>> /\ r.err = ~ok /\ (ok => r.w = v)
          /\ r.w = [w EXCEPT !.drafting = FALSE, !.respID = IF ok THEN n ELSE @]
      <3> DEFINE o == <<op>>
                 u == [w EXCEPT !.drafting = FALSE, !.respID = IF ok THEN n ELSE @]
      <3>1. r = written(u, o, ~ok)
        BY <2>1
      <3>2. ok => u = v
        OBVIOUS
      <3> HIDE DEF o, u
      <3>3. r.ops = o /\ r.err = ~ok /\ r.w = u
        BY <3>1 DEF written
      <3> QED
        BY <3>2, <3>3 DEF o, u
    <2>3. r.w \in TurnWriters
      <3>1. (IF ok THEN n ELSE w.respID) \in Nat
        BY <1>1, <1>3
      <3> QED
        BY ONLY <1>2, <2>2, <3>1 DEF TurnWriters
    <2>4. /\ v \in TurnWriters /\ v.respID = n /\ ~v.drafting /\ v.respBuf = w.respBuf /\ v.respSealed = w.respSealed
          /\ v.statusID = w.statusID /\ v.statusBuf = w.statusBuf /\ v.statusSealed = w.statusSealed
      BY <1>1, <1>2 DEF TurnWriters
    <2>5. Ready(q, w, n, f, s, H) /\ w.respID = 0
      BY <1>5 DEF Writes, Ready
    <2>6. op \in Operations /\ op.op = "send" /\ op.id = n /\ op.kind = "reply" /\ op.rich
          /\ itemOf(op) = [id |-> n, kind |-> "reply", text |-> w.respBuf]
      <3>1. "reply" \in {"reply", "status"}
        OBVIOUS
      <3> QED
        BY ONLY <1>1, <1>3, <3>1, OpsAre
    <2> HIDE DEF op, v, q
    <2>7. /\ items(scr, Append(ops, op)) = Append(q, itemOf(op))
          /\ Based(scr, Append(ops, op), n + 1, f, s, H)
          /\ Writes(items(scr, Append(ops, op)), v, n + 1, f, s, H)
      <3>1. op = send(n, "reply", w.respBuf) /\ Ready(items(scr, ops), w, n, f, s, H) /\ ~v.respSealed
        BY <1>2, <1>5, <2>4, <2>5 DEF op, q
      <3> QED
        BY <2>4, <2>5, <3>1, ReplySent DEF q
    <2>8. ops \o r.ops = Append(ops, op) /\ r.ops \in Seq(Operations) /\ Len(r.ops) = 1
      BY <1>1, <2>2, <2>6, ConcatAppend
    <2>9. sends(r.ops) = 1
      <3>1. Append(<<>>, op) = <<op>> /\ <<>> \in Seq(Operations)
        OBVIOUS
      <3>2. sends(Append(<<>>, op)) = sends(<<>>) + (IF op.op = "send" THEN 1 ELSE 0)
        BY <2>6, <3>1, SendsAppend
      <3> QED
        BY <2>2, <2>6, <3>1, <3>2, SendsNone
    <2>10. Marked(w, n, r.ops)
      <3>1. DOMAIN <<op>> = {1} /\ <<op>>[1] = op
        OBVIOUS
      <3> QED
        BY <1>1, <2>2, <2>6, <3>1 DEF Marked
    <2>11. ~r.err => LeavesOpen(w, n, r.w)
      BY <1>1, <2>2, <2>4 DEF LeavesOpen
    <2>12. repliesIn(q) \cup drafted(w) \subseteq repliesIn(items(scr, ops \o r.ops))
      <3>1. itemOf(op) \in Items /\ itemOf(op).kind = "reply" /\ itemOf(op).text = w.respBuf
        BY <1>1, <1>3, <2>6 DEF Items
      <3>2. repliesIn(Append(q, itemOf(op))) = repliesIn(q) \cup piecesOf(w.respBuf)
        BY <1>1, <3>1, RepliesAppend
      <3> QED
        BY <2>7, <2>8, <3>2 DEF drafted
    <2>13. Done(scr, ops, w, n, f, r, s, H)
      <3>1. r.err \in BOOLEAN /\ (~r.err => r.w = v)
        BY <2>2
      <3> QED
        BY <2>3, <2>7, <2>8, <2>9, <2>10, <2>11, <2>12, <3>1 DEF Done, q
    <2>14. ok \in BOOLEAN /\ (~w.drafting \/ ok => ~r.err) /\ (~r.err => r.w = v)
      BY <1>5, <2>2
    <2>15. n + Len(r.ops) = n + sends(r.ops)
      BY <2>8, <2>9
    <2> QED
      BY <2>4, <2>13, <2>14, <2>15
  <1> QED
    BY <1>3, <1>4, <1>5

(* A further operation after those of a flush. *)
Counts(m, n, e, op) == m = n + sends(e.ops) + (IF op.op = "send" THEN 1 ELSE 0)
Passes(e, op, err, v) ==
  (IF e.err THEN {} ELSE drafted(e.w))
    \subseteq (IF op.kind = "reply" THEN piecesOf(op.text) ELSE {}) \cup (IF err THEN {} ELSE drafted(v))
Adds(scr, a, b, op) ==
  repliesIn(items(scr, b)) = repliesIn(items(scr, a)) \cup (IF op.kind = "reply" THEN piecesOf(op.text) ELSE {})

LEMMA DoneMore ==
  ASSUME NEW scr, NEW ops, NEW w, NEW n, NEW f, NEW e, NEW s, NEW H,
         ops \in Seq(Operations), n \in Nat \ {0},
         Done(scr, ops, w, n, f, e, s, H),
         NEW op \in Operations, NEW v \in TurnWriters, NEW err \in BOOLEAN, NEW t, NEW G,
         NEW m, Counts(m, n, e, op),
         NEW a, a = Append(ops \o e.ops, op),
         items(scr, a) = Append(items(scr, ops \o e.ops), itemOf(op)),
         Based(scr, a, m, f, t, G),
         ~err => Writes(items(scr, a), v, m, f, t, G) /\ LeavesOpen(w, n, v),
         Marked(w, n, <<op>>),
         Passes(e, op, err, v),
         NEW r, r = written(v, Append(e.ops, op), err)
  PROVE  /\ Done(scr, ops, w, n, f, r, t, G)
         /\ Adds(scr, ops \o e.ops, ops \o r.ops, op)
  <1>1. r.w = v /\ r.ops = Append(e.ops, op) /\ r.err = err
    BY DEF written
  <1>2. /\ e.ops \in Seq(Operations) /\ Marked(w, n, e.ops)
        /\ Based(scr, ops \o e.ops, n + sends(e.ops), f, s, H)
        /\ repliesIn(items(scr, ops)) \cup drafted(w)
              \subseteq repliesIn(items(scr, ops \o e.ops)) \cup (IF e.err THEN {} ELSE drafted(e.w))
    BY DEF Done
  <1>3. /\ r.ops \in Seq(Operations) /\ ops \o r.ops = a
        /\ n + sends(r.ops) = m
    <2>1. Append(e.ops, op) \in Seq(Operations) /\ ops \o Append(e.ops, op) = Append(ops \o e.ops, op)
      BY <1>2, ConcatAppend
    <2>2. sends(e.ops) \in Nat /\ sends(Append(e.ops, op)) = sends(e.ops) + (IF op.op = "send" THEN 1 ELSE 0)
      BY <1>2, SendsAppend
    <2> QED
      BY <1>1, <2>1, <2>2 DEF Counts
  <1>4. Marked(w, n, r.ops)
    BY <1>1, <1>2, MarkedAppend
  <1>5. repliesIn(items(scr, a))
          = repliesIn(items(scr, ops \o e.ops)) \cup (IF op.kind = "reply" THEN piecesOf(op.text) ELSE {})
    <2>1. items(scr, ops \o e.ops) \in Seq(Items)
      BY <1>2, BasedSays
    <2>2. itemOf(op) \in Items /\ itemOf(op).kind = op.kind /\ itemOf(op).text = op.text
      BY ItemOf
    <2> QED
      BY <2>1, <2>2, RepliesAppend
  <1>6. repliesIn(items(scr, ops)) \cup drafted(w)
          \subseteq repliesIn(items(scr, a)) \cup (IF err THEN {} ELSE drafted(v))
    BY <1>2, <1>5 DEF Passes
  <1> QED
    BY <1>1, <1>3, <1>4, <1>5, <1>6 DEF Done, Adds

LEMMA BasedStill ==
  ASSUME NEW scr, NEW ops, NEW n, NEW f, NEW s, NEW H, Based(scr, ops, n, f, s, H),
         NEW g \in Nat, f # 0 => g # 0, NEW t \in Nat, NEW G, s <= t, H \subseteq G
  PROVE  Based(scr, ops, n, g, t, G)
  <1>1. Line(items(scr, ops), n, f, s, H) /\ n \in Nat \ {0} /\ s \in Nat
    BY DEF Based
  <1>2. n <= n
    BY <1>1
  <1>3. Line(items(scr, ops), n, g, t, G)
    BY <1>1, <1>2, LineStill
  <1> QED
    BY <1>3 DEF Based

LEMMA FailedDone ==
  ASSUME NEW scr, NEW ops, NEW w, NEW n, NEW f, NEW s, NEW H, NEW r, Done(scr, ops, w, n, f, r, s, H), r.err,
         NEW t \in Nat, NEW G, s <= t, H \subseteq G
  PROVE  Done(scr, ops, w, n, f, r, t, G)
  <1>1. Based(scr, ops \o r.ops, n + sends(r.ops), f, s, H) /\ f \in Nat
    BY BasedSays DEF Done
  <1>2. Based(scr, ops \o r.ops, n + sends(r.ops), f, t, G)
    BY <1>1, BasedStill
  <1> QED
    BY <1>2 DEF Done

LEMMA WriteStatusDone ==
  ASSUME NEW scr, NEW ops, NEW n, NEW f, NEW s, NEW H, Based(scr, ops, n, f, s, H),
         NEW w, Writes(items(scr, ops), w, n, f, s, H),
         NEW p, NEW t, NEW G, Fresh(p, s, H, t, G),
         NEW bad \in {"none", "reply", "status"}, bad = "status" => f # 0,
         NEW r, r = writeStatus(w, n, p, bad)
  PROVE  Done(scr, ops, w, n, f, r, t, G) /\ (r.err => bad = "reply")
  <1> DEFINE e == flushDraft(w, n, bad # "reply")
             o == ops \o e.ops
             m == n + sends(e.ops)
             q == items(scr, o)
             u == freshStatus(e.w)
             x == withStatus(u, p)
  <1>1. /\ n \in Nat \ {0} /\ f \in Nat /\ s \in Nat /\ t \in Nat /\ s <= t /\ H \subseteq G /\ p \in Nat
        /\ ops \in Seq(Operations)
    BY BasedSays DEF Fresh
  <1>2. /\ Done(scr, ops, w, n, f, e, s, H) /\ n + Len(e.ops) = m
        /\ (bad # "reply" => ~e.err)
        /\ ~e.err => /\ ~e.w.drafting /\ e.w.statusID = w.statusID /\ e.w.statusSealed = w.statusSealed
    <2> DEFINE ok == bad # "reply"
    <2>1. ok \in BOOLEAN /\ e = flushDraft(w, n, ok)
      OBVIOUS
    <2> HIDE DEF e, ok
    <2>2. /\ Done(scr, ops, w, n, f, e, s, H)
          /\ n + Len(e.ops) = n + sends(e.ops)
          /\ ~w.drafting \/ ok => ~e.err
          /\ ~e.err => ~e.w.drafting /\ e.w.statusID = w.statusID /\ e.w.statusSealed = w.statusSealed
      BY ONLY <2>1, Based(scr, ops, n, f, s, H), Writes(items(scr, ops), w, n, f, s, H), FlushDone
    <2> QED
      BY <2>2 DEF m, ok
  <1>3. CASE e.err
    <2>1. r = e
      BY <1>3 DEF writeStatus
    <2> QED
      BY <1>1, <1>2, <1>3, <2>1, FailedDone
  <1>4. CASE ~e.err
    <2>1. r = IF x.statusID # 0
              THEN written(x, Append(e.ops, edit(x.statusID, "status", x.statusBuf)), FALSE)
              ELSE written(IF bad = "status" THEN x ELSE [x EXCEPT !.statusID = m, !.respSealed = sealed(x)],
                           Append(e.ops, send(m, "status", x.statusBuf)), FALSE)
      BY <1>2, <1>4 DEF writeStatus
    <2> HIDE DEF e, o, m, q
    <2>2. /\ Based(scr, o, m, f, s, H) /\ Writes(q, e.w, m, f, s, H) /\ LeavesOpen(w, n, e.w)
          /\ e.ops \in Seq(Operations)
      BY <1>2, <1>4 DEF Done, o, m, q
    <2>3. /\ m \in Nat \ {0} /\ n <= m /\ Line(q, m, f, s, H)
      <3>1. sends(e.ops) \in Nat
        <4>1. send(n, "status", <<>>) \in Operations
          <5>1. <<>> \in PieceTexts /\ "status" \in {"reply", "status"}
            BY DEF PieceTexts
          <5> QED
            BY <1>1, <5>1, OpsAre
        <4> QED
          BY <2>2, <4>1, SendsAppend
      <3> QED
        BY <1>1, <2>2, <3>1 DEF Based, m, q
    <2>4. /\ Writes(q, u, m, f, s, H) /\ ~u.statusSealed /\ ~u.drafting
          /\ u.respID = e.w.respID /\ (u.respSealed <=> e.w.respSealed)
          /\ u.statusID = 0 \/ (u.statusID = w.statusID /\ ~w.statusSealed)
      <3>1. u = freshStatus(e.w) /\ s \in Nat
        BY <1>1
      <3> DEFINE d == e.w
      <3>0. Writes(q, d, m, f, s, H) /\ u = freshStatus(d)
        BY <2>2
      <3> HIDE DEF u, d, x
      <3>2. Writes(q, u, m, f, s, H)
        <4>1. Writes(q, freshStatus(d), m, f, s, H)
          BY ONLY <2>3, <3>0, <3>1, FreshStatusWrites
        <4> QED
          BY <3>0, <4>1
      <3>3. /\ ~u.statusSealed /\ (u.drafting <=> d.drafting)
            /\ u.respID = d.respID /\ (u.respSealed <=> d.respSealed)
            /\ u.statusID = 0 \/ (u.statusID = d.statusID /\ ~d.statusSealed)
        <4>1. d \in TurnWriters
          BY <3>0 DEF Writes
        <4> QED
          BY ONLY <3>0, <4>1 DEF freshStatus, TurnWriters
      <3> QED
        BY <1>2, <1>4, <3>2, <3>3 DEF d
    <2> HIDE DEF u
    <2>5. u \in TurnWriters /\ u.statusBuf \in PieceTexts /\ u.statusID \in Nat
      BY <2>4 DEF Writes, TurnWriters
    <2>6. CASE u.statusID # 0 /\ ~(Len(u.statusBuf) + 1 > StatusLimit)
      <3> DEFINE buf == Append(u.statusBuf, p)
                 op == edit(u.statusID, "status", buf)
      <3>1. x = [u EXCEPT !.statusBuf = buf]
        BY <2>6 DEF withStatus
      <3>2. buf \in PieceTexts
        BY <1>1, <2>5, PiecesAppend
      <3> HIDE DEF buf, x
      <3>3. /\ x \in TurnWriters /\ x.statusID = u.statusID /\ x.statusBuf = buf
            /\ x.respID = u.respID /\ x.respSealed = u.respSealed /\ x.statusSealed = u.statusSealed
            /\ x.drafting = u.drafting
        BY ONLY <2>5, <3>1, <3>2 DEF TurnWriters
      <3>4. r = written(x, Append(e.ops, op), FALSE)
        BY <2>1, <2>6, <3>3
      <3>5. op \in Operations /\ op.op = "edit" /\ op.id = u.statusID /\ op.kind = "status"
        <4>1. u.statusID \in Nat \ {0} /\ "status" \in {"reply", "status"}
          BY <2>5, <2>6
        <4> QED
          BY ONLY <3>2, <4>1, OpsAre
      <3>6. /\ items(scr, Append(o, op)) = Append(q, itemOf(op))
            /\ Based(scr, Append(o, op), m, f, t, G)
            /\ Writes(items(scr, Append(o, op)), x, m, f, t, G)
        <4>1. Writes(items(scr, o), u, m, f, s, H) /\ u.statusID # 0 /\ buf = Append(u.statusBuf, p)
              /\ op = edit(u.statusID, "status", buf) /\ x = lined(u, buf)
          BY <2>4, <2>6, <3>1 DEF q, buf, lined
        <4>2. Based(scr, o, m, f, s, H) /\ ~u.drafting /\ ~u.statusSealed
          BY <2>2, <2>4
        <4> HIDE DEF op
        <4>3. items(scr, Append(o, op)) = Append(items(scr, o), itemOf(op))
          BY ONLY <3>5, <4>2, ItemsAppend DEF Based
        <4>4. Based(scr, Append(o, op), m, f, t, G)
          BY ONLY <4>1, <4>2, Fresh(p, s, H, t, G), StatusEdited
        <4>5. Writes(items(scr, Append(o, op)), x, m, f, t, G)
          BY ONLY <4>1, <4>2, Fresh(p, s, H, t, G), StatusEdited
        <4> QED
          BY <4>3, <4>4, <4>5 DEF q
      <3> HIDE DEF op
      <3>7. Marked(w, n, <<op>>)
        <4>1. DOMAIN <<op>> = {1} /\ <<op>>[1] = op
          OBVIOUS
        <4> QED
          BY <2>4, <2>6, <3>5, <4>1 DEF Marked
      <3>8. LeavesOpen(w, n, x)
        BY <2>2, <2>4, <3>3 DEF LeavesOpen
      <3>9. Done(scr, ops, w, n, f, r, t, G)
        <4>1. Counts(m, n, e, op)
          BY <2>3, <3>5 DEF m, Counts
        <4>2. Passes(e, op, FALSE, x) /\ FALSE \in BOOLEAN
          BY <1>2, <1>4 DEF drafted, Passes
        <4>3. Append(o, op) = Append(ops \o e.ops, op) /\ q = items(scr, ops \o e.ops)
          BY DEF o, q
        <4> QED
          BY ONLY <1>1, <1>2, <3>3, <3>4, <3>5, <3>6, <3>7, <3>8, <4>1, <4>2, <4>3, DoneMore
      <3> QED
        BY <3>4, <3>9 DEF written
    <2>7. CASE u.statusID = 0 \/ Len(u.statusBuf) + 1 > StatusLimit
      <3> DEFINE buf == IF u.statusID = 0 THEN Append(u.statusBuf, p) ELSE <<p>>
                 op == send(m, "status", buf)
                 v == [u EXCEPT !.statusBuf = buf, !.statusID = m, !.respSealed = sealed(u)]
                 y == IF bad = "status" THEN x ELSE v
      <3>1. x = [u EXCEPT !.statusBuf = buf, !.statusID = 0]
        <4>1. CASE u.statusID = 0
          <5>1. x = [u EXCEPT !.statusBuf = buf]
            BY <4>1 DEF withStatus
          <5>2. buf \in PieceTexts
            BY <1>1, <2>5, <4>1, PiecesAppend
          <5> HIDE DEF buf, x
          <5> QED
            BY ONLY <2>5, <4>1, <5>1, <5>2 DEF TurnWriters
        <4>2. CASE u.statusID # 0
          BY <2>7, <4>2 DEF withStatus
        <4> QED
          BY <4>1, <4>2
      <3>2. buf \in PieceTexts
        BY <1>1, <2>5, PiecesAppend, PiecesShort
      <3>3. (u.statusID = 0 /\ buf = Append(u.statusBuf, p)) \/ buf = <<p>>
        OBVIOUS
      <3> HIDE DEF buf, x
      <3>4. /\ x \in TurnWriters /\ x.statusID = 0 /\ x.statusBuf = buf
            /\ x.respID = u.respID /\ x.respSealed = u.respSealed /\ x.statusSealed = u.statusSealed
            /\ x.drafting = u.drafting
        BY ONLY <2>5, <3>1, <3>2 DEF TurnWriters
      <3>5. [x EXCEPT !.statusID = m, !.respSealed = sealed(x)] = v
        <4>1. sealed(x) = sealed(u) /\ sealed(u) \in BOOLEAN
          BY <2>5, <3>4 DEF sealed, TurnWriters
        <4>2. m \in Nat
          BY <2>3
        <4> QED
          BY ONLY <2>5, <3>1, <3>2, <4>1, <4>2 DEF TurnWriters
      <3>6. /\ v \in TurnWriters /\ v.statusID = m /\ v.respID = u.respID /\ v.respSealed = sealed(u)
            /\ v.statusSealed = u.statusSealed
        <4>1. sealed(u) \in BOOLEAN /\ m \in Nat
          BY <2>3, <2>5 DEF sealed, TurnWriters
        <4> QED
          BY ONLY <2>5, <3>2, <4>1 DEF TurnWriters
      <3>7. r = written(y, Append(e.ops, op), FALSE)
        BY <2>1, <3>4, <3>5
      <3>8. op \in Operations /\ op.op = "send" /\ op.id = m /\ op.kind = "status" /\ ~op.rich
        <4>1. m \in Nat \ {0} /\ "status" \in {"reply", "status"}
          BY <2>3
        <4> QED
          BY ONLY <3>2, <4>1, OpsAre
      <3>9. /\ items(scr, Append(o, op)) = Append(q, itemOf(op))
            /\ Based(scr, Append(o, op), m + 1, f, t, G)
            /\ Writes(items(scr, Append(o, op)), v, m + 1, f, t, G)
            /\ f # 0 => Writes(items(scr, Append(o, op)), x, m + 1, f, t, G)
        <4>1. Writes(items(scr, o), u, m, f, s, H) /\ op = send(m, "status", buf)
              /\ v = sentAs(u, buf, m) /\ x = unsent(u, buf)
          BY <2>4, <3>1 DEF q, sentAs, unsent
        <4>2. Based(scr, o, m, f, s, H) /\ ~u.drafting /\ ~u.statusSealed
          BY <2>2, <2>4
        <4> HIDE DEF op, v
        <4>3. /\ items(scr, Append(o, op)) = Append(items(scr, o), itemOf(op))
              /\ Based(scr, Append(o, op), m + 1, f, t, G)
              /\ Writes(items(scr, Append(o, op)), v, m + 1, f, t, G)
              /\ f # 0 => Writes(items(scr, Append(o, op)), x, m + 1, f, t, G)
          BY ONLY <3>3, <4>1, <4>2, Fresh(p, s, H, t, G), StatusSent
        <4> QED
          BY <4>3 DEF q
      <3> HIDE DEF op, v
      <3>10. Marked(w, n, <<op>>)
        <4>1. DOMAIN <<op>> = {1} /\ <<op>>[1] = op
          OBVIOUS
        <4> QED
          BY <2>3, <3>8, <4>1 DEF Marked
      <3>11. y \in TurnWriters /\ LeavesOpen(w, n, y) /\ Writes(items(scr, Append(o, op)), y, m + 1, f, t, G)
        <4>1. CASE bad = "status"
          <5>1. y = x /\ LeavesOpen(w, n, x)
            BY <2>2, <2>4, <3>4, <4>1 DEF LeavesOpen
          <5> QED
            BY <3>4, <3>9, <4>1, <5>1
        <4>2. CASE bad # "status"
          <5>1. y = v
            BY <4>2
          <5>2. ~v.respSealed => ~u.respSealed
            BY <3>6 DEF sealed
          <5>3. LeavesOpen(w, n, v)
            BY <2>2, <2>3, <2>4, <3>6, <5>2 DEF LeavesOpen
          <5> QED
            BY <3>6, <3>9, <5>1, <5>3
        <4> QED
          BY <4>1, <4>2
      <3> HIDE DEF y
      <3>12. Done(scr, ops, w, n, f, r, t, G)
        <4>1. Counts(m + 1, n, e, op)
          BY <2>3, <3>8 DEF m, Counts
        <4>2. Passes(e, op, FALSE, y) /\ FALSE \in BOOLEAN
          BY <1>2, <1>4 DEF drafted, Passes
        <4>3. Append(o, op) = Append(ops \o e.ops, op) /\ q = items(scr, ops \o e.ops)
          BY DEF o, q
        <4> QED
          BY ONLY <1>1, <1>2, <3>7, <3>8, <3>9, <3>10, <3>11, <4>1, <4>2, <4>3, DoneMore
      <3> QED
        BY <3>7, <3>12 DEF written
    <2> QED
      BY <2>6, <2>7
  <1> QED
    BY <1>3, <1>4

(* What a write does to a reply, step by step: it is begun, a full one is  *)
(* flushed, and it goes on.                                                *)
begins(w) == sealsStatus(freshReply(w))
flushes(b, n, ok) == IF full(b) THEN flushDraft(b, n, ok) ELSE written(b, <<>>, FALSE)
goesOn(b, e, p) ==
  IF full(b) THEN [e.w EXCEPT !.respBuf = <<p>>, !.respID = 0] ELSE [b EXCEPT !.respBuf = Append(@, p)]
undrafted(r, draft) == IF refuses(r, draft) THEN [r EXCEPT !.drafts = FALSE, !.drafting = FALSE] ELSE r

LEMMA DoneAlso ==
  ASSUME NEW scr, NEW ops, NEW w, NEW n, NEW f, NEW e, NEW s, NEW H,
         Done(scr, ops, w, n, f, e, s, H), ~e.err,
         NEW t \in Nat, NEW G, s <= t, H \subseteq G,
         NEW v \in TurnWriters, Writes(items(scr, ops \o e.ops), v, n + sends(e.ops), f, t, G), LeavesOpen(w, n, v),
         drafted(e.w) \subseteq drafted(v),
         NEW r, r = written(v, e.ops, FALSE)
  PROVE  Done(scr, ops, w, n, f, r, t, G)
  <1>1. r.w = v /\ r.ops = e.ops /\ r.err = FALSE
    BY DEF written
  <1>2. Based(scr, ops \o e.ops, n + sends(e.ops), f, s, H) /\ f \in Nat
    BY BasedSays DEF Done
  <1>3. Based(scr, ops \o e.ops, n + sends(e.ops), f, t, G)
    BY <1>2, BasedStill
  <1>4. /\ e.ops \in Seq(Operations) /\ Marked(w, n, e.ops)
        /\ repliesIn(items(scr, ops)) \cup drafted(w) \subseteq repliesIn(items(scr, ops \o e.ops)) \cup drafted(e.w)
    BY DEF Done
  <1>5. repliesIn(items(scr, ops)) \cup drafted(w) \subseteq repliesIn(items(scr, ops \o e.ops)) \cup drafted(v)
    BY ONLY <1>4, drafted(e.w) \subseteq drafted(v)
  <1> QED
    BY <1>1, <1>3, <1>4, <1>5 DEF Done

LEMMA FlushesDone ==
  ASSUME NEW scr, NEW ops, NEW n, NEW f, NEW s, NEW H, Based(scr, ops, n, f, s, H),
         NEW w, Writes(items(scr, ops), w, n, f, s, H),
         NEW b, b = begins(w), NEW ok \in BOOLEAN, NEW e, e = flushes(b, n, ok)
  PROVE  /\ Done(scr, ops, w, n, f, e, s, H)
         /\ n + Len(e.ops) = n + sends(e.ops)
         /\ ok => ~e.err
         /\ ~e.err => /\ ~e.w.respSealed /\ (e.w.statusSealed \/ e.w.statusID = 0)
                      /\ IF full(b) THEN ~e.w.drafting ELSE e.w = b
         /\ b.respID = 0 \/ (b.respID = w.respID /\ ~w.respSealed)
  <1> DEFINE q == items(scr, ops)
  <1>1. /\ n \in Nat \ {0} /\ f \in Nat /\ s \in Nat /\ Line(q, n, f, s, H)
        /\ scr \in Seq(Messages) /\ ops \in Seq(Operations)
    BY BasedSays DEF Based
  <1> HIDE DEF q
  <1>2. Writes(q, w, n, f, s, H) /\ b = sealsStatus(freshReply(w)) /\ n \in Nat \ {0} /\ s \in Nat
    BY <1>1 DEF q, begins
  <1>3. /\ Writes(q, b, n, f, s, H) /\ ~b.respSealed /\ (b.statusSealed \/ b.statusID = 0)
        /\ (b.drafting <=> w.drafting) /\ (w.drafting => b.respBuf = w.respBuf)
        /\ b.respID = 0 \/ (b.respID = w.respID /\ ~w.respSealed)
        /\ b.statusID = w.statusID /\ (~b.statusSealed => ~w.statusSealed)
    <2>1. Writes(q, b, n, f, s, H) /\ Begun(w, b)
      BY ONLY <1>1, <1>2, ReplyBegun
    <2> QED
      BY <2>1 DEF Begun
  <1>4. drafted(b) = drafted(w)
    BY <1>3 DEF drafted
  <1>5. b \in TurnWriters
    BY <1>3 DEF Writes
  <1>6. CASE full(b)
    <2>1. e = flushDraft(b, n, ok)
      BY <1>6 DEF flushes
    <2>2. /\ Done(scr, ops, b, n, f, e, s, H)
          /\ n + Len(e.ops) = n + sends(e.ops)
          /\ ok => ~e.err
      BY ONLY <2>1, Based(scr, ops, n, f, s, H), <1>3, ok \in BOOLEAN, FlushDone DEF q
    <2>3. ~e.err => /\ ~e.w.drafting /\ e.w.statusID = b.statusID
                    /\ (e.w.statusSealed <=> b.statusSealed) /\ (e.w.respSealed <=> b.respSealed)
                    /\ (e.w.respID = b.respID \/ e.w.respID = n)
      BY ONLY <1>1, <1>5, <2>1 DEF flushDraft, written, TurnWriters
    <2>4. ~e.err => LeavesOpen(w, n, e.w)
      BY <1>1, <1>3, <2>3 DEF LeavesOpen
    <2>5. Marked(w, n, e.ops)
      <3>1. Marked(b, n, e.ops)
        BY <2>2 DEF Done
      <3> QED
        BY <1>3, <3>1 DEF Marked
    <2>6. Done(scr, ops, w, n, f, e, s, H)
      BY <1>4, <2>2, <2>4, <2>5 DEF Done
    <2> QED
      BY <1>3, <1>6, <2>2, <2>3, <2>6
  <1>7. CASE ~full(b)
    <2>1. e = written(b, <<>>, FALSE)
      BY <1>7 DEF flushes
    <2>2. e.w = b /\ e.ops = <<>> /\ e.err = FALSE
      BY <2>1 DEF written
    <2>3. sends(e.ops) = 0 /\ Len(e.ops) = 0 /\ ops \o e.ops = ops /\ e.ops \in Seq(Operations)
      BY <1>1, <2>2, SendsNone
    <2>4. n + sends(e.ops) = n
      BY <1>1, <2>3
    <2>5. LeavesOpen(w, n, b)
      BY <1>3 DEF LeavesOpen
    <2>6. Marked(w, n, e.ops)
      BY <2>2 DEF Marked
    <2>7. Done(scr, ops, w, n, f, e, s, H)
      BY <1>3, <1>4, <1>5, <2>2, <2>3, <2>4, <2>5, <2>6 DEF Done, q
    <2> QED
      BY <1>3, <1>7, <2>2, <2>3, <2>7
  <1> QED
    BY <1>6, <1>7

(* The writer v has the reply open that w has, or none. *)
Continues(w, v) == v.respID = 0 \/ (v.respID = w.respID /\ ~w.respSealed)

Carries(w, p, v) == drafted(w) \cup ({p} \ {0}) \subseteq piecesOf(v.respBuf)

LEMMA GoesOn ==
  ASSUME NEW q, NEW n, NEW m, NEW f, NEW s, NEW H, Line(q, m, f, s, H), n \in Nat \ {0}, m \in Nat \ {0}, n <= m,
         s \in Nat, NEW w, NEW b, NEW e, Writes(q, e.w, m, f, s, H), LeavesOpen(w, n, e.w),
         ~e.w.respSealed, e.w.statusSealed \/ e.w.statusID = 0,
         full(b) => ~e.w.drafting, ~full(b) => e.w = b, Continues(w, b),
         NEW p, NEW t, NEW G, Fresh(p, s, H, t, G), p \in G \cup {0},
         NEW r, r = goesOn(b, e, p)
  PROVE  /\ Ready(q, r, m, f, t, G) /\ LeavesOpen(w, n, r)
         /\ Carries(e.w, p, r)
         /\ Continues(w, r)
  <1> DEFINE d == e.w
  <1>1. d \in TurnWriters /\ d.respBuf \in PieceTexts
    BY DEF Writes, TurnWriters
  <1>2. p \in Nat
    BY DEF Fresh
  <1>3. CASE full(b)
    <2>1. r = [d EXCEPT !.respBuf = <<p>>, !.respID = 0]
      BY <1>3 DEF goesOn
    <2>2. Writes(q, d, m, f, s, H) /\ ~d.respSealed /\ (d.statusSealed \/ d.statusID = 0) /\ ~d.drafting
      BY <1>3
    <2> HIDE DEF d
    <2>3. Ready(q, r, m, f, t, G)
      BY ONLY <2>1, <2>2, Line(q, m, f, s, H), m \in Nat \ {0}, Fresh(p, s, H, t, G), p \in G \cup {0}, ReplyRolled
    <2>4. <<p>> \in PieceTexts /\ piecesOf(<<p>>) = {p} \ {0}
      BY <1>2, PiecesShort
    <2>5. /\ r.respBuf = <<p>> /\ r.respID = 0 /\ r.statusID = d.statusID
          /\ (r.statusSealed <=> d.statusSealed)
      BY ONLY <1>1, <2>1, <2>4 DEF TurnWriters
    <2>6. LeavesOpen(w, n, r)
      BY <2>5 DEF LeavesOpen, d
    <2>7. drafted(d) = {}
      BY <2>2 DEF drafted
    <2> QED
      BY <2>3, <2>4, <2>5, <2>6, <2>7 DEF d, Continues, Carries
  <1>4. CASE ~full(b)
    <2>1. d = b /\ r = [d EXCEPT !.respBuf = Append(@, p)]
      BY <1>4 DEF goesOn
    <2>2. Writes(q, d, m, f, s, H) /\ ~d.respSealed /\ (d.statusSealed \/ d.statusID = 0)
      OBVIOUS
    <2> HIDE DEF d
    <2>3. Ready(q, r, m, f, t, G)
      BY ONLY <2>1, <2>2, Line(q, m, f, s, H), m \in Nat \ {0}, Fresh(p, s, H, t, G), p \in G \cup {0}, ReplyGrown
    <2>4. Append(d.respBuf, p) \in PieceTexts /\ piecesOf(Append(d.respBuf, p)) = piecesOf(d.respBuf) \cup ({p} \ {0})
      BY <1>1, <1>2, PiecesAppend
    <2>5. /\ r.respBuf = Append(d.respBuf, p) /\ r.respID = d.respID /\ r.statusID = d.statusID
          /\ (r.statusSealed <=> d.statusSealed)
      BY ONLY <1>1, <2>1, <2>4 DEF TurnWriters
    <2>6. Continues(w, r)
      BY <2>1, <2>5 DEF Continues
    <2>7. LeavesOpen(w, n, r)
      BY <2>5, <2>6 DEF LeavesOpen, Continues, d
    <2>8. drafted(d) \subseteq piecesOf(d.respBuf)
      BY DEF drafted
    <2> QED
      BY <2>3, <2>4, <2>5, <2>6, <2>7, <2>8 DEF d, Carries
  <1> QED
    BY <1>3, <1>4

LEMMA WriteResponseDone ==
  ASSUME NEW scr, NEW ops, NEW n, NEW f, NEW s, NEW H, Based(scr, ops, n, f, s, H),
         NEW w, Writes(items(scr, ops), w, n, f, s, H),
         NEW p, NEW t, NEW G, Fresh(p, s, H, t, G), p \in G \cup {0},
         NEW bad \in {"none", "reply"}, NEW draft \in BOOLEAN,
         NEW r, r = writeResponse(w, n, p, bad, draft)
  PROVE  /\ Done(scr, ops, w, n, f, r, t, G) /\ (r.err => bad = "reply")
         /\ ~r.err => {p} \ {0} \subseteq repliesIn(items(scr, ops \o r.ops)) \cup drafted(r.w)
  <1> DEFINE ok == bad # "reply"
             b == begins(w)
             e == flushes(b, n, ok)
             o == ops \o e.ops
             m == n + sends(e.ops)
             q == items(scr, o)
             v == goesOn(b, e, p)
             z == undrafted(v, draft)
  <1>1. /\ n \in Nat \ {0} /\ f \in Nat /\ s \in Nat /\ t \in Nat /\ s <= t /\ H \subseteq G /\ p \in Nat
        /\ ops \in Seq(Operations)
    BY BasedSays DEF Fresh
  <1>2. /\ Done(scr, ops, w, n, f, e, s, H) /\ n + Len(e.ops) = m
        /\ ok => ~e.err
        /\ ~e.err => /\ ~e.w.respSealed /\ (e.w.statusSealed \/ e.w.statusID = 0)
                     /\ IF full(b) THEN ~e.w.drafting ELSE e.w = b
        /\ b.respID = 0 \/ (b.respID = w.respID /\ ~w.respSealed)
    <2>1. ok \in BOOLEAN /\ b = begins(w) /\ e = flushes(b, n, ok)
      OBVIOUS
    <2> HIDE DEF ok, b, e
    <2>2. /\ Done(scr, ops, w, n, f, e, s, H)
          /\ n + Len(e.ops) = n + sends(e.ops)
          /\ ok => ~e.err
          /\ ~e.err => /\ ~e.w.respSealed /\ (e.w.statusSealed \/ e.w.statusID = 0)
                       /\ IF full(b) THEN ~e.w.drafting ELSE e.w = b
          /\ b.respID = 0 \/ (b.respID = w.respID /\ ~w.respSealed)
      BY ONLY <2>1, Based(scr, ops, n, f, s, H), Writes(items(scr, ops), w, n, f, s, H), FlushesDone
    <2> QED
      BY <2>2
  <1>3. r = IF e.err THEN e
            ELSE IF blank(v.respBuf) THEN written(v, e.ops, FALSE)
            ELSE IF shows(v, draft) THEN written([v EXCEPT !.drafting = TRUE], e.ops, FALSE)
            ELSE IF v.respID # 0 THEN written(v, Append(e.ops, edit(v.respID, "reply", v.respBuf)), FALSE)
            ELSE written([z EXCEPT !.respID = IF bad = "reply" THEN 0 ELSE m],
                         Append(e.ops, send(m, "reply", z.respBuf)), bad = "reply")
    <2>1. n + Len(e.ops) = m
      BY <1>2
    <2>2. r = CASE e.err -> e
                [] ~e.err /\ blank(v.respBuf) -> written(v, e.ops, FALSE)
                [] ~e.err /\ ~blank(v.respBuf) /\ shows(v, draft) -> written([v EXCEPT !.drafting = TRUE], e.ops, FALSE)
                [] ~e.err /\ ~blank(v.respBuf) /\ v.respID # 0 ->
                      written(v, Append(e.ops, edit(v.respID, "reply", v.respBuf)), FALSE)
                [] OTHER -> written([z EXCEPT !.respID = IF bad = "reply" THEN 0 ELSE n + Len(e.ops)],
                                    Append(e.ops, send(n + Len(e.ops), "reply", z.respBuf)), bad = "reply")
      BY DEF writeResponse, begins, flushes, goesOn, undrafted
    <2> HIDE DEF b, e, v, z, m, ok, o, q
    <2>3. CASE e.err
      BY ONLY <2>2, <2>3
    <2>4. CASE ~e.err /\ blank(v.respBuf)
      BY ONLY <2>2, <2>4
    <2>5. CASE ~e.err /\ ~blank(v.respBuf) /\ shows(v, draft)
      BY ONLY <2>2, <2>5 DEF shows
    <2>6. CASE ~e.err /\ ~blank(v.respBuf) /\ ~shows(v, draft) /\ v.respID # 0
      BY ONLY <2>2, <2>6
    <2>7. CASE ~e.err /\ ~blank(v.respBuf) /\ ~shows(v, draft) /\ v.respID = 0
      BY ONLY <2>1, <2>2, <2>7
    <2> QED
      BY <2>3, <2>4, <2>5, <2>6, <2>7
  <1> HIDE DEF e, b, z
  <1>4. CASE e.err
    <2>1. r = e
      BY <1>3, <1>4
    <2> QED
      BY <1>1, <1>2, <1>4, <2>1, FailedDone
  <1>5. CASE ~e.err
    <2> HIDE DEF o, m, q, v
    <2>2. /\ Based(scr, o, m, f, s, H) /\ Writes(q, e.w, m, f, s, H) /\ LeavesOpen(w, n, e.w)
          /\ e.ops \in Seq(Operations)
      BY <1>2, <1>5 DEF Done, o, m, q
    <2>3. /\ m \in Nat \ {0} /\ n <= m /\ Line(q, m, f, s, H)
      <3>1. sends(e.ops) \in Nat
        <4>1. send(n, "status", <<>>) \in Operations
          <5>1. <<>> \in PieceTexts /\ "status" \in {"reply", "status"}
            BY DEF PieceTexts
          <5> QED
            BY <1>1, <5>1, OpsAre
        <4> QED
          BY <2>2, <4>1, SendsAppend
      <3> QED
        BY <1>1, <2>2, <3>1 DEF Based, m, q
    <2>4. /\ Ready(q, v, m, f, t, G) /\ LeavesOpen(w, n, v)
          /\ drafted(e.w) \cup ({p} \ {0}) \subseteq piecesOf(v.respBuf)
          /\ v.respID = 0 \/ (v.respID = w.respID /\ ~w.respSealed)
      <3>1. /\ ~e.w.respSealed /\ (e.w.statusSealed \/ e.w.statusID = 0)
            /\ (full(b) => ~e.w.drafting) /\ (~full(b) => e.w = b)
            /\ Continues(w, b) /\ v = goesOn(b, e, p)
        BY <1>2, <1>5 DEF v, Continues
      <3>2. Ready(q, v, m, f, t, G) /\ LeavesOpen(w, n, v)
        BY ONLY <1>1, <2>2, <2>3, <3>1, Fresh(p, s, H, t, G), p \in G \cup {0}, GoesOn
      <3>3. Carries(e.w, p, v)
        BY ONLY <1>1, <2>2, <2>3, <3>1, Fresh(p, s, H, t, G), p \in G \cup {0}, GoesOn
      <3>4. Continues(w, v)
        BY ONLY <1>1, <2>2, <2>3, <3>1, Fresh(p, s, H, t, G), p \in G \cup {0}, GoesOn
      <3> QED
        BY <3>2, <3>3, <3>4 DEF Continues, Carries
    <2>5. /\ v \in TurnWriters /\ v.respBuf \in PieceTexts /\ v.respID \in Nat /\ v.drafts \in BOOLEAN
          /\ v.drafting \in BOOLEAN /\ (v.drafting => v.drafts /\ v.respID = 0) /\ ~v.respSealed
      BY <2>4 DEF Ready, TurnWriters
    <2>6. Based(scr, o, m, f, t, G)
      BY <1>1, <2>2, BasedStill
    <2>7. CASE blank(v.respBuf)
      <3>1. r = written(v, e.ops, FALSE)
        BY <1>3, <1>5, <2>7
      <3>2. Writes(items(scr, ops \o e.ops), v, n + sends(e.ops), f, t, G)
        <4>1. Writes(q, v, m, f, t, G)
          BY <2>4, <2>5, <2>7 DEF Ready, Writes
        <4> QED
          BY <4>1 DEF q, o, m
      <3>3. drafted(e.w) \subseteq drafted(v) /\ {p} \ {0} = {}
        BY <2>4, <2>7 DEF blank
      <3>4. Done(scr, ops, w, n, f, r, t, G)
        BY ONLY <1>1, <1>2, <1>5, <2>4, <2>5, <3>1, <3>2, <3>3, DoneAlso
      <3> QED
        BY <3>1, <3>3, <3>4 DEF written
    <2>8. CASE ~blank(v.respBuf) /\ shows(v, draft)
      <3> DEFINE x == [v EXCEPT !.drafting = TRUE]
      <3>1. r = written(x, e.ops, FALSE)
        BY <1>3, <1>5, <2>8
      <3>2. v.drafts /\ v.respID = 0
        BY <2>8 DEF shows
      <3>3. /\ x \in TurnWriters /\ x.drafting /\ x.respBuf = v.respBuf /\ x.respID = v.respID
            /\ (x.respSealed <=> v.respSealed) /\ x.statusID = v.statusID /\ x.statusBuf = v.statusBuf
            /\ (x.statusSealed <=> v.statusSealed) /\ (x.drafts <=> v.drafts)
        BY ONLY <2>5 DEF TurnWriters
      <3> HIDE DEF x
      <3>4. openReply(x, m) = openReply(v, m) /\ openStatus(x, m) = openStatus(v, m)
        BY <3>3 DEF openReply, openStatus
      <3>5. Writes(items(scr, ops \o e.ops), x, n + sends(e.ops), f, t, G)
        <4>1. Writes(q, x, m, f, t, G)
          BY <2>4, <2>5, <3>2, <3>3, <3>4 DEF Ready, Writes
        <4> QED
          BY <4>1 DEF q, o, m
      <3>6. drafted(x) = piecesOf(v.respBuf)
        BY <3>3 DEF drafted
      <3>7. drafted(e.w) \subseteq drafted(x) /\ {p} \ {0} \subseteq drafted(x)
        BY <2>4, <3>6
      <3>8. LeavesOpen(w, n, x)
        BY <2>4, <3>3 DEF LeavesOpen
      <3>9. Done(scr, ops, w, n, f, r, t, G)
        BY ONLY <1>1, <1>2, <1>5, <3>1, <3>3, <3>5, <3>7, <3>8, DoneAlso
      <3> QED
        BY <3>1, <3>7, <3>9 DEF written
    <2>9. CASE ~blank(v.respBuf) /\ ~shows(v, draft) /\ v.respID # 0
      <3> DEFINE op == edit(v.respID, "reply", v.respBuf)
      <3>1. r = written(v, Append(e.ops, op), FALSE)
        BY <1>3, <1>5, <2>9
      <3>2. op \in Operations /\ op.op = "edit" /\ op.id = v.respID /\ op.kind = "reply" /\ op.text = v.respBuf
        <4>1. v.respID \in Nat \ {0} /\ "reply" \in {"reply", "status"} /\ v.respBuf \in PieceTexts
          BY <2>5, <2>9
        <4>2. op.text = v.respBuf
          BY DEF edit
        <4> HIDE DEF op
        <4>3. op = edit(v.respID, "reply", v.respBuf)
          BY DEF op
        <4> QED
          BY ONLY <4>1, <4>2, <4>3, OpsAre
      <3>3. items(scr, Append(o, op)) = Append(items(scr, o), itemOf(op))
        BY ONLY <2>2, <3>2, ItemsAppend DEF Based
      <3>4. op = edit(v.respID, "reply", v.respBuf) /\ Ready(items(scr, o), v, m, f, t, G) /\ v.respID # 0
        BY <2>4, <2>9 DEF q
      <3> HIDE DEF op
      <3>5. Based(scr, Append(o, op), m, f, t, G) /\ Writes(items(scr, Append(o, op)), v, m, f, t, G)
        BY ONLY <2>6, <3>4, ReplyEdited
      <3>6. Marked(w, n, <<op>>)
        <4>1. DOMAIN <<op>> = {1} /\ <<op>>[1] = op
          OBVIOUS
        <4> QED
          BY <2>4, <2>9, <3>2, <4>1 DEF Marked
      <3>7. Counts(m, n, e, op)
        BY <2>3, <3>2 DEF m, Counts
      <3>8. Passes(e, op, FALSE, v) /\ FALSE \in BOOLEAN
        BY <2>4, <3>2 DEF Passes
      <3>9. /\ Done(scr, ops, w, n, f, r, t, G)
            /\ Adds(scr, ops \o e.ops, ops \o r.ops, op)
        <4>1. /\ Append(o, op) = Append(ops \o e.ops, op)
              /\ items(scr, Append(o, op)) = Append(items(scr, ops \o e.ops), itemOf(op))
          BY <3>3 DEF o
        <4> QED
          BY ONLY <1>1, <1>2, <1>5, <2>4, <2>5, <3>1, <3>2, <3>5, <3>6, <3>7, <3>8, <4>1, DoneMore
      <3> QED
        BY <2>4, <3>1, <3>2, <3>9 DEF written, Adds
    <2>10. CASE ~blank(v.respBuf) /\ ~shows(v, draft) /\ v.respID = 0
      <3> DEFINE op == send(m, "reply", z.respBuf)
                 x == [z EXCEPT !.respID = m]
                 y == [z EXCEPT !.respID = IF bad = "reply" THEN 0 ELSE m]
                 err == bad = "reply"
      <3>1. r = written(y, Append(e.ops, op), err)
        BY <1>3, <1>5, <2>10
      <3>2. /\ z \in TurnWriters /\ ~z.drafting /\ z.respBuf = v.respBuf /\ (z.respSealed <=> v.respSealed)
            /\ z.statusID = v.statusID /\ z.statusBuf = v.statusBuf /\ (z.statusSealed <=> v.statusSealed)
        <4>1. CASE refuses(v, draft)
          <5>1. z = [v EXCEPT !.drafts = FALSE, !.drafting = FALSE]
            BY <4>1 DEF z, undrafted
          <5> QED
            BY ONLY <2>5, <5>1 DEF TurnWriters
        <4>2. CASE ~refuses(v, draft)
          <5>1. z = v
            BY <4>2 DEF z, undrafted
          <5>2. ~v.drafting
            BY <2>5, <2>10, <4>2 DEF refuses, shows
          <5> QED
            BY <2>5, <5>1, <5>2
        <4> QED
          BY <4>1, <4>2
      <3>3. /\ x \in TurnWriters /\ x.respID = m /\ ~x.drafting /\ x.respBuf = v.respBuf /\ ~x.respSealed
            /\ x.statusID = v.statusID /\ x.statusBuf = v.statusBuf /\ (x.statusSealed <=> v.statusSealed)
            /\ y \in TurnWriters /\ (~err => y = x)
        <4>1. m \in Nat /\ 0 \in Nat
          BY <2>3
        <4>2. ~z.respSealed
          BY <2>5, <3>2
        <4> QED
          BY ONLY <3>2, <4>1, <4>2 DEF TurnWriters
      <3>4. op \in Operations /\ op.op = "send" /\ op.id = m /\ op.kind = "reply" /\ op.rich /\ op.text = v.respBuf
        <4>1. m \in Nat \ {0} /\ "reply" \in {"reply", "status"} /\ z.respBuf \in PieceTexts
          BY <2>3, <2>5, <3>2
        <4>2. op.text = v.respBuf
          BY <3>2 DEF send
        <4> HIDE DEF op
        <4>3. op = send(m, "reply", z.respBuf)
          BY DEF op
        <4> QED
          BY ONLY <4>1, <4>2, <4>3, OpsAre
      <3>5. items(scr, Append(o, op)) = Append(items(scr, o), itemOf(op))
        BY ONLY <2>2, <3>4, ItemsAppend DEF Based
      <3>6. op = send(m, "reply", v.respBuf) /\ Ready(items(scr, o), v, m, f, t, G) /\ v.respID = 0
        BY <2>4, <2>10, <3>2 DEF q
      <3> HIDE DEF op, x, y, err
      <3>7. /\ Based(scr, Append(o, op), m + 1, f, t, G)
            /\ Writes(items(scr, Append(o, op)), x, m + 1, f, t, G)
        <4>1. x.statusSealed = v.statusSealed
          BY <2>5, <3>3 DEF TurnWriters
        <4> QED
          BY ONLY <2>6, <3>3, <3>6, <4>1, ReplySent
      <3>8. Marked(w, n, <<op>>)
        <4>1. DOMAIN <<op>> = {1} /\ <<op>>[1] = op
          OBVIOUS
        <4> QED
          BY <2>3, <3>4, <4>1 DEF Marked
      <3>9. Counts(m + 1, n, e, op)
        BY <2>3, <3>4 DEF m, Counts
      <3>10. Passes(e, op, err, y) /\ err \in BOOLEAN
        BY <2>4, <3>4 DEF err, Passes
      <3>11. ~err => Writes(items(scr, Append(o, op)), y, m + 1, f, t, G) /\ LeavesOpen(w, n, y)
        <4>1. LeavesOpen(w, n, x)
          BY <2>3, <2>4, <3>3 DEF LeavesOpen
        <4> QED
          BY <3>3, <3>7, <4>1
      <3>12. /\ Done(scr, ops, w, n, f, r, t, G)
             /\ Adds(scr, ops \o e.ops, ops \o r.ops, op)
        <4>1. /\ Append(o, op) = Append(ops \o e.ops, op)
              /\ items(scr, Append(o, op)) = Append(items(scr, ops \o e.ops), itemOf(op))
          BY <3>5 DEF o
        <4> QED
          BY ONLY <1>1, <1>2, <1>5, <3>1, <3>3, <3>4, <3>7, <3>8, <3>9, <3>10, <3>11, <4>1, DoneMore
      <3>13. r.err = err /\ {p} \ {0} \subseteq repliesIn(items(scr, ops \o r.ops))
        BY <2>4, <3>1, <3>4, <3>12 DEF written, Adds
      <3> QED
        BY <3>12, <3>13 DEF err
    <2> QED
      BY <2>7, <2>8, <2>9, <2>10
  <1> QED
    BY <1>4, <1>5

-----------------------------------------------------------------------------
(* The steps of the turn.                                                  *)

LEMMA WritesStill ==
  ASSUME NEW scr, NEW ops, NEW n, NEW f, NEW s, NEW H, Based(scr, ops, n, f, s, H),
         NEW w, Writes(items(scr, ops), w, n, f, s, H),
         NEW g \in Nat, f # 0 => g # 0, NEW t \in Nat, NEW G, s <= t, H \subseteq G
  PROVE  Writes(items(scr, ops), w, n, g, t, G)
  <1> DEFINE q == items(scr, ops)
  <1>1. /\ n \in Nat \ {0} /\ s \in Nat /\ Line(q, n, f, s, H) /\ w \in TurnWriters
    BY DEF Based, Writes
  <1>2. openReply(w, n) \in Items /\ openStatus(w, n) \in Items
    BY <1>1, OpenAre
  <1> HIDE DEF q
  <1>3. ASSUME NEW x \in Items, Tops(q, f, s, H, x) PROVE Tops(q, g, t, G, x)
    <2>1. x.text \in PieceTexts /\ Holds(x, s, H) /\ \A k \in DOMAIN q : Before(f, q[k], x)
      BY <1>3 DEF Items, Tops
    <2>2. Holds(x, t, G)
      BY <1>1, <2>1, HoldsStill
    <2>3. \A k \in DOMAIN q : Before(g, q[k], x)
      BY <2>1, BeforeStill
    <2> QED
      BY <2>2, <2>3 DEF Tops
  <1>4. /\ Tops(q, f, s, H, openReply(w, n)) => Tops(q, g, t, G, openReply(w, n))
        /\ Tops(q, f, s, H, openStatus(w, n)) => Tops(q, g, t, G, openStatus(w, n))
    BY <1>2, <1>3
  <1> QED
    BY <1>4 DEF Writes, q

LEMMA NothingDone ==
  ASSUME NEW scr, NEW ops, NEW n, NEW f, NEW s, NEW H, Based(scr, ops, n, f, s, H),
         NEW w, Writes(items(scr, ops), w, n, f, s, H)
  PROVE  Done(scr, ops, w, n, f, written(w, <<>>, FALSE), s, H)
  <1> DEFINE r == written(w, <<>>, FALSE)
  <1>1. r.w = w /\ r.ops = <<>> /\ r.err = FALSE
    BY DEF written
  <1> HIDE DEF r
  <1>2. n \in Nat \ {0} /\ ops \in Seq(Operations)
    BY DEF Based
  <1>3. sends(r.ops) = 0 /\ ops \o r.ops = ops /\ r.ops \in Seq(Operations)
    BY <1>1, <1>2, SendsNone
  <1>4. n + sends(r.ops) = n /\ LeavesOpen(w, n, w) /\ Marked(w, n, r.ops) /\ w \in TurnWriters
    BY <1>1, <1>2, <1>3 DEF LeavesOpen, Marked, Writes
  <1> QED
    BY <1>1, <1>3, <1>4 DEF Done, r

LEMMA ConcatOf ==
  ASSUME NEW o \in Seq(Operations), NEW e \in Seq(Operations)
  PROVE  \A i \in DOMAIN (o \o e) : \/ i \in DOMAIN o /\ (o \o e)[i] = o[i]
                                   \/ \E j \in DOMAIN e : (o \o e)[i] = e[j]
  <1> DEFINE c == o \o e
  <1>1. /\ c \in Seq(Operations) /\ Len(c) = Len(o) + Len(e) /\ Len(o) \in Nat /\ Len(e) \in Nat
        /\ \A i \in 1 .. Len(o) : c[i] = o[i]
        /\ \A i \in 1 .. Len(e) : c[Len(o) + i] = e[i]
        /\ DOMAIN c = 1 .. Len(o) + Len(e) /\ DOMAIN o = 1 .. Len(o) /\ DOMAIN e = 1 .. Len(e)
    BY ConcatIs
  <1> HIDE DEF c
  <1>2. ASSUME NEW i \in DOMAIN c
        PROVE  \/ i \in DOMAIN o /\ c[i] = o[i]
               \/ \E j \in DOMAIN e : c[i] = e[j]
    <2>1. i \in 1 .. Len(o) + Len(e)
      BY <1>1
    <2>2. CASE i \in 1 .. Len(o)
      BY <1>1, <2>2
    <2>3. CASE i - Len(o) \in 1 .. Len(e)
      <3>1. c[Len(o) + (i - Len(o))] = e[i - Len(o)] /\ Len(o) + (i - Len(o)) = i /\ i - Len(o) \in DOMAIN e
        BY <1>1, <2>1, <2>3
      <3> QED
        BY <3>1
    <2> QED
      BY <1>1, <2>1, <2>2, <2>3
  <1> QED
    BY <1>2 DEF c

LEMMA TurnStep ==
  ASSUME StreamInv, outcome = "running", transportKept,
         NEW out, NEW how \in {"running", "done"}, applies(out, how),
         faults' \in Nat, faults # 0 => faults' # 0,
         said' \in Seq({"reply", "status"}), unseen' \subseteq DOMAIN said',
         Done(screen, outgoing, tw, nextID, faults', out, Len(said'), saidPieces'),
         how = "done" => out.err \/ drafted(out.w) = {},
         saidPieces' \subseteq saidPieces \cup
            (IF out.err THEN {Len(said')} ELSE repliesIn(items(screen, outgoing')) \cup drafted(out.w)),
         cli' \in {"none", "start", "between", "message", "opened", "text", "thinking", "tool", "over"},
         breaks' \in Nat, {streaming', hadText', stopped'} \subseteq BOOLEAN, Streams'
  PROVE  StreamInv'
  <1>1. /\ tw' = out.w /\ outgoing' = outgoing \o out.ops /\ nextID' = nextID + sends(out.ops)
        /\ outcome' = IF out.err THEN "failed" ELSE how
    BY DEF applies
  <1>2. UNCHANGED <<inbound, chatID, saved, richOrder, screen, givenUp, repeated, rebuilds>>
    BY DEF transportKept
  <1>3. /\ out.ops \in Seq(Operations) /\ out.w \in TurnWriters /\ out.err \in BOOLEAN
        /\ Based(screen, outgoing', nextID', faults', Len(said'), saidPieces')
        /\ ~out.err => Writes(items(screen, outgoing'), tw', nextID', faults', Len(said'), saidPieces')
                       /\ LeavesOpen(tw, nextID, tw')
        /\ Marked(tw, nextID, out.ops)
        /\ repliesIn(items(screen, outgoing)) \cup drafted(tw)
             \subseteq repliesIn(items(screen, outgoing')) \cup (IF out.err THEN {} ELSE drafted(tw'))
    BY <1>1 DEF Done
  <1>4. /\ outgoing' \in Seq(Operations) /\ screen' = screen /\ nextID' \in Nat \ {0}
        /\ now' = items(screen, outgoing')
        /\ Line(now', nextID', faults', Len(said'), saidPieces')
        /\ SendsAreNew(now', Len(screen'), outgoing')
    BY <1>2, <1>3 DEF Based, now
  <1>5. StreamTypeOK'
    <2>1. StreamTypeOK
      BY DEF StreamInv
    <2> QED
      BY <1>1, <1>2, <1>3, <1>4, <2>1 DEF StreamTypeOK, inbound
  <1>6. CopiesAreFaults'
    BY <1>2, <1>1 DEF StreamInv, CopiesAreFaults
  <1>7. (outcome = "running" => Writes(now, tw, nextID, faults, Len(said), saidPieces))'
    BY <1>1, <1>3, <1>4
  <1>8. Whole'
    <2>1. givenUp = {} => saidPieces \subseteq repliesIn(items(screen, outgoing)) \cup drafted(tw)
      BY DEF StreamInv, Whole, now
    <2>2. CASE out.err
      <3>1. outcome' = "failed"
        BY <1>1, <2>2
      <3>2. repliesIn(items(screen, outgoing)) \cup drafted(tw) \subseteq repliesIn(now')
        BY <1>3, <1>4, <2>2
      <3> QED
        BY <1>2, <2>1, <2>2, <3>1, <3>2 DEF Whole
    <2>3. CASE ~out.err
      <3>1. outcome' = how /\ tw' = out.w
        BY <1>1, <2>3
      <3>2. repliesIn(items(screen, outgoing)) \cup drafted(tw) \subseteq repliesIn(now') \cup drafted(tw')
        BY <1>3, <1>4, <2>3
      <3>3. givenUp' = {} => saidPieces' \subseteq repliesIn(now') \cup drafted(tw')
        BY <1>2, <1>4, <2>1, <2>3, <3>1, <3>2
      <3>4. CASE how = "running"
        <4>1. outcome' = "running" /\ (drafted(tw))' = drafted(tw')
          BY <3>1, <3>4 DEF drafted
        <4> QED
          BY ONLY <3>3, <4>1 DEF Whole
      <3>5. CASE how = "done"
        <4>1. outcome' = "done" /\ drafted(tw') = {}
          BY <2>3, <3>1, <3>5
        <4> QED
          BY ONLY <3>3, <4>1 DEF Whole
      <3> QED
        BY <3>4, <3>5
    <2> QED
      BY <1>3, <2>2, <2>3
  <1>9. Forms'
    <2>1. Forms /\ StreamTypeOK
      BY DEF StreamInv
    <2>2. /\ ToSet(richOrder) \subseteq Nat \ {0} /\ nextID \in Nat \ {0} /\ nextID <= nextID'
          /\ tw \in TurnWriters /\ tw.statusID \in Nat /\ tw.respID \in Nat
      <3>1. richOrder \in Seq(Nat \ {0}) /\ nextID \in Nat \ {0} /\ tw \in TurnWriters
        BY <2>1 DEF StreamTypeOK
      <3>2. sends(out.ops) \in Nat
        <4>1. send(1, "status", <<>>) \in Operations
          <5>1. <<>> \in PieceTexts /\ "status" \in {"reply", "status"} /\ 1 \in Nat \ {0}
            BY DEF PieceTexts
          <5> QED
            BY <5>1, OpsAre
        <4> QED
          BY <1>3, <4>1, SendsAppend
      <3>3. ToSet(richOrder) \subseteq Nat \ {0}
        BY <3>1 DEF ToSet
      <3> QED
        BY <1>1, <3>1, <3>2, <3>3 DEF TurnWriters
    <2>3. \A x \in ToSet(richOrder) : x < nextID
      BY <2>1 DEF Forms
    <2>4. \A i \in DOMAIN outgoing' : \/ i \in DOMAIN outgoing /\ outgoing'[i] = outgoing[i]
                                     \/ \E j \in DOMAIN out.ops : outgoing'[i] = out.ops[j]
      <3>1. outgoing \in Seq(Operations)
        BY <2>1 DEF StreamTypeOK
      <3> QED
        BY <1>1, <1>3, <3>1, ConcatOf
    <2>5. \A i \in DOMAIN screen : screen[i].id \in Nat /\ screen[i].id < nextID
      <3>1. /\ screen \in Seq(Messages) /\ outgoing \in Seq(Operations)
            /\ Line(items(screen, outgoing), nextID, faults, Len(said), saidPieces)
        BY <2>1 DEF StreamInv, StreamTypeOK, now
      <3> TAKE i \in DOMAIN screen
      <3>2. i \in DOMAIN items(screen, outgoing) /\ items(screen, outgoing)[i] = itemOf(screen[i])
        BY <3>1, ItemsAre
      <3>3. screen[i] \in Messages /\ itemOf(screen[i]).id = screen[i].id
        BY <3>1, ItemOf
      <3> QED
        BY <3>1, <3>2, <3>3, LineSays
    <2>6. (\A x \in ToSet(richOrder) : x < nextID)'
      BY <1>2, <1>4, <2>2, <2>3
    <2>7. (\A x \in ToSet(richOrder), i \in DOMAIN screen : screen[i].id = x => screen[i].kind = "reply")'
      BY <1>2, <2>1 DEF Forms
    <2>8. (\A x \in ToSet(richOrder), i \in DOMAIN outgoing : outgoing[i].id = x => outgoing[i].kind = "reply")'
      <3> SUFFICES ASSUME NEW x \in ToSet(richOrder), NEW i \in DOMAIN outgoing', outgoing'[i].id = x
                   PROVE  outgoing'[i].kind = "reply"
        BY <1>2
      <3>1. CASE i \in DOMAIN outgoing /\ outgoing'[i] = outgoing[i]
        BY <2>1, <3>1 DEF Forms
      <3>2. ASSUME NEW j \in DOMAIN out.ops, outgoing'[i] = out.ops[j] PROVE outgoing'[i].kind = "reply"
        <4>1. out.ops[j] \in Operations
          BY <1>3
        <4>2. x < nextID /\ x \in Nat \ {0} /\ (~tw.statusSealed => tw.statusID # x)
          BY <2>1, <2>2, <2>3 DEF Forms
        <4>3. out.ops[j].op \in {"send", "edit"} /\ out.ops[j].kind \in {"reply", "status"}
          BY <4>1 DEF Operations
        <4>4. /\ out.ops[j].op = "send" => nextID <= out.ops[j].id
              /\ out.ops[j].op = "edit" /\ out.ops[j].kind = "status" =>
                   ~tw.statusSealed /\ out.ops[j].id = tw.statusID
          BY <1>3 DEF Marked
        <4>5. out.ops[j].id = x
          BY <3>2
        <4>6. out.ops[j].op # "send"
          BY <2>2, <4>2, <4>4, <4>5
        <4>7. out.ops[j].kind # "status"
          BY <4>2, <4>3, <4>4, <4>5, <4>6
        <4> QED
          BY <3>2, <4>3, <4>7
      <3> QED
        BY <2>4, <3>1, <3>2
    <2>9. (outcome = "running" /\ ~tw.statusSealed => tw.statusID \notin ToSet(richOrder))'
      <3> SUFFICES ASSUME outcome' = "running", ~tw'.statusSealed PROVE tw'.statusID \notin ToSet(richOrder)
        BY <1>2
      <3>1. LeavesOpen(tw, nextID, tw') /\ tw'.statusID \in Nat
        BY <1>1, <1>3 DEF TurnWriters
      <3>2. tw'.statusID = 0 \/ nextID <= tw'.statusID \/ (tw'.statusID = tw.statusID /\ ~tw.statusSealed)
        BY <3>1 DEF LeavesOpen
      <3> QED
        BY <2>1, <2>2, <2>3, <3>1, <3>2 DEF Forms
    <2>10. (\A i \in DOMAIN outgoing : outgoing[i].op = "send" => (outgoing[i].rich <=> outgoing[i].kind = "reply"))'
      <3> SUFFICES ASSUME NEW i \in DOMAIN outgoing', outgoing'[i].op = "send"
                   PROVE  outgoing'[i].rich <=> outgoing'[i].kind = "reply"
        OBVIOUS
      <3>1. CASE i \in DOMAIN outgoing /\ outgoing'[i] = outgoing[i]
        BY <2>1, <3>1 DEF Forms
      <3>2. ASSUME NEW j \in DOMAIN out.ops, outgoing'[i] = out.ops[j]
            PROVE  outgoing'[i].rich <=> outgoing'[i].kind = "reply"
        BY <1>3, <3>2 DEF Marked
      <3> QED
        BY <2>4, <3>1, <3>2
    <2>11. (rebuilds = 0 => \A i \in DOMAIN outgoing :
               outgoing[i].op = "edit" /\ outgoing[i].kind = "reply" => Newest(outgoing[i].id))'
      <3> SUFFICES ASSUME rebuilds = 0, NEW i \in DOMAIN outgoing', outgoing'[i].op = "edit",
                          outgoing'[i].kind = "reply"
                   PROVE  Newest(outgoing'[i].id)
        BY <1>2 DEF Newest, Latest
      <3>1. CASE i \in DOMAIN outgoing /\ outgoing'[i] = outgoing[i]
        BY <2>1, <3>1 DEF Forms
      <3>2. ASSUME NEW j \in DOMAIN out.ops, outgoing'[i] = out.ops[j] PROVE Newest(outgoing'[i].id)
        <4>1. ~tw.respSealed /\ outgoing'[i].id = tw.respID
          BY <1>3, <3>2 DEF Marked
        <4> QED
          BY <2>1, <4>1 DEF Forms
      <3> QED
        BY <2>4, <3>1, <3>2
    <2>12. (rebuilds = 0 => (outcome = "running" /\ ~tw.respSealed => Newest(tw.respID)))'
      <3> SUFFICES ASSUME rebuilds = 0, outcome' = "running", ~tw'.respSealed PROVE Newest(tw'.respID)
        BY <1>2 DEF Newest, Latest
      <3>1. LeavesOpen(tw, nextID, tw') /\ tw'.respID \in Nat
        BY <1>1, <1>3 DEF TurnWriters
      <3>2. CASE tw'.respID = tw.respID /\ ~tw.respSealed
        BY <2>1, <3>2 DEF Forms
      <3>3. CASE tw'.respID = 0 \/ nextID <= tw'.respID
        <4>1. \A i \in DOMAIN screen : screen[i].id # tw'.respID
          <5>1. \A i \in DOMAIN screen : screen[i].id # 0
            <6>1. screen \in Seq(Messages)
              BY <2>1 DEF StreamTypeOK
            <6>2. \A i \in DOMAIN screen : screen[i] \in Messages
              BY <6>1
            <6> QED
              BY <6>2 DEF Messages
          <5> QED
            BY <2>2, <2>5, <3>1, <3>3, <5>1
        <4> QED
          BY <4>1 DEF Newest, Latest
      <3> QED
        BY <3>1, <3>2, <3>3 DEF LeavesOpen
    <2>13. FormIsKept'
      BY <1>2, <2>1 DEF Forms, FormIsKept
    <2> QED
      BY <2>6, <2>7, <2>8, <2>9, <2>10, <2>11, <2>12, <2>13 DEF Forms
  <1> QED
    BY <1>4, <1>5, <1>6, <1>7, <1>8, <1>9 DEF StreamInv

(* What the writer did in a step of the turn. *)
Wrote(out) ==
  /\ faults' \in Nat /\ (faults # 0 => faults' # 0)
  /\ Done(screen, outgoing, tw, nextID, faults', out, Len(said'), saidPieces')
  /\ saidPieces' \subseteq saidPieces \cup
       (IF out.err THEN {Len(said')} ELSE repliesIn(items(screen, outgoing \o out.ops)) \cup drafted(out.w))

LEMMA InvBased ==
  ASSUME StreamInv
  PROVE  /\ Based(screen, outgoing, nextID, faults, Len(said), saidPieces)
         /\ outcome = "running" =>
              Writes(items(screen, outgoing), tw, nextID, faults, Len(said), saidPieces)
         /\ faults \in Nat /\ Len(said) \in Nat /\ saidPieces \subseteq 1 .. Len(said)
  <1>1. /\ screen \in Seq(Messages) /\ outgoing \in Seq(Operations) /\ nextID \in Nat \ {0}
        /\ faults \in Nat /\ said \in Seq({"reply", "status"})
    BY DEF StreamInv, StreamTypeOK
  <1>2. Len(said) \in Nat /\ saidPieces \subseteq 1 .. Len(said)
    BY <1>1 DEF saidPieces
  <1> QED
    BY <1>1, <1>2 DEF StreamInv, Based, now

LEMMA SaysStatus ==
  ASSUME StreamInv, says("status"), unseen' = unseen
  PROVE  /\ said' \in Seq({"reply", "status"}) /\ unseen' \subseteq DOMAIN said'
         /\ Len(said) <= Len(said') /\ Len(said') \in Nat /\ saidPieces' = saidPieces
         /\ Fresh(piece, Len(said), saidPieces, Len(said'), saidPieces')
  <1>1. said \in Seq({"reply", "status"}) /\ unseen \subseteq DOMAIN said /\ said' = Append(said, "status")
    BY DEF StreamInv, StreamTypeOK, says
  <1>2. /\ said' \in Seq({"reply", "status"}) /\ Len(said') = Len(said) + 1 /\ Len(said) \in Nat
        /\ DOMAIN said = 1 .. Len(said) /\ DOMAIN said' = 1 .. Len(said) + 1
        /\ said'[Len(said) + 1] = "status" /\ \A i \in 1 .. Len(said) : said'[i] = said[i]
    BY <1>1
  <1>3. saidPieces' = saidPieces
    BY <1>2, unseen' = unseen DEF saidPieces
  <1> QED
    BY <1>1, <1>2, <1>3 DEF Fresh, piece

LEMMA SaysReply ==
  ASSUME StreamInv, says("reply"), unseen' = unseen
  PROVE  /\ said' \in Seq({"reply", "status"}) /\ unseen' \subseteq DOMAIN said'
         /\ Len(said) <= Len(said') /\ Len(said') \in Nat /\ saidPieces' = saidPieces \cup {piece} /\ piece = Len(said')
         /\ Fresh(piece, Len(said), saidPieces, Len(said'), saidPieces')
  <1>1. said \in Seq({"reply", "status"}) /\ unseen \subseteq DOMAIN said /\ said' = Append(said, "reply")
    BY DEF StreamInv, StreamTypeOK, says
  <1>2. /\ said' \in Seq({"reply", "status"}) /\ Len(said') = Len(said) + 1 /\ Len(said) \in Nat
        /\ DOMAIN said = 1 .. Len(said) /\ DOMAIN said' = 1 .. Len(said) + 1
        /\ said'[Len(said) + 1] = "reply" /\ \A i \in 1 .. Len(said) : said'[i] = said[i]
    BY <1>1
  <1>3. saidPieces' = saidPieces \cup {piece}
    BY <1>1, <1>2, unseen' = unseen DEF saidPieces, piece
  <1> QED
    BY <1>1, <1>2, <1>3 DEF Fresh, piece

LEMMA SaysUnseen ==
  ASSUME StreamInv, says("reply"), unseen' = unseen \cup {piece}
  PROVE  /\ said' \in Seq({"reply", "status"}) /\ unseen' \subseteq DOMAIN said'
         /\ Len(said) <= Len(said') /\ Len(said') \in Nat /\ saidPieces' = saidPieces
  <1>1. said \in Seq({"reply", "status"}) /\ unseen \subseteq DOMAIN said /\ said' = Append(said, "reply")
    BY DEF StreamInv, StreamTypeOK, says
  <1>2. /\ said' \in Seq({"reply", "status"}) /\ Len(said') = Len(said) + 1 /\ Len(said) \in Nat
        /\ DOMAIN said = 1 .. Len(said) /\ DOMAIN said' = 1 .. Len(said) + 1
        /\ said'[Len(said) + 1] = "reply" /\ \A i \in 1 .. Len(said) : said'[i] = said[i]
    BY <1>1
  <1>3. saidPieces' = saidPieces
    BY <1>1, <1>2 DEF saidPieces, piece
  <1> QED
    BY <1>1, <1>2, <1>3 DEF piece

LEMMA SaysNothing ==
  ASSUME StreamInv, UNCHANGED <<said, unseen>>
  PROVE  /\ said' \in Seq({"reply", "status"}) /\ unseen' \subseteq DOMAIN said'
         /\ Len(said) <= Len(said') /\ Len(said') \in Nat /\ saidPieces' = saidPieces
         /\ Fresh(0, Len(said), saidPieces, Len(said'), saidPieces')
  <1>1. said \in Seq({"reply", "status"}) /\ unseen \subseteq DOMAIN said /\ said' = said
    BY DEF StreamInv, StreamTypeOK
  <1>2. saidPieces' = saidPieces /\ Len(said) \in Nat
    BY <1>1 DEF saidPieces
  <1> QED
    BY <1>1, <1>2 DEF Fresh

LEMMA StatusWrites ==
  ASSUME StreamInv, outcome = "running", NEW p, writesStatus(p),
         Fresh(p, Len(said), saidPieces, Len(said'), saidPieces'), saidPieces' = saidPieces
  PROVE  \E out : applies(out, "running") /\ Wrote(out)
  <1>1. /\ Based(screen, outgoing, nextID, faults, Len(said), saidPieces)
        /\ Writes(items(screen, outgoing), tw, nextID, faults, Len(said), saidPieces)
        /\ faults \in Nat /\ Len(said) \in Nat
    BY InvBased
  <1>2. PICK bad \in {"none", "reply", "status"} :
            /\ applies(writeStatus(tw, nextID, p, bad), outcome)
            /\ (bad = "none" /\ faults' = faults) \/ (bad # "none" /\ faults' = faults + 1)
    BY DEF writesStatus, fails
  <1> DEFINE out == writeStatus(tw, nextID, p, bad)
             g == faults'
  <1>3. g \in Nat /\ (faults # 0 => g # 0) /\ (bad = "status" => g # 0)
    BY <1>1, <1>2
  <1> HIDE DEF g
  <1>4. Len(said) <= Len(said) /\ saidPieces \subseteq saidPieces
    BY <1>1
  <1>5. /\ Based(screen, outgoing, nextID, g, Len(said), saidPieces)
        /\ Writes(items(screen, outgoing), tw, nextID, g, Len(said), saidPieces)
    BY ONLY <1>1, <1>3, <1>4, BasedStill, WritesStill
  <1>6. out = writeStatus(tw, nextID, p, bad)
    OBVIOUS
  <1> HIDE DEF out
  <1>7. Done(screen, outgoing, tw, nextID, g, out, Len(said'), saidPieces')
    BY ONLY <1>3, <1>5, <1>6, Fresh(p, Len(said), saidPieces, Len(said'), saidPieces'), WriteStatusDone,
            bad \in {"none", "reply", "status"}
  <1>8. applies(out, "running") /\ Wrote(out)
    BY <1>2, <1>3, <1>6, <1>7, saidPieces' = saidPieces DEF Wrote, g
  <1> QED
    BY <1>8

LEMMA ReplyWrites ==
  ASSUME StreamInv, outcome = "running", NEW p, writesReply(p),
         Fresh(p, Len(said), saidPieces, Len(said'), saidPieces'),
         p \in saidPieces' \cup {0}, saidPieces' \subseteq saidPieces \cup ({p} \ {0}), p = 0 \/ p = Len(said')
  PROVE  \E out : applies(out, "running") /\ Wrote(out)
  <1>1. /\ Based(screen, outgoing, nextID, faults, Len(said), saidPieces)
        /\ Writes(items(screen, outgoing), tw, nextID, faults, Len(said), saidPieces)
        /\ faults \in Nat /\ Len(said) \in Nat
    BY InvBased
  <1>2. PICK draft \in BOOLEAN, bad \in {"none", "reply"} :
            /\ applies(writeResponse(tw, nextID, p, bad, draft), outcome)
            /\ faults' = faults \/ faults' = faults + 1
    BY DEF writesReply, fails
  <1> DEFINE out == writeResponse(tw, nextID, p, bad, draft)
             g == faults'
  <1>3. g \in Nat /\ (faults # 0 => g # 0)
    BY <1>1, <1>2
  <1> HIDE DEF g
  <1>4. Len(said) <= Len(said) /\ saidPieces \subseteq saidPieces
    BY <1>1
  <1>5. /\ Based(screen, outgoing, nextID, g, Len(said), saidPieces)
        /\ Writes(items(screen, outgoing), tw, nextID, g, Len(said), saidPieces)
    BY ONLY <1>1, <1>3, <1>4, BasedStill, WritesStill
  <1>6. out = writeResponse(tw, nextID, p, bad, draft)
    OBVIOUS
  <1> HIDE DEF out
  <1>7. Done(screen, outgoing, tw, nextID, g, out, Len(said'), saidPieces')
    BY ONLY <1>5, <1>6, Fresh(p, Len(said), saidPieces, Len(said'), saidPieces'), WriteResponseDone,
            bad \in {"none", "reply"}, draft \in BOOLEAN, p \in saidPieces' \cup {0}
  <1>8. ~out.err => {p} \ {0} \subseteq repliesIn(items(screen, outgoing \o out.ops)) \cup drafted(out.w)
    BY ONLY <1>5, <1>6, Fresh(p, Len(said), saidPieces, Len(said'), saidPieces'), WriteResponseDone,
            bad \in {"none", "reply"}, draft \in BOOLEAN, p \in saidPieces' \cup {0}
  <1>9. applies(out, "running") /\ Wrote(out)
    <2>1. out.err => {p} \ {0} \subseteq {Len(said')}
      OBVIOUS
    <2>2. saidPieces' \subseteq saidPieces \cup
             (IF out.err THEN {Len(said')} ELSE repliesIn(items(screen, outgoing \o out.ops)) \cup drafted(out.w))
      BY ONLY <1>8, <2>1, saidPieces' \subseteq saidPieces \cup ({p} \ {0})
    <2> QED
      BY <1>2, <1>3, <1>6, <1>7, <2>2 DEF Wrote, g
  <1> QED
    BY <1>9

LEMMA QuietWrites ==
  ASSUME StreamInv, outcome = "running", UNCHANGED <<outgoing, tw, nextID, outcome, faults>>,
         Len(said) <= Len(said'), Len(said') \in Nat, saidPieces' = saidPieces
  PROVE  \E out : applies(out, "running") /\ Wrote(out)
  <1> DEFINE out == written(tw, <<>>, FALSE)
             t == Len(said')
             G == saidPieces'
  <1>1. /\ Based(screen, outgoing, nextID, faults, Len(said), saidPieces)
        /\ Writes(items(screen, outgoing), tw, nextID, faults, Len(said), saidPieces)
        /\ faults \in Nat /\ Len(said) \in Nat
    BY InvBased
  <1>2. faults' = faults /\ t \in Nat /\ Len(said) <= t /\ saidPieces \subseteq G /\ (faults # 0 => faults # 0)
    OBVIOUS
  <1> HIDE DEF t, G
  <1>3. /\ Based(screen, outgoing, nextID, faults, t, G)
        /\ Writes(items(screen, outgoing), tw, nextID, faults, t, G)
    BY ONLY <1>1, <1>2, BasedStill, WritesStill
  <1>4. Done(screen, outgoing, tw, nextID, faults, out, t, G)
    BY ONLY <1>3, NothingDone
  <1>5. applies(out, "running")
    <2>1. sends(<<>>) = 0 /\ outgoing \in Seq(Operations) /\ nextID \in Nat
      BY <1>1, SendsNone DEF Based
    <2>2. outgoing \o <<>> = outgoing /\ nextID + 0 = nextID
      BY <2>1
    <2> QED
      BY <2>1, <2>2 DEF applies, written
  <1>6. Wrote(out)
    BY <1>1, <1>2, <1>4 DEF Wrote, t, G
  <1> QED
    BY <1>5, <1>6

LEMMA EndWrites ==
  ASSUME StreamInv, outcome = "running", ends, UNCHANGED <<said, unseen>>
  PROVE  \E out : applies(out, "done") /\ Wrote(out) /\ (out.err \/ drafted(out.w) = {})
  <1>1. /\ Based(screen, outgoing, nextID, faults, Len(said), saidPieces)
        /\ Writes(items(screen, outgoing), tw, nextID, faults, Len(said), saidPieces)
        /\ faults \in Nat /\ Len(said) \in Nat
    BY InvBased
  <1>2. PICK ok \in BOOLEAN :
            /\ applies(flushDraft(tw, nextID, ok), "done")
            /\ faults' = faults \/ faults' = faults + 1
    BY DEF ends, fails
  <1> DEFINE out == flushDraft(tw, nextID, ok)
             g == faults'
  <1>3. g \in Nat /\ (faults # 0 => g # 0)
    BY <1>1, <1>2
  <1> HIDE DEF g
  <1>4. Len(said) <= Len(said) /\ saidPieces \subseteq saidPieces
    BY <1>1
  <1>5. /\ Based(screen, outgoing, nextID, g, Len(said), saidPieces)
        /\ Writes(items(screen, outgoing), tw, nextID, g, Len(said), saidPieces)
    BY ONLY <1>1, <1>3, <1>4, BasedStill, WritesStill
  <1>6. out = flushDraft(tw, nextID, ok)
    OBVIOUS
  <1> HIDE DEF out
  <1>7. Done(screen, outgoing, tw, nextID, g, out, Len(said), saidPieces) /\ (~out.err => ~out.w.drafting)
    BY ONLY <1>5, <1>6, FlushDone, ok \in BOOLEAN
  <1>8. said' = said /\ saidPieces' = saidPieces
    BY DEF saidPieces
  <1>9. applies(out, "done") /\ Wrote(out)
    BY <1>2, <1>3, <1>6, <1>7, <1>8 DEF Wrote, g
  <1> QED
    BY <1>7, <1>9 DEF drafted

LEMMA TurnWrites ==
  ASSUME StreamInv, outcome = "running", transportKept, NEW how \in {"running", "done"},
         \E out : applies(out, how) /\ Wrote(out) /\ (how = "done" => out.err \/ drafted(out.w) = {}),
         said' \in Seq({"reply", "status"}), unseen' \subseteq DOMAIN said',
         cli' \in {"none", "start", "between", "message", "opened", "text", "thinking", "tool", "over"},
         breaks' \in Nat, {streaming', hadText', stopped'} \subseteq BOOLEAN, Streams'
  PROVE  StreamInv'
  <1>1. PICK out : applies(out, how) /\ Wrote(out) /\ (how = "done" => out.err \/ drafted(out.w) = {})
    OBVIOUS
  <1>2. outgoing' = outgoing \o out.ops
    BY <1>1 DEF applies
  <1>3. saidPieces' \subseteq saidPieces \cup
            (IF out.err THEN {Len(said')} ELSE repliesIn(items(screen, outgoing')) \cup drafted(out.w))
    BY <1>1, <1>2 DEF Wrote
  <1>4. /\ faults' \in Nat /\ (faults # 0 => faults' # 0)
        /\ Done(screen, outgoing, tw, nextID, faults', out, Len(said'), saidPieces')
    BY <1>1 DEF Wrote
  <1> QED
    BY <1>1, <1>3, <1>4, TurnStep

LEMMA ReadsKeep == StreamInv /\ Reads => StreamInv'
  <1> SUFFICES ASSUME StreamInv, Reads PROVE StreamInv'
    OBVIOUS
  <1>1. /\ cli \in {"none", "start", "between", "message", "opened", "text", "thinking", "tool", "over"}
        /\ {streaming, hadText, stopped} \subseteq BOOLEAN /\ breaks \in Nat
        /\ Streams
    BY DEF StreamInv, StreamTypeOK
  <1>2. outcome = "running"
    BY DEF Reads, HandleStarts, SystemInit, StatusEvent, MessageStart, MessageStop, ContentBlockStart,
           ContentBlockDelta, ContentBlockStop, AssistantCopies, AssistantAnswers, StreamBreaks, ResultEvent,
           StreamEnds, Stops, reads
  (* A step that writes a status, a reply or nothing. *)
  <1>3. ASSUME NEW p, writesStatus(p), transportKept, unseen' = unseen,
               (p = 0 /\ said' = said) \/ (says("status") /\ p = piece),
               cli' \in {"none", "start", "between", "message", "opened", "text", "thinking", "tool", "over"},
               breaks' \in Nat, {streaming', hadText', stopped'} \subseteq BOOLEAN, Streams'
        PROVE  StreamInv'
    <2>1. /\ said' \in Seq({"reply", "status"}) /\ unseen' \subseteq DOMAIN said' /\ saidPieces' = saidPieces
          /\ Fresh(p, Len(said), saidPieces, Len(said'), saidPieces')
      <3>1. CASE p = 0 /\ said' = said
        BY <1>3, <3>1, SaysNothing
      <3>2. CASE says("status") /\ p = piece
        BY <1>3, <3>2, SaysStatus
      <3> QED
        BY <1>3, <3>1, <3>2
    <2>2. \E out : applies(out, "running") /\ Wrote(out)
      BY <1>2, <1>3, <2>1, StatusWrites
    <2> QED
      BY <1>2, <1>3, <2>1, <2>2, TurnWrites
  <1>4. ASSUME NEW p, writesReply(p), transportKept, unseen' = unseen,
               (p = 0 /\ said' = said) \/ (says("reply") /\ p = piece),
               cli' \in {"none", "start", "between", "message", "opened", "text", "thinking", "tool", "over"},
               breaks' \in Nat, {streaming', hadText', stopped'} \subseteq BOOLEAN, Streams'
        PROVE  StreamInv'
    <2>1. /\ said' \in Seq({"reply", "status"}) /\ unseen' \subseteq DOMAIN said'
          /\ Fresh(p, Len(said), saidPieces, Len(said'), saidPieces')
          /\ p \in saidPieces' \cup {0} /\ saidPieces' \subseteq saidPieces \cup ({p} \ {0})
          /\ p = 0 \/ p = Len(said')
      <3>1. CASE p = 0 /\ said' = said
        BY <1>3, <1>4, <3>1, SaysNothing
      <3>2. CASE says("reply") /\ p = piece
        <4>1. piece # 0
          BY InvBased DEF piece
        <4> QED
          BY <1>4, <3>2, <4>1, SaysReply
      <3> QED
        BY <1>4, <3>1, <3>2
    <2>2. \E out : applies(out, "running") /\ Wrote(out)
      BY <1>2, <1>4, <2>1, ReplyWrites
    <2> QED
      BY <1>2, <1>4, <2>1, <2>2, TurnWrites
  <1>5. ASSUME UNCHANGED <<outgoing, tw, nextID, outcome, faults>>, transportKept,
               UNCHANGED <<said, unseen>> \/ (says("reply") /\ unseen' = unseen \cup {piece}),
               cli' \in {"none", "start", "between", "message", "opened", "text", "thinking", "tool", "over"},
               breaks' \in Nat, {streaming', hadText', stopped'} \subseteq BOOLEAN, Streams'
        PROVE  StreamInv'
    <2>1. /\ said' \in Seq({"reply", "status"}) /\ unseen' \subseteq DOMAIN said'
          /\ Len(said) <= Len(said') /\ Len(said') \in Nat /\ saidPieces' = saidPieces
      BY <1>5, SaysNothing, SaysUnseen
    <2>2. \E out : applies(out, "running") /\ Wrote(out)
      BY <1>2, <1>5, <2>1, QuietWrites
    <2> QED
      BY <1>2, <1>5, <2>1, <2>2, TurnWrites
  <1>6. CASE HandleStarts
    BY <1>1, <1>3, <1>6 DEF HandleStarts, Streams
  <1>7. CASE SystemInit
    BY <1>1, <1>3, <1>7 DEF SystemInit, Streams
  <1>8. CASE StatusEvent
    BY <1>1, <1>3, <1>8 DEF StatusEvent, Streams
  <1>9. CASE MessageStart
    BY <1>1, <1>5, <1>9 DEF MessageStart, Streams, quiet
  <1>10. CASE MessageStop
    BY <1>1, <1>5, <1>10 DEF MessageStop, Streams, quiet
  <1>11. ASSUME NEW block \in {"opened", "thinking", "tool"}, ContentBlockStart(block) PROVE StreamInv'
    <2>1. /\ transportKept /\ UNCHANGED <<breaks, streaming, hadText, stopped, unseen>>
          /\ cli' = block /\ streaming
      BY <1>1, <1>11 DEF ContentBlockStart, Streams
    <2>2. CASE block = "opened" /\ hadText
      BY <1>1, <1>4, <1>11, <2>1, <2>2 DEF ContentBlockStart, Streams
    <2>3. CASE ~(block = "opened" /\ hadText)
      BY <1>1, <1>5, <1>11, <2>1, <2>3 DEF ContentBlockStart, Streams, quiet
    <2> QED
      BY <2>2, <2>3
  <1>12. CASE ContentBlockDelta
    <2>1. CASE cli \in {"opened", "text"} /\ cli' = "text" /\ says("reply") /\ writesReply(piece)
      BY <1>1, <1>4, <1>12, <2>1 DEF ContentBlockDelta, Streams
    <2>2. CASE cli = "thinking" /\ UNCHANGED cli /\ says("status") /\ writesStatus(piece)
      BY <1>1, <1>3, <1>12, <2>2 DEF ContentBlockDelta, Streams
    <2> QED
      BY <1>12, <2>1, <2>2 DEF ContentBlockDelta
  <1>13. CASE ContentBlockStop
    <2>1. /\ transportKept /\ UNCHANGED <<breaks, streaming, stopped, unseen>>
          /\ cli' = "message" /\ hadText' \in BOOLEAN /\ streaming
      BY <1>1, <1>13 DEF ContentBlockStop, Streams
    <2>2. CASE cli = "tool"
      BY <1>1, <1>3, <1>13, <2>1, <2>2 DEF ContentBlockStop, Streams
    <2>3. CASE cli # "tool"
      BY <1>1, <1>5, <1>13, <2>1, <2>3 DEF ContentBlockStop, Streams, quiet
    <2> QED
      BY <2>2, <2>3
  <1>14. CASE AssistantCopies
    <2>1. alreadyWritten(FALSE)
      BY <1>1, <1>14 DEF AssistantCopies, Streams, alreadyWritten
    <2> QED
      BY <1>1, <1>5, <1>14, <2>1 DEF AssistantCopies, Streams, quiet
  <1>15. ASSUME NEW error \in BOOLEAN, AssistantAnswers(error) PROVE StreamInv'
    <2>1. CASE alreadyWritten(error)
      BY <1>1, <1>5, <1>15, <2>1 DEF AssistantAnswers, Streams
    <2>2. CASE ~alreadyWritten(error)
      BY <1>1, <1>4, <1>15, <2>2 DEF AssistantAnswers, Streams
    <2> QED
      BY <2>1, <2>2
  <1>16. CASE StreamBreaks
    BY <1>1, <1>5, <1>16 DEF StreamBreaks, Streams, quiet
  <1>17. CASE ResultEvent
    BY <1>1, <1>3, <1>17 DEF ResultEvent, Streams
  <1>18. CASE StreamEnds
    <2>1. /\ ends /\ transportKept /\ UNCHANGED <<streaming, hadText, stopped, said, unseen>> /\ cli' = "over"
          /\ breaks' \in Nat
      BY <1>1, <1>18 DEF StreamEnds
    <2>2. said' \in Seq({"reply", "status"}) /\ unseen' \subseteq DOMAIN said'
      BY <2>1, SaysNothing
    <2>3. \E out : applies(out, "done") /\ Wrote(out) /\ (out.err \/ drafted(out.w) = {})
      BY <1>2, <2>1, EndWrites
    <2>4. Streams'
      BY <2>1 DEF Streams
    <2> QED
      BY <1>1, <1>2, <2>1, <2>2, <2>3, <2>4, TurnWrites
  <1>19. CASE Stops
    <2>1. transportKept /\ UNCHANGED <<outgoing, tw, nextID, outcome, faults, said, unseen>>
      BY <1>19 DEF Stops, transportKept, telegramVars, inbound, outbound
    <2> QED
      BY <1>1, <1>5, <1>19, <2>1 DEF Stops, Streams
  <1> QED
    BY <1>6, <1>7, <1>8, <1>9, <1>10, <1>11, <1>12, <1>13, <1>14, <1>15, <1>16, <1>17, <1>18, <1>19 DEF Reads

-----------------------------------------------------------------------------
(* The steps of the transport.                                             *)

(* Steps that show nothing. *)
LEMMA UnshownKeeps ==
  ASSUME StreamInv, UNCHANGED <<streamVars, outgoing, screen, givenUp, repeated>>, StreamTypeOK',
         faults # 0 => faults' # 0,
         UNCHANGED <<richOrder, rebuilds>> \/ (richOrder' = <<>> /\ rebuilds' # 0 /\ outcome # "running")
  PROVE  StreamInv'
  <1>1. /\ cli' = cli /\ streaming' = streaming /\ tw' = tw /\ outcome' = outcome /\ said' = said
        /\ unseen' = unseen /\ nextID' = nextID
    BY DEF streamVars
  <1>2. saidPieces' = saidPieces /\ now' = now /\ now = items(screen, outgoing)
    BY <1>1 DEF saidPieces, now
  <1>3. /\ Based(screen, outgoing, nextID, faults, Len(said), saidPieces)
        /\ outcome = "running" =>
              Writes(items(screen, outgoing), tw, nextID, faults, Len(said), saidPieces)
        /\ Len(said) \in Nat /\ Len(said) <= Len(said) /\ saidPieces \subseteq saidPieces
    BY InvBased
  <1>4. faults' \in Nat
    BY DEF StreamTypeOK
  <1>5. /\ Based(screen, outgoing, nextID, faults', Len(said), saidPieces)
        /\ outcome = "running" =>
              Writes(items(screen, outgoing), tw, nextID, faults', Len(said), saidPieces)
    BY <1>3, <1>4, BasedStill, WritesStill
  <1>6. Line(now', nextID', faults', Len(said'), saidPieces') /\ SendsAreNew(now', Len(screen'), outgoing')
    BY <1>1, <1>2, <1>5 DEF Based
  <1>7. (outcome = "running" => Writes(now, tw, nextID, faults, Len(said), saidPieces))'
    BY <1>1, <1>2, <1>5
  <1>8. Whole' /\ Streams'
    BY <1>1, <1>2 DEF StreamInv, Whole, Streams, drafted
  <1>9. Forms'
    <2>1. Forms
      BY DEF StreamInv
    <2>2. CASE UNCHANGED <<richOrder, rebuilds>>
      BY <1>1, <2>1, <2>2 DEF Forms, Newest, Latest, FormIsKept
    <2>3. CASE richOrder' = <<>> /\ rebuilds' # 0 /\ outcome # "running"
      <3>1. ToSet(richOrder') = {}
        BY <2>3, ToSetEmpty
      <3> QED
        BY <1>1, <2>1, <2>3, <3>1 DEF Forms, FormIsKept
    <2> QED
      BY <2>2, <2>3
  <1>10. CopiesAreFaults'
    BY <1>1 DEF StreamInv, CopiesAreFaults
  <1> QED
    BY <1>6, <1>7, <1>8, <1>9, <1>10 DEF StreamInv

LEMMA RestIs ==
  ASSUME NEW ops \in Seq(Operations), ops # <<>>
  PROVE  /\ Head(ops) \in Operations /\ Tail(ops) \in Seq(Operations) /\ Head(ops) = ops[1] /\ 1 \in DOMAIN ops
         /\ Len(Tail(ops)) = Len(ops) - 1 /\ Len(ops) \in Nat \ {0} /\ DOMAIN Tail(ops) = 1 .. Len(ops) - 1
         /\ \A i \in DOMAIN Tail(ops) : i + 1 \in DOMAIN ops /\ Tail(ops)[i] = ops[i + 1]
  OBVIOUS

(* The head of the outbox against what is around it. *)
LEMMA HeadSays ==
  ASSUME StreamInv, outgoing # <<>>, NEW op, op = Head(outgoing)
  PROVE  /\ op \in Operations /\ op = outgoing[1] /\ 1 \in DOMAIN outgoing /\ op.id < nextID
         /\ now[Len(screen) + 1] = itemOf(op) /\ Len(screen) + 1 \in DOMAIN now
         /\ \A i \in DOMAIN screen : Before(faults, itemOf(screen[i]), itemOf(op))
         /\ op.op = "send" => \A i \in DOMAIN screen : screen[i].id < op.id
         /\ \A i \in DOMAIN Tail(outgoing) :
              /\ i + 1 \in DOMAIN outgoing /\ Tail(outgoing)[i] = outgoing[i + 1]
              /\ outgoing[i + 1] \in Operations
              /\ Before(faults, itemOf(op), itemOf(outgoing[i + 1]))
  <1> DEFINE m == Len(screen)
             q == items(screen, outgoing)
  <1>1. /\ screen \in Seq(Messages) /\ outgoing \in Seq(Operations) /\ nextID \in Nat \ {0}
        /\ Line(q, nextID, faults, Len(said), saidPieces) /\ SendsAreNew(q, m, outgoing) /\ now = q
    BY DEF StreamInv, StreamTypeOK, now
  <1>2. /\ op \in Operations /\ op = outgoing[1] /\ 1 \in DOMAIN outgoing
        /\ \A i \in DOMAIN Tail(outgoing) : i \in Nat /\ i # 0
             /\ i + 1 \in DOMAIN outgoing /\ Tail(outgoing)[i] = outgoing[i + 1]
    BY <1>1, RestIs
  <1>3. /\ m \in Nat /\ DOMAIN screen = 1 .. m
        /\ \A k \in DOMAIN screen : k \in DOMAIN q /\ q[k] = itemOf(screen[k])
        /\ \A k \in DOMAIN outgoing : m + k \in DOMAIN q /\ q[m + k] = itemOf(outgoing[k])
    BY <1>1, ItemsAre
  <1> HIDE DEF m, q
  <1>4. m + 1 \in DOMAIN q /\ q[m + 1] = itemOf(op)
    BY <1>2, <1>3
  <1>5. \A k, l \in DOMAIN q : k < l => Before(faults, q[k], q[l])
    BY <1>1 DEF Line
  <1>6. \A i \in DOMAIN screen : Before(faults, itemOf(screen[i]), itemOf(op))
    <2> TAKE i \in DOMAIN screen
    <2>1. i < m + 1
      BY <1>3
    <2> QED
      BY <1>3, <1>4, <1>5, <2>1
  <1>7. op.id < nextID
    BY <1>1, <1>2, <1>4, LineSays, ItemOf
  <1>8. op.op = "send" => \A i \in DOMAIN screen : screen[i].id < op.id
    <2> SUFFICES ASSUME op.op = "send", NEW i \in DOMAIN screen PROVE screen[i].id < op.id
      OBVIOUS
    <2>1. i < m + 1 /\ screen[i] \in Messages
      BY <1>1, <1>3
    <2>2. q[i].id < q[m + 1].id
      BY <1>1, <1>2, <1>3, <2>1 DEF SendsAreNew
    <2>3. itemOf(op).id = op.id /\ itemOf(screen[i]).id = screen[i].id
      BY <1>2, <2>1, ItemOf
    <2> QED
      BY <1>3, <1>4, <2>2, <2>3
  <1>9. ASSUME NEW i \in DOMAIN Tail(outgoing)
        PROVE  outgoing[i + 1] \in Operations /\ Before(faults, itemOf(op), itemOf(outgoing[i + 1]))
    <2>1. i \in Nat /\ i # 0 /\ i + 1 \in DOMAIN outgoing
      BY <1>2
    <2>2. m + (i + 1) \in DOMAIN q /\ q[m + (i + 1)] = itemOf(outgoing[i + 1]) /\ m + 1 < m + (i + 1)
      BY <1>3, <2>1
    <2> QED
      BY <1>1, <1>4, <1>5, <2>1, <2>2
  <1> QED
    BY <1>1, <1>2, <1>4, <1>6, <1>7, <1>8, <1>9 DEF m

(* What the user sees follows from what he saw and the head of the outbox. *)
LEMMA LineMoves ==
  ASSUME StreamInv, outgoing # <<>>, outgoing' = Tail(outgoing), screen' \in Seq(Messages),
         UNCHANGED streamVars, faults' \in Nat, faults # 0 => faults' # 0,
         \A k \in DOMAIN screen' :
            \/ \E j \in DOMAIN screen : itemOf(screen'[k]) = itemOf(screen[j])
            \/ itemOf(screen'[k]) = itemOf(Head(outgoing)),
         \A k, l \in DOMAIN screen' : k < l => Before(faults', itemOf(screen'[k]), itemOf(screen'[l]))
  PROVE  /\ Line(now', nextID', faults', Len(said'), saidPieces')
         /\ SendsAreNew(now', Len(screen'), outgoing')
         /\ (outcome = "running" => Writes(now, tw, nextID, faults, Len(said), saidPieces))'
  <1> DEFINE m == Len(screen)
             q == items(screen, outgoing)
             a == screen'
             b == outgoing'
             m1 == Len(a)
             z == items(a, b)
             g == faults'
  <1>1. /\ screen \in Seq(Messages) /\ outgoing \in Seq(Operations) /\ nextID \in Nat \ {0}
        /\ faults \in Nat
        /\ Line(q, nextID, faults, Len(said), saidPieces) /\ SendsAreNew(q, m, outgoing) /\ now = q
        /\ Len(said) \in Nat /\ saidPieces \subseteq saidPieces /\ Len(said) <= Len(said)
        /\ (outcome = "running" => Writes(q, tw, nextID, faults, Len(said), saidPieces))
    BY InvBased DEF StreamInv, StreamTypeOK, now
  <1>2. /\ tw' = tw /\ outcome' = outcome /\ said' = said /\ unseen' = unseen /\ nextID' = nextID
        /\ saidPieces' = saidPieces /\ now' = z
    BY DEF streamVars, saidPieces, now
  <1>3. /\ m \in Nat /\ DOMAIN screen = 1 .. m
        /\ \A k \in DOMAIN screen : k \in DOMAIN q /\ q[k] = itemOf(screen[k])
        /\ \A k \in DOMAIN outgoing : m + k \in DOMAIN q /\ q[m + k] = itemOf(outgoing[k])
    BY <1>1, ItemsAre
  <1>4. /\ b \in Seq(Operations) /\ \A k \in DOMAIN b : k \in Nat /\ k # 0
        /\ \A k \in DOMAIN b : k + 1 \in DOMAIN outgoing /\ b[k] = outgoing[k + 1]
        /\ 1 \in DOMAIN outgoing /\ Head(outgoing) = outgoing[1]
    BY <1>1, RestIs
  <1>5. /\ m1 \in Nat /\ DOMAIN a = 1 .. m1 /\ z \in Seq(Items)
        /\ \A k \in DOMAIN a : k \in DOMAIN z /\ z[k] = itemOf(a[k])
        /\ \A k \in DOMAIN b : m1 + k \in DOMAIN z /\ z[m1 + k] = itemOf(b[k])
        /\ \A k \in DOMAIN z : k \in DOMAIN a \/ (k - m1 \in DOMAIN b /\ m1 + (k - m1) = k)
        /\ \A k \in DOMAIN z : k \in Nat
    <2>1. a \in Seq(Messages)
      OBVIOUS
    <2> HIDE DEF a, b
    <2>2. DOMAIN z = 1 .. Len(a) + Len(b) /\ Len(a) \in Nat /\ Len(b) \in Nat
      BY <1>4, <2>1, ItemsAre
    <2>3. /\ items(a, b) \in Seq(Items) /\ DOMAIN a = 1 .. Len(a)
          /\ \A k \in DOMAIN a : k \in DOMAIN items(a, b) /\ items(a, b)[k] = itemOf(a[k])
      BY ONLY <1>4, <2>1, ItemsAre
    <2>4. /\ \A k \in DOMAIN b : Len(a) + k \in DOMAIN items(a, b) /\ items(a, b)[Len(a) + k] = itemOf(b[k])
          /\ \A k \in DOMAIN items(a, b) : k \in DOMAIN a \/ (k - Len(a) \in DOMAIN b /\ Len(a) + (k - Len(a)) = k)
      BY ONLY <1>4, <2>1, ItemsAre
    <2>5. \A k \in DOMAIN z : k \in Nat
      BY ONLY <2>2
    <2> QED
      BY ONLY <2>2, <2>3, <2>4, <2>5
  <1>6. /\ \A k \in DOMAIN a : \/ \E j \in DOMAIN screen : itemOf(a[k]) = itemOf(screen[j])
                               \/ itemOf(a[k]) = itemOf(outgoing[1])
        /\ \A k, l \in DOMAIN a : k < l => Before(g, itemOf(a[k]), itemOf(a[l]))
    BY <1>4
  <1>7. g \in Nat /\ (faults # 0 => g # 0)
    OBVIOUS
  <1> HIDE DEF m, q, a, b, m1, z, g
  <1>8. \A k \in DOMAIN a : \E j \in DOMAIN q : z[k] = q[j] /\ j <= m + 1
    <2> TAKE k \in DOMAIN a
    <2>1. ASSUME NEW j \in DOMAIN screen, itemOf(a[k]) = itemOf(screen[j])
          PROVE  \E i \in DOMAIN q : z[k] = q[i] /\ i <= m + 1
      BY <1>3, <1>5, <2>1
    <2>2. CASE itemOf(a[k]) = itemOf(outgoing[1])
      <3>1. m + 1 \in DOMAIN q /\ q[m + 1] = itemOf(outgoing[1]) /\ m + 1 <= m + 1
        BY <1>3, <1>4
      <3> QED
        BY <1>5, <2>2, <3>1
    <2> QED
      BY <1>6, <2>1, <2>2
  <1>9. \A k \in DOMAIN b : m1 + k \in DOMAIN z /\ m + (k + 1) \in DOMAIN q /\ z[m1 + k] = q[m + (k + 1)]
    BY <1>3, <1>4, <1>5
  <1>10. \A k \in DOMAIN z : \E j \in DOMAIN q : z[k] = q[j]
    <2> TAKE k \in DOMAIN z
    <2>1. CASE k \in DOMAIN a
      BY <1>8, <2>1
    <2>2. CASE k - m1 \in DOMAIN b /\ m1 + (k - m1) = k
      BY <1>9, <2>2
    <2> QED
      BY <1>5, <2>1, <2>2
  <1>11. \A k, l \in DOMAIN q : k < l => Before(g, q[k], q[l])
    <2>1. \A k, l \in DOMAIN q : k < l => Before(faults, q[k], q[l])
      BY <1>1 DEF Line
    <2> QED
      BY <1>7, <2>1, BeforeStill
  <1>12. ASSUME NEW k \in DOMAIN z, NEW l \in DOMAIN z, k < l PROVE Before(g, z[k], z[l])
    <2>1. CASE k \in DOMAIN a /\ l \in DOMAIN a
      BY <1>5, <1>6, <1>12, <2>1
    <2>2. CASE k \in DOMAIN a /\ l - m1 \in DOMAIN b /\ m1 + (l - m1) = l
      <3>1. PICK j \in DOMAIN q : z[k] = q[j] /\ j <= m + 1
        BY <1>8, <2>2
      <3>2. /\ m + ((l - m1) + 1) \in DOMAIN q /\ z[l] = q[m + ((l - m1) + 1)]
            /\ l - m1 \in Nat /\ l - m1 # 0
        BY <1>4, <1>9, <2>2
      <3>3. j \in Nat
        BY <1>1 DEF Line
      <3>4. j < m + ((l - m1) + 1)
        BY ONLY <1>3, <3>1, <3>2, <3>3, l - m1 \in Nat
      <3> QED
        BY <1>11, <3>1, <3>2, <3>4
    <2>3. CASE k - m1 \in DOMAIN b /\ m1 + (k - m1) = k /\ l - m1 \in DOMAIN b /\ m1 + (l - m1) = l
      <3>1. /\ m + ((k - m1) + 1) \in DOMAIN q /\ z[k] = q[m + ((k - m1) + 1)]
            /\ m + ((l - m1) + 1) \in DOMAIN q /\ z[l] = q[m + ((l - m1) + 1)]
        BY <1>9, <2>3
      <3>2. m + ((k - m1) + 1) < m + ((l - m1) + 1)
        BY <1>3, <1>5, <1>12
      <3> QED
        BY <1>11, <3>1, <3>2
    <2>4. CASE k - m1 \in DOMAIN b /\ m1 + (k - m1) = k /\ l \in DOMAIN a
      BY <1>4, <1>5, <1>12, <2>4
    <2> QED
      BY <1>5, <2>1, <2>2, <2>3, <2>4
  <1>13. Line(z, nextID, g, Len(said), saidPieces)
    <2>1. \A j \in DOMAIN q : q[j].id < nextID /\ Holds(q[j], Len(said), saidPieces)
      BY <1>1 DEF Line
    <2>2. \A k \in DOMAIN z : z[k].id < nextID /\ Holds(z[k], Len(said), saidPieces)
      BY <1>10, <2>1
    <2> QED
      BY <1>5, <1>12, <2>2 DEF Line
  <1>14. SendsAreNew(z, m1, b)
    <2> SUFFICES ASSUME NEW k \in DOMAIN z, NEW l \in DOMAIN b, k < m1 + l, b[l].op = "send"
                 PROVE  z[k].id < z[m1 + l].id
      BY DEF SendsAreNew
    <2>1. /\ l \in Nat /\ l + 1 \in DOMAIN outgoing /\ outgoing[l + 1].op = "send"
          /\ m + (l + 1) \in DOMAIN q /\ z[m1 + l] = q[m + (l + 1)]
      BY <1>4, <1>9
    <2>2. \E j \in DOMAIN q : z[k] = q[j] /\ j < m + (l + 1)
      <3>1. CASE k \in DOMAIN a
        <4>1. PICK j \in DOMAIN q : z[k] = q[j] /\ j <= m + 1
          BY <1>8, <3>1
        <4>2. j \in Nat /\ l # 0
          BY <1>1, <1>4 DEF Line
        <4>3. j < m + (l + 1)
          BY ONLY <1>3, <2>1, <4>1, <4>2
        <4> QED
          BY <4>1, <4>3
      <3>2. CASE k - m1 \in DOMAIN b /\ m1 + (k - m1) = k
        <4>1. m + ((k - m1) + 1) \in DOMAIN q /\ z[k] = q[m + ((k - m1) + 1)] /\ k - m1 \in Nat
          BY <1>4, <1>9, <3>2
        <4>2. m + ((k - m1) + 1) < m + (l + 1)
          <5>1. k \in Nat /\ k < m1 + l
            BY <1>5
          <5> QED
            BY ONLY <1>3, <1>5, <2>1, <4>1, <5>1
        <4> QED
          BY <4>1, <4>2
      <3> QED
        BY <1>5, <3>1, <3>2
    <2> QED
      BY <1>1, <2>1, <2>2 DEF SendsAreNew
  <1>15. outcome = "running" => Writes(z, tw, nextID, g, Len(said), saidPieces)
    <2>1. Based(screen, outgoing, nextID, faults, Len(said), saidPieces)
      BY <1>1 DEF Based, q, m
    <2>2. outcome = "running" => Writes(q, tw, nextID, g, Len(said), saidPieces)
      BY <1>1, <1>7, <2>1, WritesStill DEF q
    <2>3. \A x : Tops(q, g, Len(said), saidPieces, x) => Tops(z, g, Len(said), saidPieces, x)
      BY <1>10 DEF Tops
    <2> QED
      BY <2>2, <2>3 DEF Writes
  <1>16. outgoing' = b /\ Len(screen') = m1 /\ faults' = g
    BY DEF b, a, m1, g
  <1> QED
    BY <1>2, <1>13, <1>14, <1>15, <1>16

LEMMA WholeMoves ==
  ASSUME StreamInv, outgoing # <<>>, outgoing' = Tail(outgoing), screen' \in Seq(Messages),
         UNCHANGED streamVars, UNCHANGED givenUp,
         \A j \in DOMAIN screen : \E k \in DOMAIN screen' :
            screen'[k].kind = screen[j].kind /\ piecesOf(screen[j].text) \subseteq piecesOf(screen'[k].text),
         \E k \in DOMAIN screen' :
            screen'[k].kind = Head(outgoing).kind /\ screen'[k].text = Head(outgoing).text
  PROVE  Whole'
  <1> DEFINE a == screen'
             b == outgoing'
             q == items(screen, outgoing)
             z == items(a, b)
  <1>1. screen \in Seq(Messages) /\ outgoing \in Seq(Operations) /\ Whole /\ now = q
    BY DEF StreamInv, StreamTypeOK, now
  <1>2. /\ tw' = tw /\ outcome' = outcome /\ said' = said /\ saidPieces' = saidPieces /\ now' = z
        /\ givenUp' = givenUp
    BY DEF streamVars, saidPieces, now
  <1>3. /\ b \in Seq(Operations) /\ 1 \in DOMAIN outgoing /\ Head(outgoing) = outgoing[1]
        /\ DOMAIN outgoing = 1 .. Len(outgoing) /\ Len(outgoing) \in Nat
        /\ DOMAIN b = 1 .. Len(outgoing) - 1 /\ \A k \in DOMAIN b : b[k] = outgoing[k + 1]
    BY <1>1, RestIs
  <1>4. a \in Seq(Messages)
    OBVIOUS
  <1>5. /\ \A j \in DOMAIN screen : \E k \in DOMAIN a :
              a[k].kind = screen[j].kind /\ piecesOf(screen[j].text) \subseteq piecesOf(a[k].text)
        /\ \E k \in DOMAIN a : a[k].kind = outgoing[1].kind /\ a[k].text = outgoing[1].text
    BY <1>3
  <1> HIDE DEF a, b
  <1>6. ASSUME NEW scr \in Seq(Messages), NEW ops \in Seq(Operations), NEW p
        PROVE  p \in repliesIn(items(scr, ops)) <=>
                 \/ \E k \in DOMAIN scr : scr[k].kind = "reply" /\ p \in piecesOf(scr[k].text)
                 \/ \E k \in DOMAIN ops : ops[k].kind = "reply" /\ p \in piecesOf(ops[k].text)
    <2> DEFINE y == items(scr, ops)
               c == Len(scr)
    <2>1. /\ \A k \in DOMAIN scr : k \in DOMAIN y /\ y[k] = itemOf(scr[k])
          /\ \A k \in DOMAIN ops : c + k \in DOMAIN y /\ y[c + k] = itemOf(ops[k])
          /\ \A k \in DOMAIN y : k \in DOMAIN scr \/ (k - c \in DOMAIN ops /\ c + (k - c) = k)
      BY ItemsAre
    <2>2. /\ \A k \in DOMAIN scr : itemOf(scr[k]).kind = scr[k].kind /\ itemOf(scr[k]).text = scr[k].text
          /\ \A k \in DOMAIN ops : itemOf(ops[k]).kind = ops[k].kind /\ itemOf(ops[k]).text = ops[k].text
      BY DEF itemOf
    <2>3. p \in repliesIn(y) <=> \E k \in DOMAIN y : y[k].kind = "reply" /\ p \in piecesOf(y[k].text)
      BY DEF repliesIn
    <2> HIDE DEF y, c
    <2>4. ASSUME NEW k \in DOMAIN y, y[k].kind = "reply", p \in piecesOf(y[k].text)
          PROVE  \/ \E j \in DOMAIN scr : scr[j].kind = "reply" /\ p \in piecesOf(scr[j].text)
                 \/ \E j \in DOMAIN ops : ops[j].kind = "reply" /\ p \in piecesOf(ops[j].text)
      <3>1. CASE k \in DOMAIN scr
        BY <2>1, <2>2, <2>4, <3>1
      <3>2. CASE k - c \in DOMAIN ops /\ c + (k - c) = k
        <4>1. y[k] = itemOf(ops[k - c])
          BY <2>1, <3>2
        <4> QED
          BY <2>2, <2>4, <3>2, <4>1
      <3> QED
        BY <2>1, <3>1, <3>2
    <2>5. ASSUME NEW k \in DOMAIN scr, scr[k].kind = "reply", p \in piecesOf(scr[k].text) PROVE p \in repliesIn(y)
      BY <2>1, <2>2, <2>3, <2>5
    <2>6. ASSUME NEW k \in DOMAIN ops, ops[k].kind = "reply", p \in piecesOf(ops[k].text) PROVE p \in repliesIn(y)
      BY <2>1, <2>2, <2>3, <2>6
    <2> QED
      BY <2>3, <2>4, <2>5, <2>6 DEF y
  <1>7. repliesIn(q) \subseteq repliesIn(z)
    <2> SUFFICES ASSUME NEW p \in repliesIn(q) PROVE p \in repliesIn(z)
      OBVIOUS
    <2>1. p \in repliesIn(z) <=>
            \/ \E k \in DOMAIN a : a[k].kind = "reply" /\ p \in piecesOf(a[k].text)
            \/ \E k \in DOMAIN b : b[k].kind = "reply" /\ p \in piecesOf(b[k].text)
      BY <1>3, <1>4, <1>6
    <2>2. \/ \E k \in DOMAIN screen : screen[k].kind = "reply" /\ p \in piecesOf(screen[k].text)
          \/ \E k \in DOMAIN outgoing : outgoing[k].kind = "reply" /\ p \in piecesOf(outgoing[k].text)
      BY <1>1, <1>6
    <2> HIDE DEF q, z
    <2>3. ASSUME NEW k \in DOMAIN screen, screen[k].kind = "reply", p \in piecesOf(screen[k].text)
          PROVE  p \in repliesIn(z)
      BY <1>5, <2>1, <2>3
    <2>4. ASSUME NEW k \in DOMAIN outgoing, outgoing[k].kind = "reply", p \in piecesOf(outgoing[k].text)
          PROVE  p \in repliesIn(z)
      <3>1. CASE k = 1
        BY <1>5, <2>1, <2>4, <3>1
      <3>2. CASE k # 1
        <4>1. k - 1 \in DOMAIN b /\ (k - 1) + 1 = k
          BY <1>3, <3>2
        <4> QED
          BY <1>3, <2>1, <2>4, <4>1
      <3> QED
        BY <3>1, <3>2
    <2> QED
      BY <2>2, <2>3, <2>4
  <1>8. drafted(tw)' = drafted(tw)
    BY <1>2 DEF drafted
  <1> HIDE DEF q, z
  <1> QED
    BY <1>1, <1>2, <1>7, <1>8 DEF Whole

LEMMA RememberRich ==
  ASSUME NEW order \in Seq(Nat \ {0}), Len(order) <= RichMemory, NEW id \in Nat \ {0},
         NEW r, r = rememberRich(order, id)
  PROVE  /\ r \in Seq(Nat \ {0}) /\ Len(r) <= RichMemory /\ r # <<>> /\ Last(r) = id
         /\ ToSet(r) \subseteq ToSet(order) \cup {id}
  <1> DEFINE g == Append(order, id)
  <1>1. /\ g \in Seq(Nat \ {0}) /\ Len(g) = Len(order) + 1 /\ Len(order) \in Nat /\ g[Len(g)] = id
        /\ ToSet(g) = ToSet(order) \cup {id} /\ RichMemory \in Nat \ {0}
    BY ToSetAppend, TelegramAssumption
  <1>2. r = IF Len(g) > RichMemory THEN Tail(g) ELSE g
    BY DEF rememberRich
  <1> HIDE DEF g
  <1>3. CASE Len(g) > RichMemory
    <2>1. Len(g) >= 2 /\ Len(g) = RichMemory + 1
      BY <1>1, <1>3
    <2>2. r \in Seq(Nat \ {0}) /\ Len(r) = Len(g) - 1 /\ r[Len(r)] = g[Len(r) + 1]
      BY <1>1, <1>2, <1>3, <2>1
    <2>3. ToSet(r) \subseteq ToSet(g)
      <3>1. g # <<>>
        BY <1>1, <2>1
      <3> QED
        BY <1>1, <1>2, <1>3, <3>1, HeadTail
    <2>4. r # <<>> /\ Len(r) <= RichMemory
      BY <1>1, <2>1, <2>2
    <2> QED
      BY <1>1, <2>1, <2>2, <2>3, <2>4 DEF Last
  <1>4. CASE ~(Len(g) > RichMemory)
    <2>1. g # <<>>
      BY <1>1
    <2> QED
      BY <1>1, <1>2, <1>4, <2>1 DEF Last
  <1> QED
    BY <1>3, <1>4

LEMMA SentForms ==
  ASSUME StreamInv, outgoing # <<>>, NEW op, op = Head(outgoing), op.op = "send",
         UNCHANGED streamVars, outgoing' = Tail(outgoing), UNCHANGED rebuilds,
         richOrder' = IF op.rich THEN rememberRich(richOrder, op.id) ELSE richOrder,
         \A k \in DOMAIN screen' :
            \/ \E j \in DOMAIN screen : screen'[k] = screen[j]
            \/ /\ screen'[k].id = op.id /\ screen'[k].kind = op.kind
               /\ screen'[k].form \in IF op.rich THEN {"rich", "plain"} ELSE {"html"}
  PROVE  /\ Forms'
         /\ richOrder' \in Seq(Nat \ {0}) /\ Len(richOrder') <= RichMemory
  <1>1. /\ op \in Operations /\ op = outgoing[1] /\ 1 \in DOMAIN outgoing /\ op.id < nextID
        /\ \A i \in DOMAIN screen : screen[i].id < op.id
        /\ \A i \in DOMAIN outgoing' :
             /\ i + 1 \in DOMAIN outgoing /\ outgoing'[i] = outgoing[i + 1]
             /\ outgoing[i + 1] \in Operations
             /\ Before(faults, itemOf(op), itemOf(outgoing[i + 1]))
        /\ now[Len(screen) + 1] = itemOf(op) /\ Len(screen) + 1 \in DOMAIN now
    BY HeadSays
  <1>2. /\ richOrder \in Seq(Nat \ {0}) /\ Len(richOrder) <= RichMemory /\ screen \in Seq(Messages)
        /\ Forms /\ tw \in TurnWriters /\ nextID \in Nat \ {0}
        /\ (outcome = "running" => Writes(now, tw, nextID, faults, Len(said), saidPieces))
    BY DEF StreamInv, StreamTypeOK
  <1>3. /\ tw' = tw /\ outcome' = outcome /\ nextID' = nextID
    BY DEF streamVars
  <1>18. \A j \in DOMAIN screen : screen[j].id \in Nat \ {0}
    <2>1. \A j \in DOMAIN screen : screen[j] \in Messages
      BY <1>2
    <2> QED
      BY <2>1 DEF Messages
  <1>4. /\ op.id \in Nat \ {0} /\ op.kind \in {"reply", "status"} /\ op.rich \in BOOLEAN
        /\ (op.rich <=> op.kind = "reply")
        /\ itemOf(op).id = op.id /\ itemOf(op).kind = op.kind
    BY <1>1, <1>2, ItemOf DEF Operations, Forms
  <1>5. /\ richOrder' \in Seq(Nat \ {0}) /\ Len(richOrder') <= RichMemory
        /\ ToSet(richOrder') \subseteq ToSet(richOrder) \cup {op.id}
        /\ op.kind = "status" => richOrder' = richOrder
        /\ op.kind = "reply" => richOrder' # <<>> /\ Last(richOrder') = op.id
    <2>1. CASE op.kind = "reply"
      BY <1>2, <1>4, <2>1, RememberRich
    <2>2. CASE op.kind = "status"
      BY <1>2, <1>4, <2>2
    <2> QED
      BY <1>4, <2>1, <2>2
  <1>6. \A k \in DOMAIN screen' :
            \/ \E j \in DOMAIN screen : screen'[k] = screen[j]
            \/ screen'[k].id = op.id /\ screen'[k].kind = op.kind
               /\ screen'[k].form \in IF op.kind = "reply" THEN {"rich", "plain"} ELSE {"html"}
    BY <1>4
  (* An item further down is another message or of the same kind. *)
  <1>7. ASSUME NEW y, Before(faults, itemOf(op), y)
        PROVE  /\ y.id = op.id => y.kind = op.kind
               /\ y.kind = "reply" /\ op.kind = "reply" => op.id <= y.id
    BY <1>4, <1>7 DEF Before, Alike, Related
  <1>8. ASSUME NEW i \in DOMAIN outgoing'
        PROVE  /\ outgoing'[i] = outgoing[i + 1] /\ i + 1 \in DOMAIN outgoing /\ outgoing'[i].id \in Nat \ {0}
               /\ outgoing'[i].id = op.id => outgoing'[i].kind = op.kind
               /\ outgoing'[i].kind = "reply" /\ op.kind = "reply" => op.id <= outgoing'[i].id
    <2>1. /\ itemOf(outgoing[i + 1]).id = outgoing[i + 1].id /\ itemOf(outgoing[i + 1]).kind = outgoing[i + 1].kind
          /\ outgoing[i + 1].id \in Nat \ {0}
      BY <1>1, ItemOf DEF Operations
    <2> QED
      BY <1>1, <1>7, <2>1
  (* A reply that is going to be edited is the newest, if it is there. *)
  <1>9. ASSUME NEW x \in Nat, Latest(richOrder, screen, x), op.kind = "reply" => x = 0 \/ op.id <= x,
               op.kind = "status" => x # op.id
        PROVE  Latest(richOrder', screen', x)
    <2> SUFFICES ASSUME NEW k \in DOMAIN screen', screen'[k].id = x PROVE richOrder' # <<>> /\ Last(richOrder') = x
      BY DEF Latest
    <2>1. ASSUME NEW j \in DOMAIN screen, screen'[k] = screen[j] PROVE richOrder' # <<>> /\ Last(richOrder') = x
      <3>1. screen[j].id = x /\ x < op.id /\ x # 0
        BY <1>1, <1>18, <2>1
      <3>2. op.kind = "status"
        BY <1>4, <1>9, <3>1
      <3> QED
        BY <1>5, <1>9, <3>1, <3>2 DEF Latest
    <2>2. CASE screen'[k].id = op.id
      BY <1>4, <1>5, <1>9, <2>2
    <2> QED
      BY <1>6, <2>1, <2>2
  <1>10. (\A x \in ToSet(richOrder) : x < nextID)'
    BY <1>1, <1>2, <1>3, <1>5 DEF Forms
  <1>11. (\A x \in ToSet(richOrder), i \in DOMAIN screen : screen[i].id = x => screen[i].kind = "reply")'
    <2> SUFFICES ASSUME NEW x \in ToSet(richOrder'), NEW i \in DOMAIN screen', screen'[i].id = x
                 PROVE  screen'[i].kind = "reply"
      OBVIOUS
    <2>1. ASSUME NEW j \in DOMAIN screen, screen'[i] = screen[j] PROVE screen'[i].kind = "reply"
      <3>1. screen[j].id = x /\ screen[j].id < op.id /\ screen[j].id \in Nat
        BY <1>1, <1>18, <2>1
      <3>2. x \in ToSet(richOrder)
        BY <1>4, <1>5, <3>1
      <3> QED
        BY <1>2, <2>1, <3>1, <3>2 DEF Forms
    <2>2. CASE screen'[i].id = op.id /\ screen'[i].kind = op.kind
      <3>1. CASE op.kind = "reply"
        BY <2>2, <3>1
      <3>2. CASE op.kind = "status"
        BY <1>1, <1>2, <1>5, <2>2, <3>2 DEF Forms
      <3> QED
        BY <1>4, <3>1, <3>2
    <2> QED
      BY <1>6, <2>1, <2>2
  <1>12. (\A x \in ToSet(richOrder), i \in DOMAIN outgoing : outgoing[i].id = x => outgoing[i].kind = "reply")'
    <2> SUFFICES ASSUME NEW x \in ToSet(richOrder'), NEW i \in DOMAIN outgoing', outgoing'[i].id = x
                 PROVE  outgoing'[i].kind = "reply"
      OBVIOUS
    <2>1. CASE x \in ToSet(richOrder)
      BY <1>2, <1>8, <2>1 DEF Forms
    <2>2. CASE x \notin ToSet(richOrder)
      BY <1>4, <1>5, <1>8, <2>2
    <2> QED
      BY <2>1, <2>2
  <1>13. (outcome = "running" /\ ~tw.statusSealed => tw.statusID \notin ToSet(richOrder))'
    <2> SUFFICES ASSUME outcome = "running", ~tw.statusSealed PROVE tw.statusID \notin ToSet(richOrder')
      BY <1>3
    <2>1. tw.statusID \notin ToSet(richOrder)
      BY <1>2 DEF Forms
    <2>2. op.kind = "reply" => tw.statusID # op.id
      <3>1. Before(faults, itemOf(op), openStatus(tw, nextID))
        BY <1>1, <1>2 DEF Writes, Tops
      <3>2. openStatus(tw, nextID).kind = "status"
            /\ openStatus(tw, nextID).id = (IF tw.statusID # 0 THEN tw.statusID ELSE nextID)
        BY <1>2, OpenAre
      <3> QED
        BY <1>4, <1>7, <3>1, <3>2
    <2> QED
      BY <1>4, <1>5, <2>1, <2>2
  <1>14. (\A i \in DOMAIN outgoing : outgoing[i].op = "send" => (outgoing[i].rich <=> outgoing[i].kind = "reply"))'
    BY <1>2, <1>8 DEF Forms
  <1>15. (rebuilds = 0 => \A i \in DOMAIN outgoing :
             outgoing[i].op = "edit" /\ outgoing[i].kind = "reply" => Newest(outgoing[i].id))'
    <2> SUFFICES ASSUME rebuilds = 0, NEW i \in DOMAIN outgoing', outgoing'[i].op = "edit",
                        outgoing'[i].kind = "reply"
                 PROVE  Latest(richOrder', screen', outgoing'[i].id)
      BY DEF Newest
    <2> DEFINE x == outgoing[i + 1].id
    <2>1. /\ x \in Nat /\ outgoing'[i].id = x /\ Latest(richOrder, screen, x)
          /\ (op.kind = "reply" => op.id <= x) /\ (op.kind = "status" => x # op.id)
      BY <1>2, <1>8 DEF Forms, Newest
    <2> HIDE DEF x
    <2> QED
      BY <1>9, <2>1
  <1>16. (rebuilds = 0 => (outcome = "running" /\ ~tw.respSealed => Newest(tw.respID)))'
    <2> SUFFICES ASSUME rebuilds = 0, outcome = "running", ~tw.respSealed
                 PROVE  Latest(richOrder', screen', tw.respID)
      BY <1>3 DEF Newest
    <2> DEFINE x == tw.respID
    <2>1. Latest(richOrder, screen, x) /\ x \in Nat
      BY <1>2 DEF Forms, TurnWriters, Newest
    <2>2. Before(faults, itemOf(op), openReply(tw, nextID))
      BY <1>1, <1>2 DEF Writes, Tops
    <2>3. openReply(tw, nextID).kind = "reply"
          /\ openReply(tw, nextID).id = (IF x # 0 THEN x ELSE nextID)
      BY <1>2, OpenAre
    <2>4. /\ op.kind = "reply" => x = 0 \/ op.id <= x
          /\ op.kind = "status" => x # op.id
      BY <1>4, <1>7, <2>2, <2>3
    <2> HIDE DEF x
    <2>5. Latest(richOrder', screen', x)
      BY <1>9, <2>1, <2>4
    <2> QED
      BY <2>5 DEF x
  <1>17. FormIsKept'
    BY <1>2, <1>6 DEF Forms, FormIsKept
  <1> QED
    BY <1>5, <1>10, <1>11, <1>12, <1>13, <1>14, <1>15, <1>16, <1>17 DEF Forms

LEMMA ScreenPairs ==
  ASSUME StreamInv, NEW k \in DOMAIN screen, NEW l \in DOMAIN screen, k < l
  PROVE  Before(faults, itemOf(screen[k]), itemOf(screen[l]))
  <1>1. /\ k \in DOMAIN now /\ now[k] = itemOf(screen[k])
        /\ l \in DOMAIN now /\ now[l] = itemOf(screen[l])
    BY ItemsAre DEF StreamInv, StreamTypeOK, now
  <1> QED
    BY <1>1 DEF StreamInv, Line

LEMMA MovedTypes ==
  ASSUME StreamInv, outgoing # <<>>, outgoing' = Tail(outgoing),
         UNCHANGED <<inbound, streamVars, chatID, saved, rebuilds>>,
         screen' \in Seq(Messages), richOrder' \in Seq(Nat \ {0}), Len(richOrder') <= RichMemory,
         faults' \in Nat, givenUp' \subseteq Nat, repeated' \in BOOLEAN
  PROVE  StreamTypeOK'
  <1>1. StreamTypeOK
    BY DEF StreamInv
  <1>2. outgoing' \in Seq(Operations)
    BY <1>1, RestIs DEF StreamTypeOK
  <1> QED
    BY <1>1, <1>2 DEF StreamTypeOK, inbound, streamVars

LEMMA ShownIs ==
  ASSUME NEW op \in Operations, NEW body \in bodies(op.text), chatID \in Chats \cup {0}, NEW x, x = message(op, body)
  PROVE  /\ x \in Messages /\ x.id = op.id /\ x.kind = op.kind /\ x.text = op.text /\ x.form = body.form
         /\ itemOf(x) = itemOf(op)
  <1>1. op.text \in PieceTexts /\ op.id \in Nat \ {0} /\ op.kind \in {"reply", "status"}
    BY DEF Operations
  <1>2. body.text = op.text /\ body.form \in {"rich", "html", "plain"} /\ body.cut \in BOOLEAN
    <2>1. /\ asRich(op.text).text = op.text /\ asRich(op.text).form = "rich" /\ asRich(op.text).cut = FALSE
      BY DEF asRich
    <2>2. /\ asHTML(op.text).text = op.text /\ asHTML(op.text).form = "html" /\ asHTML(op.text).cut = FALSE
      BY DEF asHTML
    <2>3. /\ plainFallback(op.text).text = op.text /\ plainFallback(op.text).form = "plain"
          /\ plainFallback(op.text).cut = (Len(op.text) > PlainLimit)
      BY DEF plainFallback
    <2>4. (Len(op.text) > PlainLimit) \in BOOLEAN
      OBVIOUS
    <2> QED
      BY <2>1, <2>2, <2>3, <2>4 DEF bodies
  <1>3. x = [id |-> op.id, kind |-> op.kind, chat |-> chatID, form |-> body.form, text |-> body.text, cut |-> body.cut]
    BY DEF message
  <1>4. x \in Messages
    BY <1>1, <1>2, <1>3 DEF Messages
  <1>5. x.id = op.id /\ x.kind = op.kind /\ x.text = op.text /\ x.form = body.form
    BY <1>2, <1>3
  <1> QED
    BY <1>4, <1>5 DEF itemOf

(* A call either works or costs a fault. *)
LEMMA FaultsGrow ==
  ASSUME StreamInv, UNCHANGED faults \/ fails
  PROVE  faults' \in Nat /\ (faults # 0 => faults' # 0) /\ (fails => faults' # 0)
  BY DEF StreamInv, StreamTypeOK, fails

(* The line of a screen that gained the head of the outbox, once or twice. *)
LEMMA GainedLine ==
  ASSUME StreamInv, outgoing # <<>>, NEW op, op = Head(outgoing), op.op = "send",
         outgoing' = Tail(outgoing), UNCHANGED streamVars, UNCHANGED faults \/ fails,
         NEW new \in Seq(Messages), \A k \in DOMAIN new : itemOf(new[k]) = itemOf(op),
         screen' = screen \o new
  PROVE  /\ screen' \in Seq(Messages)
         /\ Line(now', nextID', faults', Len(said'), saidPieces')
         /\ SendsAreNew(now', Len(screen'), outgoing')
         /\ (outcome = "running" => Writes(now, tw, nextID, faults, Len(said), saidPieces))'
  <1> DEFINE m == Len(screen)
             a == screen'
             g == faults'
             Once(k) == \/ k \in DOMAIN screen /\ a[k] = screen[k]
                        \/ itemOf(a[k]) = itemOf(op) /\ \A j \in DOMAIN screen : j < k
  <1>1. /\ screen \in Seq(Messages) /\ outgoing \in Seq(Operations) /\ faults \in Nat
        /\ Line(now, nextID, faults, Len(said), saidPieces)
    BY DEF StreamInv, StreamTypeOK
  <1>2. /\ op \in Operations
        /\ \A i \in DOMAIN screen : Before(faults, itemOf(screen[i]), itemOf(op))
    BY HeadSays
  <1>3. a \in Seq(Messages) /\ \A k \in DOMAIN a : Once(k)
    <2>1. /\ a \in Seq(Messages) /\ DOMAIN screen = 1 .. m /\ m \in Nat
          /\ \A k \in DOMAIN a :
               \/ k \in 1 .. m /\ a[k] = screen[k]
               \/ k - m \in DOMAIN new /\ a[k] = new[k - m] /\ ~(k \in 1 .. m) /\ k \in Nat /\ k # 0
      <3>1. /\ a \in Seq(Messages) /\ DOMAIN screen = 1 .. m /\ m \in Nat /\ Len(new) \in Nat
            /\ DOMAIN new = 1 .. Len(new) /\ DOMAIN a = 1 .. m + Len(new)
        BY <1>1
      <3>2. a = screen \o new
        OBVIOUS
      <3> HIDE DEF a
      <3>3. ASSUME NEW k \in DOMAIN a, ~(k \in 1 .. m)
            PROVE  k - m \in DOMAIN new /\ a[k] = new[k - m] /\ k \in Nat /\ k # 0
        BY <1>1, <3>1, <3>2, <3>3
      <3>4. ASSUME NEW k \in DOMAIN a, k \in 1 .. m PROVE a[k] = screen[k]
        BY <1>1, <3>1, <3>2, <3>4
      <3> HIDE DEF m
      <3>5. \A k \in DOMAIN a :
              \/ k \in 1 .. m /\ a[k] = screen[k]
              \/ k - m \in DOMAIN new /\ a[k] = new[k - m] /\ ~(k \in 1 .. m) /\ k \in Nat /\ k # 0
        BY ONLY <3>3, <3>4
      <3> QED
        BY ONLY <3>1, <3>5
    <2> HIDE DEF a, m
    <2> QED
      BY <2>1
  <1>4. g \in Nat /\ (faults # 0 => g # 0)
    BY FaultsGrow
  <1> HIDE DEF a, g
  <1>5. ASSUME NEW k \in DOMAIN a, NEW l \in DOMAIN a, k < l
        PROVE  Before(g, itemOf(a[k]), itemOf(a[l]))
    <2>1. CASE k \in DOMAIN screen /\ l \in DOMAIN screen /\ a[k] = screen[k] /\ a[l] = screen[l]
      <3>1. Before(faults, itemOf(screen[k]), itemOf(screen[l]))
        BY <1>1, <1>5, <2>1, ScreenPairs
      <3> QED
        BY <1>1, <1>4, <2>1, <3>1, BeforeStill
    <2>2. CASE k \in DOMAIN screen /\ a[k] = screen[k] /\ itemOf(a[l]) = itemOf(op)
      BY <1>1, <1>2, <1>4, <2>2, BeforeStill
    <2>3. CASE itemOf(a[k]) = itemOf(op) /\ itemOf(a[l]) = itemOf(op)
      <3>1. itemOf(op).id \in Nat
        BY <1>2, ItemOf DEF Operations
      <3> QED
        BY <2>3, <3>1 DEF Before, Alike
    <2>4. CASE itemOf(a[k]) = itemOf(op) /\ (\A j \in DOMAIN screen : j < k) /\ l \in DOMAIN screen
      <3>1. l \in Nat /\ k \in Nat
        BY <1>1, <1>3, <2>4
      <3> QED
        BY <1>5, <2>4, <3>1
    <2> QED
      BY <1>3, <2>1, <2>2, <2>3, <2>4
  <1>6. ASSUME NEW k \in DOMAIN a
        PROVE  \/ \E j \in DOMAIN screen : itemOf(a[k]) = itemOf(screen[j])
               \/ itemOf(a[k]) = itemOf(Head(outgoing))
    BY <1>3, <1>6
  <1> QED
    BY <1>3, <1>4, <1>5, <1>6, LineMoves DEF a, g

(* The head of the outbox appears below what is there, once or twice. *)
LEMMA GainKeeps ==
  ASSUME StreamInv, outgoing # <<>>, NEW op, op = Head(outgoing), op.op = "send",
         outgoing' = Tail(outgoing), UNCHANGED <<inbound, streamVars, chatID, saved, givenUp, rebuilds>>,
         UNCHANGED faults \/ fails,
         NEW new \in Seq(Messages), new # <<>>,
         \A k \in DOMAIN new :
            itemOf(new[k]) = itemOf(op) /\ new[k].form \in IF op.rich THEN {"rich", "plain"} ELSE {"html"},
         screen' = screen \o new,
         richOrder' = IF op.rich THEN rememberRich(richOrder, op.id) ELSE richOrder,
         (repeated' = repeated /\ Len(new) = 1) \/ (repeated' = TRUE /\ fails)
  PROVE  StreamInv'
  <1> DEFINE m == Len(screen)
             a == screen'
  <1>1. /\ screen \in Seq(Messages) /\ op \in Operations /\ 1 \in DOMAIN new
        /\ \A i \in DOMAIN screen : screen[i].id < op.id
        /\ givenUp \subseteq Nat /\ repeated \in BOOLEAN /\ CopiesAreFaults
    <2>1. op \in Operations /\ \A i \in DOMAIN screen : screen[i].id < op.id
      BY HeadSays
    <2>2. 1 \in DOMAIN new
      OBVIOUS
    <2> QED
      BY <2>1, <2>2 DEF StreamInv, StreamTypeOK
  <1>2. \A x : itemOf(x).id = x.id /\ itemOf(x).kind = x.kind /\ itemOf(x).text = x.text
    BY DEF itemOf
  <1>3. \A k \in DOMAIN new : new[k].id = op.id /\ new[k].kind = op.kind /\ new[k].text = op.text
                              /\ new[k].form \in IF op.rich THEN {"rich", "plain"} ELSE {"html"}
    BY <1>2
  <1>4. /\ a \in Seq(Messages)
        /\ Line(now', nextID', faults', Len(said'), saidPieces')
        /\ SendsAreNew(now', Len(screen'), outgoing')
        /\ (outcome = "running" => Writes(now, tw, nextID, faults, Len(said), saidPieces))'
    BY GainedLine
  <1>5. /\ DOMAIN screen = 1 .. m /\ m \in Nat
        /\ \A k \in DOMAIN screen : k \in DOMAIN a /\ a[k] = screen[k]
        /\ \A k \in DOMAIN new : m + k \in DOMAIN a /\ a[m + k] = new[k]
        /\ \A k \in DOMAIN a : \/ k \in DOMAIN screen /\ a[k] = screen[k]
                               \/ k - m \in DOMAIN new /\ a[k] = new[k - m] /\ m + (k - m) = k
    <2>1. /\ m \in Nat /\ DOMAIN screen = 1 .. m /\ Len(new) \in Nat /\ DOMAIN new = 1 .. Len(new)
          /\ DOMAIN a = 1 .. m + Len(new)
          /\ \A k \in 1 .. m : a[k] = screen[k]
          /\ \A k \in 1 .. Len(new) : a[m + k] = new[k]
      BY <1>1, ConcatIs
    <2> HIDE DEF a, m
    <2>2. ASSUME NEW k \in 1 .. m + Len(new), ~(k \in 1 .. m)
          PROVE  k - m \in 1 .. Len(new) /\ m + (k - m) = k
      BY <2>1, <2>2
    <2>3. ASSUME NEW k \in 1 .. m PROVE k \in 1 .. m + Len(new)
      BY <2>1
    <2>4. ASSUME NEW k \in 1 .. Len(new) PROVE m + k \in 1 .. m + Len(new)
      BY <2>1
    <2>5. ASSUME NEW k \in DOMAIN a, ~(k \in 1 .. m)
          PROVE  k - m \in DOMAIN new /\ a[k] = new[k - m] /\ m + (k - m) = k
      <3>1. k - m \in 1 .. Len(new) /\ m + (k - m) = k
        BY <2>1, <2>2, <2>5
      <3>2. a[m + (k - m)] = new[k - m]
        BY <2>1, <3>1
      <3> QED
        BY <2>1, <3>1, <3>2
    <2> QED
      BY <2>1, <2>3, <2>4, <2>5
  <1>6. faults' \in Nat /\ (faults # 0 => faults' # 0) /\ (fails => faults' # 0)
    BY FaultsGrow
  <1>7. Forms' /\ richOrder' \in Seq(Nat \ {0}) /\ Len(richOrder') <= RichMemory
    <2>1. ASSUME NEW k \in DOMAIN screen'
          PROVE  \/ \E j \in DOMAIN screen : screen'[k] = screen[j]
                 \/ /\ screen'[k].id = op.id /\ screen'[k].kind = op.kind
                    /\ screen'[k].form \in IF op.rich THEN {"rich", "plain"} ELSE {"html"}
      BY <1>3, <1>5
    <2> QED
      BY <2>1, SentForms
  <1>8. Whole'
    <2>1. ASSUME NEW j \in DOMAIN screen
          PROVE  \E k \in DOMAIN screen' :
                   screen'[k].kind = screen[j].kind /\ piecesOf(screen[j].text) \subseteq piecesOf(screen'[k].text)
      BY <1>5
    <2>2. \E k \in DOMAIN screen' :
             screen'[k].kind = Head(outgoing).kind /\ screen'[k].text = Head(outgoing).text
      <3>1. m + 1 \in DOMAIN a /\ a[m + 1] = new[1]
        BY <1>1, <1>5
      <3>2. new[1].kind = op.kind /\ new[1].text = op.text
        BY <1>1, <1>3
      <3> HIDE DEF m
      <3> QED
        BY <3>1, <3>2
    <2> QED
      BY <1>4, <2>1, <2>2, WholeMoves
  <1>9. CopiesAreFaults'
    <2>1. CASE repeated' = TRUE /\ fails
      BY <1>6, <2>1 DEF CopiesAreFaults
    <2>2. CASE repeated' = repeated /\ Len(new) = 1
      <3>1. ASSUME ~repeated, NEW i \in DOMAIN a, NEW j \in DOMAIN a, a[i].id = a[j].id PROVE i = j
        <4>1. DOMAIN new = {1}
          BY <2>2
        <4>2. \A k \in DOMAIN a : (k \in DOMAIN screen /\ a[k] = screen[k]) \/ (k = m + 1 /\ a[k] = new[1])
          BY <1>5, <4>1
        <4>3. new[1].id = op.id /\ \A k \in DOMAIN screen : screen[k] \in Messages
          BY <1>1, <1>3
        <4>4. \A k \in DOMAIN screen : screen[k].id # op.id
          <5>1. \A k \in DOMAIN screen : screen[k].id \in Nat /\ op.id \in Nat
            BY <1>1, <4>3 DEF Messages, Operations
          <5> QED
            BY <1>1, <5>1
        <4> QED
          BY <1>1, <3>1, <4>2, <4>3, <4>4 DEF CopiesAreFaults
      <3> QED
        BY <1>1, <1>6, <2>2, <3>1 DEF CopiesAreFaults
    <2> QED
      BY <2>1, <2>2
  <1>10. StreamTypeOK'
    BY <1>1, <1>4, <1>6, <1>7, MovedTypes
  <1>11. Streams'
    BY DEF StreamInv, Streams, streamVars
  <1> QED
    BY <1>4, <1>7, <1>8, <1>9, <1>10, <1>11 DEF StreamInv

LEMMA SendKeeps == StreamInv /\ Send /\ UNCHANGED streamVars => StreamInv'
  <1> SUFFICES ASSUME StreamInv, Send, UNCHANGED streamVars PROVE StreamInv'
    OBVIOUS
  <1> DEFINE op == Head(outgoing)
  <1>1. /\ outgoing # <<>> /\ op.op = "send" /\ outgoing' = Tail(outgoing)
        /\ richOrder' = IF op.rich THEN rememberRich(richOrder, op.id) ELSE richOrder
        /\ UNCHANGED <<inbound, chatID, saved, givenUp, repeated, rebuilds>>
    BY DEF Send, delivered
  <1>2. PICK body \in bodies(op.text) :
           shown(op.rich, op.text, body) /\ screen' = Append(screen, message(op, body))
    BY DEF Send
  <1>3. op \in Operations /\ chatID \in Chats \cup {0} /\ screen \in Seq(Messages)
    BY <1>1, HeadSays DEF StreamInv, StreamTypeOK
  <1>4. op.rich \in BOOLEAN
    BY <1>3 DEF Operations
  <1>5. /\ UNCHANGED faults \/ fails
        /\ body.form \in IF op.rich THEN {"rich", "plain"} ELSE {"html"}
    BY <1>2, <1>4 DEF shown, asRich, asHTML, plainFallback
  <1> DEFINE x == message(op, body)
             new == <<x>>
  <1> HIDE DEF op
  <1>6. x \in Messages /\ itemOf(x) = itemOf(op) /\ x.form = body.form
    BY <1>2, <1>3, ShownIs
  <1>7. screen' = Append(screen, x)
    BY <1>2
  <1> HIDE DEF x
  <1>8. new \in Seq(Messages) /\ new # <<>> /\ Len(new) = 1 /\ DOMAIN new = {1} /\ new[1] = x
    BY <1>6
  <1>9. screen' = screen \o new
    BY <1>3, <1>6, <1>7
  <1>10. \A k \in DOMAIN new :
            itemOf(new[k]) = itemOf(op) /\ new[k].form \in IF op.rich THEN {"rich", "plain"} ELSE {"html"}
    BY <1>5, <1>6, <1>8
  <1> HIDE DEF new
  <1> QED
    BY <1>1, <1>5, <1>8, <1>9, <1>10, GainKeeps DEF op

LEMMA SendRepeatsKeeps == StreamInv /\ SendRepeats /\ UNCHANGED streamVars => StreamInv'
  <1> SUFFICES ASSUME StreamInv, SendRepeats, UNCHANGED streamVars PROVE StreamInv'
    OBVIOUS
  <1> DEFINE op == Head(outgoing)
             x == message(op, asRich(op.text))
             y == message(op, plainFallback(op.text))
             new == <<x, y>>
  <1>1. /\ outgoing # <<>> /\ op.op = "send" /\ outgoing' = Tail(outgoing) /\ op.rich /\ fails
        /\ richOrder' = rememberRich(richOrder, op.id) /\ repeated' = TRUE
        /\ UNCHANGED <<inbound, chatID, saved, givenUp, rebuilds>>
        /\ screen' = screen \o new
    BY DEF SendRepeats, delivered
  <1>2. op \in Operations /\ chatID \in Chats \cup {0}
    BY <1>1, HeadSays DEF StreamInv, StreamTypeOK
  <1> HIDE DEF op
  <1>3. asRich(op.text) \in bodies(op.text) /\ plainFallback(op.text) \in bodies(op.text)
    BY DEF bodies
  <1>4. /\ x \in Messages /\ itemOf(x) = itemOf(op) /\ x.form = "rich"
        /\ y \in Messages /\ itemOf(y) = itemOf(op) /\ y.form = "plain"
    <2>1. asRich(op.text).form = "rich" /\ plainFallback(op.text).form = "plain"
      BY DEF asRich, plainFallback
    <2> QED
      BY <1>2, <1>3, <2>1, ShownIs
  <1> HIDE DEF x, y
  <1>5. new \in Seq(Messages) /\ new # <<>> /\ DOMAIN new = {1, 2} /\ new[1] = x /\ new[2] = y
    BY <1>4
  <1>6. \A k \in DOMAIN new :
            itemOf(new[k]) = itemOf(op) /\ new[k].form \in IF op.rich THEN {"rich", "plain"} ELSE {"html"}
    BY <1>1, <1>4, <1>5
  <1> HIDE DEF new
  <1> QED
    BY <1>1, <1>5, <1>6, GainKeeps DEF op

(* The head of the outbox is gone and no message came. *)
LEMMA KeptForms ==
  ASSUME StreamInv, outgoing # <<>>, outgoing' = Tail(outgoing), UNCHANGED <<streamVars, richOrder, rebuilds>>,
         \A k \in DOMAIN screen' :
            \E j \in DOMAIN screen : screen'[k].id = screen[j].id /\ screen'[k].kind = screen[j].kind,
         FormIsKept'
  PROVE  Forms'
  <1>1. Forms /\ outgoing \in Seq(Operations)
    BY DEF StreamInv, StreamTypeOK
  <1>2. \A i \in DOMAIN outgoing' : i + 1 \in DOMAIN outgoing /\ outgoing'[i] = outgoing[i + 1]
    BY <1>1, RestIs
  <1>3. /\ tw' = tw /\ outcome' = outcome /\ nextID' = nextID /\ richOrder' = richOrder /\ rebuilds' = rebuilds
    BY DEF streamVars
  <1>5. (\A x \in ToSet(richOrder), i \in DOMAIN screen : screen[i].id = x => screen[i].kind = "reply")'
    BY <1>1, <1>3 DEF Forms
  <1>6. (\A x \in ToSet(richOrder), i \in DOMAIN outgoing : outgoing[i].id = x => outgoing[i].kind = "reply")'
    BY <1>1, <1>2, <1>3 DEF Forms
  <1>7. (\A i \in DOMAIN outgoing : outgoing[i].op = "send" => (outgoing[i].rich <=> outgoing[i].kind = "reply"))'
    BY <1>1, <1>2 DEF Forms
  <1>8. ASSUME rebuilds = 0, NEW i \in DOMAIN outgoing', outgoing'[i].op = "edit", outgoing'[i].kind = "reply"
        PROVE  Latest(richOrder', screen', outgoing'[i].id)
    <2>1. i + 1 \in DOMAIN outgoing /\ outgoing'[i] = outgoing[i + 1]
      BY <1>2
    <2> DEFINE x == outgoing[i + 1].id
    <2>2. Newest(x)
      BY <1>1, <1>8, <2>1 DEF Forms
    <2>4. outgoing'[i].id = x
      BY <2>1 DEF x
    <2> HIDE DEF x
    <2>5. Latest(richOrder', screen', x)
      BY <1>3, <2>2 DEF Newest, Latest
    <2> QED
      BY <2>4, <2>5
  <1>9. ASSUME rebuilds = 0, outcome = "running", ~tw.respSealed PROVE Latest(richOrder', screen', tw.respID)
    <2>1. Newest(tw.respID)
      BY <1>1, <1>9 DEF Forms
    <2> QED
      BY <1>3, <2>1 DEF Newest, Latest
  <1> QED
    BY <1>1, <1>3, <1>5, <1>6, <1>7, <1>8, <1>9 DEF Forms, Newest

LEMMA GivesUpKeeps == StreamInv /\ GivesUp /\ UNCHANGED streamVars => StreamInv'
  <1> SUFFICES ASSUME StreamInv, GivesUp, UNCHANGED streamVars PROVE StreamInv'
    OBVIOUS
  <1> DEFINE op == Head(outgoing)
  <1>1. /\ outgoing # <<>> /\ outgoing' = Tail(outgoing) /\ givenUp' = givenUp \cup {op.id}
        /\ UNCHANGED <<inbound, chatID, saved, richOrder, screen, repeated, rebuilds>>
        /\ UNCHANGED faults \/ fails
    BY DEF GivesUp, delivered
  <1>2. /\ op \in Operations /\ screen \in Seq(Messages) /\ givenUp \subseteq Nat /\ repeated \in BOOLEAN
        /\ richOrder \in Seq(Nat \ {0}) /\ Len(richOrder) <= RichMemory
        /\ CopiesAreFaults /\ Forms /\ Streams
    BY <1>1, HeadSays DEF StreamInv, StreamTypeOK
  <1>3. op.id \in Nat
    BY <1>2 DEF Operations
  <1>4. faults' \in Nat /\ (faults # 0 => faults' # 0)
    BY <1>1, FaultsGrow
  <1>5. StreamTypeOK'
    BY <1>1, <1>2, <1>3, <1>4, MovedTypes
  <1>6. /\ Line(now', nextID', faults', Len(said'), saidPieces')
        /\ SendsAreNew(now', Len(screen'), outgoing')
        /\ (outcome = "running" => Writes(now, tw, nextID, faults, Len(said), saidPieces))'
    <2>1. ASSUME NEW k \in DOMAIN screen', NEW l \in DOMAIN screen', k < l
          PROVE  Before(faults', itemOf(screen'[k]), itemOf(screen'[l]))
      BY <1>1, <1>2, <1>4, <2>1, ScreenPairs, BeforeStill
    <2>2. \A k \in DOMAIN screen' :
            \/ \E j \in DOMAIN screen : itemOf(screen'[k]) = itemOf(screen[j])
            \/ itemOf(screen'[k]) = itemOf(Head(outgoing))
      BY <1>1
    <2> QED
      BY <1>1, <1>2, <1>4, <2>1, <2>2, LineMoves
  <1>7. Forms'
    <2>1. FormIsKept'
      BY <1>1, <1>2 DEF Forms, FormIsKept
    <2> QED
      BY <1>1, <2>1, KeptForms
  <1>8. Whole'
    BY <1>1 DEF Whole
  <1>9. CopiesAreFaults' /\ Streams'
    BY <1>1, <1>2, <1>4 DEF CopiesAreFaults, Streams, streamVars
  <1> QED
    BY <1>5, <1>6, <1>7, <1>8, <1>9 DEF StreamInv

LEMMA LastIsIn ==
  ASSUME NEW S, NEW q \in Seq(S), q # <<>>
  PROVE  Last(q) \in ToSet(q)
  <1>1. Len(q) \in DOMAIN q
    OBVIOUS
  <1> QED
    BY <1>1, InToSet DEF Last

LEMMA EditKeeps == StreamInv /\ Edit /\ UNCHANGED streamVars => StreamInv'
  <1> SUFFICES ASSUME StreamInv, Edit, UNCHANGED streamVars PROVE StreamInv'
    OBVIOUS
  <1> DEFINE op == Head(outgoing)
             a == screen'
  <1>1. /\ outgoing # <<>> /\ outgoing' = Tail(outgoing) /\ op.op = "edit"
        /\ UNCHANGED <<inbound, chatID, saved, richOrder, givenUp, repeated, rebuilds>>
    BY DEF Edit, delivered
  <1>2. PICK i \in places(op.id), body \in bodies(op.text) :
           shown(isRich(op.id), op.text, body) /\ screen' = [screen EXCEPT ![i] = message(op, body)]
    BY DEF Edit
  <1>3. /\ screen \in Seq(Messages) /\ givenUp \subseteq Nat /\ repeated \in BOOLEAN
        /\ richOrder \in Seq(Nat \ {0}) /\ Len(richOrder) <= RichMemory
        /\ CopiesAreFaults /\ Forms /\ Streams /\ chatID \in Chats \cup {0} /\ faults \in Nat
    BY DEF StreamInv, StreamTypeOK
  <1>4. /\ op \in Operations /\ op = outgoing[1] /\ 1 \in DOMAIN outgoing
        /\ \A k \in DOMAIN screen : Before(faults, itemOf(screen[k]), itemOf(op))
    BY <1>1, HeadSays
  <1> HIDE DEF op
  <1>5. UNCHANGED faults \/ fails
    BY <1>2 DEF shown
  <1>6. faults' \in Nat /\ (faults # 0 => faults' # 0)
    BY <1>5, FaultsGrow
  <1> DEFINE x == message(op, body)
  <1>7. x \in Messages /\ x.id = op.id /\ x.kind = op.kind /\ x.text = op.text /\ x.form = body.form
        /\ itemOf(x) = itemOf(op)
    BY <1>2, <1>3, <1>4, ShownIs
  <1>8. a = [screen EXCEPT ![i] = x]
    BY <1>2
  <1> HIDE DEF x
  <1>9. /\ i \in DOMAIN screen /\ screen[i].id = op.id
        /\ \A j \in DOMAIN screen : screen[j].id = op.id => j <= i
    BY <1>2 DEF places
  <1>10. /\ a \in Seq(Messages) /\ DOMAIN a = DOMAIN screen /\ a[i] = x
         /\ \A k \in DOMAIN screen : k # i => a[k] = screen[k]
         /\ \A k \in DOMAIN screen : k \in Nat
    BY <1>3, <1>7, <1>8, <1>9
  <1> HIDE DEF a
  <1>11. \A k \in DOMAIN screen : screen[k] \in Messages
    BY <1>3
  <1>12. \A y : itemOf(y).id = y.id /\ itemOf(y).kind = y.kind /\ itemOf(y).text = y.text
    BY DEF itemOf
  (* The message edited is of the operation's kind and says less. *)
  <1>13. screen[i].kind = op.kind /\ piecesOf(screen[i].text) \subseteq piecesOf(op.text)
    BY <1>4, <1>9, <1>12 DEF Before, Alike
  (* What is below it is not related to it. *)
  <1>14. ASSUME NEW l \in DOMAIN screen, i < l PROVE Before(faults, itemOf(op), itemOf(screen[l]))
    <2> DEFINE y == itemOf(screen[l])
               z == itemOf(op)
               v == itemOf(screen[i])
    <2>1. /\ y.id \in Nat /\ z.id \in Nat /\ v.id = z.id /\ v.kind = z.kind /\ y.id # z.id
      <3>1. screen[l].id \in Nat /\ op.id \in Nat /\ screen[l].id # op.id
        BY <1>4, <1>9, <1>10, <1>11, <1>14 DEF Messages, Operations
      <3> QED
        BY <1>9, <1>12, <1>13, <3>1
    <2>2. Before(faults, y, z) /\ Before(faults, v, y)
      BY <1>4, <1>9, <1>14, ScreenPairs
    <2> HIDE DEF y, z, v
    <2>3. ~Related(faults, z, y)
      BY <2>1, <2>2 DEF Before, Related
    <2>4. Alike(z, y)
      BY <2>1 DEF Alike
    <2>5. Before(faults, z, y)
      BY <2>3, <2>4 DEF Before
    <2> QED
      BY <2>5 DEF y, z
  <1>15. ASSUME NEW k \in DOMAIN a, NEW l \in DOMAIN a, k < l
         PROVE  Before(faults', itemOf(a[k]), itemOf(a[l]))
    <2>1. Before(faults, itemOf(a[k]), itemOf(a[l]))
      <3>1. CASE k = i
        <4>1. a[l] = screen[l] /\ l # i /\ itemOf(a[k]) = itemOf(op)
          BY <1>7, <1>10, <1>15, <3>1
        <4> QED
          BY <1>10, <1>14, <1>15, <3>1, <4>1
      <3>2. CASE l = i
        <4>1. a[k] = screen[k] /\ itemOf(a[l]) = itemOf(op)
          BY <1>7, <1>10, <1>15, <3>2
        <4> QED
          BY <1>4, <1>10, <4>1
      <3>3. CASE k # i /\ l # i
        BY <1>10, <1>15, <3>3, ScreenPairs
      <3> QED
        BY <3>1, <3>2, <3>3
    <2> QED
      BY <1>6, <2>1, BeforeStill
  <1>16. ASSUME NEW k \in DOMAIN a
         PROVE  \/ \E j \in DOMAIN screen : itemOf(a[k]) = itemOf(screen[j])
                \/ itemOf(a[k]) = itemOf(op)
    BY <1>7, <1>10
  <1>17. /\ Line(now', nextID', faults', Len(said'), saidPieces')
         /\ SendsAreNew(now', Len(screen'), outgoing')
         /\ (outcome = "running" => Writes(now, tw, nextID, faults, Len(said), saidPieces))'
    BY <1>1, <1>6, <1>10, <1>15, <1>16, LineMoves DEF a, op
  <1>18. \A k \in DOMAIN a : a[k].id = screen[k].id /\ a[k].kind = screen[k].kind
    BY <1>7, <1>9, <1>10, <1>13
  <1>19. CopiesAreFaults' /\ Streams'
    <2>1. ASSUME ~repeated, NEW k \in DOMAIN a, NEW l \in DOMAIN a, a[k].id = a[l].id PROVE k = l
      BY <1>3, <1>10, <1>18, <2>1 DEF CopiesAreFaults
    <2> QED
      BY <1>1, <1>3, <1>6, <2>1 DEF CopiesAreFaults, Streams, streamVars, a
  <1>20. Whole'
    <2>1. ASSUME NEW j \in DOMAIN screen
          PROVE  \E k \in DOMAIN a :
                   a[k].kind = screen[j].kind /\ piecesOf(screen[j].text) \subseteq piecesOf(a[k].text)
      <3>1. j \in DOMAIN a /\ a[j].kind = screen[j].kind
        BY <1>10, <1>18
      <3>2. piecesOf(screen[j].text) \subseteq piecesOf(a[j].text)
        BY <1>7, <1>10, <1>13
      <3> QED
        BY <3>1, <3>2
    <2>2. \E k \in DOMAIN a : a[k].kind = op.kind /\ a[k].text = op.text
      BY <1>7, <1>9, <1>10
    <2> QED
      BY <1>1, <1>10, <2>1, <2>2, WholeMoves DEF a, op
  <1>21. Forms'
    <2>1. ASSUME rebuilds = 0
          PROVE  x.form \in IF op.kind = "reply" THEN {"rich", "plain"} ELSE {"html"}
      <3>1. CASE op.kind = "reply"
        <4>1. Newest(op.id)
          BY <1>1, <1>3, <1>4, <2>1, <3>1 DEF Forms
        <4>2. richOrder # <<>> /\ Last(richOrder) = op.id
          BY <1>9, <4>1 DEF Newest, Latest
        <4>3. op.id \in ToSet(richOrder)
          BY <1>3, <4>2, LastIsIn
        <4> QED
          BY <1>2, <1>7, <3>1, <4>3 DEF isRich, shown, asRich, plainFallback
      <3>2. CASE op.kind = "status"
        <4>1. op.id \notin ToSet(richOrder)
          BY <1>3, <1>4, <3>2 DEF Forms
        <4> QED
          BY <1>2, <1>7, <3>2, <4>1 DEF isRich, shown, asHTML
      <3> QED
        BY <1>4, <3>1, <3>2 DEF Operations
    <2>2. FormIsKept'
      <3> SUFFICES ASSUME rebuilds = 0, NEW k \in DOMAIN a
                   PROVE  a[k].form \in IF a[k].kind = "reply" THEN {"rich", "plain"} ELSE {"html"}
        BY <1>1 DEF FormIsKept, a
      <3>1. CASE k = i
        BY <1>7, <1>10, <2>1, <3>1
      <3>2. CASE k # i
        BY <1>3, <1>10, <3>2 DEF Forms, FormIsKept
      <3> QED
        BY <3>1, <3>2
    <2>3. \A k \in DOMAIN a :
            \E j \in DOMAIN screen : a[k].id = screen[j].id /\ a[k].kind = screen[j].kind
      BY <1>10, <1>18
    <2> QED
      BY <1>1, <2>2, <2>3, KeptForms DEF a
  <1>22. StreamTypeOK'
    BY <1>1, <1>3, <1>6, <1>10, MovedTypes DEF a
  <1> QED
    BY <1>17, <1>19, <1>20, <1>21, <1>22 DEF StreamInv

-----------------------------------------------------------------------------
(* The bot, its users and the router.                                      *)

Inbox(lis, tri, upd, hld, blk, hrd, btn, inc) ==
  /\ lis \in {"off", "registering", "on", "dead"} /\ tri \in 0 .. WebhookRetries
  /\ lis = "registering" => tri < WebhookRetries
  /\ upd \in Seq(Updates) /\ hld \in Updates /\ blk \in BOOLEAN /\ hrd \subseteq {"stop"}
  /\ btn \in {"none", "shown", "answered"} /\ inc \in Nat

LEMMA InboxTypes ==
  ASSUME StreamInv, UNCHANGED <<streamVars, outgoing, screen, givenUp, repeated>>,
         Inbox(listen', tries', updates', held', blocked', heard', buttons', incoming'),
         chatID' \in Chats \cup {0}, saved' \in Chats \cup {0}, {rebuilds', faults'} \subseteq Nat,
         richOrder' = richOrder \/ richOrder' = <<>>
  PROVE  StreamTypeOK'
  <1>1. StreamTypeOK
    BY DEF StreamInv
  <1>2. richOrder' \in Seq(Nat \ {0}) /\ Len(richOrder') <= RichMemory
    <2>1. <<>> \in Seq(Nat \ {0}) /\ Len(<<>>) = 0 /\ 0 <= RichMemory
      BY TelegramAssumption
    <2> QED
      BY <1>1, <2>1 DEF StreamTypeOK
  <1> QED
    BY <1>1, <1>2 DEF StreamTypeOK, Inbox, streamVars

LEMMA InboxKeeps ==
  ASSUME StreamInv, UNCHANGED <<streamVars, outbound, rebuilds>>, UNCHANGED faults \/ fails,
         Inbox(listen', tries', updates', held', blocked', heard', buttons', incoming'),
         chatID' \in Chats \cup {0}, saved' \in Chats \cup {0}
  PROVE  StreamInv'
  <1>1. UNCHANGED <<outgoing, screen, givenUp, repeated, richOrder>>
    BY DEF outbound
  <1>2. faults' \in Nat /\ (faults # 0 => faults' # 0)
    BY FaultsGrow
  <1>3. rebuilds' \in Nat
    BY DEF StreamInv, StreamTypeOK
  <1>4. StreamTypeOK'
    BY <1>1, <1>2, <1>3, InboxTypes
  <1> QED
    BY <1>1, <1>2, <1>4, UnshownKeeps

LEMMA UpdateIs ==
  ASSUME NEW u \in Updates
  PROVE  /\ u.kind \in Kinds \cup {"none", "file", "missing"} /\ u.chat \in Chats \cup {0}
         /\ downloadMedia(u) \subseteq Updates
  <1>1. u = [kind |-> u.kind, chat |-> u.chat] /\ u.kind \in Kinds \cup {"none", "file", "missing"}
        /\ u.chat \in Chats \cup {0}
    BY DEF Updates
  <1>2. /\ [u EXCEPT !.kind = "file"] \in Updates
        /\ [u EXCEPT !.kind = "missing"] \in Updates
    BY <1>1 DEF Updates
  <1> QED
    BY <1>1, <1>2 DEF downloadMedia

LEMMA InboundKeeps ==
  ASSUME StreamInv, Listens \/ PipelineBlocks \/ Users \/ SendPrompt, UNCHANGED streamVars
  PROVE  StreamInv'
  <1>1. /\ Inbox(listen, tries, updates, held, blocked, heard, buttons, incoming)
        /\ chatID \in Chats \cup {0} /\ saved \in Chats \cup {0} /\ 0 < WebhookRetries /\ WebhookRetries \in Nat
        /\ tries \in Nat /\ Chats \subseteq Nat
    BY TelegramAssumption DEF StreamInv, StreamTypeOK, Inbox
  <1>2. NoUpdate \in Updates /\ <<>> \in Seq(Updates)
    BY DEF NoUpdate, Updates
  <1>3. CASE BotStarts
    <2>1. Inbox(listen', tries', updates', held', blocked', heard', buttons', incoming')
      BY <1>1, <1>3 DEF BotStarts, Inbox
    <2>2. (UNCHANGED faults \/ fails) /\ UNCHANGED <<outbound, chatID, saved, rebuilds>>
      BY <1>3 DEF BotStarts
    <2> QED
      BY <1>1, <2>1, <2>2, InboxKeeps
  <1>4. CASE registerWebhook
    <2>1. (UNCHANGED faults \/ fails) /\ UNCHANGED <<outbound, chatID, saved, rebuilds>>
      BY <1>4 DEF registerWebhook
    <2>2. UNCHANGED <<held, blocked, heard, buttons, incoming>> /\ tries < WebhookRetries
      BY <1>1, <1>4 DEF registerWebhook, Inbox
    <2>3. /\ listen' \in {"registering", "on", "dead"} /\ updates' \in {updates, <<>>}
          /\ tries' \in {tries, tries + 1}
          /\ listen' = "registering" => tries' = tries + 1 /\ tries' # WebhookRetries
      BY <1>4 DEF registerWebhook
    <2>4. tries' \in 0 .. WebhookRetries /\ (listen' = "registering" => tries' < WebhookRetries)
      BY <1>1, <2>2, <2>3
    <2>5. Inbox(listen', tries', updates', held', blocked', heard', buttons', incoming')
      BY <1>1, <1>2, <2>2, <2>3, <2>4 DEF Inbox
    <2> QED
      BY <1>1, <2>1, <2>5, InboxKeeps
  <1>5. CASE Handles
    <2> DEFINE u == Head(updates)
    <2>1. /\ updates # <<>> /\ updates' = Tail(updates)
          /\ IF userAllowed(u) THEN held' \in downloadMedia(u) ELSE held' = NoUpdate
          /\ UNCHANGED <<listen, tries, blocked, heard, buttons, incoming, outbound, rebuilds>>
          /\ UNCHANGED faults \/ fails
          /\ chatID' \in {chatID, u.chat} /\ saved' \in {saved, u.chat}
      BY <1>5 DEF Handles
    <2>2. u \in Updates /\ Tail(updates) \in Seq(Updates)
      BY <1>1, <2>1 DEF Inbox
    <2> HIDE DEF u
    <2>3. held' \in Updates /\ u.chat \in Chats \cup {0}
      BY <1>2, <2>1, <2>2, UpdateIs
    <2>4. Inbox(listen', tries', updates', held', blocked', heard', buttons', incoming')
      BY <1>1, <2>1, <2>2, <2>3 DEF Inbox
    <2>5. chatID' \in Chats \cup {0} /\ saved' \in Chats \cup {0}
      BY <1>1, <2>1, <2>3
    <2> QED
      BY <2>1, <2>4, <2>5, InboxKeeps
  <1>6. CASE HandsOn
    <2>1. /\ heard' \subseteq {"stop"} /\ buttons' \in {"none", "shown", "answered"} /\ held' = NoUpdate
      BY <1>1, <1>6 DEF HandsOn, Inbox, buttonsAfter
    <2>2. Inbox(listen', tries', updates', held', blocked', heard', buttons', incoming')
      BY <1>1, <1>2, <1>6, <2>1 DEF HandsOn, Inbox
    <2>3. UNCHANGED <<outbound, chatID, saved, rebuilds, faults>>
      BY <1>6 DEF HandsOn
    <2> QED
      BY <1>1, <2>2, <2>3, InboxKeeps
  <1>7. CASE HandoffTimesOut
    <2>1. Inbox(listen', tries', updates', held', blocked', heard', buttons', incoming')
      BY <1>1, <1>2, <1>7 DEF HandoffTimesOut, Inbox
    <2>2. UNCHANGED <<outbound, chatID, saved, rebuilds, faults>>
      BY <1>7 DEF HandoffTimesOut
    <2> QED
      BY <1>1, <2>1, <2>2, InboxKeeps
  <1>8. CASE PipelineBlocks
    <2>1. Inbox(listen', tries', updates', held', blocked', heard', buttons', incoming')
      BY <1>1, <1>8 DEF PipelineBlocks, Inbox
    <2>2. UNCHANGED <<outbound, chatID, saved, rebuilds, faults>>
      BY <1>8 DEF PipelineBlocks
    <2> QED
      BY <1>1, <2>1, <2>2, InboxKeeps
  <1>9. ASSUME NEW kind \in Kinds, NEW c \in Chats, UserSends(kind, c) PROVE StreamInv'
    <2>1. [kind |-> kind, chat |-> c] \in Updates
      BY DEF Updates
    <2>2. updates' \in Seq(Updates) /\ incoming' \in Nat
      BY <1>1, <1>9, <2>1 DEF UserSends, Inbox
    <2>3. Inbox(listen', tries', updates', held', blocked', heard', buttons', incoming')
      BY <1>1, <1>9, <2>2 DEF UserSends, Inbox
    <2>4. UNCHANGED <<outbound, chatID, saved, rebuilds, faults>>
      BY <1>9 DEF UserSends
    <2> QED
      BY <1>1, <2>3, <2>4, InboxKeeps
  <1>10. CASE SendPrompt
    <2>1. Inbox(listen', tries', updates', held', blocked', heard', buttons', incoming')
      BY <1>1, <1>10 DEF SendPrompt, Inbox
    <2>2. UNCHANGED <<outbound, chatID, saved, rebuilds, faults>>
      BY <1>10 DEF SendPrompt
    <2> QED
      BY <1>1, <2>1, <2>2, InboxKeeps
  <1> QED
    BY <1>3, <1>4, <1>5, <1>6, <1>7, <1>8, <1>9, <1>10 DEF Listens, Users

LEMMA BuildKeeps == StreamInv /\ Build /\ UNCHANGED streamVars /\ outcome # "running" => StreamInv'
  <1> SUFFICES ASSUME StreamInv, Build, UNCHANGED streamVars, outcome # "running" PROVE StreamInv'
    OBVIOUS
  <1>1. /\ Inbox(listen, tries, updates, held, blocked, heard, buttons, incoming)
        /\ saved \in Chats \cup {0} /\ rebuilds \in Nat /\ faults \in Nat
    BY DEF StreamInv, StreamTypeOK, Inbox
  <1>2. NoUpdate \in Updates
    BY DEF NoUpdate, Updates
  <1>3. Inbox(listen', tries', updates', held', blocked', heard', buttons', incoming')
    BY <1>1, <1>2 DEF Build, Inbox
  <1>4. /\ UNCHANGED <<outgoing, screen, givenUp, repeated, saved, faults>> /\ chatID' = saved
        /\ richOrder' = <<>> /\ rebuilds' = rebuilds + 1
    BY DEF Build
  <1>5. StreamTypeOK'
    BY <1>1, <1>3, <1>4, InboxTypes
  <1>6. rebuilds' # 0
    BY <1>1, <1>4
  <1> QED
    BY <1>4, <1>5, <1>6, UnshownKeeps

-----------------------------------------------------------------------------
LEMMA StreamStarts == StreamInit => StreamInv
  <1> SUFFICES ASSUME StreamInit PROVE StreamInv
    OBVIOUS
  <1>1. /\ screen = <<>> /\ outgoing = <<>> /\ richOrder = <<>> /\ said = <<>> /\ unseen = {} /\ nextID = 1
        /\ faults = 0 /\ ~repeated /\ outcome = "running" /\ cli = "none"
    BY DEF StreamInit, TelegramInit
  <1>2. PICK d \in BOOLEAN : tw = newTurnWriter(d)
    BY DEF StreamInit
  <1>3. /\ <<>> \in PieceTexts /\ piecesOf(<<>>) = {} /\ rises(<<>>)
    BY PiecesShort
  <1>4. /\ tw.statusID = 0 /\ tw.statusBuf = <<>> /\ tw.statusSealed = FALSE /\ tw.respID = 0
        /\ tw.respBuf = <<>> /\ tw.respSealed = FALSE /\ tw.drafting = FALSE /\ tw \in TurnWriters
    BY <1>2, <1>3 DEF newTurnWriter, TurnWriters
  <1>5. StreamTypeOK
    <2>1. NoUpdate \in Updates /\ <<>> \in Seq(Updates)
      BY DEF NoUpdate, Updates
    <2>2. /\ <<>> \in Seq(Nat \ {0}) /\ Len(<<>>) = 0 /\ 0 <= RichMemory /\ 0 \in 0 .. WebhookRetries
          /\ <<>> \in Seq(Operations) /\ <<>> \in Seq(Messages) /\ <<>> \in Seq({"reply", "status"})
      BY TelegramAssumption
    <2>3. /\ listen = "on" /\ tries = 0 /\ updates = <<>> /\ held = NoUpdate /\ blocked = FALSE /\ heard = {}
          /\ buttons = "none" /\ givenUp = {} /\ repeated = FALSE /\ rebuilds = 0 /\ incoming = 0 /\ breaks = 0
          /\ streaming = FALSE /\ hadText = FALSE /\ stopped = FALSE
          /\ chatID \in Chats \cup {0} /\ saved \in Chats \cup {0}
      BY DEF StreamInit, TelegramInit
    <2>4. {incoming, rebuilds, faults, breaks} \subseteq Nat
      BY <1>1, <2>3
    <2>5. {streaming, hadText, stopped} \subseteq BOOLEAN /\ blocked \in BOOLEAN /\ repeated \in BOOLEAN
      BY <2>3, Zenon
    <2>6. /\ heard \subseteq {"stop"} /\ givenUp \subseteq Nat /\ unseen \subseteq DOMAIN said
      BY <1>1, <2>3
    <2>7. listen # "registering" /\ listen \in {"off", "registering", "on", "dead"} /\ nextID \in Nat \ {0}
          /\ buttons \in {"none", "shown", "answered"} /\ tries \in 0 .. WebhookRetries
      BY <1>1, <2>2, <2>3
    <2>8. /\ updates \in Seq(Updates) /\ richOrder \in Seq(Nat \ {0}) /\ Len(richOrder) <= RichMemory
          /\ outgoing \in Seq(Operations) /\ screen \in Seq(Messages) /\ said \in Seq({"reply", "status"})
      BY <1>1, <2>1, <2>2, <2>3
    <2>9. held \in Updates /\ chatID \in Chats \cup {0} /\ saved \in Chats \cup {0}
      BY <2>1, <2>3
    <2> QED
      BY <1>1, <1>4, <2>4, <2>5, <2>6, <2>7, <2>8, <2>9 DEF StreamTypeOK
  <1>6. now \in Seq(Items) /\ DOMAIN now = {} /\ saidPieces = {} /\ Len(said) = 0 /\ ToSet(richOrder) = {}
        /\ DOMAIN screen = {} /\ DOMAIN outgoing = {}
    <2>1. DOMAIN now = 1 .. Len(screen) + Len(outgoing) /\ Len(screen) = 0 /\ Len(outgoing) = 0
          /\ now \in Seq(Items)
      BY <1>1, <1>5, ItemsAre DEF now, StreamTypeOK
    <2>2. DOMAIN now = {}
      BY <2>1
    <2> QED
      BY <1>1, <2>1, <2>2, ToSetEmpty DEF saidPieces
  <1>7. Line(now, nextID, faults, Len(said), saidPieces) /\ SendsAreNew(now, Len(screen), outgoing)
    BY <1>6 DEF Line, SendsAreNew
  <1>8. CopiesAreFaults /\ Streams
    BY <1>1, <1>6 DEF CopiesAreFaults, Streams
  <1>9. Writes(now, tw, nextID, faults, Len(said), saidPieces)
    <2>1. \A x : Holds(x, Len(said), saidPieces) => Tops(now, faults, Len(said), saidPieces, x)
      BY <1>6 DEF Tops
    <2>2. openReply(tw, nextID).text = <<>> /\ openStatus(tw, nextID).text = <<>>
      BY <1>4 DEF openReply, openStatus
    <2>3. /\ Holds(openReply(tw, nextID), Len(said), saidPieces)
          /\ Holds(openStatus(tw, nextID), Len(said), saidPieces)
      BY <1>3, <2>2 DEF Holds
    <2>4. 0 < nextID
      BY <1>1
    <2> QED
      BY <1>3, <1>4, <2>1, <2>3, <2>4 DEF Writes, blank
  <1>10. Whole
    BY <1>6 DEF Whole
  <1>11. Forms
    BY <1>6 DEF Forms, Newest, Latest, FormIsKept
  <1> QED
    BY <1>5, <1>7, <1>8, <1>9, <1>10, <1>11 DEF StreamInv

LEMMA StreamStep == StreamInv /\ [StreamNext]_outputVars => StreamInv'
  <1> SUFFICES ASSUME StreamInv, [StreamNext]_outputVars PROVE StreamInv'
    OBVIOUS
  <1>1. CASE Reads
    BY <1>1, ReadsKeep
  <1>2. CASE (Listens \/ PipelineBlocks \/ Users \/ SendPrompt) /\ UNCHANGED streamVars
    BY <1>2, InboundKeeps
  <1>3. CASE Shows /\ UNCHANGED streamVars
    BY <1>3, SendKeeps, SendRepeatsKeeps, EditKeeps, GivesUpKeeps DEF Shows
  <1>4. CASE outcome # "running" /\ Build /\ UNCHANGED streamVars
    BY <1>4, BuildKeeps
  <1>5. CASE UNCHANGED outputVars
    <2>1. UNCHANGED <<streamVars, inbound, outbound, chatID, saved, rebuilds, faults>>
      BY <1>5 DEF outputVars, telegramVars
    <2>2. Inbox(listen, tries, updates, held, blocked, heard, buttons, incoming)
          /\ chatID \in Chats \cup {0} /\ saved \in Chats \cup {0}
      BY DEF StreamInv, StreamTypeOK, Inbox
    <2>3. Inbox(listen', tries', updates', held', blocked', heard', buttons', incoming')
      BY <2>1, <2>2 DEF inbound
    <2> QED
      BY <2>1, <2>2, <2>3, InboxKeeps
  <1> QED
    BY <1>1, <1>2, <1>3, <1>4, <1>5 DEF StreamNext

LEMMA StreamInvariant == StreamSpec => []StreamInv
  <1> QED
    BY StreamStarts, StreamStep, PTL DEF StreamSpec

(* The chat shows what was said in the order it was said, as long as no    *)
(* call failed, and each message in the form the transport sent it in.     *)
LEMMA FaithfulHolds == StreamInv => ChatIsFaithful
  <1> SUFFICES ASSUME StreamInv PROVE ChatIsFaithful
    OBVIOUS
  <1>1. ASSUME faults = 0, NEW i \in DOMAIN screen, NEW j \in DOMAIN screen, i < j
        PROVE  precedes(screen[i].text, screen[j].text)
    <2>1. Before(faults, itemOf(screen[i]), itemOf(screen[j]))
      BY <1>1, ScreenPairs
    <2>2. screen[i].id # screen[j].id
      <3>1. ~repeated /\ i # j
        BY <1>1 DEF StreamInv, StreamTypeOK, CopiesAreFaults
      <3> QED
        BY <3>1 DEF StreamInv, CopiesAreFaults
    <2> QED
      BY <1>1, <2>1, <2>2 DEF Before, Related, itemOf
  <1> QED
    BY <1>1 DEF StreamInv, Forms, ChatIsFaithful, ChatReadsInOrder

LEMMA WholeHolds == StreamInv => ReplyIsWhole
  <1> SUFFICES ASSUME StreamInv, settled, givenUp = {}, ~repeated
               PROVE  /\ shownPieces \in {saidPieces} \cup (IF outcome = "failed" THEN {saidPieces \ {Len(said)}} ELSE {})
                      /\ \A i \in replies : rises(screen[i].text)
                      /\ \A i, j \in replies : i < j => precedes(screen[i].text, screen[j].text)
    BY DEF ReplyIsWhole
  <1>1. /\ screen \in Seq(Messages) /\ outgoing = <<>> /\ outgoing \in Seq(Operations)
        /\ outcome \in {"done", "failed"}
    BY DEF StreamInv, StreamTypeOK, settled
  <1>2. DOMAIN now = DOMAIN screen /\ \A k \in DOMAIN screen : now[k] = itemOf(screen[k])
    <2>1. /\ DOMAIN now = 1 .. Len(screen) + Len(outgoing) /\ DOMAIN screen = 1 .. Len(screen)
          /\ Len(screen) \in Nat /\ \A k \in DOMAIN screen : now[k] = itemOf(screen[k])
      BY <1>1, ItemsAre DEF now
    <2>2. Len(outgoing) = 0
      BY <1>1
    <2> QED
      BY <2>1, <2>2
  <1>3. \A x : itemOf(x).id = x.id /\ itemOf(x).kind = x.kind /\ itemOf(x).text = x.text
    BY DEF itemOf
  <1>4. \A k \in DOMAIN screen : Holds(itemOf(screen[k]), Len(said), saidPieces)
    BY <1>2 DEF StreamInv, Line
  <1>5. \A p : p \in shownPieces <=> \E k \in DOMAIN screen : screen[k].kind = "reply" /\ p \in piecesOf(screen[k].text)
    BY DEF shownPieces, replies
  <1>6. \A p : p \in repliesIn(now) <=> \E k \in DOMAIN now : now[k].kind = "reply" /\ p \in piecesOf(now[k].text)
    BY DEF repliesIn
  <1>7. \A p : p \in repliesIn(now) => p \in shownPieces
    BY <1>2, <1>3, <1>5, <1>6
  <1>8. shownPieces \subseteq saidPieces
    BY <1>3, <1>4, <1>5 DEF Holds
  <1>9. saidPieces \subseteq repliesIn(now) \cup (IF outcome = "done" THEN {} ELSE {Len(said)})
    BY <1>1 DEF StreamInv, Whole
  <1>10. shownPieces \in {saidPieces} \cup (IF outcome = "failed" THEN {saidPieces \ {Len(said)}} ELSE {})
    <2>1. CASE outcome = "done"
      <3>1. shownPieces = saidPieces
        BY <1>7, <1>8, <1>9, <2>1
      <3> QED
        BY <3>1
    <2>2. CASE outcome = "failed"
      <3>1. shownPieces = saidPieces \/ shownPieces = saidPieces \ {Len(said)}
        BY <1>7, <1>8, <1>9, <2>2
      <3> QED
        BY <2>2, <3>1
    <2> QED
      BY <1>1, <2>1, <2>2
  <1>11. \A i \in replies : rises(screen[i].text)
    BY <1>3, <1>4 DEF replies, Holds
  <1>12. ASSUME NEW i \in replies, NEW j \in replies, i < j PROVE precedes(screen[i].text, screen[j].text)
    <2>1. /\ i \in DOMAIN screen /\ j \in DOMAIN screen /\ screen[i].kind = "reply" /\ screen[j].kind = "reply"
          /\ i # j
      BY <1>1, <1>12 DEF replies
    <2>2. Before(faults, itemOf(screen[i]), itemOf(screen[j]))
      BY <1>12, <2>1, ScreenPairs
    <2>3. screen[i].id # screen[j].id
      BY <2>1 DEF StreamInv, CopiesAreFaults
    <2> QED
      BY <1>3, <2>1, <2>2, <2>3 DEF Before, Related
  <1> QED
    BY <1>10, <1>11, <1>12

(* The reply reaches the user whole: whatever the limits of a message, the *)
(* length of the turn and the order of the writer's and the transport's    *)
(* steps, once the turn is over and its outbox empty the reply messages of *)
(* the chat hold each piece of the reply once and in order, with the       *)
(* exceptions ReplyIsWhole names.                                          *)
THEOREM ReplyArrivesWhole == StreamSpec => []ReplyIsWhole
  <1> QED
    BY StreamInvariant, WholeHolds, PTL

(* While no call fails the chat reads in the order things were said, and   *)
(* each message keeps the form it was sent in, though the transport        *)
(* forgets all but the last few ids.                                       *)
THEOREM ChatStaysFaithful == StreamSpec => []ChatIsFaithful
  <1> QED
    BY StreamInvariant, FaithfulHolds, PTL

-----------------------------------------------------------------------------
(* The turn.                                                               *)

USE TurnsAssumption

-----------------------------------------------------------------------------
(* Types. *)

(* A browser sign-in has a process, running or over. *)
Waiting == \A c \in Channels :
    flow[c].kind = "auth" /\ flow[c].st = "oauth" => proc[flow[c].id].st # "none"

FlowTypes ==
    /\ flow \in [Channels -> Auth \cup Approval \cup {NoFlow}]
    /\ open \in [Channels -> BOOLEAN]
    /\ proc \in [Flows -> Process \cup {NoProcess}]
    /\ opened \in 0..MaxFlows
    /\ asked \in [Flows -> 0..MaxMessages]
    /\ Waiting

Typing == TypeOK /\ FlowTypes /\ IsFiniteSet(revoked) /\ (turn.on => alive)

LEMMA MessageIs ==
    ASSUME NEW m \in Message
    PROVE  /\ m.id \in Ids /\ m.ch \in Channels /\ m.user \in BOOLEAN /\ m.text \in Texts
           /\ m.prompt \in 0..MaxFlows /\ m # NoMessage
<1>1. m.id \in Ids /\ m.ch \in Channels /\ m.user \in BOOLEAN /\ m.text \in Texts
      /\ m.prompt \in 0..MaxFlows
  BY DEF Message
<1>2. NoMessage.id = 0 /\ 0 \notin Ids
  BY DEF NoMessage, Ids
<1> QED BY <1>1, <1>2

(* What is open on a channel: an authentication, an approval, or nothing. *)
LEMMA FlowIs ==
    ASSUME FlowTypes, NEW c \in Channels
    PROVE  /\ flow[c].kind = "auth" => flow[c] \in Auth
           /\ flow[c].kind = "approval" => flow[c] \in Approval
           /\ flow[c] = NoFlow \/ flow[c].kind \in {"auth", "approval"}
           /\ NoFlow.kind = "none"
BY DEF FlowTypes, Auth, Approval, NoFlow

LEMMA AuthIs ==
    ASSUME NEW f \in Auth
    PROVE  /\ f.kind = "auth" /\ f.st \in {"choosing", "key", "oauth", "deploy"} /\ f.id \in Flows
           /\ f.orig \in Message \cup {NoMessage} /\ f.orig.id \in 0..MaxMessages
           /\ \A st \in {"choosing", "key", "oauth", "deploy"} :
                /\ [f EXCEPT !.st = st] \in Auth
                /\ [f EXCEPT !.st = st].st = st
                /\ [f EXCEPT !.st = st].id = f.id
                /\ [f EXCEPT !.st = st].kind = "auth"
                /\ [f EXCEPT !.st = st].orig = f.orig
<1>1. f.orig \in Message \cup {NoMessage}
  BY DEF Auth
<1>2. f.orig.id \in 0..MaxMessages
  BY <1>1, MessageIs DEF NoMessage, Ids
<1> QED BY <1>1, <1>2 DEF Auth

LEMMA ApprovalIs ==
    ASSUME NEW f \in Approval
    PROVE  /\ f.kind = "approval" /\ f.id \in Flows /\ f.sess \in Nat
           /\ f.orig \in Message /\ f.orig.id \in 0..MaxMessages
BY MessageIs DEF Approval, Ids

LEMMA WaitingIs ==
    ASSUME FlowTypes, NEW c \in Channels, flow[c].kind = "auth", flow[c].st = "oauth"
    PROVE  flow[c] \in Auth /\ flow[c].id \in Flows /\ proc[flow[c].id] \in Process
<1>1. flow[c] \in Auth
  BY FlowIs
<1>2. flow[c].id \in Flows
  BY <1>1, AuthIs
<1>3. proc[flow[c].id].st # "none"
  BY DEF FlowTypes, Waiting
<1>4. proc[flow[c].id] \in Process \cup {NoProcess}
  BY <1>2 DEF FlowTypes
<1> QED BY <1>1, <1>2, <1>3, <1>4 DEF NoProcess

LEMMA ProcessIs ==
    ASSUME NEW p \in Process
    PROVE  p.st \in {"running", "sent"} /\ p.st # "none" /\ p # NoProcess
           /\ p.ch \in Channels /\ p.cancelled \in BOOLEAN
<1>1. p.st \in {"running", "sent"} /\ p.ch \in Channels /\ p.cancelled \in BOOLEAN
  BY DEF Process
<1>2. NoProcess.st = "none"
  BY DEF NoProcess
<1> QED BY <1>1, <1>2

(* How an open flow can change. *)
LEMMA CompleteTyped ==
    ASSUME FlowTypes, NEW c \in Channels, Complete(c)
    PROVE  /\ FlowTypes'
           /\ flow' = [d \in Channels |-> IF d = c THEN NoFlow ELSE flow[d]]
           /\ UNCHANGED <<opened, asked, proc>>
<1>1. flow' = [d \in Channels |-> IF d = c THEN NoFlow ELSE flow[d]]
  BY DEF Complete, FlowTypes
<1>2. flow' \in [Channels -> Auth \cup Approval \cup {NoFlow}]
  BY <1>1 DEF FlowTypes
<1>3. open' \in [Channels -> BOOLEAN]
  BY DEF Complete, mirror, FlowTypes
<1>4. Waiting'
  BY <1>1 DEF Complete, Waiting, FlowTypes, NoFlow
<1> QED BY <1>1, <1>2, <1>3, <1>4 DEF Complete, FlowTypes

(* The processes when a channel's flow is dropped: the one it waits for,   *)
(* if any, is told to stop.                                                *)
LEMMA CancelledIs ==
    ASSUME FlowTypes, NEW c \in Channels
    PROVE  /\ cancelled(c) \in [Flows -> Process \cup {NoProcess}]
           /\ \A f \in Flows :
                /\ cancelled(c)[f].st = proc[f].st
                /\ proc[f] \in Process => cancelled(c)[f].ch = proc[f].ch
                /\ proc[f].cancelled => cancelled(c)[f].cancelled
                /\ proc[f] = NoProcess => cancelled(c)[f] = NoProcess
                /\ flow[c].kind = "auth" /\ flow[c].st = "oauth" /\ flow[c].id = f
                     => cancelled(c)[f].cancelled
<1>0. proc \in [Flows -> Process \cup {NoProcess}]
  BY DEF FlowTypes
<1>1. CASE flow[c].kind = "auth" /\ flow[c].st = "oauth"
  <2> DEFINE g == flow[c].id
  <2>1. g \in Flows
    BY <1>1, WaitingIs
  <2>2. proc[g] \in Process
    BY <1>1, WaitingIs
  <2>3. [proc[g] EXCEPT !.cancelled = TRUE] \in Process
        /\ [proc[g] EXCEPT !.cancelled = TRUE].st = proc[g].st
        /\ [proc[g] EXCEPT !.cancelled = TRUE].ch = proc[g].ch
        /\ [proc[g] EXCEPT !.cancelled = TRUE].cancelled
    BY <2>2 DEF Process
  <2>4. cancelled(c) = [f \in Flows |-> IF f = g THEN [proc[g] EXCEPT !.cancelled = TRUE]
                                        ELSE proc[f]]
    BY <1>0, <1>1 DEF cancelled
  <2>5. proc[g] # NoProcess
    BY <2>2, ProcessIs
  <2> HIDE DEF g
  <2>6. \A f \in Flows : cancelled(c)[f] = IF f = g THEN [proc[g] EXCEPT !.cancelled = TRUE]
                                           ELSE proc[f]
    BY <2>4
  <2>7. cancelled(c) \in [Flows -> Process \cup {NoProcess}]
    BY <1>0, <2>3, <2>4
  <2> QED BY <2>3, <2>5, <2>6, <2>7 DEF g
<1>2. CASE ~(flow[c].kind = "auth" /\ flow[c].st = "oauth")
  BY <1>0, <1>2 DEF cancelled
<1> QED BY <1>1, <1>2

LEMMA CancelTyped ==
    ASSUME FlowTypes, NEW c \in Channels, Cancel(c)
    PROVE  /\ FlowTypes'
           /\ flow' = [d \in Channels |-> IF d = c THEN NoFlow ELSE flow[d]]
           /\ UNCHANGED <<opened, asked>> /\ proc' = cancelled(c)
<1>1. flow' = [d \in Channels |-> IF d = c THEN NoFlow ELSE flow[d]]
  BY DEF Cancel, FlowTypes
<1>2. flow' \in [Channels -> Auth \cup Approval \cup {NoFlow}]
  BY <1>1 DEF FlowTypes
<1>3. open' \in [Channels -> BOOLEAN]
  BY DEF Cancel, mirror, FlowTypes
<1>4. proc' = cancelled(c) /\ UNCHANGED <<opened, asked>>
  BY DEF Cancel
<1>5. Waiting'
  <2> SUFFICES ASSUME NEW d \in Channels, flow'[d].kind = "auth", flow'[d].st = "oauth"
               PROVE  proc'[flow'[d].id].st # "none"
    BY DEF Waiting
  <2>1. flow'[d] = flow[d]
    BY <1>1 DEF NoFlow
  <2>2. flow[d].id \in Flows /\ proc[flow[d].id].st # "none"
    BY <2>1, WaitingIs, ProcessIs
  <2> QED BY <1>4, <2>1, <2>2, CancelledIs
<1> QED BY <1>1, <1>2, <1>3, <1>4, <1>5, CancelledIs DEF FlowTypes

LEMMA StartTyped ==
    ASSUME FlowTypes, NEW c \in Channels, NEW f \in Auth \cup Approval, f.kind = "auth" => f.st # "oauth",
           start(c, f)
    PROVE  /\ FlowTypes' /\ opened < MaxFlows /\ opened' = opened + 1 /\ opened + 1 \in Flows
           /\ flow' = [d \in Channels |-> IF d = c THEN f ELSE flow[d]]
           /\ asked' = [g \in Flows |-> IF g = opened + 1 THEN f.orig.id ELSE asked[g]]
           /\ proc' = cancelled(c)
<1>0. opened < MaxFlows /\ opened' = opened + 1 /\ opened + 1 \in Flows
  BY DEF start, FlowTypes, Flows
<1>1. flow' = [d \in Channels |-> IF d = c THEN f ELSE flow[d]]
  BY DEF start, FlowTypes
<1>2. flow' \in [Channels -> Auth \cup Approval \cup {NoFlow}]
  BY <1>1 DEF FlowTypes
<1>3. open' \in [Channels -> BOOLEAN]
  BY DEF start, FlowTypes
<1>4. proc' = cancelled(c)
  BY DEF start
<1>5. Waiting'
  <2> SUFFICES ASSUME NEW d \in Channels, flow'[d].kind = "auth", flow'[d].st = "oauth"
               PROVE  proc'[flow'[d].id].st # "none"
    BY DEF Waiting
  <2>1. flow'[d] = flow[d]
    BY <1>1
  <2>2. flow[d].id \in Flows /\ proc[flow[d].id].st # "none"
    BY <2>1, WaitingIs, ProcessIs
  <2> QED BY <1>4, <2>1, <2>2, CancelledIs
<1>6. f.orig.id \in 0..MaxMessages
  BY AuthIs, ApprovalIs
<1>7. asked' = [g \in Flows |-> IF g = opened + 1 THEN f.orig.id ELSE asked[g]]
  BY DEF start, FlowTypes
<1>8. asked' \in [Flows -> 0..MaxMessages]
  BY <1>6, <1>7 DEF FlowTypes
<1>9. opened' \in 0..MaxFlows
  BY <1>0 DEF FlowTypes
<1> QED BY <1>0, <1>1, <1>2, <1>3, <1>4, <1>5, <1>7, <1>8, <1>9, CancelledIs DEF FlowTypes

(* The flow a sign-in or an approval opens. *)
LEMMA NewAuthIs ==
    ASSUME FlowTypes, opened < MaxFlows, NEW m \in Message \cup {NoMessage}
    PROVE  /\ newAuth(m) \in Auth /\ newAuth(m).st # "oauth" /\ newAuth(m).id = opened + 1
           /\ newAuth(m).orig = m /\ newAuth(m).kind = "auth"
BY DEF newAuth, Auth, FlowTypes, Flows

LEMMA NewApprovalIs ==
    ASSUME FlowTypes, opened < MaxFlows, NEW m \in Message, NEW s \in Nat
    PROVE  /\ newApproval(m, s) \in Approval /\ newApproval(m, s).id = opened + 1
           /\ newApproval(m, s).orig = m /\ newApproval(m, s).kind = "approval"
BY DEF newApproval, Approval, FlowTypes, Flows

LEMMA EntersTyped ==
    ASSUME FlowTypes, NEW c \in Channels, NEW st \in {"key", "oauth", "deploy"},
           flow[c].kind = "auth", enters(c, st),
           (st # "oauth" /\ proc' = proc) \/ (st = "oauth" /\ startSetupToken(c))
    PROVE  /\ FlowTypes' /\ UNCHANGED <<opened, asked>>
           /\ flow' = [d \in Channels |-> IF d = c THEN [flow[c] EXCEPT !.st = st] ELSE flow[d]]
           /\ st = "oauth" => proc' = [f \in Flows |->
                IF f = flow[c].id
                THEN [st |-> "running", told |-> FALSE, ok |-> FALSE, cancelled |-> FALSE, ch |-> c]
                ELSE proc[f]]
<1>0. flow[c] \in Auth /\ flow[c].id \in Flows
  <2>1. flow[c] \in Auth
    BY FlowIs
  <2> QED BY <2>1, AuthIs
<1>1. flow' = [d \in Channels |-> IF d = c THEN [flow[c] EXCEPT !.st = st] ELSE flow[d]]
  BY DEF enters, FlowTypes
<1> DEFINE f1 == [flow[c] EXCEPT !.st = st]
<1>2. f1 \in Auth /\ f1.st = st /\ f1.id = flow[c].id /\ f1.kind = "auth"
  BY <1>0 DEF Auth
<1> HIDE DEF f1
<1>3. flow' = [d \in Channels |-> IF d = c THEN f1 ELSE flow[d]]
  BY <1>1 DEF f1
<1>4. flow' \in [Channels -> Auth \cup Approval \cup {NoFlow}]
  BY <1>2, <1>3 DEF FlowTypes
<1>5. st = "oauth" => proc' = [f \in Flows |->
          IF f = flow[c].id
          THEN [st |-> "running", told |-> FALSE, ok |-> FALSE, cancelled |-> FALSE, ch |-> c]
          ELSE proc[f]]
  BY DEF startSetupToken, FlowTypes
<1>6. [st |-> "running", told |-> FALSE, ok |-> FALSE, cancelled |-> FALSE, ch |-> c] \in Process
  BY DEF Process
<1>7. proc' \in [Flows -> Process \cup {NoProcess}]
  BY <1>5, <1>6 DEF FlowTypes
<1>8. Waiting'
  <2> SUFFICES ASSUME NEW d \in Channels, flow'[d].kind = "auth", flow'[d].st = "oauth"
               PROVE  proc'[flow'[d].id].st # "none"
    BY DEF Waiting
  <2>1. CASE d = c
    <3>1. flow'[d] = f1 /\ st = "oauth"
      BY <1>2, <1>3, <2>1
    <3> QED BY <1>0, <1>2, <1>5, <3>1
  <2>2. CASE d # c
    <3>1. flow'[d] = flow[d]
      BY <1>3, <2>2
    <3>2. flow[d].id \in Flows /\ proc[flow[d].id].st # "none"
      BY <3>1, WaitingIs, ProcessIs
    <3> QED BY <1>5, <3>1, <3>2
  <2> QED BY <2>1, <2>2
<1> QED BY <1>1, <1>4, <1>5, <1>7, <1>8 DEF enters, FlowTypes

(* What an answer does to the sign-in that is open on c, in one of five    *)
(* ways; unless it is kept, no process of it runs.                         *)
over(c) == flow[c].st = "oauth" => proc[flow[c].id].st # "running"

Outcome(c, rest) ==
    \/ queue' = rest /\ UNCHANGED <<flowVars, proc, answered>>
    \/ over(c) /\ queue' = rest /\ Complete(c) /\ UNCHANGED answered
    \/ over(c) /\ retries(c, rest)
    \/ /\ flow[c].st = "choosing" /\ enters(c, "oauth") /\ startSetupToken(c)
       /\ queue' = rest /\ UNCHANGED answered
    \/ /\ over(c) /\ \E st \in {"key", "deploy"} : enters(c, st)
       /\ queue' = rest /\ UNCHANGED <<proc, answered>>

LEMMA AuthOutcomes ==
    ASSUME FlowTypes, NEW c \in Channels, NEW text, NEW rest, flow[c].kind = "auth",
           handleAuthFlow(c, text, rest)
    PROVE  Outcome(c, rest) /\ stored' \in {stored, TRUE}
<1>1. flow[c].st \in {"choosing", "key", "oauth", "deploy"}
  BY FlowIs, AuthIs
<1>2. CASE flow[c].st = "choosing"
  <2>1. handleAuthChoosing(c, text, rest)
    BY <1>2 DEF handleAuthFlow
  <2>2. CASE text = "oauth" /\ Local
    BY <1>2, <2>1, <2>2 DEF handleAuthChoosing, Outcome
  <2>3. CASE text = "api"
    BY <1>2, <2>1, <2>3 DEF handleAuthChoosing, Outcome, over
  <2>4. CASE text = "cancel"
    BY <1>2, <2>1, <2>4 DEF handleAuthChoosing, Outcome, over
  <2>5. CASE ~(text = "oauth" /\ Local) /\ text # "api" /\ text # "cancel"
    BY <1>2, <2>1, <2>5 DEF handleAuthChoosing, Outcome, waits
  <2> QED BY <2>2, <2>3, <2>4, <2>5
<1>3. CASE flow[c].st = "oauth"
  <2>1. handleAuthOAuthActive(c, rest)
    BY <1>3 DEF handleAuthFlow
  <2> DEFINE p == proc[flow[c].id]
  <2>2. CASE p.st = "running"
    BY <2>1, <2>2 DEF handleAuthOAuthActive, Outcome, waits
  <2>3. CASE p.st = "sent" /\ ~p.ok
    BY <2>1, <2>3 DEF handleAuthOAuthActive, Outcome, over
  <2>4. CASE p.st # "running" /\ ~(p.st = "sent" /\ ~p.ok)
    <3>1. over(c)
      BY <2>4 DEF over
    <3>2. /\ stored' \in {stored, TRUE}
          /\ IF HasProd THEN enters(c, "deploy") /\ queue' = rest /\ UNCHANGED <<proc, answered>>
             ELSE retries(c, rest)
      BY <2>1, <2>4 DEF handleAuthOAuthActive
    <3> QED BY <3>1, <3>2 DEF Outcome
  <2> QED BY <2>2, <2>3, <2>4
<1>4. CASE flow[c].st = "deploy"
  <2>1. handleAuthDeployConfirm(c, text, rest)
    BY <1>4 DEF handleAuthFlow
  <2> QED BY <1>4, <2>1 DEF handleAuthDeployConfirm, Outcome, over, waits
<1>5. CASE flow[c].st = "key"
  <2>1. handleAuthAPIKeyEntry(c, text, rest)
    BY <1>5 DEF handleAuthFlow
  <2> QED BY <1>5, <2>1 DEF handleAuthAPIKeyEntry, Outcome, over, waits
<1> QED BY <1>1, <1>2, <1>3, <1>4, <1>5

LEMMA OutcomeTyped ==
    ASSUME Typing, NEW c \in Channels, flow[c].kind = "auth", NEW rest \in Seq(Message),
           Outcome(c, rest)
    PROVE  FlowTypes' /\ queue' \in Seq(Message) /\ answered' \subseteq Flows
<1> FlowTypes /\ answered \subseteq Flows
  BY DEF Typing, TypeOK
<1>0. flow[c] \in Auth
  BY FlowIs
<1>1. CASE queue' = rest /\ UNCHANGED <<flowVars, proc, answered>>
  BY <1>1 DEF flowVars, FlowTypes, Waiting
<1>2. CASE over(c) /\ queue' = rest /\ Complete(c) /\ UNCHANGED answered
  BY <1>2, CompleteTyped
<1>3. CASE over(c) /\ retries(c, rest)
  <2>1. Complete(c) /\ answered' = answered \cup {flow[c].id}
        /\ queue' = IF flow[c].orig = NoMessage THEN rest ELSE Append(rest, flow[c].orig)
    BY <1>3 DEF retries
  <2>2. flow[c].id \in Flows /\ flow[c].orig \in Message \cup {NoMessage}
    BY <1>0, AuthIs
  <2>3. queue' \in Seq(Message)
    BY <2>1, <2>2
  <2> QED BY <2>1, <2>2, <2>3, CompleteTyped
<1>4. CASE /\ flow[c].st = "choosing" /\ enters(c, "oauth") /\ startSetupToken(c)
           /\ queue' = rest /\ UNCHANGED answered
  BY <1>4, EntersTyped
<1>5. CASE /\ over(c) /\ \E st \in {"key", "deploy"} : enters(c, st)
           /\ queue' = rest /\ UNCHANGED <<proc, answered>>
  <2>1. PICK st \in {"key", "deploy"} : enters(c, st)
    BY <1>5
  <2>2. FlowTypes'
    <3>1. st # "oauth" /\ proc' = proc /\ st \in {"key", "oauth", "deploy"}
      BY <1>5
    <3>2. (st # "oauth" /\ proc' = proc) \/ (st = "oauth" /\ startSetupToken(c))
      BY <3>1
    <3> QED BY <2>1, <3>1, <3>2, EntersTyped
  <2> QED BY <1>5, <2>2
<1> QED BY <1>1, <1>2, <1>3, <1>4, <1>5 DEF Outcome

-----------------------------------------------------------------------------
(* The session records. *)

LEMMA RecordIs ==
    ASSUME NEW r \in Record
    PROVE  /\ r.sess \in Nat /\ r.cleared \in BOOLEAN /\ r.old \in BOOLEAN
           /\ [r EXCEPT !.cleared = TRUE] \in Record
           /\ [r EXCEPT !.cleared = TRUE].sess = r.sess
           /\ [r EXCEPT !.cleared = TRUE].old = r.old
           /\ [r EXCEPT !.cleared = TRUE].cleared
           /\ [r EXCEPT !.old = TRUE] \in Record
           /\ [r EXCEPT !.old = TRUE].sess = r.sess
           /\ [r EXCEPT !.old = TRUE].cleared = r.cleared
           /\ [r EXCEPT !.old = TRUE].old
BY DEF Record

LEMMA CurrentIs ==
    ASSUME NEW rs \in Seq(Record)
    PROVE  /\ Current(rs) \in Nat
           /\ rs = <<>> => Current(rs) = 0
           /\ rs # <<>> => Len(rs) \in DOMAIN rs
           /\ rs # <<>> => Current(rs) = IF rs[Len(rs)].cleared THEN 0 ELSE rs[Len(rs)].sess
<1>1. rs # <<>> => Len(rs) \in DOMAIN rs /\ rs[Len(rs)] \in Record
  OBVIOUS
<1>2. rs # <<>> => rs[Len(rs)].sess \in Nat
  BY <1>1, RecordIs
<1> QED BY <1>1, <1>2 DEF Current, Last

(* A reset marks at most one record and leaves no current session. *)
LEMMA ClearedIs ==
    ASSUME NEW rs \in Seq(Record)
    PROVE  /\ cleared(rs) \in Seq(Record) /\ DOMAIN cleared(rs) = DOMAIN rs
           /\ Current(cleared(rs)) = 0
           /\ \A i \in DOMAIN rs : /\ cleared(rs)[i].sess = rs[i].sess
                                   /\ cleared(rs)[i].old = rs[i].old
<1> DEFINE live == {i \in DOMAIN rs : ~rs[i].cleared}
<1>1. Len(rs) \in Nat /\ DOMAIN rs = 1..Len(rs) /\ \A i \in DOMAIN rs : rs[i] \in Record
  OBVIOUS
<1>2. CASE live = {}
  <2>1. cleared(rs) = rs
    BY <1>2 DEF cleared
  <2>2. Current(rs) = 0
    <3>1. CASE rs = <<>>
      BY <3>1, CurrentIs
    <3>2. CASE rs # <<>>
      <4>1. Len(rs) \in DOMAIN rs
        BY <3>2, CurrentIs
      <4>2. rs[Len(rs)].cleared
        BY <1>2, <4>1
      <4> QED BY <3>2, <4>2, CurrentIs
    <3> QED BY <3>1, <3>2
  <2> QED BY <2>1, <2>2
<1>3. CASE live # {}
  <2> DEFINE k == Max(live)
  <2>1. \E x \in live : \A y \in live : y <= x
    BY <1>1, <1>3, GreatestOf
  <2>2. k \in live /\ \A y \in live : k >= y
    <3>1. \E x \in live : \A y \in live : x >= y
      BY <1>1, <2>1
    <3> QED BY <3>1 DEF Max
  <2>3. cleared(rs) = [rs EXCEPT ![k].cleared = TRUE]
    BY <1>3 DEF cleared
  <2> HIDE DEF k
  <2>4. k \in DOMAIN rs
    BY <2>2
  <2> DEFINE r == [rs[k] EXCEPT !.cleared = TRUE]
  <2>5. r \in Record /\ r.sess = rs[k].sess /\ r.old = rs[k].old /\ r.cleared
    BY <1>1, <2>4, RecordIs
  <2>6. cleared(rs) = [rs EXCEPT ![k] = r]
    BY <2>3
  <2> HIDE DEF r
  <2>7. cleared(rs) \in Seq(Record) /\ Len(cleared(rs)) = Len(rs) /\ DOMAIN cleared(rs) = DOMAIN rs
        /\ \A i \in DOMAIN rs : cleared(rs)[i] = IF i = k THEN r ELSE rs[i]
    BY <1>1, <2>4, <2>5, <2>6
  <2>8. Current(cleared(rs)) = 0
    <3>0. Len(rs) \in DOMAIN rs
      BY <1>1, <2>4
    <3>1. cleared(rs) # <<>>
      BY <2>4, <2>7
    <3>2. cleared(rs)[Len(rs)].cleared
      <4>1. CASE k = Len(rs)
        BY <2>5, <2>7, <3>0, <4>1
      <4>2. CASE k # Len(rs)
        <5>1. ~(k >= Len(rs))
          BY <1>1, <2>4, <4>2
        <5>2. rs[Len(rs)].cleared
          BY <2>2, <3>0, <5>1
        <5> QED BY <2>7, <3>0, <4>2, <5>2
      <4> QED BY <4>1, <4>2
    <3> QED BY <2>7, <3>1, <3>2, CurrentIs
  <2> QED BY <2>5, <2>7, <2>8
<1> QED BY <1>2, <1>3

LEMMA PrunedTyped ==
    ASSUME NEW rs \in Seq(Record)
    PROVE  pruned(rs) \in Seq(Record)
<1> DEFINE P == {i \in DOMAIN rs : rs[i].sess \in activeSessions \/ ~rs[i].old}
<1>1. P \in SUBSET (DOMAIN rs)
  OBVIOUS
<1> HIDE DEF P
<1>2. elementsAt(rs, P) \in Seq(Record)
  BY <1>1, ElementsAt
<1> QED BY <1>2 DEF pruned, P

LEMMA FiniteDomain ==
    ASSUME NEW S, NEW s \in Seq(S)
    PROVE  IsFiniteSet(DOMAIN s)
<1>1. Len(s) \in Nat /\ DOMAIN s = 1..Len(s)
  OBVIOUS
<1>2. IsFiniteSet(1..Len(s))
  BY <1>1, FS_Interval
<1> QED BY <1>1, <1>2

LEMMA FiniteImage ==
    ASSUME NEW S, IsFiniteSet(S), NEW f
    PROVE  IsFiniteSet({f[x] : x \in S})
<1> DEFINE T == {f[x] : x \in S}
           g == [x \in S |-> f[x]]
<1>1. g \in Surjection(S, T)
  BY DEF Surjection
<1> QED BY <1>1, FS_Surjection

(* The sessions something refers to are finitely many, so a new one has    *)
(* an ID that nothing has.                                                 *)
LEMMA NewSession ==
    ASSUME Typing
    PROVE  newSession \in Nat \ {0} /\ newSession \notin known
<1> DEFINE asking == {d \in Channels : flow[d].kind = "approval"}
           kept == {flow[c].sess : c \in asking}
           inRecords(c) == {records[c][i].sess : i \in DOMAIN records[c]}
           all == {inRecords(c) : c \in Channels}
<1>1. IsFiniteSet(Channels) /\ IsFiniteSet(revoked) /\ IsFiniteSet({turn.left})
  BY FS_Singleton DEF Typing
<1>2. IsFiniteSet(kept)
  <2>1. IsFiniteSet(asking)
    BY <1>1, FS_Subset
  <2> DEFINE f == [c \in asking |-> flow[c].sess]
  <2> HIDE DEF asking
  <2>2. kept = {f[c] : c \in asking}
    OBVIOUS
  <2> HIDE DEF f, kept
  <2> QED BY <2>1, <2>2, FiniteImage
<1>3. ASSUME NEW c \in Channels PROVE IsFiniteSet(inRecords(c))
  <2>1. records[c] \in Seq(Record)
    BY DEF Typing, TypeOK
  <2>3. IsFiniteSet(DOMAIN records[c])
    BY <2>1, FiniteDomain
  <2> DEFINE S == DOMAIN records[c]
             f == [i \in S |-> records[c][i].sess]
  <2>4. inRecords(c) = {f[i] : i \in S}
    OBVIOUS
  <2> HIDE DEF f
  <2>5. IsFiniteSet({f[i] : i \in S})
    BY <2>3, FiniteImage
  <2> QED BY <2>4, <2>5
<1>4. IsFiniteSet(UNION all)
  <2> DEFINE f == [c \in Channels |-> inRecords(c)]
  <2>1. all = {f[c] : c \in Channels}
    OBVIOUS
  <2>2. \A T \in all : IsFiniteSet(T)
    BY <1>3
  <2> HIDE DEF f, all
  <2>3. IsFiniteSet(all)
    BY <1>1, <2>1, FiniteImage
  <2> QED BY <2>2, <2>3, FS_UNION
<1>5. known = revoked \cup {turn.left} \cup kept \cup UNION all
  BY DEF known
<1> HIDE DEF kept, all
<1>6. IsFiniteSet(known)
  <2>1. IsFiniteSet(revoked \cup {turn.left})
    BY <1>1, FS_Union
  <2>2. IsFiniteSet((revoked \cup {turn.left}) \cup kept)
    BY <1>2, <2>1, FS_Union
  <2> QED BY <1>4, <1>5, <2>2, FS_Union
<1> DEFINE n == Cardinality(known)
           C == (1..(n + 1)) \ known
<1>7. n \in Nat
  BY <1>6, FS_CardinalityType
<1>8. C # {}
  <2> SUFFICES ASSUME C = {} PROVE FALSE
    OBVIOUS
  <2>1. (1..(n + 1)) \in SUBSET known
    OBVIOUS
  <2>2. Cardinality(1..(n + 1)) <= n
    BY <1>6, <2>1, FS_Subset
  <2>3. Cardinality(1..(n + 1)) = n + 1
    BY <1>7, FS_Interval
  <2> QED BY <1>7, <2>2, <2>3
<1>9. C \subseteq Nat
  BY <1>7
<1>10. newSession = Min(C)
  BY DEF newSession
<1>11. newSession \in C
  BY <1>8, <1>9, <1>10, MinIs
<1> QED BY <1>7, <1>11

-----------------------------------------------------------------------------
(* Type correctness. *)

LEMMA QueueAt ==
    ASSUME Typing, NEW i \in DOMAIN queue
    PROVE  /\ queue[i] \in Message /\ queue[i].ch \in Channels
           /\ RemoveAt(queue, i) \in Seq(Message)
<1>1. queue \in Seq(Message)
  BY DEF Typing, TypeOK
<1>2. queue[i] \in Message
  BY <1>1
<1> QED BY <1>1, <1>2, Removed, MessageIs

LEMMA TurnIs ==
    ASSUME Typing, turn.on
    PROVE  /\ turn \in Turn /\ turn.msg \in Message /\ turn.msg.ch \in Channels
           /\ turn.by \in Message \cup {NoMessage} /\ turn.sess \in Nat
<1>1. turn \in Turn
  BY DEF Typing, TypeOK, NoTurn
<1>2. turn.msg \in Message /\ turn.by \in Message \cup {NoMessage} /\ turn.sess \in Nat
  BY <1>1 DEF Turn
<1> QED BY <1>1, <1>2, MessageIs

LEMMA BeginIs ==
    ASSUME Typing, NEW m \in Message, NEW by \in Message \cup {NoMessage}, NEW left \in Nat,
           beginTurn(m, by, left)
    PROVE  /\ turn' \in Turn /\ turn'.on /\ turn'.msg = m /\ turn'.by = by
           /\ turn'.sess \in {Current(records[m.ch]), 0}
           /\ runs' = [k \in Ids |-> IF k = m.id THEN runs[k] + 1 ELSE runs[k]]
           /\ runs' \in [Ids -> Nat]
           /\ UNCHANGED <<agentVars, notify, records, stored, sent, revoked>>
<1>1. m.id \in Ids /\ m.ch \in Channels
  BY MessageIs
<1>2. runs' = [k \in Ids |-> IF k = m.id THEN runs[k] + 1 ELSE runs[k]] /\ runs' \in [Ids -> Nat]
  <2>1. runs \in [Ids -> Nat]
    BY DEF Typing, TypeOK
  <2>2. runs' = [runs EXCEPT ![m.id] = @ + 1]
    BY DEF beginTurn
  <2>3. runs[m.id] + 1 \in Nat
    BY <1>1, <2>1
  <2>4. runs' = [k \in Ids |-> IF k = m.id THEN runs[k] + 1 ELSE runs[k]]
    BY <2>1, <2>2
  <2> QED BY <1>1, <2>1, <2>3, <2>4
<1>3. PICK s \in lookupSession(m.ch) :
         turn' = [on |-> TRUE, msg |-> m, by |-> by, sess |-> s, left |-> left, attempt |-> 0,
                  cut |-> FALSE]
  BY DEF beginTurn
<1>4. s \in {Current(records[m.ch]), 0}
  BY <1>3 DEF lookupSession
<1>5. records[m.ch] \in Seq(Record)
  BY <1>1 DEF Typing, TypeOK
<1>6. s \in Nat
  BY <1>4, <1>5, CurrentIs
<1>7. MaxRetries \in Nat
  OBVIOUS
<1>8. turn' \in Turn
  BY <1>3, <1>6, <1>7 DEF Turn
<1> QED BY <1>2, <1>3, <1>4, <1>8 DEF beginTurn

LEMMA CliSessionsAre ==
    ASSUME Typing, turn.on
    PROVE  \A s \in cliSessions : s \in Nat /\ s \in {turn.sess, newSession, 0}
                                  /\ (turn.sess # 0 => s = turn.sess)
BY TurnIs, NewSession DEF cliSessions

LEMMA SetCurrentIs ==
    ASSUME Typing, NEW c \in Channels, NEW s \in Nat, SetCurrent(c, s)
    PROVE  /\ records' \in [Channels -> Seq(Record)]
           /\ \/ records' = records
              \/ /\ s # 0 /\ s # Current(records[c])
                 /\ records' = [d \in Channels |->
                      IF d = c THEN Append(records[c], [sess |-> s, cleared |-> FALSE, old |-> FALSE])
                      ELSE records[d]]
<1>1. records \in [Channels -> Seq(Record)]
  BY DEF Typing, TypeOK
<1>2. CASE s = 0 \/ s = Current(records[c])
  BY <1>1, <1>2 DEF SetCurrent
<1>3. CASE ~(s = 0 \/ s = Current(records[c]))
  <2>1. records' = [d \in Channels |->
          IF d = c THEN Append(records[c], [sess |-> s, cleared |-> FALSE, old |-> FALSE])
          ELSE records[d]]
    BY <1>1, <1>3 DEF SetCurrent
  <2>2. [sess |-> s, cleared |-> FALSE, old |-> FALSE] \in Record
    BY DEF Record
  <2>3. Append(records[c], [sess |-> s, cleared |-> FALSE, old |-> FALSE]) \in Seq(Record)
    BY <1>1, <2>2
  <2> QED BY <1>1, <1>3, <2>1, <2>3
<1> QED BY <1>2, <1>3

LEMMA TypedInit == Init => Typing
<1> SUFFICES ASSUME Init PROVE Typing
  OBVIOUS
<1>1. flow \in [Channels -> Auth \cup Approval \cup {NoFlow}] /\ Waiting
  BY DEF Init, Waiting, NoFlow
<1>2. opened \in 0..MaxFlows /\ sent \in 0..MaxMessages /\ agents \in 0..MaxAgents
      /\ asked \in [Flows -> 0..MaxMessages] /\ runs \in [Ids -> Nat]
  BY DEF Init
<1>3. notify \in Seq(Channels) /\ Len(notify) <= NotifyCap /\ queue \in Seq(Message)
      /\ records \in [Channels -> Seq(Record)]
  BY DEF Init
<1>4. IsFiniteSet(revoked)
  BY FS_EmptySet DEF Init
<1> QED BY <1>1, <1>2, <1>3, <1>4 DEF Init, Typing, TypeOK, FlowTypes, NoTurn

(* What a step that leaves the types of these variables alone keeps. *)
RestTypes ==
    /\ {alive, cred, stored} \subseteq BOOLEAN
    /\ turn \in Turn \cup {NoTurn}
    /\ override \subseteq Channels
    /\ notify \in Seq(Channels) /\ Len(notify) <= NotifyCap
    /\ queue \in Seq(Message)
    /\ records \in [Channels -> Seq(Record)]
    /\ sent \in 0..MaxMessages /\ agents \in 0..MaxAgents
    /\ runs \in [Ids -> Nat]
    /\ answered \subseteq Flows /\ revoked \subseteq Nat
    /\ IsFiniteSet(revoked)
    /\ turn.on => alive

LEMMA TypingSplits ==
    /\ Typing <=> FlowTypes /\ RestTypes
    /\ Typing' <=> FlowTypes' /\ RestTypes'
BY DEF Typing, TypeOK, FlowTypes, RestTypes

LEMMA FlowKept ==
    ASSUME FlowTypes, UNCHANGED <<flowVars, proc>> PROVE FlowTypes'
BY DEF FlowTypes, flowVars, Waiting

LEMMA CommandedTyped ==
    ASSUME Typing, NEW i \in DOMAIN queue,
           OnlyReplies(i) \/ StopsFlow(i) \/ StartsFresh(i) \/ Login(i) \/ StalePress(i)
    PROVE  Typing'
<1> FlowTypes /\ RestTypes
  BY TypingSplits
<1>1. queue[i] \in Message /\ queue[i].ch \in Channels /\ RemoveAt(queue, i) \in Seq(Message)
  BY QueueAt
<1>2. CASE OnlyReplies(i) \/ StalePress(i)
  <2>1. FlowTypes'
    BY <1>2, FlowKept DEF OnlyReplies, StalePress
  <2>2. /\ queue' = RemoveAt(queue, i)
        /\ UNCHANGED <<alive, cred, agents, turn, override, runs, notify, records, stored, sent,
                       answered, revoked>>
    BY <1>2 DEF OnlyReplies, StalePress, takes, noTurn, agentVars, turnVars
  <2>3. RestTypes'
    <3>1. queue' \in Seq(Message)
      BY <1>1, <2>2
    <3> QED BY <2>2, <3>1 DEF RestTypes
  <2> QED BY <2>1, <2>3, TypingSplits
<1>3. CASE StopsFlow(i)
  <2>1. FlowTypes'
    BY <1>1, <1>3, CancelTyped DEF StopsFlow
  <2>2. /\ queue' = RemoveAt(queue, i)
        /\ UNCHANGED <<alive, cred, agents, turn, override, runs, notify, records, stored, sent,
                       answered, revoked>>
    BY <1>3 DEF StopsFlow, takes, noTurn, agentVars, turnVars
  <2>3. RestTypes'
    <3>1. queue' \in Seq(Message)
      BY <1>1, <2>2
    <3> QED BY <2>2, <3>1 DEF RestTypes
  <2> QED BY <2>1, <2>3, TypingSplits
<1>4. CASE StartsFresh(i)
  <2> DEFINE c == queue[i].ch
             gone == {records[c][j].sess : j \in DOMAIN records[c]}
  <2>1. FlowTypes'
    BY <1>1, <1>4, CancelTyped DEF StartsFresh
  <2>2. records[c] \in Seq(Record)
    BY <1>1 DEF RestTypes
  <2>3. records' \in [Channels -> Seq(Record)]
    <3>1. cleared(records[c]) \in Seq(Record)
      BY <2>2, ClearedIs
    <3>2. records' = [records EXCEPT ![c] = cleared(records[c])]
      BY <1>4 DEF StartsFresh
    <3> QED BY <1>1, <3>1, <3>2 DEF RestTypes
  <2>4. gone \subseteq Nat /\ IsFiniteSet(gone)
    <3>1. IsFiniteSet(DOMAIN records[c])
      BY <2>2, FiniteDomain
    <3> DEFINE S == DOMAIN records[c]
               f == [j \in S |-> records[c][j].sess]
    <3>2. gone = {f[j] : j \in S}
      OBVIOUS
    <3>3. \A j \in S : records[c][j] \in Record
      BY <2>2
    <3>4. gone \subseteq Nat
      <4>1. \A j \in S : records[c][j].sess \in Nat
        BY <3>3, RecordIs
      <4> HIDE DEF c
      <4> QED BY <4>1
    <3> HIDE DEF f, gone
    <3> QED BY <3>1, <3>2, <3>4, FiniteImage
  <2>5. revoked' = revoked \cup gone
    BY <1>4 DEF StartsFresh
  <2> HIDE DEF gone, c
  <2>6. revoked' \subseteq Nat /\ IsFiniteSet(revoked')
    BY <2>4, <2>5, FS_Union DEF RestTypes
  <2>7. /\ queue' = RemoveAt(queue, i)
        /\ UNCHANGED <<alive, cred, agents, turn, override, runs, notify, stored, sent, answered>>
    BY <1>4 DEF StartsFresh, takes, noTurn, agentVars, turnVars
  <2>8. RestTypes'
    <3>1. queue' \in Seq(Message)
      BY <1>1, <2>7
    <3> QED BY <2>3, <2>6, <2>7, <3>1 DEF RestTypes
  <2> QED BY <2>1, <2>8, TypingSplits
<1>5. CASE Login(i)
  <2>1. FlowTypes'
    <3>1. CASE start(queue[i].ch, newAuth(NoMessage))
      <4>1. opened < MaxFlows
        BY <3>1 DEF start
      <4>2. newAuth(NoMessage) \in Auth /\ newAuth(NoMessage).st # "oauth"
        BY <4>1, NewAuthIs
      <4> QED BY <1>1, <3>1, <4>2, StartTyped
    <3>2. CASE UNCHANGED <<flowVars, proc>>
      BY <3>2, FlowKept
    <3> QED BY <1>5, <3>1, <3>2 DEF Login
  <2>2. /\ queue' = RemoveAt(queue, i)
        /\ UNCHANGED <<alive, cred, agents, turn, override, runs, notify, records, stored, sent,
                       answered, revoked>>
    BY <1>5 DEF Login, takes, noTurn, agentVars, turnVars
  <2>3. RestTypes'
    <3>1. queue' \in Seq(Message)
      BY <1>1, <2>2
    <3> QED BY <2>2, <3>1 DEF RestTypes
  <2> QED BY <2>1, <2>3, TypingSplits
<1> QED BY <1>2, <1>3, <1>4, <1>5

LEMMA AnsweredTyped ==
    ASSUME Typing, NEW i \in DOMAIN queue,
           AnswersAuth(i) \/ Approves(i) \/ Declines(i) \/ MovesOn(i)
    PROVE  Typing'
<1> FlowTypes /\ RestTypes
  BY TypingSplits
<1> DEFINE m == queue[i]
<1>1. m \in Message /\ m.ch \in Channels /\ RemoveAt(queue, i) \in Seq(Message)
  BY QueueAt
<1>2. CASE AnswersAuth(i)
  <2>1. flow[m.ch].kind = "auth" /\ handleAuthFlow(m.ch, m.text, RemoveAt(queue, i))
    BY <1>2 DEF AnswersAuth
  <2>2. Outcome(m.ch, RemoveAt(queue, i)) /\ stored' \in {stored, TRUE}
    BY <1>1, <2>1, AuthOutcomes
  <2>3. FlowTypes' /\ queue' \in Seq(Message) /\ answered' \subseteq Flows
    BY <1>1, <2>1, <2>2, OutcomeTyped
  <2>4. UNCHANGED <<alive, cred, agents, turn, override, runs, notify, records, sent, revoked>>
    BY <1>2 DEF AnswersAuth, noTurn, agentVars, turnVars
  <2>5. stored' \in BOOLEAN
    BY <2>2 DEF RestTypes
  <2>6. RestTypes'
    BY <2>3, <2>4, <2>5 DEF RestTypes
  <2> QED BY <2>3, <2>6, TypingSplits
<1>3. CASE Approves(i)
  <2> DEFINE f == flow[m.ch]
  <2>1. f \in Approval /\ f.orig \in Message /\ f.sess \in Nat /\ f.id \in Flows
    <3>1. f \in Approval
      BY <1>1, <1>3, FlowIs DEF Approves
    <3> QED BY <3>1, ApprovalIs
  <2>2. beginTurn(f.orig, m, f.sess)
    BY <1>3 DEF Approves
  <2>3. turn' \in Turn /\ runs' \in [Ids -> Nat]
        /\ UNCHANGED <<agentVars, notify, records, stored, sent, revoked>>
    <3> HIDE DEF f, m
    <3> QED BY <1>1, <2>1, <2>2, BeginIs
  <2>4. FlowTypes'
    BY <1>1, <1>3, CompleteTyped DEF Approves
  <2>5. /\ queue' = RemoveAt(queue, i) /\ override' = override \cup {m.ch}
        /\ answered' = answered \cup {f.id} /\ alive
        /\ UNCHANGED <<alive, cred, agents, notify, records, stored, sent, revoked>>
    BY <1>3, <2>3 DEF Approves, takes, idle, agentVars
  <2>6. RestTypes'
    <3>1. queue' \in Seq(Message) /\ override' \subseteq Channels /\ answered' \subseteq Flows
      BY <1>1, <2>1, <2>5 DEF RestTypes
    <3> QED BY <2>3, <2>5, <3>1 DEF RestTypes
  <2> QED BY <2>4, <2>6, TypingSplits
<1>4. CASE Declines(i)
  <2>1. FlowTypes'
    BY <1>1, <1>4, CompleteTyped DEF Declines
  <2>2. /\ queue' = RemoveAt(queue, i)
        /\ UNCHANGED <<alive, cred, agents, turn, override, runs, notify, records, stored, sent,
                       answered, revoked>>
    BY <1>4 DEF Declines, takes, noTurn, agentVars, turnVars
  <2>3. RestTypes'
    <3>1. queue' \in Seq(Message)
      BY <1>1, <2>2
    <3> QED BY <2>2, <3>1 DEF RestTypes
  <2> QED BY <2>1, <2>3, TypingSplits
<1>5. CASE MovesOn(i)
  <2>1. beginTurn(m, NoMessage, 0)
    BY <1>5 DEF MovesOn
  <2>2. turn' \in Turn /\ runs' \in [Ids -> Nat]
        /\ UNCHANGED <<agentVars, notify, records, stored, sent, revoked>>
    <3> HIDE DEF m
    <3> QED BY <1>1, <2>1, BeginIs
  <2>3. FlowTypes'
    BY <1>1, <1>5, CompleteTyped DEF MovesOn
  <2>4. /\ queue' = RemoveAt(queue, i) /\ alive
        /\ UNCHANGED <<alive, cred, agents, override, notify, records, stored, sent, answered,
                       revoked>>
    BY <1>5, <2>2 DEF MovesOn, takes, idle, agentVars
  <2>5. RestTypes'
    <3>1. queue' \in Seq(Message)
      BY <1>1, <2>4
    <3> QED BY <2>2, <2>4, <3>1 DEF RestTypes
  <2> QED BY <2>3, <2>5, TypingSplits
<1> QED BY <1>2, <1>3, <1>4, <1>5

LEMMA BeginsTyped ==
    ASSUME Typing, NEW i \in DOMAIN queue, BeginTurn(i)
    PROVE  Typing'
<1> FlowTypes /\ RestTypes
  BY TypingSplits
<1>1. queue[i] \in Message /\ RemoveAt(queue, i) \in Seq(Message)
  BY QueueAt
<1>2. beginTurn(queue[i], NoMessage, 0)
  BY DEF BeginTurn
<1>3. turn' \in Turn /\ runs' \in [Ids -> Nat]
      /\ UNCHANGED <<agentVars, notify, records, stored, sent, revoked>>
  BY <1>1, <1>2, BeginIs
<1>4. /\ queue' = RemoveAt(queue, i) /\ alive
      /\ UNCHANGED <<alive, cred, agents, override, notify, records, stored, sent, answered, revoked>>
  BY <1>3 DEF BeginTurn, takes, idle, agentVars
<1>5. RestTypes'
  <2>1. queue' \in Seq(Message)
    BY <1>1, <1>4
  <2> QED BY <1>3, <1>4, <2>1 DEF RestTypes
<1>6. FlowTypes'
  BY FlowKept DEF BeginTurn
<1> QED BY <1>5, <1>6, TypingSplits

(* The end of a turn. *)
LEMMA DoneIs ==
    ASSUME Typing, done, records' \in [Channels -> Seq(Record)]
    PROVE  RestTypes' /\ turn' = NoTurn /\ ~turn'.on
<1> RestTypes
  BY TypingSplits
<1>1. turn' = NoTurn /\ ~turn'.on
  BY DEF done, NoTurn
<1>2. override' \subseteq Channels
  BY DEF done, restoreOverride, RestTypes
<1>3. UNCHANGED <<alive, cred, agents, runs, notify, queue, stored, sent, answered, revoked>>
  BY DEF done, agentVars
<1>4. RestTypes'
  BY <1>1, <1>2, <1>3 DEF RestTypes
<1> QED BY <1>1, <1>4

LEMMA EndsTyped ==
    ASSUME Typing, Ends
    PROVE  Typing'
<1> FlowTypes /\ RestTypes
  BY TypingSplits
<1>0. alive /\ turn.on /\ turn.msg \in Message /\ turn.msg.ch \in Channels /\ turn \in Turn
  <2>1. alive /\ turn.on
    BY DEF Ends, TurnCompletes, RateLimited, AuthRequired, ToolsDenied
  <2> QED BY <2>1, TurnIs
<1> DEFINE c == turn.msg.ch
<1>1. CASE TurnCompletes
  <2>1. PICK s \in cliSessions : SetCurrent(c, s)
    BY <1>1 DEF TurnCompletes
  <2>2. s \in Nat
    BY <1>0, CliSessionsAre
  <2>3. records' \in [Channels -> Seq(Record)]
    BY <1>0, <2>1, <2>2, SetCurrentIs
  <2>4. RestTypes'
    BY <1>1, <2>3, DoneIs DEF TurnCompletes
  <2>5. FlowTypes'
    BY <1>1, FlowKept DEF TurnCompletes
  <2> QED BY <2>4, <2>5, TypingSplits
<1>2. CASE RateLimited
  <2>1. PICK s \in cliSessions : turn' = [turn EXCEPT !.attempt = @ + 1, !.left = s]
    BY <1>2 DEF RateLimited
  <2>2. s \in Nat
    BY <1>0, CliSessionsAre
  <2>3. turn.attempt + 1 \in 0..MaxRetries
    BY <1>0, <1>2 DEF RateLimited, Turn
  <2>4. turn' \in Turn
    BY <1>0, <2>1, <2>2, <2>3 DEF Turn
  <2>5. UNCHANGED <<alive, cred, agents, override, runs, notify, queue, records, stored, sent,
                    answered, revoked>>
    BY <1>2 DEF RateLimited, agentVars
  <2>6. RestTypes'
    BY <1>0, <2>4, <2>5 DEF RestTypes
  <2>7. FlowTypes'
    BY <1>2, FlowKept DEF RateLimited
  <2> QED BY <2>6, <2>7, TypingSplits
<1>3. CASE AuthRequired
  <2>1. done /\ records' = records
    BY <1>3 DEF AuthRequired
  <2>2. RestTypes'
    BY <2>1, DoneIs DEF RestTypes
  <2>3. FlowTypes'
    <3>1. CASE UNCHANGED <<flowVars, proc>>
      BY <3>1, FlowKept
    <3>2. CASE start(c, newAuth(turn.msg))
      <4>1. opened < MaxFlows
        BY <3>2 DEF start
      <4>2. newAuth(turn.msg) \in Auth /\ newAuth(turn.msg).st # "oauth"
        BY <1>0, <4>1, NewAuthIs
      <4> QED BY <1>0, <3>2, <4>2, StartTyped
    <3>3. CASE Cancel(c)
      BY <1>0, <3>3, CancelTyped
    <3> QED BY <1>3, <3>1, <3>2, <3>3 DEF AuthRequired
  <2> QED BY <2>2, <2>3, TypingSplits
<1>4. CASE ToolsDenied
  <2>1. done /\ records' = records
    BY <1>4 DEF ToolsDenied
  <2>2. RestTypes'
    BY <2>1, DoneIs DEF RestTypes
  <2>3. FlowTypes'
    <3>1. CASE UNCHANGED <<flowVars, proc>>
      BY <3>1, FlowKept
    <3>2. ASSUME NEW s \in cliSessions, start(c, newApproval(turn.msg, s)) PROVE FlowTypes'
      <4>1. opened < MaxFlows
        BY <3>2 DEF start
      <4>2. s \in Nat
        BY <1>0, CliSessionsAre
      <4>3. newApproval(turn.msg, s) \in Approval /\ newApproval(turn.msg, s).kind = "approval"
        BY <1>0, <4>1, <4>2, NewApprovalIs
      <4> QED BY <1>0, <3>2, <4>3, StartTyped
    <3> QED BY <1>4, <3>1, <3>2 DEF ToolsDenied
  <2> QED BY <2>2, <2>3, TypingSplits
<1> QED BY <1>1, <1>2, <1>3, <1>4 DEF Ends

LEMMA OAuthTyped ==
    ASSUME Typing, OAuth
    PROVE  Typing'
<1> FlowTypes /\ RestTypes
  BY TypingSplits
<1>1. PICK f \in Flows : OAuthEnds(f) \/ OAuthNotifies(f)
  BY DEF OAuth
<1>2. proc[f].st \in {"running", "sent"}
  BY <1>1 DEF OAuthEnds, OAuthNotifies, mayNotify
<1>3. proc[f] \in Process
  BY <1>2 DEF FlowTypes, NoProcess
<1>4. UNCHANGED <<flow, open, opened, asked>>
  BY <1>1 DEF OAuthEnds, OAuthNotifies, flowVars
<1>5. ASSUME NEW p \in Process, proc' = [g \in Flows |-> IF g = f THEN p ELSE proc[g]] PROVE FlowTypes'
  <2>1. \A g \in Flows : proc[g].st # "none" => proc'[g].st # "none"
    BY <1>5, ProcessIs
  <2>2. Waiting'
    <3> SUFFICES ASSUME NEW c \in Channels, flow[c].kind = "auth", flow[c].st = "oauth"
                 PROVE  proc'[flow[c].id].st # "none"
      BY <1>4 DEF Waiting
    <3> QED BY <2>1, WaitingIs, ProcessIs
  <2>3. proc' \in [Flows -> Process \cup {NoProcess}]
    BY <1>5 DEF FlowTypes
  <2> QED BY <1>4, <2>2, <2>3 DEF FlowTypes
<1>6. CASE OAuthEnds(f)
  <2>1. PICK ok \in BOOLEAN : proc' = [proc EXCEPT ![f].st = "sent", ![f].ok = ok]
    BY <1>6 DEF OAuthEnds
  <2> DEFINE p == [proc[f] EXCEPT !.st = "sent", !.ok = ok]
  <2>2. p \in Process
    BY <1>3 DEF Process
  <2>3. proc' = [g \in Flows |-> IF g = f THEN p ELSE proc[g]]
    BY <2>1 DEF FlowTypes
  <2> HIDE DEF p
  <2>4. FlowTypes'
    BY <1>5, <2>2, <2>3
  <2>5. UNCHANGED <<alive, cred, agents, turn, override, runs, notify, queue, records, stored, sent,
                    answered, revoked>>
    BY <1>6 DEF OAuthEnds, agentVars, turnVars
  <2>6. RestTypes'
    BY <2>5 DEF RestTypes
  <2> QED BY <2>4, <2>6, TypingSplits
<1>7. CASE OAuthNotifies(f)
  <2>1. proc' = [proc EXCEPT ![f].told = TRUE] /\ notify' = Append(notify, proc[f].ch)
        /\ Len(notify) < NotifyCap
    BY <1>7 DEF OAuthNotifies
  <2> DEFINE p == [proc[f] EXCEPT !.told = TRUE]
  <2>2. p \in Process
    BY <1>3 DEF Process
  <2>3. proc' = [g \in Flows |-> IF g = f THEN p ELSE proc[g]]
    BY <2>1 DEF FlowTypes
  <2> HIDE DEF p
  <2>4. FlowTypes'
    BY <1>5, <2>2, <2>3
  <2>5. UNCHANGED <<alive, cred, agents, turn, override, runs, queue, records, stored, sent,
                    answered, revoked>>
    BY <1>7 DEF OAuthNotifies, agentVars, turnVars
  <2>6. notify' \in Seq(Channels) /\ Len(notify') <= NotifyCap
    BY <1>3, <2>1, ProcessIs DEF RestTypes
  <2>7. RestTypes'
    BY <2>5, <2>6 DEF RestTypes
  <2> QED BY <2>4, <2>7, TypingSplits
<1> QED BY <1>1, <1>6, <1>7

LEMMA NotifyTyped ==
    ASSUME Typing, TakesNotify
    PROVE  Typing'
<1> FlowTypes /\ RestTypes
  BY TypingSplits
<1> DEFINE c == Head(notify)
<1>1. c \in Channels /\ notify' \in Seq(Channels) /\ Len(notify') <= NotifyCap
  <2>1. notify # <<>> /\ notify' = Tail(notify) /\ notify \in Seq(Channels) /\ Len(notify) <= NotifyCap
    BY DEF TakesNotify, RestTypes
  <2> QED BY <2>1
<1>2. UNCHANGED <<alive, cred, agents, turn, override, runs, records, sent, revoked>>
  BY DEF TakesNotify, agentVars, turnVars
<1>3. FlowTypes' /\ queue' \in Seq(Message) /\ answered' \subseteq Flows /\ stored' \in BOOLEAN
  <2>0. queue \in Seq(Message) /\ answered \subseteq Flows /\ stored \in BOOLEAN
    BY DEF RestTypes
  <2>1. CASE flow[c].kind = "auth"
    <3>1. handleAuthFlow(c, "", queue)
      BY <2>1 DEF TakesNotify
    <3>2. Outcome(c, queue) /\ stored' \in {stored, TRUE}
      BY <1>1, <2>1, <3>1, AuthOutcomes
    <3> HIDE DEF c
    <3>3. FlowTypes' /\ queue' \in Seq(Message) /\ answered' \subseteq Flows
      BY <1>1, <2>0, <2>1, <3>2, OutcomeTyped
    <3> QED BY <2>0, <3>2, <3>3
  <2>2. CASE flow[c].kind # "auth"
    <3>1. queue' = queue /\ UNCHANGED <<flowVars, proc, stored, answered>>
      BY <2>2 DEF TakesNotify, waits
    <3> QED BY <2>0, <3>1, FlowKept
  <2> QED BY <2>1, <2>2
<1>4. RestTypes'
  BY <1>1, <1>2, <1>3 DEF RestTypes
<1> QED BY <1>3, <1>4, TypingSplits

LEMMA SendsTyped ==
    ASSUME Typing, Sends
    PROVE  Typing'
<1> FlowTypes /\ RestTypes
  BY TypingSplits
<1>1. PICK m \in Message : Arrives(m) \/ ArrivesMidTurn(m)
  BY DEF Sends
<1>2. UNCHANGED <<flowVars, proc>>
  BY <1>1 DEF Arrives, ArrivesMidTurn
<1>3. FlowTypes'
  BY <1>2, FlowKept
<1>4. sent' \in 0..MaxMessages
  BY <1>1 DEF Arrives, ArrivesMidTurn, newMessage, RestTypes
<1>5. queue' = queue \/ queue' = Append(queue, m)
  BY <1>1 DEF Arrives, ArrivesMidTurn
<1>6. queue' \in Seq(Message)
  <2>1. queue \in Seq(Message) /\ m \in Message
    BY <1>1 DEF RestTypes
  <2>2. Append(queue, m) \in Seq(Message)
    BY <2>1
  <2> QED BY <1>5, <2>1, <2>2
<1>7. turn' = turn \/ (turn.on /\ turn' = [turn EXCEPT !.cut = TRUE])
  BY <1>1 DEF Arrives, ArrivesMidTurn, turnVars
<1>8. turn' \in Turn \cup {NoTurn} /\ turn'.on = turn.on
  BY <1>7, TurnIs DEF RestTypes, Turn
<1>9. UNCHANGED <<alive, cred, agents, override, runs, notify, records, stored, answered, revoked>>
  BY <1>1 DEF Arrives, ArrivesMidTurn, agentVars, turnVars
<1>10. RestTypes'
  BY <1>4, <1>6, <1>8, <1>9 DEF RestTypes
<1> QED BY <1>3, <1>10, TypingSplits

LEMMA AgentTyped ==
    ASSUME Typing, AgentExits \/ AgentStarts \/ RecordsAge
    PROVE  Typing'
<1> FlowTypes /\ RestTypes
  BY TypingSplits
<1>0. records \in [Channels -> Seq(Record)]
  BY DEF RestTypes
<1>1. CASE AgentExits
  <2>1. /\ turn' = NoTurn /\ override' = {} /\ notify' = <<>> /\ alive' = FALSE
        /\ UNCHANGED <<cred, agents, runs, queue, records, stored, sent, answered, revoked>>
    BY <1>1 DEF AgentExits
  <2>2. ~turn'.on /\ notify' \in Seq(Channels) /\ Len(notify') = 0
    BY <2>1 DEF NoTurn
  <2>3. RestTypes'
    <3>1. Len(notify') <= NotifyCap
      BY <2>2
    <3> QED BY <2>1, <2>2, <3>1 DEF RestTypes
  <2>4. /\ flow' = [c \in Channels |-> NoFlow] /\ proc' = [f \in Flows |-> NoProcess]
        /\ UNCHANGED <<open, opened, asked>>
    BY <1>1 DEF AgentExits
  <2>5. FlowTypes'
    BY <2>4 DEF FlowTypes, Waiting, NoFlow
  <2> QED BY <2>3, <2>5, TypingSplits
<1>2. CASE AgentStarts
  <2>1. PICK kept \in SUBSET Channels :
          records' = [c \in Channels |-> IF c \in kept THEN records[c] ELSE pruned(records[c])]
    BY <1>2 DEF AgentStarts
  <2>2. records' \in [Channels -> Seq(Record)]
    BY <1>0, <2>1, PrunedTyped
  <2>3. /\ alive' = TRUE /\ cred' = stored /\ agents' = agents + 1 /\ agents < MaxAgents
        /\ UNCHANGED <<turn, override, runs, notify, queue, stored, sent, answered, revoked>>
    BY <1>2 DEF AgentStarts, turnVars
  <2>4. agents' \in 0..MaxAgents
    BY <2>3 DEF RestTypes
  <2>5. RestTypes'
    BY <2>2, <2>3, <2>4 DEF RestTypes
  <2>6. FlowTypes'
    BY <1>2, FlowKept DEF AgentStarts
  <2> QED BY <2>5, <2>6, TypingSplits
<1>3. CASE RecordsAge
  <2>1. records' = [c \in Channels |-> [i \in DOMAIN records[c] |->
                       [records[c][i] EXCEPT !.old = TRUE]]]
    BY <1>3 DEF RecordsAge
  <2>2. ASSUME NEW c \in Channels
        PROVE  [i \in DOMAIN records[c] |-> [records[c][i] EXCEPT !.old = TRUE]] \in Seq(Record)
    <3>1. records[c] \in Seq(Record)
      BY <1>0
    <3>2. Len(records[c]) \in Nat /\ DOMAIN records[c] = 1..Len(records[c])
          /\ \A i \in DOMAIN records[c] : records[c][i] \in Record
      BY <3>1
    <3>3. \A i \in DOMAIN records[c] : [records[c][i] EXCEPT !.old = TRUE] \in Record
      BY <3>2, RecordIs
    <3> QED BY <3>2, <3>3
  <2>3. records' \in [Channels -> Seq(Record)]
    BY <2>1, <2>2
  <2>4. UNCHANGED <<alive, cred, agents, turn, override, runs, notify, queue, stored, sent, answered,
                    revoked>>
    BY <1>3 DEF RecordsAge, agentVars, turnVars
  <2>5. RestTypes'
    BY <2>3, <2>4 DEF RestTypes
  <2>6. FlowTypes'
    BY <1>3, FlowKept DEF RecordsAge
  <2> QED BY <2>5, <2>6, TypingSplits
<1> QED BY <1>1, <1>2, <1>3

LEMMA StutterTyped == Typing /\ UNCHANGED vars => Typing'
BY DEF Typing, TypeOK, FlowTypes, Waiting, vars

LEMMA TypedStep == Typing /\ [Next]_vars => Typing'
<1> SUFFICES ASSUME Typing, [Next]_vars PROVE Typing'
  OBVIOUS
<1>1. CASE Commanded
  BY <1>1, CommandedTyped DEF Commanded
<1>2. CASE Answered
  BY <1>2, AnsweredTyped DEF Answered
<1>3. CASE Begins
  BY <1>3, BeginsTyped DEF Begins
<1> QED BY <1>1, <1>2, <1>3, EndsTyped, OAuthTyped, NotifyTyped, SendsTyped, AgentTyped, StutterTyped
        DEF Next

(* Every variable keeps its type: a flow its fields, OAuthNotify its       *)
(* capacity, the session records theirs.                                   *)
THEOREM TurnsTyped == Spec => []TypeOK
<1>1. Typing => TypeOK
  BY DEF Typing
<1> QED BY <1>1, TypedInit, TypedStep, PTL DEF Spec

-----------------------------------------------------------------------------
(* Prompts. *)

(* What an answer leaves open keeps its number, and other channels keep    *)
(* what they have.                                                         *)
LEMMA OutcomeOf ==
    ASSUME Typing, NEW c \in Channels, flow[c].kind = "auth", NEW rest, Outcome(c, rest),
           NEW d \in Channels
    PROVE  /\ d # c => flow'[d] = flow[d]
           /\ flow'[d] = NoFlow \/ flow'[d].id = flow[d].id
<1> FlowTypes
  BY TypingSplits
<1>0. flow[c] \in Auth
  BY FlowIs
<1>1. CASE UNCHANGED flowVars
  BY <1>1 DEF flowVars
<1>2. CASE Complete(c)
  BY <1>2, CompleteTyped
<1>3. ASSUME NEW st \in {"key", "oauth", "deploy"}, enters(c, st)
      PROVE  (d # c => flow'[d] = flow[d]) /\ flow'[d].id = flow[d].id
  <2>1. flow' = [e \in Channels |-> IF e = c THEN [flow[c] EXCEPT !.st = st] ELSE flow[e]]
    BY <1>3 DEF enters, FlowTypes
  <2>2. [flow[c] EXCEPT !.st = st].id = flow[c].id
    BY <1>0 DEF Auth
  <2> QED BY <2>1, <2>2
<1> QED BY <1>1, <1>2, <1>3 DEF Outcome, retries

(* No step of anybody takes a prompt away from the user: what closes or    *)
(* replaces one is the agent's exit, the end of the user's own turn, what  *)
(* the user sends on that channel, or its own sign-in process (Complete,   *)
(* Cancel and StartAuth of FlowManager, wouldReplaceOpenPrompt).           *)
THEOREM PromptsStay == Spec => PromptsAreTheUsers
<1> DEFINE ended(c) == flow[c] # NoFlow /\ (flow'[c] = NoFlow \/ flow'[c].id # flow[c].id)
           users(c) ==
              \/ ~alive'
              \/ turn.on /\ turn.msg.ch = c /\ turn.msg.user
              \/ ~turn.on /\ \E i \in next : /\ queue[i].ch = c
                                             /\ queue[i].user \/ queue[i].text \in Commands
              \/ ~turn.on /\ notify # <<>> /\ Head(notify) = c
           kept == \A c \in Channels : ended(c) => users(c)
<1>1. ASSUME Typing, [Next]_vars PROVE kept
  <2> FlowTypes /\ RestTypes
    BY <1>1, TypingSplits
  <2> SUFFICES ASSUME NEW c \in Channels, ended(c) PROVE users(c)
    OBVIOUS
  <2>0. flow'[c] # flow[c]
    OBVIOUS
  <2>1. ASSUME NEW i \in DOMAIN queue, i \in next, ~turn.on, queue[i].ch = c,
               queue[i].user \/ queue[i].text \in Commands
        PROVE  users(c)
    BY <2>1
  <2>2. CASE Commanded
    <3>1. PICK i \in DOMAIN queue :
             OnlyReplies(i) \/ StopsFlow(i) \/ StartsFresh(i) \/ Login(i) \/ StalePress(i)
      BY <2>2 DEF Commanded
    <3>2. queue[i].ch \in Channels
      BY <1>1, QueueAt
    <3>3. StopsFlow(i) \/ StartsFresh(i) \/ Login(i)
      BY <2>0, <3>1 DEF OnlyReplies, StalePress, flowVars
    <3>4. i \in next /\ ~turn.on /\ queue[i].text \in Commands
      BY <3>3 DEF StopsFlow, StartsFresh, Login, takes, idle, Commands
    <3>5. queue[i].ch = c
      <4>1. CASE Cancel(queue[i].ch)
        BY <2>0, <3>2, <4>1, CancelTyped
      <4>2. CASE start(queue[i].ch, newAuth(NoMessage))
        BY <2>0, <3>2, <4>2 DEF start, FlowTypes
      <4>3. CASE UNCHANGED <<flowVars, proc>>
        BY <2>0, <4>3 DEF flowVars
      <4> QED BY <3>3, <4>1, <4>2, <4>3 DEF StopsFlow, StartsFresh, Login
    <3> QED BY <2>1, <3>4, <3>5
  <2>3. CASE Answered
    <3>1. PICK i \in DOMAIN queue : AnswersAuth(i) \/ Approves(i) \/ Declines(i) \/ MovesOn(i)
      BY <2>3 DEF Answered
    <3>2. queue[i].ch \in Channels
      BY <1>1, QueueAt
    <3>3. i \in next /\ ~turn.on /\ queue[i].user
      BY <3>1 DEF AnswersAuth, Approves, Declines, MovesOn, takes, idle
    <3>4. queue[i].ch = c
      <4>1. CASE Complete(queue[i].ch)
        BY <2>0, <3>2, <4>1, CompleteTyped
      <4>2. CASE AnswersAuth(i)
        <5>1. flow[queue[i].ch].kind = "auth"
              /\ handleAuthFlow(queue[i].ch, queue[i].text, RemoveAt(queue, i))
          BY <4>2 DEF AnswersAuth
        <5>2. Outcome(queue[i].ch, RemoveAt(queue, i))
          BY <3>2, <5>1, AuthOutcomes
        <5> QED BY <1>1, <2>0, <3>2, <5>1, <5>2, OutcomeOf
      <4> QED BY <3>1, <4>1, <4>2 DEF Approves, Declines, MovesOn
    <3> QED BY <2>1, <3>3, <3>4
  <2>4. CASE Begins
    BY <2>0, <2>4 DEF Begins, BeginTurn, flowVars
  <2>5. CASE Ends
    <3>1. turn.on /\ (AuthRequired \/ ToolsDenied)
      BY <2>0, <2>5 DEF Ends, TurnCompletes, RateLimited, AuthRequired, ToolsDenied, flowVars
    <3>2. turn.msg \in Message /\ turn.msg.ch \in Channels
      BY <1>1, <3>1, TurnIs
    <3>3. ~wouldReplaceOpenPrompt
      BY <2>0, <3>1 DEF AuthRequired, ToolsDenied, flowVars
    <3>4. turn.msg.ch = c
      <4>1. CASE Cancel(turn.msg.ch)
        BY <2>0, <3>2, <4>1, CancelTyped
      <4>2. ASSUME NEW f, start(turn.msg.ch, f) PROVE turn.msg.ch = c
        BY <2>0, <3>2, <4>2 DEF start, FlowTypes
      <4> QED BY <3>1, <3>3, <4>1, <4>2 DEF AuthRequired, ToolsDenied
    <3>5. turn.msg.user
      BY <3>3, <3>4 DEF wouldReplaceOpenPrompt
    <3> QED BY <3>1, <3>4, <3>5
  <2>6. CASE OAuth
    BY <2>0, <2>6 DEF OAuth, OAuthEnds, OAuthNotifies, flowVars
  <2>7. CASE TakesNotify
    <3> DEFINE d == Head(notify)
    <3>1. notify # <<>> /\ ~turn.on /\ d \in Channels
      <4>1. notify # <<>> /\ ~turn.on /\ notify \in Seq(Channels)
        BY <2>7 DEF TakesNotify, idle, RestTypes
      <4> QED BY <4>1
    <3>2. CASE flow[d].kind = "auth"
      <4>1. handleAuthFlow(d, "", queue)
        BY <2>7, <3>2 DEF TakesNotify
      <4> HIDE DEF d
      <4>2. Outcome(d, queue)
        BY <3>1, <3>2, <4>1, AuthOutcomes
      <4>3. d = c
        BY <1>1, <2>0, <3>1, <3>2, <4>2, OutcomeOf
      <4> QED BY <3>1, <4>3 DEF d
    <3>3. CASE flow[d].kind # "auth"
      BY <2>0, <2>7, <3>3 DEF TakesNotify, waits, flowVars
    <3> QED BY <3>2, <3>3
  <2>8. CASE Sends
    BY <2>0, <2>8 DEF Sends, Arrives, ArrivesMidTurn, flowVars
  <2>9. CASE AgentExits
    BY <2>9 DEF AgentExits
  <2>10. CASE AgentStarts \/ RecordsAge \/ UNCHANGED vars
    BY <2>0, <2>10 DEF AgentStarts, RecordsAge, flowVars, vars
  <2> QED BY <1>1, <2>2, <2>3, <2>4, <2>5, <2>6, <2>7, <2>8, <2>9, <2>10 DEF Next
<1>2. ASSUME Typing, [Next]_vars PROVE [\A c \in Channels : ended(c) => users(c)]_vars
  BY <1>1, <1>2
<1> QED BY <1>2, TypedInit, TypedStep, PTL DEF Spec, PromptsAreTheUsers

-----------------------------------------------------------------------------
(* Sessions. *)

(* Every session is recorded once, on one channel; where a record is old   *)
(* the earlier ones are too; and no current session was revoked.           *)
RecordedOnce == \A c, d \in Channels : \A i \in DOMAIN records[c], j \in DOMAIN records[d] :
    records[c][i].sess = records[d][j].sess => c = d /\ i = j

OldestFirst == \A c \in Channels : \A i, j \in DOMAIN records[c] :
    i < j /\ records[c][j].old => records[c][i].old

RecordsSound ==
    /\ RecordedOnce /\ OldestFirst
    /\ \A c \in Channels : \A i \in DOMAIN records[c] : records[c][i].sess # 0
    /\ 0 \notin revoked
    /\ \A c \in Channels : Current(records[c]) \notin revoked

(* A turn resumes the current session of its channel, or none. *)
Carried == turn.on => turn.sess \in {0, Current(records[turn.msg.ch])}

LEMMA SoundIsCleared ==
    ASSUME Typing, RecordsSound, Carried
    PROVE  ClearedStaysCleared
<1>1. turn.on => turn.sess \notin revoked
  BY TurnIs DEF RecordsSound, Carried
<1>2. activeSessions \cap revoked = {}
  BY DEF RecordsSound, activeSessions
<1> QED BY <1>1, <1>2 DEF ClearedStaysCleared

LEMMA RecordsAre ==
    ASSUME Typing, NEW c \in Channels
    PROVE  /\ records[c] \in Seq(Record) /\ Current(records[c]) \in Nat
           /\ Len(records[c]) \in Nat /\ DOMAIN records[c] = 1..Len(records[c])
           /\ \A i \in DOMAIN records[c] : records[c][i] \in Record
<1>1. records[c] \in Seq(Record)
  BY DEF Typing, TypeOK
<1> QED BY <1>1, CurrentIs

LEMMA FreshSound ==
    ASSUME Typing, RecordsSound, NEW i \in DOMAIN queue, StartsFresh(i)
    PROVE  RecordsSound'
<1> DEFINE c == queue[i].ch
<1>1. c \in Channels
  BY QueueAt
<1>2. records' = [records EXCEPT ![c] = cleared(records[c])]
      /\ revoked' = revoked \cup {records[c][j].sess : j \in DOMAIN records[c]}
  BY DEF StartsFresh
<1> HIDE DEF c
<1>3. records \in [Channels -> Seq(Record)]
  BY DEF Typing, TypeOK
<1>4. \A d \in Channels : records'[d] = IF d = c THEN cleared(records[c]) ELSE records[d]
  BY <1>1, <1>2, <1>3
<1>5. /\ DOMAIN cleared(records[c]) = DOMAIN records[c] /\ Current(cleared(records[c])) = 0
      /\ \A j \in DOMAIN records[c] : /\ cleared(records[c])[j].sess = records[c][j].sess
                                      /\ cleared(records[c])[j].old = records[c][j].old
  BY <1>1, <1>3, ClearedIs
<1>6. \A d \in Channels : /\ DOMAIN records'[d] = DOMAIN records[d]
                          /\ \A j \in DOMAIN records[d] : /\ records'[d][j].sess = records[d][j].sess
                                                          /\ records'[d][j].old = records[d][j].old
  BY <1>4, <1>5
<1>7. RecordedOnce' /\ OldestFirst'
      /\ \A d \in Channels : \A j \in DOMAIN records'[d] : records'[d][j].sess # 0
  BY <1>6 DEF RecordsSound, RecordedOnce, OldestFirst
<1>8. 0 \notin revoked'
  BY <1>1, <1>2 DEF RecordsSound
<1>9. ASSUME NEW d \in Channels PROVE Current(records'[d]) \notin revoked'
  <2>1. CASE d = c
    BY <1>4, <1>5, <1>8, <2>1
  <2>2. CASE d # c
    <3>1. records'[d] = records[d]
      BY <1>4, <2>2
    <3>2. Current(records[d]) \notin revoked
      BY DEF RecordsSound
    <3>3. ASSUME NEW j \in DOMAIN records[c], Current(records[d]) = records[c][j].sess
          PROVE  FALSE
      <4>1. records[c][j].sess # 0
        BY <1>1 DEF RecordsSound
      <4>2. records[d] # <<>> /\ Len(records[d]) \in DOMAIN records[d]
            /\ Current(records[d]) = records[d][Len(records[d])].sess
        <5>1. records[d] \in Seq(Record)
          BY RecordsAre
        <5>2. Current(records[d]) # 0
          BY <3>3, <4>1
        <5> QED BY <5>1, <5>2, CurrentIs
      <4> DEFINE k == Len(records[d])
      <4>3. k \in DOMAIN records[d] /\ records[d][k].sess = records[c][j].sess
        BY <3>3, <4>2
      <4> HIDE DEF k
      <4>4. RecordedOnce
        BY DEF RecordsSound
      <4> QED BY <1>1, <2>2, <3>3, <4>3, <4>4 DEF RecordedOnce
    <3> QED BY <1>2, <3>1, <3>2, <3>3
  <2> QED BY <2>1, <2>2
<1> QED BY <1>7, <1>8, <1>9 DEF RecordsSound

LEMMA CompletesSound ==
    ASSUME Typing, RecordsSound, Carried, TurnCompletes
    PROVE  RecordsSound'
<1> DEFINE c == turn.msg.ch
<1>1. turn.on /\ c \in Channels /\ revoked' = revoked
  BY TurnIs DEF TurnCompletes, done
<1>2. PICK s \in cliSessions : SetCurrent(c, s)
  BY DEF TurnCompletes
<1>3. s \in Nat /\ s \in {turn.sess, newSession, 0} /\ (turn.sess # 0 => s = turn.sess)
  BY <1>1, CliSessionsAre
<1> DEFINE e == [sess |-> s, cleared |-> FALSE, old |-> FALSE]
<1>4. CASE records' = records
  BY <1>1, <1>4 DEF RecordsSound, RecordedOnce, OldestFirst
<1>5. CASE /\ s # 0 /\ s # Current(records[c])
           /\ records' = [d \in Channels |-> IF d = c THEN Append(records[c], e) ELSE records[d]]
  <2>1. s = newSession /\ s \notin known
    BY <1>1, <1>3, <1>5, NewSession DEF Carried
  <2>2. s \notin revoked /\ \A d \in Channels : \A j \in DOMAIN records[d] : records[d][j].sess # s
    BY <2>1 DEF known
  <2> DEFINE n == Len(records[c])
             r == Append(records[c], e)
  <2>3. records[c] \in Seq(Record) /\ n \in Nat /\ DOMAIN records[c] = 1..n
    BY <1>1, RecordsAre
  <2>4. e \in Record /\ e.sess = s /\ ~e.old /\ ~e.cleared
    BY <1>3 DEF Record
  <2> HIDE DEF e, c
  <2>5. /\ r \in Seq(Record) /\ Len(r) = n + 1 /\ DOMAIN r = 1..(n + 1) /\ r[n + 1] = e
        /\ \A j \in 1..n : r[j] = records[c][j]
    BY <2>3, <2>4
  <2> HIDE DEF r, n
  <2>6. \A d \in Channels : records'[d] = IF d = c THEN r ELSE records[d]
    BY <1>5 DEF r
  <2>7. \A j \in DOMAIN r : j = n + 1 \/ j \in DOMAIN records[c]
    BY <2>3, <2>5
  <2>8. ASSUME NEW d \in Channels, NEW j \in DOMAIN records'[d]
        PROVE  \/ d = c /\ j = n + 1 /\ records'[d][j].sess = s /\ ~records'[d][j].old
               \/ /\ j \in DOMAIN records[d] /\ records'[d][j] = records[d][j]
                  /\ records'[d][j].sess # s
    <3>1. CASE d = c /\ j = n + 1
      BY <2>4, <2>5, <2>6, <3>1
    <3>2. CASE d = c /\ j # n + 1
      <4>1. j \in DOMAIN records[c] /\ records'[d][j] = records[c][j]
        BY <2>3, <2>5, <2>6, <2>7, <3>2
      <4> QED BY <2>2, <3>2, <4>1
    <3>3. CASE d # c
      BY <2>2, <2>6, <3>3
    <3> QED BY <3>1, <3>2, <3>3
  <2>9. RecordedOnce'
    <3> SUFFICES ASSUME NEW d1 \in Channels, NEW d2 \in Channels, NEW j1 \in DOMAIN records'[d1],
                        NEW j2 \in DOMAIN records'[d2],
                        records'[d1][j1].sess = records'[d2][j2].sess
                 PROVE  d1 = d2 /\ j1 = j2
      BY DEF RecordedOnce
    <3> QED BY <2>8 DEF RecordsSound, RecordedOnce
  <2>10. OldestFirst'
    <3> SUFFICES ASSUME NEW d \in Channels, NEW j1 \in DOMAIN records'[d],
                        NEW j2 \in DOMAIN records'[d], j1 < j2, records'[d][j2].old
                 PROVE  records'[d][j1].old
      BY DEF OldestFirst
    <3>1. j2 \in DOMAIN records[d] /\ records'[d][j2] = records[d][j2]
      BY <2>8
    <3>2. ~(d = c /\ j1 = n + 1)
      <4> SUFFICES ASSUME d = c, j1 = n + 1 PROVE FALSE
        OBVIOUS
      <4>1. j2 \in 1..n
        BY <2>3, <3>1
      <4> QED BY <2>3, <4>1
    <3>3. j1 \in DOMAIN records[d] /\ records'[d][j1] = records[d][j1]
      BY <2>8, <3>2
    <3> QED BY <3>1, <3>3 DEF RecordsSound, OldestFirst
  <2>11. \A d \in Channels : \A j \in DOMAIN records'[d] : records'[d][j].sess # 0
    BY <1>5, <2>8 DEF RecordsSound
  <2>12. ASSUME NEW d \in Channels PROVE Current(records'[d]) \notin revoked'
    <3>1. CASE d = c
      <4>1. r # <<>> /\ Current(r) = s
        BY <2>3, <2>4, <2>5, CurrentIs
      <4> QED BY <1>1, <2>2, <2>6, <3>1, <4>1
    <3>2. CASE d # c
      BY <1>1, <2>6, <3>2 DEF RecordsSound
    <3> QED BY <3>1, <3>2
  <2> QED BY <1>1, <2>9, <2>10, <2>11, <2>12 DEF RecordsSound
<1> QED BY <1>1, <1>2, <1>3, <1>4, <1>5, SetCurrentIs

(* What the cleanup keeps of a channel's records, in their order; it never *)
(* brings an earlier session back.                                         *)
LEMMA PrunedIs ==
    ASSUME Typing, RecordsSound, NEW c \in Channels
    PROVE  /\ pruned(records[c]) \in Seq(Record)
           /\ Current(pruned(records[c])) \in {0, Current(records[c])}
           /\ \E f \in [DOMAIN pruned(records[c]) -> DOMAIN records[c]] :
                /\ \A j, k \in DOMAIN pruned(records[c]) : j < k => f[j] < f[k]
                /\ \A k \in DOMAIN pruned(records[c]) : pruned(records[c])[k] = records[c][f[k]]
<1> DEFINE rs == records[c]
           P == {i \in DOMAIN rs : rs[i].sess \in activeSessions \/ ~rs[i].old}
           r == elementsAt(rs, P)
           n == Cardinality(P)
           f == inOrder(P)
<1>0. pruned(rs) = r
  BY DEF pruned
<1>1. rs \in Seq(Record) /\ P \in SUBSET (DOMAIN rs) /\ Len(rs) \in Nat /\ DOMAIN rs = 1..Len(rs)
      /\ \A i \in DOMAIN rs : rs[i] \in Record
  BY RecordsAre
<1>2. \A i \in P : i \in DOMAIN rs /\ (rs[i].sess \in activeSessions \/ ~rs[i].old)
  OBVIOUS
<1>3. \A i \in DOMAIN rs : i \notin P => rs[i].sess \notin activeSessions /\ rs[i].old
  BY <1>1, RecordIs
<1> HIDE DEF rs, P
<1>4. /\ r \in Seq(Record) /\ f \in [1..n -> P] /\ \A j, k \in 1..n : j < k => f[j] < f[k]
      /\ DOMAIN r = 1..n /\ \A k \in 1..n : r[k] = rs[f[k]]
  BY <1>1, ElementsAt
<1>5. f \in [DOMAIN r -> DOMAIN rs]
  BY <1>1, <1>4
<1>6. Current(r) \in {0, Current(rs)}
  <2>1. CASE r = <<>>
    BY <1>4, <2>1, CurrentIs
  <2>2. CASE r # <<>>
    <3> HIDE DEF f
    <3>1. Len(r) \in DOMAIN r
      BY <1>4, <2>2, CurrentIs
    <3>2. P # {}
      BY <1>4, <3>1
    <3>3. n \in Nat \ {0} /\ f[n] \in P /\ \A x \in P : x <= f[n]
      BY <1>1, <3>2, LastAt DEF f
    <3> HIDE DEF r, n
    <3>4. Len(r) = n
      BY <1>4, <3>3
    <3>5. Len(rs) \in DOMAIN rs /\ rs # <<>>
      BY <1>1, <3>3
    <3>6. CASE Len(rs) \in P
      <4>1. f[n] = Len(rs)
        BY <1>1, <3>3, <3>6
      <4>2. r[n] = rs[Len(rs)]
        BY <1>4, <3>3, <4>1
      <4> QED BY <1>1, <1>4, <2>2, <3>4, <3>5, <4>2, CurrentIs
    <3>7. CASE Len(rs) \notin P
      <4>1. rs[Len(rs)].old /\ rs[Len(rs)].sess \notin activeSessions
        BY <1>3, <3>5, <3>7
      <4> DEFINE i == f[n]
      <4>2. i \in DOMAIN rs /\ i # Len(rs) /\ i < Len(rs)
        BY <1>1, <3>3, <3>7
      <4>3. rs[i].old
        BY <3>5, <4>1, <4>2 DEF RecordsSound, OldestFirst, rs
      <4>4. rs[i].sess \in activeSessions
        BY <1>2, <3>3, <4>3
      <4> HIDE DEF i
      <4>5. PICK d \in Channels : rs[i].sess = Current(records[d]) /\ Current(records[d]) # 0
        BY <4>4 DEF activeSessions
      <4>6. /\ Len(records[d]) \in DOMAIN records[d]
            /\ Current(records[d]) = records[d][Len(records[d])].sess
        <5>1. records[d] \in Seq(Record)
          BY RecordsAre
        <5> QED BY <4>5, <5>1, CurrentIs
      <4>7. d = c /\ i = Len(records[d])
        BY <4>2, <4>5, <4>6 DEF RecordsSound, RecordedOnce, rs
      <4> QED BY <4>2, <4>7 DEF rs
    <3> QED BY <3>6, <3>7
  <2> QED BY <2>1, <2>2
<1> HIDE DEF r, f, n
<1>7. (\A j, k \in DOMAIN r : j < k => f[j] < f[k]) /\ \A k \in DOMAIN r : r[k] = rs[f[k]]
  BY <1>4
<1> QED BY <1>0, <1>4, <1>5, <1>6, <1>7 DEF rs

LEMMA StartsSound ==
    ASSUME Typing, RecordsSound, AgentStarts
    PROVE  RecordsSound'
<1>1. PICK kept \in SUBSET Channels :
        records' = [c \in Channels |-> IF c \in kept THEN records[c] ELSE pruned(records[c])]
  BY DEF AgentStarts
<1>2. revoked' = revoked
  BY DEF AgentStarts
<1>3. ASSUME NEW c \in Channels
      PROVE  /\ Current(records'[c]) \in {0, Current(records[c])}
             /\ DOMAIN records'[c] \subseteq Nat
             /\ \E f \in [DOMAIN records'[c] -> DOMAIN records[c]] :
                  /\ \A j, k \in DOMAIN records'[c] : j < k => f[j] < f[k]
                  /\ \A k \in DOMAIN records'[c] : records'[c][k] = records[c][f[k]]
  <2>1. CASE c \in kept
    <3>1. records'[c] = records[c]
      BY <1>1, <2>1
    <3> DEFINE f == [k \in DOMAIN records[c] |-> k]
    <3>2. f \in [DOMAIN records[c] -> DOMAIN records[c]] /\ \A k \in DOMAIN records[c] : f[k] = k
      OBVIOUS
    <3> HIDE DEF f
    <3>3. DOMAIN records[c] \subseteq Nat
      BY RecordsAre
    <3> QED BY <3>1, <3>2, <3>3
  <2>2. CASE c \notin kept
    <3>1. records'[c] = pruned(records[c])
      BY <1>1, <2>2
    <3>2. /\ pruned(records[c]) \in Seq(Record)
          /\ Current(pruned(records[c])) \in {0, Current(records[c])}
          /\ \E f \in [DOMAIN pruned(records[c]) -> DOMAIN records[c]] :
               /\ \A j, k \in DOMAIN pruned(records[c]) : j < k => f[j] < f[k]
               /\ \A k \in DOMAIN pruned(records[c]) : pruned(records[c])[k] = records[c][f[k]]
      BY PrunedIs
    <3>3. DOMAIN pruned(records[c]) \subseteq Nat
      BY <3>2
    <3> QED BY <3>1, <3>2, <3>3
  <2> QED BY <2>1, <2>2
<1>4. ASSUME NEW c \in Channels, NEW j \in DOMAIN records'[c]
      PROVE  \E i \in DOMAIN records[c] : records'[c][j] = records[c][i]
  BY <1>3
<1>5. RecordedOnce'
  <2> SUFFICES ASSUME NEW c \in Channels, NEW d \in Channels, NEW i \in DOMAIN records'[c],
                      NEW j \in DOMAIN records'[d], records'[c][i].sess = records'[d][j].sess
               PROVE  c = d /\ i = j
    BY DEF RecordedOnce
  <2>1. PICK f \in [DOMAIN records'[c] -> DOMAIN records[c]] :
             /\ \A k, l \in DOMAIN records'[c] : k < l => f[k] < f[l]
             /\ \A k \in DOMAIN records'[c] : records'[c][k] = records[c][f[k]]
    BY <1>3
  <2>2. PICK k \in DOMAIN records[d] : records'[d][j] = records[d][k]
    BY <1>4
  <2>3. c = d
    BY <2>1, <2>2 DEF RecordsSound, RecordedOnce
  <2>4. j \in DOMAIN records'[c] /\ records'[c][j] = records[c][f[j]]
    BY <2>1, <2>3
  <2>5. f[i] = f[j]
    <3>1. f[i] \in DOMAIN records[c] /\ f[j] \in DOMAIN records[c]
      BY <2>1, <2>4
    <3>2. records[c][f[i]].sess = records[c][f[j]].sess
      BY <2>1, <2>3, <2>4
    <3> QED BY <3>1, <3>2 DEF RecordsSound, RecordedOnce
  <2>6. i \in Nat /\ j \in Nat /\ f[i] \in Nat
    <3>1. DOMAIN records[c] \subseteq Nat
      BY RecordsAre
    <3> QED BY <1>3, <2>1, <3>1
  <2>7. i < j \/ j < i \/ i = j
    BY <2>6
  <2> QED BY <2>1, <2>3, <2>4, <2>5, <2>6, <2>7
<1>6. OldestFirst'
  <2> SUFFICES ASSUME NEW c \in Channels, NEW i \in DOMAIN records'[c], NEW j \in DOMAIN records'[c],
                      i < j, records'[c][j].old
               PROVE  records'[c][i].old
    BY DEF OldestFirst
  <2>1. PICK f \in [DOMAIN records'[c] -> DOMAIN records[c]] :
             /\ \A k, l \in DOMAIN records'[c] : k < l => f[k] < f[l]
             /\ \A k \in DOMAIN records'[c] : records'[c][k] = records[c][f[k]]
    BY <1>3
  <2>2. f[i] \in DOMAIN records[c] /\ f[j] \in DOMAIN records[c] /\ f[i] < f[j]
    BY <2>1
  <2> QED BY <2>1, <2>2 DEF RecordsSound, OldestFirst
<1>7. \A c \in Channels : \A i \in DOMAIN records'[c] : records'[c][i].sess # 0
  BY <1>4 DEF RecordsSound
<1>8. \A c \in Channels : Current(records'[c]) \notin revoked'
  BY <1>2, <1>3 DEF RecordsSound
<1> QED BY <1>2, <1>5, <1>6, <1>7, <1>8 DEF RecordsSound

LEMMA AgeSound ==
    ASSUME Typing, RecordsSound, RecordsAge
    PROVE  RecordsSound'
<1>1. records' = [c \in Channels |-> [i \in DOMAIN records[c] |->
                    [records[c][i] EXCEPT !.old = TRUE]]] /\ revoked' = revoked
  BY DEF RecordsAge
<1>2. ASSUME NEW c \in Channels
      PROVE  /\ DOMAIN records'[c] = DOMAIN records[c]
             /\ \A i \in DOMAIN records[c] : /\ records'[c][i].sess = records[c][i].sess
                                             /\ records'[c][i].old
                                             /\ records'[c][i].cleared = records[c][i].cleared
  <2>1. \A i \in DOMAIN records[c] : records[c][i] \in Record
    BY RecordsAre
  <2>2. records'[c] = [i \in DOMAIN records[c] |-> [records[c][i] EXCEPT !.old = TRUE]]
    BY <1>1
  <2>3. \A i \in DOMAIN records[c] : records'[c][i] = [records[c][i] EXCEPT !.old = TRUE]
    BY <2>2
  <2> QED BY <2>1, <2>2, <2>3, RecordIs
<1>3. ASSUME NEW c \in Channels PROVE Current(records'[c]) = Current(records[c])
  <2>1. records[c] \in Seq(Record) /\ records'[c] \in Seq(Record)
    <3>1. Typing'
      BY AgentTyped
    <3> QED BY <3>1 DEF Typing, TypeOK
  <2>2. Len(records'[c]) = Len(records[c]) /\ (records[c] = <<>> <=> records'[c] = <<>>)
    BY <1>2, <2>1
  <2>3. CASE records[c] = <<>>
    BY <2>1, <2>2, <2>3, CurrentIs
  <2>4. CASE records[c] # <<>>
    <3>1. Len(records[c]) \in DOMAIN records[c]
      BY <2>1, <2>4, CurrentIs
    <3>2. /\ records'[c][Len(records'[c])].sess = records[c][Len(records[c])].sess
          /\ records'[c][Len(records'[c])].cleared = records[c][Len(records[c])].cleared
      BY <1>2, <2>2, <3>1
    <3>3. Current(records[c]) = IF records[c][Len(records[c])].cleared THEN 0
                                ELSE records[c][Len(records[c])].sess
      BY <2>1, <2>4, CurrentIs
    <3>4. Current(records'[c]) = IF records'[c][Len(records'[c])].cleared THEN 0
                                 ELSE records'[c][Len(records'[c])].sess
      BY <2>1, <2>2, <2>4, CurrentIs
    <3> QED BY <3>2, <3>3, <3>4
  <2> QED BY <2>3, <2>4
<1>4. RecordedOnce' /\ OldestFirst'
  BY <1>2 DEF RecordsSound, RecordedOnce, OldestFirst
<1> QED BY <1>1, <1>2, <1>3, <1>4 DEF RecordsSound

LEMMA SameSound ==
    ASSUME RecordsSound, UNCHANGED <<records, revoked>> PROVE RecordsSound'
BY DEF RecordsSound, RecordedOnce, OldestFirst

LEMMA RecordsStep ==
    ASSUME Typing, RecordsSound, Carried, [Next]_vars
    PROVE  RecordsSound'
<1>1. CASE Commanded
  <2>1. PICK i \in DOMAIN queue :
           OnlyReplies(i) \/ StopsFlow(i) \/ StartsFresh(i) \/ Login(i) \/ StalePress(i)
    BY <1>1 DEF Commanded
  <2>2. CASE StartsFresh(i)
    BY <2>2, FreshSound
  <2>3. CASE OnlyReplies(i) \/ StopsFlow(i) \/ Login(i) \/ StalePress(i)
    BY <2>3, SameSound DEF OnlyReplies, StopsFlow, Login, StalePress
  <2> QED BY <2>1, <2>2, <2>3
<1>2. CASE Answered
  BY <1>2, SameSound DEF Answered, AnswersAuth, Approves, Declines, MovesOn, beginTurn
<1>3. CASE Begins
  BY <1>3, SameSound DEF Begins, BeginTurn, beginTurn
<1>4. CASE Ends
  <2>1. CASE TurnCompletes
    BY <2>1, CompletesSound
  <2>2. CASE RateLimited \/ AuthRequired \/ ToolsDenied
    BY <2>2, SameSound DEF RateLimited, AuthRequired, ToolsDenied, done
  <2> QED BY <1>4, <2>1, <2>2 DEF Ends
<1>5. CASE OAuth
  BY <1>5, SameSound DEF OAuth, OAuthEnds, OAuthNotifies
<1>6. CASE TakesNotify
  BY <1>6, SameSound DEF TakesNotify
<1>7. CASE Sends
  BY <1>7, SameSound DEF Sends, Arrives, ArrivesMidTurn
<1>8. CASE AgentExits \/ UNCHANGED vars
  BY <1>8, SameSound DEF AgentExits, vars
<1> QED BY <1>1, <1>2, <1>3, <1>4, <1>5, <1>6, <1>7, <1>8, StartsSound, AgeSound DEF Next

LEMMA CarriedStep ==
    ASSUME Typing, Carried, [Next]_vars
    PROVE  Carried'
<1> RestTypes
  BY TypingSplits
<1>1. ASSUME turn' = turn, records' = records \/ ~turn.on PROVE Carried'
  BY <1>1 DEF Carried
<1>2. ASSUME NEW m \in Message, NEW by \in Message \cup {NoMessage}, NEW left \in Nat,
             beginTurn(m, by, left)
      PROVE  Carried'
  BY <1>2, BeginIs DEF Carried
<1>3. ASSUME turn' = NoTurn PROVE Carried'
  BY <1>3 DEF Carried, NoTurn
<1>4. CASE Commanded
  <2>1. ~turn.on /\ turn' = turn
    BY <1>4 DEF Commanded, OnlyReplies, StopsFlow, StartsFresh, Login, StalePress, takes, idle,
                noTurn, turnVars
  <2> QED BY <1>1, <2>1
<1>5. CASE Answered
  <2>1. PICK i \in DOMAIN queue : AnswersAuth(i) \/ Approves(i) \/ Declines(i) \/ MovesOn(i)
    BY <1>5 DEF Answered
  <2>2. queue[i] \in Message /\ queue[i].ch \in Channels
    BY QueueAt
  <2>3. CASE AnswersAuth(i) \/ Declines(i)
    <3>1. ~turn.on /\ turn' = turn
      BY <2>3 DEF AnswersAuth, Declines, takes, idle, noTurn, turnVars
    <3> QED BY <1>1, <3>1
  <2>4. CASE Approves(i)
    <3> DEFINE f == flow[queue[i].ch]
    <3>1. f \in Approval
      BY <2>2, <2>4, TypingSplits, FlowIs DEF Approves
    <3>2. f.orig \in Message /\ f.sess \in Nat
      BY <3>1, ApprovalIs
    <3>3. beginTurn(f.orig, queue[i], f.sess)
      BY <2>4 DEF Approves
    <3> QED BY <1>2, <2>2, <3>2, <3>3
  <2>5. CASE MovesOn(i)
    <3>1. beginTurn(queue[i], NoMessage, 0)
      BY <2>5 DEF MovesOn
    <3> QED BY <1>2, <2>2, <3>1
  <2> QED BY <2>1, <2>3, <2>4, <2>5
<1>6. CASE Begins
  <2>1. PICK i \in DOMAIN queue : BeginTurn(i)
    BY <1>6 DEF Begins
  <2>2. queue[i] \in Message /\ beginTurn(queue[i], NoMessage, 0)
    BY <2>1, QueueAt DEF BeginTurn
  <2> QED BY <1>2, <2>2
<1>7. CASE Ends
  <2>1. CASE TurnCompletes \/ AuthRequired \/ ToolsDenied
    <3>1. turn' = NoTurn
      BY <2>1 DEF TurnCompletes, AuthRequired, ToolsDenied, done
    <3> QED BY <1>3, <3>1
  <2>2. CASE RateLimited
    <3>1. turn \in Turn /\ turn.on /\ records' = records
      BY <2>2, TurnIs DEF RateLimited
    <3>2. turn'.sess = turn.sess /\ turn'.msg = turn.msg
      BY <2>2, <3>1 DEF RateLimited, Turn
    <3> QED BY <3>1, <3>2 DEF Carried
  <2> QED BY <1>7, <2>1, <2>2 DEF Ends
<1>8. CASE OAuth \/ TakesNotify
  <2>1. turn' = turn /\ records' = records
    BY <1>8 DEF OAuth, OAuthEnds, OAuthNotifies, TakesNotify, turnVars
  <2> QED BY <1>1, <2>1
<1>9. CASE Sends
  <2>1. PICK m \in Message : Arrives(m) \/ ArrivesMidTurn(m)
    BY <1>9 DEF Sends
  <2>2. records' = records
    BY <2>1 DEF Arrives, ArrivesMidTurn
  <2>3. turn' = turn \/ (turn.on /\ turn' = [turn EXCEPT !.cut = TRUE])
    BY <2>1 DEF Arrives, ArrivesMidTurn, turnVars
  <2>4. CASE turn.on /\ turn' = [turn EXCEPT !.cut = TRUE]
    <3>1. turn \in Turn
      BY <2>4, TurnIs
    <3>2. turn'.sess = turn.sess /\ turn'.msg = turn.msg
      BY <2>4, <3>1 DEF Turn
    <3> QED BY <2>2, <2>4, <3>2 DEF Carried
  <2> QED BY <1>1, <2>2, <2>3, <2>4
<1>10. CASE AgentExits
  BY <1>3, <1>10 DEF AgentExits
<1>11. CASE AgentStarts \/ RecordsAge
  <2>1. ~alive /\ turn' = turn
    BY <1>11 DEF AgentStarts, RecordsAge, turnVars
  <2> QED BY <1>1, <2>1 DEF RestTypes
<1>12. CASE UNCHANGED vars
  BY <1>1, <1>12 DEF vars
<1> QED BY <1>4, <1>5, <1>6, <1>7, <1>8, <1>9, <1>10, <1>11, <1>12 DEF Next

(* A conversation that a fresh-session command ended is never resumed and  *)
(* never current again, whatever turns, retries, prompts, ages and exits   *)
(* come in between and whatever the cleanup fails to write                 *)
(* (clearChannelSession, lookupSession, SessionStore.SetCurrent and        *)
(* pruneSessionStoreRecords).                                              *)
THEOREM ClearedSessions == Spec => []ClearedStaysCleared
<1>1. Init => RecordsSound /\ Carried
  <2> SUFFICES ASSUME Init PROVE RecordsSound /\ Carried
    OBVIOUS
  <2>1. turn = NoTurn /\ revoked = {} /\ \A c \in Channels : records[c] = <<>>
    BY DEF Init
  <2>2. RecordsSound
    BY <2>1 DEF RecordsSound, RecordedOnce, OldestFirst
  <2> QED BY <2>1, <2>2 DEF Carried, NoTurn
<1>2. Typing /\ RecordsSound /\ Carried /\ [Next]_vars => (RecordsSound /\ Carried)'
  BY RecordsStep, CarriedStep
<1>3. Typing /\ RecordsSound /\ Carried => ClearedStaysCleared
  BY SoundIsCleared
<1> QED BY <1>1, <1>2, <1>3, TypedInit, TypedStep, PTL DEF Spec

-----------------------------------------------------------------------------
(* Where a message is, and what its turns are for. *)

distinct(q) == \A i, j \in DOMAIN q : q[i].id = q[j].id => i = j
ids(q) == {q[i].id : i \in DOMAIN q}
inTurn == IF turn.on THEN {turn.msg.id} ELSE {}
keptBy(c) == IF flow[c] = NoFlow THEN {} ELSE {flow[c].orig.id} \ {0}
paying(m) == {f \in answered : asked[f] = m}

(* A message is in the queue, in a turn or kept by a flow, once. *)
Placed ==
    /\ distinct(queue)
    /\ ids(queue) \subseteq 1..sent /\ inTurn \subseteq 1..sent
    /\ inTurn \cap ids(queue) = {}
    /\ \A c \in Channels : /\ keptBy(c) \subseteq 1..sent
                           /\ keptBy(c) \cap ids(queue) = {}
                           /\ keptBy(c) \cap inTurn = {}
    /\ \A c, d \in Channels : c # d => keptBy(c) \cap keptBy(d) = {}

(* An open prompt is the latest of its number, not yet answered, and about *)
(* the message its flow keeps, which came from its own channel.            *)
Prompted ==
    /\ \A c \in Channels : flow[c] # NoFlow =>
         /\ flow[c].id \in 1..opened /\ flow[c].id \notin answered
         /\ asked[flow[c].id] = flow[c].orig.id
         /\ flow[c].orig = NoMessage \/ flow[c].orig.ch = c
    /\ \A c, d \in Channels :
         flow[c] # NoFlow /\ flow[d] # NoFlow /\ flow[c].id = flow[d].id => c = d
    /\ answered \subseteq 1..opened

(* A message that waits has had a turn for each prompt answered about it;  *)
(* one that does not wait may have had one more.                           *)
Paid == \A m \in Ids :
    /\ m > sent => runs[m] = 0
    /\ runs[m] <= Cardinality(paying(m)) + (IF m \in ids(queue) THEN 0 ELSE 1)

(* What a step does to the flows: nothing, or something to one of them. *)
SameFlows == UNCHANGED <<flow, opened, asked>>

Drops(c) ==
    /\ flow' = [d \in Channels |-> IF d = c THEN NoFlow ELSE flow[d]]
    /\ UNCHANGED <<opened, asked>>

Opens(c, m) ==
    /\ opened + 1 \in Flows /\ opened' = opened + 1
    /\ asked' = [g \in Flows |-> IF g = opened + 1 THEN m.id ELSE asked[g]]
    /\ \E f \in Auth \cup Approval :
         /\ f.id = opened + 1 /\ f.orig = m
         /\ flow' = [d \in Channels |-> IF d = c THEN f ELSE flow[d]]

Moves(c) ==
    /\ flow[c] # NoFlow /\ UNCHANGED <<opened, asked>>
    /\ \E f \in Auth :
         /\ f.id = flow[c].id /\ f.orig = flow[c].orig
         /\ flow' = [d \in Channels |-> IF d = c THEN f ELSE flow[d]]

LEMMA FlowSteps ==
    ASSUME FlowTypes, NEW c \in Channels
    PROVE  /\ Complete(c) => Drops(c)
           /\ Cancel(c) => Drops(c)
           /\ \A m \in Message \cup {NoMessage} : start(c, newAuth(m)) => Opens(c, m)
           /\ \A m \in Message, s \in Nat : start(c, newApproval(m, s)) => Opens(c, m)
           /\ \A st \in {"key", "oauth", "deploy"} :
                flow[c].kind = "auth" /\ enters(c, st) => Moves(c)
<1>1. Complete(c) => Drops(c)
  BY CompleteTyped DEF Drops
<1>2. Cancel(c) => Drops(c)
  BY CancelTyped DEF Drops
<1>3. ASSUME NEW m \in Message \cup {NoMessage}, start(c, newAuth(m)) PROVE Opens(c, m)
  <2>1. opened < MaxFlows
    BY <1>3 DEF start
  <2> DEFINE f == newAuth(m)
  <2>2. f \in Auth /\ f.st # "oauth" /\ f.id = opened + 1 /\ f.orig = m
    BY <2>1, NewAuthIs
  <2> HIDE DEF f
  <2>3. /\ opened' = opened + 1 /\ opened + 1 \in Flows
        /\ flow' = [d \in Channels |-> IF d = c THEN f ELSE flow[d]]
        /\ asked' = [g \in Flows |-> IF g = opened + 1 THEN f.orig.id ELSE asked[g]]
    BY <1>3, <2>2, StartTyped DEF f
  <2> QED BY <2>2, <2>3 DEF Opens
<1>4. ASSUME NEW m \in Message, NEW s \in Nat, start(c, newApproval(m, s)) PROVE Opens(c, m)
  <2>1. opened < MaxFlows
    BY <1>4 DEF start
  <2> DEFINE f == newApproval(m, s)
  <2>2. f \in Approval /\ f.kind = "approval" /\ f.id = opened + 1 /\ f.orig = m
    BY <2>1, NewApprovalIs
  <2> HIDE DEF f
  <2>3. /\ opened' = opened + 1 /\ opened + 1 \in Flows
        /\ flow' = [d \in Channels |-> IF d = c THEN f ELSE flow[d]]
        /\ asked' = [g \in Flows |-> IF g = opened + 1 THEN f.orig.id ELSE asked[g]]
    BY <1>4, <2>2, StartTyped DEF f
  <2> QED BY <2>2, <2>3 DEF Opens
<1>5. ASSUME NEW st \in {"key", "oauth", "deploy"}, flow[c].kind = "auth", enters(c, st)
      PROVE  Moves(c)
  <2>1. flow[c] \in Auth /\ flow[c] # NoFlow
    BY <1>5, FlowIs
  <2> DEFINE f == [flow[c] EXCEPT !.st = st]
  <2>2. f \in Auth /\ f.id = flow[c].id /\ f.orig = flow[c].orig
    BY <2>1 DEF Auth
  <2>3. flow' = [d \in Channels |-> IF d = c THEN f ELSE flow[d]] /\ UNCHANGED <<opened, asked>>
    BY <1>5 DEF enters, FlowTypes
  <2> HIDE DEF f
  <2> QED BY <2>1, <2>2, <2>3 DEF Moves
<1> QED BY <1>1, <1>2, <1>3, <1>4, <1>5

(* The shapes of a step, as far as messages and prompts go. *)
Shrinks == queue' = queue \/ \E i \in DOMAIN queue : queue' = RemoveAt(queue, i)

Rests ==
    /\ Shrinks /\ inTurn' \subseteq inTurn /\ runs' = runs /\ answered' = answered
    /\ sent' \in Nat /\ sent <= sent'
    /\ \/ SameFlows
       \/ \E c \in Channels : Drops(c) \/ Opens(c, NoMessage) \/ Moves(c)
       \/ flow' = [c \in Channels |-> NoFlow] /\ UNCHANGED <<opened, asked>>

Retries == \E c \in Channels : \E rest \in Seq(Message) :
    /\ rest = queue \/ \E i \in DOMAIN queue : rest = RemoveAt(queue, i)
    /\ flow[c] # NoFlow /\ Drops(c) /\ answered' = answered \cup {flow[c].id}
    /\ queue' = IF flow[c].orig = NoMessage THEN rest ELSE Append(rest, flow[c].orig)
    /\ UNCHANGED <<turn, runs, sent>>

Runs(m) ==
    /\ turn'.on /\ turn'.msg = m
    /\ runs' = [k \in Ids |-> IF k = m.id THEN runs[k] + 1 ELSE runs[k]]
    /\ sent' = sent

TurnsBegin == \E i \in DOMAIN queue :
    /\ ~turn.on /\ queue' = RemoveAt(queue, i)
    /\ \/ /\ Runs(queue[i]) /\ answered' = answered
          /\ SameFlows \/ Drops(queue[i].ch)
       \/ \E c \in Channels : /\ flow[c] \in Approval /\ Runs(flow[c].orig) /\ Drops(c)
                              /\ answered' = answered \cup {flow[c].id}

Joins == \E m \in Message :
    /\ queue' = Append(queue, m) /\ m.id = sent + 1 /\ sent' = sent + 1
    /\ inTurn' = inTurn /\ runs' = runs /\ answered' = answered /\ SameFlows

Asks ==
    /\ turn.on /\ turn' = NoTurn /\ Opens(turn.msg.ch, turn.msg)
    /\ UNCHANGED <<queue, runs, sent, answered>>

LEMMA OutcomeShape ==
    ASSUME Typing, NEW c \in Channels, flow[c].kind = "auth", NEW rest \in Seq(Message),
           rest = queue \/ \E i \in DOMAIN queue : rest = RemoveAt(queue, i),
           Outcome(c, rest), UNCHANGED <<turn, runs, sent>>
    PROVE  Rests \/ Retries
<1> FlowTypes /\ RestTypes
  BY TypingSplits
<1>0. inTurn' = inTurn /\ sent \in Nat /\ flow[c] # NoFlow
  BY DEF inTurn, RestTypes, NoFlow
<1>1. CASE retries(c, rest)
  <2>1. Drops(c)
    BY <1>1, FlowSteps DEF retries
  <2> QED BY <1>0, <1>1, <2>1 DEF retries, Retries
<1>2. CASE queue' = rest /\ answered' = answered /\ (SameFlows \/ Drops(c) \/ Moves(c))
  BY <1>0, <1>2 DEF Rests, Shrinks
<1>3. CASE queue' = rest /\ UNCHANGED <<flowVars, proc, answered>>
  BY <1>2, <1>3 DEF flowVars, SameFlows
<1>4. CASE queue' = rest /\ Complete(c) /\ UNCHANGED answered
  BY <1>2, <1>4, FlowSteps
<1>5. ASSUME NEW st \in {"key", "oauth", "deploy"}, enters(c, st), queue' = rest,
             UNCHANGED answered
      PROVE  Rests \/ Retries
  <2>1. Moves(c)
    BY <1>5, FlowSteps
  <2> QED BY <1>2, <1>5, <2>1
<1> QED BY <1>1, <1>3, <1>4, <1>5 DEF Outcome

LEMMA StepShape ==
    ASSUME Typing, [Next]_vars
    PROVE  Rests \/ Retries \/ TurnsBegin \/ Joins \/ Asks
<1> FlowTypes /\ RestTypes
  BY TypingSplits
<1>0. sent \in Nat
  BY DEF RestTypes
<1>1. ASSUME Shrinks, inTurn' \subseteq inTurn, UNCHANGED <<runs, answered, sent>>,
             SameFlows \/ \E c \in Channels : Drops(c) \/ Opens(c, NoMessage)
      PROVE  Rests
  BY <1>0, <1>1 DEF Rests
<1>2. turn' = turn \/ turn' = NoTurn => inTurn' \subseteq inTurn
  BY DEF inTurn, NoTurn
<1>3. CASE Commanded
  <2>1. PICK i \in DOMAIN queue :
           OnlyReplies(i) \/ StopsFlow(i) \/ StartsFresh(i) \/ Login(i) \/ StalePress(i)
    BY <1>3 DEF Commanded
  <2>2. queue[i].ch \in Channels
    BY QueueAt
  <2>3. queue' = RemoveAt(queue, i) /\ UNCHANGED <<turn, runs, answered, sent>>
    BY <2>1 DEF OnlyReplies, StopsFlow, StartsFresh, Login, StalePress, takes, noTurn, turnVars
  <2>4. SameFlows \/ \E c \in Channels : Drops(c) \/ Opens(c, NoMessage)
    <3>1. CASE UNCHANGED <<flowVars, proc>>
      BY <3>1 DEF SameFlows, flowVars
    <3>2. CASE Cancel(queue[i].ch)
      BY <2>2, <3>2, FlowSteps
    <3>3. CASE start(queue[i].ch, newAuth(NoMessage))
      BY <2>2, <3>3, FlowSteps
    <3> QED BY <2>1, <3>1, <3>2, <3>3 DEF OnlyReplies, StopsFlow, StartsFresh, Login, StalePress
  <2> QED BY <1>1, <1>2, <2>3, <2>4 DEF Shrinks
<1>4. CASE Answered
  <2>1. PICK i \in DOMAIN queue : AnswersAuth(i) \/ Approves(i) \/ Declines(i) \/ MovesOn(i)
    BY <1>4 DEF Answered
  <2>2. queue[i] \in Message /\ queue[i].ch \in Channels /\ RemoveAt(queue, i) \in Seq(Message)
    BY QueueAt
  <2>3. CASE AnswersAuth(i)
    <3>1. /\ flow[queue[i].ch].kind = "auth"
          /\ handleAuthFlow(queue[i].ch, queue[i].text, RemoveAt(queue, i))
          /\ UNCHANGED <<turn, runs, sent>>
      BY <2>3 DEF AnswersAuth, noTurn, turnVars
    <3>2. Outcome(queue[i].ch, RemoveAt(queue, i))
      BY <2>2, <3>1, AuthOutcomes
    <3>3. \E j \in DOMAIN queue : RemoveAt(queue, i) = RemoveAt(queue, j)
      OBVIOUS
    <3> QED BY <2>2, <3>1, <3>2, <3>3, OutcomeShape
  <2>4. CASE Declines(i)
    <3>1. queue' = RemoveAt(queue, i) /\ UNCHANGED <<turn, runs, answered, sent>>
      BY <2>4 DEF Declines, takes, noTurn, turnVars
    <3>2. Drops(queue[i].ch)
      BY <2>2, <2>4, FlowSteps DEF Declines
    <3> QED BY <1>1, <1>2, <2>2, <3>1, <3>2 DEF Shrinks
  <2>5. CASE Approves(i)
    <3> DEFINE c == queue[i].ch
               f == flow[c]
    <3>1. f \in Approval
      BY <2>2, <2>5, FlowIs DEF Approves
    <3>2. f.orig \in Message /\ f.sess \in Nat
      BY <3>1, ApprovalIs
    <3>3. beginTurn(f.orig, queue[i], f.sess)
      BY <2>5 DEF Approves
    <3>4. Runs(f.orig)
      <4> HIDE DEF f
      <4> QED BY <2>2, <3>2, <3>3, BeginIs DEF Runs
    <3>5. Drops(c) /\ answered' = answered \cup {f.id} /\ ~turn.on /\ queue' = RemoveAt(queue, i)
      BY <2>2, <2>5, FlowSteps DEF Approves, takes, idle
    <3> QED BY <2>2, <3>1, <3>4, <3>5 DEF TurnsBegin
  <2>6. CASE MovesOn(i)
    <3>1. beginTurn(queue[i], NoMessage, 0)
      BY <2>6 DEF MovesOn
    <3>2. Runs(queue[i])
      BY <2>2, <3>1, BeginIs DEF Runs
    <3>3. Drops(queue[i].ch) /\ answered' = answered /\ ~turn.on /\ queue' = RemoveAt(queue, i)
      BY <2>2, <2>6, FlowSteps DEF MovesOn, takes, idle
    <3> QED BY <3>2, <3>3 DEF TurnsBegin
  <2> QED BY <2>1, <2>3, <2>4, <2>5, <2>6
<1>5. CASE Begins
  <2>1. PICK i \in DOMAIN queue : BeginTurn(i)
    BY <1>5 DEF Begins
  <2>2. queue[i] \in Message /\ beginTurn(queue[i], NoMessage, 0)
    BY <2>1, QueueAt DEF BeginTurn
  <2>3. Runs(queue[i])
    BY <2>2, BeginIs DEF Runs
  <2>4. SameFlows /\ answered' = answered /\ ~turn.on /\ queue' = RemoveAt(queue, i)
    BY <2>1 DEF BeginTurn, takes, idle, SameFlows, flowVars
  <2> QED BY <2>3, <2>4 DEF TurnsBegin
<1>6. CASE Ends
  <2>0. turn.on
    BY <1>6 DEF Ends, TurnCompletes, RateLimited, AuthRequired, ToolsDenied
  <2>1. turn \in Turn /\ turn.msg \in Message /\ turn.msg.ch \in Channels
    BY <2>0, TurnIs
  <2>2. CASE RateLimited
    <3>1. inTurn' = inTurn
      BY <2>0, <2>1, <2>2 DEF RateLimited, Turn, inTurn
    <3>2. SameFlows /\ UNCHANGED <<queue, runs, answered, sent>>
      BY <2>2 DEF RateLimited, SameFlows, flowVars
    <3> QED BY <1>1, <3>1, <3>2 DEF Shrinks
  <2>3. CASE TurnCompletes \/ AuthRequired \/ ToolsDenied
    <3>1. turn' = NoTurn /\ UNCHANGED <<queue, runs, answered, sent>>
      BY <2>3 DEF TurnCompletes, AuthRequired, ToolsDenied, done
    <3>2. CASE SameFlows \/ Drops(turn.msg.ch)
      BY <1>1, <1>2, <2>1, <3>1, <3>2 DEF Shrinks
    <3>3. CASE Opens(turn.msg.ch, turn.msg)
      BY <2>0, <3>1, <3>3 DEF Asks
    <3>4. CASE UNCHANGED <<flowVars, proc>>
      BY <3>2, <3>4 DEF SameFlows, flowVars
    <3>5. CASE start(turn.msg.ch, newAuth(turn.msg))
      BY <2>1, <3>3, <3>5, FlowSteps
    <3>6. CASE Cancel(turn.msg.ch)
      BY <2>1, <3>2, <3>6, FlowSteps
    <3>7. ASSUME NEW s \in cliSessions, start(turn.msg.ch, newApproval(turn.msg, s))
          PROVE  Rests \/ Retries \/ TurnsBegin \/ Joins \/ Asks
      <4>1. s \in Nat
        BY <2>0, CliSessionsAre
      <4>2. Opens(turn.msg.ch, turn.msg)
        BY <2>1, <3>7, <4>1, FlowSteps
      <4> QED BY <3>3, <4>2
    <3> QED BY <2>3, <3>4, <3>5, <3>6, <3>7 DEF TurnCompletes, AuthRequired, ToolsDenied
  <2> QED BY <1>6, <2>2, <2>3 DEF Ends
<1>7. CASE OAuth \/ AgentStarts \/ RecordsAge \/ UNCHANGED vars
  <2>1. SameFlows /\ UNCHANGED <<queue, turn, runs, answered, sent>>
    BY <1>7 DEF OAuth, OAuthEnds, OAuthNotifies, AgentStarts, RecordsAge, vars, SameFlows, flowVars,
                turnVars
  <2> QED BY <1>1, <1>2, <2>1 DEF Shrinks
<1>8. CASE TakesNotify
  <2> DEFINE c == Head(notify)
  <2>1. c \in Channels /\ UNCHANGED <<turn, runs, sent>> /\ queue \in Seq(Message)
    <3>1. notify # <<>> /\ notify \in Seq(Channels)
      BY <1>8 DEF TakesNotify, RestTypes
    <3>2. c \in Channels
      BY <3>1
    <3> QED BY <1>8, <3>2 DEF TakesNotify, turnVars, RestTypes
  <2>2. CASE flow[c].kind = "auth"
    <3>1. handleAuthFlow(c, "", queue)
      BY <1>8, <2>2 DEF TakesNotify
    <3> HIDE DEF c
    <3>2. Outcome(c, queue)
      BY <2>1, <2>2, <3>1, AuthOutcomes
    <3> QED BY <2>1, <2>2, <3>2, OutcomeShape
  <2>3. CASE flow[c].kind # "auth"
    <3>1. SameFlows /\ queue' = queue /\ answered' = answered
      BY <1>8, <2>3 DEF TakesNotify, waits, SameFlows, flowVars
    <3> QED BY <1>1, <1>2, <2>1, <3>1 DEF Shrinks
  <2> QED BY <2>2, <2>3
<1>9. CASE Sends
  <2>1. PICK m \in Message : Arrives(m) \/ ArrivesMidTurn(m)
    BY <1>9 DEF Sends
  <2>2. m.id = sent + 1 /\ sent' = sent + 1 /\ SameFlows /\ runs' = runs /\ answered' = answered
    BY <2>1 DEF Arrives, ArrivesMidTurn, newMessage, turnVars, SameFlows, flowVars
  <2>3. inTurn' = inTurn
    <3>1. turn' = turn \/ (turn.on /\ turn' = [turn EXCEPT !.cut = TRUE])
      BY <2>1 DEF Arrives, ArrivesMidTurn, turnVars
    <3>2. CASE turn.on /\ turn' = [turn EXCEPT !.cut = TRUE]
      <4>1. turn \in Turn
        BY <3>2, TurnIs
      <4> QED BY <3>2, <4>1 DEF Turn, inTurn
    <3> QED BY <3>1, <3>2 DEF inTurn
  <2>4. queue' = queue \/ queue' = Append(queue, m)
    BY <2>1 DEF Arrives, ArrivesMidTurn
  <2>5. CASE queue' = queue
    BY <1>0, <2>2, <2>3, <2>5 DEF Rests, Shrinks
  <2>6. CASE queue' = Append(queue, m)
    BY <2>1, <2>2, <2>3, <2>6 DEF Joins
  <2> QED BY <2>4, <2>5, <2>6
<1>10. CASE AgentExits
  <2>1. /\ turn' = NoTurn /\ flow' = [c \in Channels |-> NoFlow]
        /\ UNCHANGED <<opened, asked, queue, runs, sent, answered>>
    BY <1>10 DEF AgentExits
  <2> QED BY <1>0, <1>2, <2>1 DEF Rests, Shrinks
<1> QED BY <1>3, <1>4, <1>5, <1>6, <1>7, <1>8, <1>9, <1>10 DEF Next

LEMMA WithoutOne ==
    ASSUME NEW q \in Seq(Message), NEW i \in DOMAIN q, distinct(q)
    PROVE  /\ RemoveAt(q, i) \in Seq(Message) /\ distinct(RemoveAt(q, i))
           /\ ids(RemoveAt(q, i)) = ids(q) \ {q[i].id}
<1> DEFINE r == RemoveAt(q, i)
           at(k) == IF k < i THEN k ELSE k + 1
<1>1. Len(q) \in Nat /\ DOMAIN q = 1..Len(q) /\ i \in 1..Len(q)
  OBVIOUS
<1>2. /\ r \in Seq(Message) /\ DOMAIN r = 1..Len(q) - 1
      /\ \A k \in 1..Len(q) - 1 : r[k] = IF k < i THEN q[k] ELSE q[k + 1]
  BY Removed
<1> HIDE DEF r
<1>3. \A k \in DOMAIN r : at(k) \in DOMAIN q /\ at(k) # i /\ r[k] = q[at(k)]
  BY <1>1, <1>2
<1>4. \A k, l \in DOMAIN r : at(k) = at(l) => k = l
  BY <1>1, <1>2
<1>5. ASSUME NEW j \in DOMAIN q, j # i PROVE \E k \in DOMAIN r : at(k) = j
  <2>1. CASE j < i
    <3>1. j \in DOMAIN r /\ at(j) = j
      BY <1>1, <1>2, <2>1
    <3> QED BY <3>1
  <2>2. CASE j > i
    <3>1. j - 1 \in DOMAIN r /\ at(j - 1) = j
      BY <1>1, <1>2, <2>2
    <3> QED BY <3>1
  <2> QED BY <1>1, <1>5, <2>1, <2>2
<1> HIDE DEF at
<1>6. distinct(r)
  BY <1>3, <1>4 DEF distinct
<1>7. ids(r) = ids(q) \ {q[i].id}
  <2>1. ASSUME NEW x \in ids(r) PROVE x \in ids(q) \ {q[i].id}
    <3>1. PICK k \in DOMAIN r : x = r[k].id
      BY <2>1 DEF ids
    <3>2. x = q[at(k)].id /\ at(k) \in DOMAIN q /\ at(k) # i
      BY <1>3, <3>1
    <3> QED BY <3>2 DEF ids, distinct
  <2>2. ASSUME NEW x \in ids(q) \ {q[i].id} PROVE x \in ids(r)
    <3>1. PICK j \in DOMAIN q : x = q[j].id
      BY <2>2 DEF ids
    <3>2. PICK k \in DOMAIN r : at(k) = j
      BY <1>5, <2>2, <3>1
    <3>3. x = r[k].id
      BY <1>3, <3>1, <3>2
    <3> QED BY <3>3 DEF ids
  <2> QED BY <2>1, <2>2
<1> QED BY <1>2, <1>6, <1>7 DEF r

LEMMA WithOneMore ==
    ASSUME NEW q \in Seq(Message), NEW m \in Message, distinct(q), m.id \notin ids(q)
    PROVE  distinct(Append(q, m)) /\ ids(Append(q, m)) = ids(q) \cup {m.id}
<1> DEFINE r == Append(q, m)
           n == Len(q)
<1>1. /\ n \in Nat /\ DOMAIN q = 1..n /\ DOMAIN r = 1..(n + 1) /\ r[n + 1] = m
      /\ \A k \in 1..n : r[k] = q[k]
  OBVIOUS
<1> HIDE DEF r, n
<1>2. \A k \in DOMAIN r : k = n + 1 \/ k \in DOMAIN q
  BY <1>1
<1>3. \A k \in DOMAIN q : k \in DOMAIN r /\ k # n + 1 /\ r[k] = q[k]
  BY <1>1
<1>4. n + 1 \in DOMAIN r /\ r[n + 1] = m
  BY <1>1
<1>5. distinct(r)
  <2> SUFFICES ASSUME NEW j \in DOMAIN r, NEW k \in DOMAIN r, r[j].id = r[k].id PROVE j = k
    BY DEF distinct
  <2>1. \A l \in DOMAIN q : q[l].id # m.id
    BY DEF ids
  <2> QED BY <1>2, <1>3, <1>4, <2>1 DEF distinct
<1>6. ids(r) = ids(q) \cup {m.id}
  BY <1>2, <1>3, <1>4 DEF ids
<1> QED BY <1>5, <1>6 DEF r

LEMMA ShrunkQueue ==
    ASSUME Typing, Placed, Shrinks
    PROVE  distinct(queue') /\ ids(queue') \subseteq ids(queue)
<1>1. queue \in Seq(Message)
  BY DEF Typing, TypeOK
<1>2. distinct(queue)
  BY DEF Placed
<1> QED BY <1>1, <1>2, WithoutOne DEF Shrinks

(* An open flow and what it keeps. *)
LEMMA OpenIs ==
    ASSUME FlowTypes, NEW c \in Channels, flow[c] # NoFlow
    PROVE  /\ flow[c] \in Auth \cup Approval /\ flow[c].id \in Flows
           /\ flow[c].orig \in Message \cup {NoMessage} /\ flow[c].orig.id \in 0..MaxMessages
           /\ flow[c].orig.id = 0 <=> flow[c].orig = NoMessage
<1>1. flow[c] \in Auth \cup Approval
  BY DEF FlowTypes
<1>2. /\ flow[c].id \in Flows /\ flow[c].orig \in Message \cup {NoMessage}
      /\ flow[c].orig.id \in 0..MaxMessages
  BY <1>1, AuthIs, ApprovalIs
<1>3. flow[c].orig.id = 0 <=> flow[c].orig = NoMessage
  BY <1>2, MessageIs DEF NoMessage, Ids
<1> QED BY <1>1, <1>2, <1>3

LEMMA PromptedStep ==
    ASSUME Typing, Prompted, Rests \/ Retries \/ TurnsBegin \/ Joins \/ Asks
    PROVE  Prompted'
<1> FlowTypes /\ RestTypes /\ opened \in Nat
  BY TypingSplits DEF FlowTypes
<1>0. \A c \in Channels : flow[c] # NoFlow => flow[c].id \in 1..opened
  BY DEF Prompted
<1>1. ASSUME SameFlows, answered' = answered PROVE Prompted'
  BY <1>1 DEF SameFlows, Prompted
<1>2. ASSUME NEW c \in Channels, Drops(c),
             answered' = answered \/ (flow[c] # NoFlow /\ answered' = answered \cup {flow[c].id})
      PROVE  Prompted'
  <2>1. \A d \in Channels : flow'[d] # NoFlow => d # c /\ flow'[d] = flow[d]
    BY <1>2 DEF Drops
  <2>2. opened' = opened /\ asked' = asked
    BY <1>2 DEF Drops
  <2>3. \A d \in Channels : flow'[d] # NoFlow => flow[d].id \notin answered'
    BY <1>2, <2>1 DEF Prompted
  <2> QED BY <1>2, <2>1, <2>2, <2>3 DEF Prompted
<1>3. ASSUME NEW c \in Channels, NEW m \in Message \cup {NoMessage}, m = NoMessage \/ m.ch = c,
             Opens(c, m), answered' = answered
      PROVE  Prompted'
  <2>1. PICK f \in Auth \cup Approval :
            /\ f.id = opened + 1 /\ f.orig = m
            /\ flow' = [d \in Channels |-> IF d = c THEN f ELSE flow[d]]
    BY <1>3 DEF Opens
  <2>2. opened' = opened + 1 /\ opened + 1 \in Flows
        /\ asked' = [g \in Flows |-> IF g = opened + 1 THEN m.id ELSE asked[g]]
    BY <1>3 DEF Opens
  <2>3. \A d \in Channels : flow'[d] = IF d = c THEN f ELSE flow[d]
    BY <2>1
  <2>4. ASSUME NEW d \in Channels, flow[d] # NoFlow
        PROVE  flow[d].id \in Flows /\ flow[d].id # opened + 1 /\ asked'[flow[d].id] = asked[flow[d].id]
               /\ flow[d].id \in 1..opened'
    <3>1. flow[d].id \in Flows /\ flow[d].id \in 1..opened
      BY <1>0, <2>4, OpenIs
    <3> QED BY <2>2, <3>1
  <2>5. f.id \in 1..opened' /\ f.id \notin answered' /\ asked'[f.id] = f.orig.id
    BY <1>3, <2>1, <2>2 DEF Prompted
  <2>6. answered' \subseteq 1..opened'
    BY <1>3, <2>2 DEF Prompted
  <2>7. ASSUME NEW d \in Channels, flow'[d] # NoFlow
        PROVE  /\ flow'[d].id \in 1..opened' /\ flow'[d].id \notin answered'
               /\ asked'[flow'[d].id] = flow'[d].orig.id
               /\ flow'[d].orig = NoMessage \/ flow'[d].orig.ch = d
    <3>1. CASE d = c
      BY <1>3, <2>1, <2>3, <2>5, <3>1
    <3>2. CASE d # c
      BY <1>3, <2>3, <2>4, <2>7, <3>2 DEF Prompted
    <3> QED BY <3>1, <3>2
  <2>8. ASSUME NEW d \in Channels, NEW e \in Channels, flow'[d] # NoFlow, flow'[e] # NoFlow,
               flow'[d].id = flow'[e].id
        PROVE  d = e
    BY <2>1, <2>3, <2>4, <2>8 DEF Prompted
  <2> QED BY <2>6, <2>7, <2>8 DEF Prompted
<1>4. ASSUME NEW c \in Channels, Moves(c), answered' = answered PROVE Prompted'
  <2>1. PICK f \in Auth : /\ f.id = flow[c].id /\ f.orig = flow[c].orig
                          /\ flow' = [d \in Channels |-> IF d = c THEN f ELSE flow[d]]
    BY <1>4 DEF Moves
  <2>2. flow[c] # NoFlow /\ opened' = opened /\ asked' = asked
    BY <1>4 DEF Moves
  <2>3. \A d \in Channels : flow'[d] # NoFlow =>
          flow[d] # NoFlow /\ flow'[d].id = flow[d].id /\ flow'[d].orig = flow[d].orig
    BY <2>1, <2>2
  <2> QED BY <1>4, <2>2, <2>3 DEF Prompted
<1>5. ASSUME flow' = [c \in Channels |-> NoFlow], UNCHANGED <<opened, asked>>, answered' = answered
      PROVE  Prompted'
  BY <1>5 DEF Prompted
<1>6. CASE Rests
  <2>1. answered' = answered
    BY <1>6 DEF Rests
  <2>2. ASSUME NEW c \in Channels, Opens(c, NoMessage) PROVE Prompted'
    BY <1>3, <2>1, <2>2
  <2>3. ASSUME NEW c \in Channels, Drops(c) PROVE Prompted'
    BY <1>2, <2>1, <2>3
  <2>4. ASSUME NEW c \in Channels, Moves(c) PROVE Prompted'
    BY <1>4, <2>1, <2>4
  <2> QED BY <1>1, <1>5, <1>6, <2>1, <2>2, <2>3, <2>4 DEF Rests
<1>7. CASE Retries
  BY <1>2, <1>7 DEF Retries
<1>8. CASE TurnsBegin
  <2>1. PICK i \in DOMAIN queue :
          \/ answered' = answered /\ (SameFlows \/ Drops(queue[i].ch))
          \/ \E c \in Channels : flow[c] \in Approval /\ Drops(c)
                                 /\ answered' = answered \cup {flow[c].id}
    BY <1>8 DEF TurnsBegin
  <2>2. queue[i].ch \in Channels
    BY QueueAt
  <2>3. ASSUME NEW c \in Channels, flow[c] \in Approval PROVE flow[c] # NoFlow
    BY <2>3, ApprovalIs DEF NoFlow
  <2> QED BY <1>1, <1>2, <2>1, <2>2, <2>3
<1>9. CASE Joins
  BY <1>1, <1>9 DEF Joins
<1>10. CASE Asks
  <2>1. turn.msg \in Message /\ turn.msg.ch \in Channels
    BY <1>10, TurnIs DEF Asks
  <2> QED BY <1>3, <1>10, <2>1 DEF Asks
<1> QED BY <1>6, <1>7, <1>8, <1>9, <1>10

(* What a step of the flows makes of the messages they keep. *)
LEMMA KeptSteps ==
    ASSUME FlowTypes
    PROVE  /\ SameFlows => \A d \in Channels : keptBy(d)' = keptBy(d)
           /\ \A c \in Channels :
                /\ Drops(c) => \A d \in Channels :
                     keptBy(d)' = IF d = c THEN {} ELSE keptBy(d)
                /\ Moves(c) => \A d \in Channels : keptBy(d)' = keptBy(d)
                /\ \A m \in Message \cup {NoMessage} : Opens(c, m) => \A d \in Channels :
                     keptBy(d)' = IF d = c THEN {m.id} \ {0} ELSE keptBy(d)
           /\ flow' = [c \in Channels |-> NoFlow] => \A d \in Channels : keptBy(d)' = {}
<1>0. \A f \in Auth \cup Approval : f # NoFlow
  BY AuthIs, ApprovalIs DEF NoFlow
<1>1. SameFlows => \A d \in Channels : keptBy(d)' = keptBy(d)
  BY DEF SameFlows, keptBy
<1>2. ASSUME NEW c \in Channels, Drops(c), NEW d \in Channels
      PROVE  keptBy(d)' = IF d = c THEN {} ELSE keptBy(d)
  BY <1>2 DEF Drops, keptBy
<1>3. ASSUME NEW c \in Channels, Moves(c), NEW d \in Channels PROVE keptBy(d)' = keptBy(d)
  BY <1>0, <1>3 DEF Moves, keptBy
<1>4. ASSUME NEW c \in Channels, NEW m \in Message \cup {NoMessage}, Opens(c, m), NEW d \in Channels
      PROVE  keptBy(d)' = IF d = c THEN {m.id} \ {0} ELSE keptBy(d)
  BY <1>0, <1>4 DEF Opens, keptBy
<1>5. flow' = [c \in Channels |-> NoFlow] => \A d \in Channels : keptBy(d)' = {}
  BY DEF keptBy
<1> QED BY <1>1, <1>2, <1>3, <1>4, <1>5

(* A message found in one place is in none of the others. *)
LEMMA PlacedStep ==
    ASSUME Typing, Placed, Prompted, Rests \/ Retries \/ TurnsBegin \/ Joins \/ Asks
    PROVE  Placed'
<1> FlowTypes /\ RestTypes /\ sent \in Nat /\ queue \in Seq(Message)
  BY TypingSplits DEF RestTypes
<1>0. /\ distinct(queue) /\ ids(queue) \subseteq 1..sent /\ inTurn \subseteq 1..sent
      /\ inTurn \cap ids(queue) = {}
      /\ \A c \in Channels : /\ keptBy(c) \subseteq 1..sent
                             /\ keptBy(c) \cap ids(queue) = {}
                             /\ keptBy(c) \cap inTurn = {}
      /\ \A c, d \in Channels : c # d => keptBy(c) \cap keptBy(d) = {}
  BY DEF Placed
<1>a. ids(queue') = ids(queue)' /\ distinct(queue') = distinct(queue)'
  BY DEF ids, distinct
<1>1. CASE Rests
  <2>1. distinct(queue)' /\ ids(queue)' \subseteq ids(queue)
    BY <1>a, <1>1, ShrunkQueue DEF Rests
  <2>2. inTurn' \subseteq inTurn /\ sent' \in Nat /\ sent <= sent'
    BY <1>1 DEF Rests
  <2>3. ASSUME NEW d \in Channels PROVE keptBy(d)' \subseteq keptBy(d)
    <3>1. NoMessage.id = 0
      BY DEF NoMessage
    <3> QED BY <1>1, <3>1, KeptSteps DEF Rests
  <2>4. 1..sent \subseteq 1..sent'
    BY <2>2
  <2> HIDE DEF inTurn, keptBy, ids, distinct
  <2> QED BY <1>0, <2>1, <2>2, <2>3, <2>4 DEF Placed
<1>2. CASE Retries
  <2>1. PICK c \in Channels, rest \in Seq(Message) :
          /\ rest = queue \/ \E i \in DOMAIN queue : rest = RemoveAt(queue, i)
          /\ flow[c] # NoFlow /\ Drops(c)
          /\ queue' = IF flow[c].orig = NoMessage THEN rest ELSE Append(rest, flow[c].orig)
          /\ UNCHANGED <<turn, sent>>
    BY <1>2 DEF Retries
  <2>2. distinct(rest) /\ ids(rest) \subseteq ids(queue)
    BY <1>0, <2>1, WithoutOne
  <2>3. inTurn' = inTurn /\ sent' = sent
    BY <2>1 DEF inTurn
  <2>4. \A d \in Channels : keptBy(d)' = IF d = c THEN {} ELSE keptBy(d)
    BY <2>1, KeptSteps
  <2>5. distinct(queue') /\ ids(queue') \subseteq ids(queue) \cup keptBy(c)
    <3>1. CASE flow[c].orig = NoMessage
      BY <2>1, <2>2, <3>1
    <3>2. CASE flow[c].orig # NoMessage
      <4>1. flow[c].orig \in Message /\ keptBy(c) = {flow[c].orig.id}
        BY <2>1, <3>2, OpenIs DEF keptBy
      <4>2. flow[c].orig.id \notin ids(rest)
        BY <1>0, <2>2, <4>1
      <4>3. queue' = Append(rest, flow[c].orig)
        BY <2>1, <3>2
      <4>4. /\ distinct(Append(rest, flow[c].orig))
            /\ ids(Append(rest, flow[c].orig)) = ids(rest) \cup {flow[c].orig.id}
        BY <2>2, <4>1, <4>2, WithOneMore
      <4> QED BY <2>2, <4>1, <4>3, <4>4
    <3> QED BY <3>1, <3>2
  <2> QED BY <1>0, <1>a, <2>3, <2>4, <2>5 DEF Placed
<1>3. CASE TurnsBegin
  <2>1. PICK i \in DOMAIN queue :
          /\ ~turn.on /\ queue' = RemoveAt(queue, i)
          /\ \/ Runs(queue[i]) /\ (SameFlows \/ Drops(queue[i].ch))
             \/ \E c \in Channels : flow[c] \in Approval /\ Runs(flow[c].orig) /\ Drops(c)
    BY <1>3 DEF TurnsBegin
  <2>2. distinct(queue') /\ ids(queue') = ids(queue) \ {queue[i].id}
    BY <1>0, <2>1, WithoutOne
  <2>3. \A m \in Message : Runs(m) => inTurn' = {m.id} /\ sent' = sent
    BY DEF Runs, inTurn
  <2>4. CASE Runs(queue[i]) /\ (SameFlows \/ Drops(queue[i].ch))
    <3>1. queue[i] \in Message /\ queue[i].ch \in Channels /\ queue[i].id \in ids(queue)
      BY QueueAt DEF ids
    <3>2. inTurn' = {queue[i].id} /\ sent' = sent
      BY <2>3, <2>4, <3>1
    <3>3. \A d \in Channels : keptBy(d)' \subseteq keptBy(d)
      BY <2>4, <3>1, KeptSteps
    <3> QED BY <1>0, <1>a, <2>2, <3>1, <3>2, <3>3 DEF Placed
  <2>5. ASSUME NEW c \in Channels, flow[c] \in Approval, Runs(flow[c].orig), Drops(c)
        PROVE  Placed'
    <3>1. flow[c].orig \in Message
      BY <2>5, ApprovalIs
    <3>2. inTurn' = {flow[c].orig.id} /\ sent' = sent
      BY <2>3, <2>5, <3>1
    <3>3. flow[c] # NoFlow
      BY <2>5, ApprovalIs DEF NoFlow
    <3>4. keptBy(c) = {flow[c].orig.id}
      BY <3>1, <3>3, OpenIs, MessageIs DEF keptBy, Ids
    <3>5. \A d \in Channels : keptBy(d)' = IF d = c THEN {} ELSE keptBy(d)
      BY <2>5, KeptSteps
    <3> QED BY <1>0, <1>a, <2>2, <3>2, <3>4, <3>5 DEF Placed
  <2> QED BY <2>1, <2>4, <2>5
<1>4. CASE Joins
  <2>1. PICK m \in Message :
          /\ queue' = Append(queue, m) /\ m.id = sent + 1 /\ sent' = sent + 1
          /\ inTurn' = inTurn /\ SameFlows
    BY <1>4 DEF Joins
  <2>2. m.id \notin ids(queue) /\ m.id \notin inTurn /\ \A d \in Channels : m.id \notin keptBy(d)
    <3>1. sent + 1 \notin 1..sent
      OBVIOUS
    <3> QED BY <1>0, <2>1, <3>1
  <2>3. distinct(queue') /\ ids(queue') = ids(queue) \cup {m.id}
    BY <1>0, <2>1, <2>2, WithOneMore
  <2>4. \A d \in Channels : keptBy(d)' = keptBy(d)
    BY <2>1, KeptSteps
  <2>5. 1..sent' = (1..sent) \cup {m.id}
    BY <2>1
  <2> QED BY <1>0, <1>a, <2>1, <2>2, <2>3, <2>4, <2>5 DEF Placed
<1>5. CASE Asks
  <2>1. turn.msg \in Message /\ turn.msg.ch \in Channels /\ inTurn = {turn.msg.id}
        /\ turn.msg.id \in Ids
    BY <1>5, TurnIs, MessageIs DEF Asks, inTurn
  <2>2. \A d \in Channels : keptBy(d)' = IF d = turn.msg.ch THEN inTurn ELSE keptBy(d)
    <3>1. Opens(turn.msg.ch, turn.msg) /\ {turn.msg.id} \ {0} = inTurn
      BY <1>5, <2>1 DEF Asks, Ids
    <3> QED BY <2>1, <3>1, KeptSteps
  <2>3. inTurn' = {} /\ sent' = sent /\ queue' = queue
    BY <1>5 DEF Asks, inTurn, NoTurn
  <2> QED BY <1>0, <1>a, <2>2, <2>3 DEF Placed
<1> QED BY <1>1, <1>2, <1>3, <1>4, <1>5

(* The prompts answered about a message, after a step. *)
LEMMA PayingSteps ==
    ASSUME Typing, Prompted, Rests \/ Retries \/ TurnsBegin \/ Joins \/ Asks, NEW m \in Ids
    PROVE  /\ Cardinality(paying(m)) \in Nat
           /\ answered' = answered => paying(m)' = paying(m)
           /\ \A c \in Channels :
                flow[c] # NoFlow /\ Drops(c) /\ answered' = answered \cup {flow[c].id} =>
                  Cardinality(paying(m)') =
                    IF flow[c].orig.id = m THEN Cardinality(paying(m)) + 1
                    ELSE Cardinality(paying(m))
<1> FlowTypes /\ RestTypes /\ opened \in Nat /\ answered \subseteq 1..opened
  BY TypingSplits DEF FlowTypes, Prompted
<1>1. IsFiniteSet(paying(m)) /\ Cardinality(paying(m)) \in Nat
  <2>1. IsFiniteSet(1..opened)
    BY FS_Interval
  <2>2. paying(m) \subseteq 1..opened
    BY DEF paying
  <2> QED BY <2>1, <2>2, FS_Subset, FS_CardinalityType
<1>2. ASSUME answered' = answered PROVE paying(m)' = paying(m)
  <2>1. \A f \in answered : asked'[f] = asked[f]
    <3>1. \A c, k : Opens(c, k) => \A f \in answered : asked'[f] = asked[f]
      <4> SUFFICES ASSUME NEW c, NEW k, Opens(c, k), NEW f \in answered PROVE asked'[f] = asked[f]
        OBVIOUS
      <4>1. f \in Flows
        BY DEF RestTypes
      <4>2. f # opened + 1
        <5>1. f \in 1..opened
          OBVIOUS
        <5> QED BY <5>1
      <4> QED BY <4>1, <4>2 DEF Opens
    <3>2. CASE Rests
      BY <3>1, <3>2 DEF Rests, SameFlows, Drops, Moves
    <3>3. CASE Retries
      BY <3>3 DEF Retries, Drops
    <3>4. CASE TurnsBegin
      BY <3>4 DEF TurnsBegin, SameFlows, Drops
    <3>5. CASE Joins
      BY <3>5 DEF Joins, SameFlows
    <3>6. CASE Asks
      BY <3>1, <3>6 DEF Asks
    <3> QED BY <3>2, <3>3, <3>4, <3>5, <3>6
  <2> QED BY <1>2, <2>1 DEF paying
<1>3. ASSUME NEW c \in Channels, flow[c] # NoFlow, Drops(c),
             answered' = answered \cup {flow[c].id}
      PROVE  Cardinality(paying(m)') =
               IF flow[c].orig.id = m THEN Cardinality(paying(m)) + 1
               ELSE Cardinality(paying(m))
  <2>1. asked' = asked /\ asked[flow[c].id] = flow[c].orig.id /\ flow[c].id \notin answered
    BY <1>3 DEF Drops, Prompted
  <2>2. CASE flow[c].orig.id = m
    <3>1. paying(m)' = paying(m) \cup {flow[c].id} /\ flow[c].id \notin paying(m)
      BY <1>3, <2>1, <2>2 DEF paying
    <3> QED BY <1>1, <2>2, <3>1, FS_AddElement
  <2>3. CASE flow[c].orig.id # m
    <3>1. paying(m)' = paying(m)
      BY <1>3, <2>1, <2>3 DEF paying
    <3> QED BY <2>3, <3>1
  <2> QED BY <2>2, <2>3
<1> QED BY <1>1, <1>2, <1>3

LEMMA PaidStep ==
    ASSUME Typing, Placed, Prompted, Paid, Rests \/ Retries \/ TurnsBegin \/ Joins \/ Asks
    PROVE  Paid'
<1> FlowTypes /\ RestTypes /\ sent \in Nat /\ queue \in Seq(Message) /\ runs \in [Ids -> Nat]
  BY TypingSplits DEF RestTypes
<1> SUFFICES ASSUME NEW m \in Ids
             PROVE  /\ m > sent' => runs'[m] = 0
                    /\ runs'[m] <= Cardinality(paying(m)') + (IF m \in ids(queue)' THEN 0 ELSE 1)
  BY DEF Paid
<1> DEFINE n == Cardinality(paying(m))
           n1 == Cardinality(paying(m)')
<1>0. /\ m > sent => runs[m] = 0
      /\ runs[m] <= n + (IF m \in ids(queue) THEN 0 ELSE 1)
      /\ n \in Nat /\ runs[m] \in Nat /\ m \in Nat
      /\ answered' = answered => n1 = n
      /\ \A c \in Channels :
           flow[c] # NoFlow /\ Drops(c) /\ answered' = answered \cup {flow[c].id} =>
             n1 = IF flow[c].orig.id = m THEN n + 1 ELSE n
  BY PayingSteps DEF Paid, Ids
<1>a. ids(queue') = ids(queue)'
  BY DEF ids
<1>b. distinct(queue) /\ ids(queue) \subseteq 1..sent
      /\ \A c \in Channels : keptBy(c) \subseteq 1..sent /\ keptBy(c) \cap ids(queue) = {}
  BY DEF Placed
<1> HIDE DEF n, n1
<1> SUFFICES /\ m > sent' => runs'[m] = 0
             /\ runs'[m] <= n1 + (IF m \in ids(queue)' THEN 0 ELSE 1)
  BY DEF n1
<1>1. CASE Rests
  <2>1. ids(queue)' \subseteq ids(queue)
    BY <1>a, <1>1, ShrunkQueue DEF Rests
  <2>2. runs' = runs /\ n1 = n /\ sent' \in Nat /\ sent <= sent'
    BY <1>0, <1>1 DEF Rests
  <2> QED BY <1>0, <2>1, <2>2
<1>2. CASE Retries
  <2>1. PICK c \in Channels, rest \in Seq(Message) :
          /\ rest = queue \/ \E i \in DOMAIN queue : rest = RemoveAt(queue, i)
          /\ flow[c] # NoFlow /\ Drops(c) /\ answered' = answered \cup {flow[c].id}
          /\ queue' = IF flow[c].orig = NoMessage THEN rest ELSE Append(rest, flow[c].orig)
          /\ runs' = runs /\ sent' = sent
    BY <1>2 DEF Retries
  <2>2. distinct(rest) /\ ids(rest) \subseteq ids(queue)
    BY <1>b, <2>1, WithoutOne
  <2>3. n1 = IF flow[c].orig.id = m THEN n + 1 ELSE n
    BY <1>0, <2>1
  <2>4. CASE flow[c].orig = NoMessage
    BY <1>0, <1>a, <2>1, <2>2, <2>3, <2>4 DEF NoMessage, Ids
  <2>5. CASE flow[c].orig # NoMessage
    <3>1. flow[c].orig \in Message /\ keptBy(c) = {flow[c].orig.id}
      BY <2>1, <2>5, OpenIs DEF keptBy
    <3>2. ids(queue') = ids(rest) \cup {flow[c].orig.id}
      <4>1. flow[c].orig.id \notin ids(rest)
        BY <1>b, <2>2, <3>1
      <4>2. queue' = Append(rest, flow[c].orig)
        BY <2>1, <2>5
      <4>3. ids(Append(rest, flow[c].orig)) = ids(rest) \cup {flow[c].orig.id}
        BY <2>2, <3>1, <4>1, WithOneMore
      <4> QED BY <4>2, <4>3
    <3>3. runs'[m] = runs[m] /\ sent' = sent
      BY <2>1
    <3>4. /\ m > sent => runs[m] = 0
          /\ runs[m] <= n + (IF m \in ids(queue) THEN 0 ELSE 1)
          /\ n \in Nat /\ runs[m] \in Nat
      BY <1>0
    <3>5. m \in ids(queue)' => m \in ids(queue) \/ m = flow[c].orig.id
      BY <1>a, <2>2, <3>2
    <3> QED BY <2>3, <3>3, <3>4, <3>5
  <2> QED BY <2>4, <2>5
<1>3. CASE TurnsBegin
  <2>1. PICK i \in DOMAIN queue :
          /\ queue' = RemoveAt(queue, i)
          /\ \/ Runs(queue[i]) /\ answered' = answered
             \/ \E c \in Channels : /\ flow[c] \in Approval /\ Runs(flow[c].orig) /\ Drops(c)
                                    /\ answered' = answered \cup {flow[c].id}
    BY <1>3 DEF TurnsBegin
  <2>2. ids(queue') = ids(queue) \ {queue[i].id}
    BY <1>b, <2>1, WithoutOne
  <2>3. ASSUME NEW k \in Message, Runs(k)
        PROVE  runs'[m] = (IF m = k.id THEN runs[m] + 1 ELSE runs[m]) /\ sent' = sent
    BY <2>3 DEF Runs
  <2>4. CASE Runs(queue[i]) /\ answered' = answered
    <3>1. queue[i] \in Message /\ queue[i].id \in ids(queue)
      BY QueueAt DEF ids
    <3>2. runs'[m] = (IF m = queue[i].id THEN runs[m] + 1 ELSE runs[m]) /\ sent' = sent
      BY <2>3, <2>4, <3>1
    <3>3. n1 = n
      BY <1>0, <2>4
    <3>4. CASE m = queue[i].id
      <4>1. m \in 1..sent /\ m \in ids(queue) /\ m \notin ids(queue)'
        BY <1>a, <1>b, <2>2, <3>1, <3>4
      <4> QED BY <1>0, <3>2, <3>3, <3>4, <4>1
    <3>5. CASE m # queue[i].id
      BY <1>0, <1>a, <2>2, <3>2, <3>3, <3>5
    <3> QED BY <3>4, <3>5
  <2>5. ASSUME NEW c \in Channels, flow[c] \in Approval, Runs(flow[c].orig), Drops(c),
               answered' = answered \cup {flow[c].id}
        PROVE  /\ m > sent' => runs'[m] = 0
               /\ runs'[m] <= n1 + (IF m \in ids(queue)' THEN 0 ELSE 1)
    <3>1. flow[c].orig \in Message /\ flow[c] # NoFlow
      BY <2>5, ApprovalIs DEF NoFlow
    <3>2. runs'[m] = (IF m = flow[c].orig.id THEN runs[m] + 1 ELSE runs[m]) /\ sent' = sent
      BY <2>3, <2>5, <3>1
    <3>3. n1 = IF flow[c].orig.id = m THEN n + 1 ELSE n
      BY <1>0, <2>5, <3>1
    <3>4. flow[c].orig.id \in keptBy(c)
      BY <3>1, MessageIs DEF keptBy, Ids
    <3>5. CASE m = flow[c].orig.id
      <4>1. m \in keptBy(c)
        BY <3>4, <3>5
      <4>2. m \in 1..sent /\ m \notin ids(queue)
        BY <1>b, <4>1
      <4>3. m \notin ids(queue)'
        BY <1>a, <2>2, <4>2
      <4>4. runs[m] <= n + 1 /\ runs'[m] = runs[m] + 1 /\ n1 = n + 1 /\ sent' = sent
        BY <1>0, <3>2, <3>3, <3>5, <4>2
      <4> QED BY <1>0, <4>2, <4>3, <4>4
    <3>6. CASE m # flow[c].orig.id
      BY <1>0, <1>a, <2>2, <3>2, <3>3, <3>6
    <3> QED BY <3>5, <3>6
  <2> QED BY <2>1, <2>4, <2>5
<1>4. CASE Joins
  <2>1. PICK k \in Message :
          /\ queue' = Append(queue, k) /\ k.id = sent + 1 /\ sent' = sent + 1
          /\ runs' = runs /\ answered' = answered
    BY <1>4 DEF Joins
  <2>2. k.id \notin ids(queue)
    <3>1. sent + 1 \notin 1..sent
      OBVIOUS
    <3> QED BY <1>b, <2>1, <3>1
  <2>3. ids(queue') = ids(queue) \cup {k.id}
    BY <1>b, <2>1, <2>2, WithOneMore
  <2>4. n1 = n
    BY <1>0, <2>1
  <2> QED BY <1>0, <1>a, <2>1, <2>3, <2>4
<1>5. CASE Asks
  <2>1. runs' = runs /\ sent' = sent /\ queue' = queue /\ answered' = answered
    BY <1>5 DEF Asks
  <2> QED BY <1>0, <1>a, <2>1
<1> QED BY <1>1, <1>2, <1>3, <1>4, <1>5

-----------------------------------------------------------------------------
(* The processes of the sign-ins. *)

LEMMA RunningIs ==
    ASSUME FlowTypes, NEW f \in Flows, proc[f].st = "running"
    PROVE  proc[f] \in Process /\ proc[f].ch \in Channels
<1>1. proc[f] \in Process \cup {NoProcess}
  BY DEF FlowTypes
<1>2. proc[f] # NoProcess
  BY DEF NoProcess
<1> QED BY <1>1, <1>2, ProcessIs

(* Every process that runs on did so before, and c's flow waits for none. *)
LEMMA StillOne ==
    ASSUME FlowTypes, OneSignIn, NEW c \in Channels,
           \A d \in Channels : d # c => flow'[d] = flow[d],
           \A f \in Flows : proc'[f].st = "running" /\ ~proc'[f].cancelled =>
             /\ proc[f].st = "running" /\ ~proc[f].cancelled /\ proc'[f].ch = proc[f].ch
             /\ ~(flow[c].kind = "auth" /\ flow[c].st = "oauth" /\ flow[c].id = f)
    PROVE  OneSignIn'
<1> SUFFICES ASSUME NEW f \in Flows, proc'[f].st = "running", ~proc'[f].cancelled
             PROVE  LET g == flow'[proc'[f].ch]
                    IN  g.kind = "auth" /\ g.st = "oauth" /\ g.id = f
  BY DEF OneSignIn
<1>1. /\ proc[f].st = "running" /\ ~proc[f].cancelled /\ proc'[f].ch = proc[f].ch
      /\ ~(flow[c].kind = "auth" /\ flow[c].st = "oauth" /\ flow[c].id = f)
  OBVIOUS
<1>2. proc[f].ch \in Channels
  BY <1>1, RunningIs
<1>3. LET g == flow[proc[f].ch] IN g.kind = "auth" /\ g.st = "oauth" /\ g.id = f
  BY <1>1 DEF OneSignIn
<1>4. proc[f].ch # c
  BY <1>1, <1>3
<1> QED BY <1>1, <1>2, <1>3, <1>4

LEMMA DroppedOne ==
    ASSUME FlowTypes, OneSignIn, NEW c \in Channels, proc' = cancelled(c),
           \A d \in Channels : d # c => flow'[d] = flow[d]
    PROVE  OneSignIn'
<1> SUFFICES ASSUME NEW f \in Flows, proc'[f].st = "running", ~proc'[f].cancelled
             PROVE  /\ proc[f].st = "running" /\ ~proc[f].cancelled /\ proc'[f].ch = proc[f].ch
                    /\ ~(flow[c].kind = "auth" /\ flow[c].st = "oauth" /\ flow[c].id = f)
  BY StillOne
<1>1. proc[f].st = "running" /\ ~proc[f].cancelled
      /\ ~(flow[c].kind = "auth" /\ flow[c].st = "oauth" /\ flow[c].id = f)
  BY CancelledIs
<1> QED BY <1>1, RunningIs, CancelledIs

LEMMA SignInSteps ==
    ASSUME FlowTypes, OneSignIn, NEW c \in Channels
    PROVE  /\ Complete(c) /\ (flow[c].kind = "auth" => over(c)) => OneSignIn'
           /\ Cancel(c) => OneSignIn'
           /\ \A m \in Message \cup {NoMessage} : start(c, newAuth(m)) => OneSignIn'
           /\ \A m \in Message, s \in Nat : start(c, newApproval(m, s)) => OneSignIn'
           /\ \A rest : flow[c].kind = "auth" /\ Outcome(c, rest) => OneSignIn'
           /\ UNCHANGED <<flow, proc>> => OneSignIn'
<1>1. ASSUME Complete(c), flow[c].kind = "auth" => over(c) PROVE OneSignIn'
  <2>1. proc' = proc /\ \A d \in Channels : d # c => flow'[d] = flow[d]
    BY <1>1, CompleteTyped
  <2> QED BY <1>1, <2>1, StillOne DEF over
<1>2. ASSUME Cancel(c) PROVE OneSignIn'
  <2>1. proc' = cancelled(c) /\ \A d \in Channels : d # c => flow'[d] = flow[d]
    BY <1>2, CancelTyped
  <2> QED BY <2>1, DroppedOne
<1>3. ASSUME NEW f, start(c, f) PROVE OneSignIn'
  <2>1. proc' = cancelled(c) /\ \A d \in Channels : d # c => flow'[d] = flow[d]
    BY <1>3 DEF start, FlowTypes
  <2> QED BY <2>1, DroppedOne
<1>4. UNCHANGED <<flow, proc>> => OneSignIn'
  BY DEF OneSignIn
<1>5. ASSUME NEW rest, flow[c].kind = "auth", Outcome(c, rest) PROVE OneSignIn'
  <2>1. CASE UNCHANGED <<flowVars, proc>>
    BY <1>4, <2>1 DEF flowVars
  <2>2. CASE over(c) /\ Complete(c)
    BY <1>1, <2>2
  <2>3. CASE over(c) /\ retries(c, rest)
    BY <1>1, <2>3 DEF retries
  <2>4. CASE over(c) /\ proc' = proc /\ \E st \in {"key", "deploy"} : enters(c, st)
    <3>1. \A d \in Channels : d # c => flow'[d] = flow[d]
      BY <2>4 DEF enters, FlowTypes
    <3> QED BY <1>5, <2>4, <3>1, StillOne DEF over
  <2>5. CASE flow[c].st = "choosing" /\ enters(c, "oauth") /\ startSetupToken(c)
    <3>1. /\ flow' = [d \in Channels |-> IF d = c THEN [flow[c] EXCEPT !.st = "oauth"] ELSE flow[d]]
          /\ proc' = [f \in Flows |->
               IF f = flow[c].id
               THEN [st |-> "running", told |-> FALSE, ok |-> FALSE, cancelled |-> FALSE, ch |-> c]
               ELSE proc[f]]
      BY <1>5, <2>5, EntersTyped
    <3>2. flow[c] \in Auth /\ flow[c].id \in Flows
      <4>1. flow[c] \in Auth
        BY <1>5, FlowIs
      <4> QED BY <4>1, AuthIs
    <3>3. flow'[c].kind = "auth" /\ flow'[c].st = "oauth" /\ flow'[c].id = flow[c].id
      <4> DEFINE g == [flow[c] EXCEPT !.st = "oauth"]
      <4>1. g.kind = "auth" /\ g.st = "oauth" /\ g.id = flow[c].id
        BY <3>2 DEF Auth
      <4>2. flow'[c] = g
        BY <3>1
      <4> QED BY <4>1, <4>2
    <3> SUFFICES ASSUME NEW f \in Flows, proc'[f].st = "running", ~proc'[f].cancelled
                 PROVE  LET g == flow'[proc'[f].ch]
                        IN  g.kind = "auth" /\ g.st = "oauth" /\ g.id = f
      BY DEF OneSignIn
    <3>4. CASE f = flow[c].id
      BY <3>1, <3>3, <3>4
    <3>5. CASE f # flow[c].id
      <4>1. proc'[f] = proc[f] /\ proc[f].ch \in Channels
        BY <3>1, <3>5, RunningIs
      <4>2. LET g == flow[proc[f].ch] IN g.kind = "auth" /\ g.st = "oauth" /\ g.id = f
        BY <4>1 DEF OneSignIn
      <4>3. proc[f].ch # c
        BY <2>5, <4>2
      <4>4. flow'[proc[f].ch] = flow[proc[f].ch]
        BY <3>1, <4>1, <4>3
      <4> QED BY <4>1, <4>2, <4>4
    <3> QED BY <3>4, <3>5
  <2> QED BY <1>5, <2>1, <2>2, <2>3, <2>4, <2>5 DEF Outcome
<1> QED BY <1>1, <1>2, <1>3, <1>4, <1>5

LEMMA OneSignInStep == Typing /\ OneSignIn /\ [Next]_vars => OneSignIn'
<1> SUFFICES ASSUME Typing, OneSignIn, [Next]_vars PROVE OneSignIn'
  OBVIOUS
<1> FlowTypes
  BY TypingSplits
<1>1. ASSUME UNCHANGED <<flow, proc>> PROVE OneSignIn'
  BY <1>1 DEF OneSignIn
<1>2. CASE Commanded
  <2>1. PICK i \in DOMAIN queue :
           OnlyReplies(i) \/ StopsFlow(i) \/ StartsFresh(i) \/ Login(i) \/ StalePress(i)
    BY <1>2 DEF Commanded
  <2>2. queue[i].ch \in Channels
    BY QueueAt
  <2>3. CASE UNCHANGED <<flowVars, proc>>
    BY <1>1, <2>3 DEF flowVars
  <2>4. CASE Cancel(queue[i].ch) \/ start(queue[i].ch, newAuth(NoMessage))
    BY <2>2, <2>4, SignInSteps
  <2> QED BY <2>1, <2>3, <2>4 DEF OnlyReplies, StopsFlow, StartsFresh, Login, StalePress
<1>3. CASE Answered
  <2>1. PICK i \in DOMAIN queue : AnswersAuth(i) \/ Approves(i) \/ Declines(i) \/ MovesOn(i)
    BY <1>3 DEF Answered
  <2>2. queue[i].ch \in Channels
    BY QueueAt
  <2>3. CASE AnswersAuth(i)
    <3>1. flow[queue[i].ch].kind = "auth" /\ Outcome(queue[i].ch, RemoveAt(queue, i))
      BY <2>2, <2>3, AuthOutcomes DEF AnswersAuth
    <3> QED BY <2>2, <3>1, SignInSteps
  <2>4. CASE Approves(i) \/ Declines(i) \/ MovesOn(i)
    <3>1. flow[queue[i].ch].kind # "auth" /\ Complete(queue[i].ch)
      BY <2>4 DEF Approves, Declines, MovesOn
    <3> QED BY <2>2, <3>1, SignInSteps
  <2> QED BY <2>1, <2>3, <2>4
<1>4. CASE Ends
  <2>0. turn.on
    BY <1>4 DEF Ends, TurnCompletes, RateLimited, AuthRequired, ToolsDenied
  <2>1. turn.msg \in Message /\ turn.msg.ch \in Channels
    BY <2>0, TurnIs
  <2>2. CASE UNCHANGED <<flowVars, proc>>
    BY <1>1, <2>2 DEF flowVars
  <2>3. CASE start(turn.msg.ch, newAuth(turn.msg)) \/ Cancel(turn.msg.ch)
    BY <2>1, <2>3, SignInSteps
  <2>4. ASSUME NEW s \in cliSessions, start(turn.msg.ch, newApproval(turn.msg, s))
        PROVE  OneSignIn'
    <3>1. s \in Nat
      BY <2>0, CliSessionsAre
    <3> QED BY <2>1, <2>4, <3>1, SignInSteps
  <2> QED BY <1>4, <2>2, <2>3, <2>4
       DEF Ends, TurnCompletes, RateLimited, AuthRequired, ToolsDenied
<1>5. CASE OAuth
  <2>1. PICK f \in Flows : OAuthEnds(f) \/ OAuthNotifies(f)
    BY <1>5 DEF OAuth
  <2>2. flow' = flow /\ proc \in [Flows -> Process \cup {NoProcess}]
    BY <2>1 DEF OAuthEnds, OAuthNotifies, flowVars, FlowTypes
  <2>3. proc[f] \in Process
    <3>1. proc[f].st # "none"
      BY <2>1 DEF OAuthEnds, OAuthNotifies, mayNotify
    <3> QED BY <2>2, <3>1 DEF NoProcess
  <2>4. proc'[f].st = "sent" /\ \A g \in Flows : g # f => proc'[g] = proc[g]
    <3>1. CASE OAuthEnds(f)
      <4>1. PICK ok \in BOOLEAN : proc' = [proc EXCEPT ![f].st = "sent", ![f].ok = ok]
        BY <3>1 DEF OAuthEnds
      <4> QED BY <2>2, <2>3, <4>1 DEF Process
    <3>2. CASE OAuthNotifies(f)
      <4>1. proc' = [proc EXCEPT ![f].told = TRUE] /\ proc[f].st = "sent"
        BY <3>2 DEF OAuthNotifies, mayNotify
      <4> QED BY <2>2, <2>3, <4>1 DEF Process
    <3> QED BY <2>1, <3>1, <3>2
  <2>5. \A g \in Flows : proc'[g].st = "running" => proc'[g] = proc[g]
    BY <2>4
  <2> QED BY <2>2, <2>5 DEF OneSignIn
<1>6. CASE TakesNotify
  <2>1. Head(notify) \in Channels
    <3>1. notify # <<>> /\ notify \in Seq(Channels)
      BY <1>6 DEF TakesNotify, Typing, TypeOK
    <3> QED BY <3>1
  <2>2. CASE flow[Head(notify)].kind = "auth"
    <3>1. handleAuthFlow(Head(notify), "", queue)
      BY <1>6, <2>2 DEF TakesNotify
    <3>2. Outcome(Head(notify), queue)
      BY <2>1, <2>2, <3>1, AuthOutcomes
    <3> QED BY <2>1, <2>2, <3>2, SignInSteps
  <2>3. CASE flow[Head(notify)].kind # "auth"
    <3>1. UNCHANGED <<flow, proc>>
      BY <1>6, <2>3 DEF TakesNotify, waits, flowVars
    <3> QED BY <1>1, <3>1
  <2> QED BY <2>2, <2>3
<1>7. CASE AgentExits
  <2>1. proc' = [f \in Flows |-> NoProcess]
    BY <1>7 DEF AgentExits
  <2>2. \A f \in Flows : proc'[f].st # "running"
    BY <2>1 DEF NoProcess
  <2> QED BY <2>2 DEF OneSignIn
<1>8. CASE Begins \/ Sends \/ AgentStarts \/ RecordsAge \/ UNCHANGED vars
  <2>1. UNCHANGED <<flow, proc>>
    BY <1>8 DEF Begins, BeginTurn, Sends, Arrives, ArrivesMidTurn, AgentStarts, RecordsAge, vars,
                flowVars
  <2> QED BY <1>1, <2>1
<1> QED BY <1>2, <1>3, <1>4, <1>5, <1>6, <1>7, <1>8 DEF Next

-----------------------------------------------------------------------------
(* The channels whose tool list is expanded. *)

LEMMA GrantStep == Typing /\ Prompted /\ GrantIsForOneTurn /\ [Next]_vars => GrantIsForOneTurn'
<1> SUFFICES ASSUME Typing, Prompted, GrantIsForOneTurn, [Next]_vars PROVE GrantIsForOneTurn'
  OBVIOUS
<1> FlowTypes /\ RestTypes
  BY TypingSplits
<1>0. ~turn.on => override = {}
  BY DEF GrantIsForOneTurn
<1>1. ASSUME override' = {} PROVE GrantIsForOneTurn'
  BY <1>1 DEF GrantIsForOneTurn
<1>2. ASSUME UNCHANGED <<override, asked>>, turn.on => turn'.on /\ turn'.msg = turn.msg /\ turn'.by = turn.by
      PROVE  GrantIsForOneTurn'
  BY <1>2 DEF GrantIsForOneTurn
<1>3. ASSUME ~turn.on, override' = override PROVE GrantIsForOneTurn'
  BY <1>0, <1>1, <1>3
<1>4. CASE Commanded
  BY <1>3, <1>4 DEF Commanded, OnlyReplies, StopsFlow, StartsFresh, Login, StalePress, takes, idle,
                    noTurn, turnVars
<1>5. CASE Answered
  <2>1. PICK i \in DOMAIN queue : AnswersAuth(i) \/ Approves(i) \/ Declines(i) \/ MovesOn(i)
    BY <1>5 DEF Answered
  <2>2. CASE AnswersAuth(i) \/ Declines(i) \/ MovesOn(i)
    BY <1>3, <2>2 DEF AnswersAuth, Declines, MovesOn, takes, idle, noTurn, turnVars
  <2>3. CASE Approves(i)
    <3> DEFINE m == queue[i]
               f == flow[m.ch]
    <3>1. m \in Message /\ m.ch \in Channels /\ m # NoMessage
      BY QueueAt, MessageIs
    <3>2. f \in Approval /\ f # NoFlow
      BY <2>3, <3>1, FlowIs DEF Approves, NoFlow
    <3>3. f.orig \in Message /\ f.sess \in Nat /\ f.orig # NoMessage
      BY <3>2, ApprovalIs, MessageIs
    <3>4. f.orig.ch = m.ch /\ asked[f.id] = f.orig.id
      BY <3>1, <3>2, <3>3 DEF Prompted
    <3>5. turn'.on /\ turn'.msg = f.orig /\ turn'.by = m
      <4>1. beginTurn(f.orig, m, f.sess)
        BY <2>3 DEF Approves
      <4> HIDE DEF f, m
      <4> QED BY <3>1, <3>3, <4>1, BeginIs
    <3>6. override' = {m.ch} /\ m.user
      BY <1>0, <2>3 DEF Approves, takes, idle
    <3>7. asked' = asked
      BY <2>3 DEF Approves, Complete
    <3>8. isPress(m) => m.prompt = f.id
      BY <2>3 DEF Approves, approves, isPress, Presses, answersOpenApproval
    <3> HIDE DEF f, m
    <3> QED BY <3>1, <3>4, <3>5, <3>6, <3>7, <3>8 DEF GrantIsForOneTurn, isPress
  <2> QED BY <2>1, <2>2, <2>3
<1>6. CASE Begins
  BY <1>3, <1>6 DEF Begins, BeginTurn, takes, idle
<1>7. CASE Ends
  <2>0. turn.on
    BY <1>7 DEF Ends, TurnCompletes, RateLimited, AuthRequired, ToolsDenied
  <2>1. turn \in Turn
    BY <2>0, TurnIs
  <2>2. CASE RateLimited
    <3>1. UNCHANGED <<override, asked>>
      BY <2>2 DEF RateLimited, flowVars
    <3>2. turn'.on /\ turn'.msg = turn.msg /\ turn'.by = turn.by
      BY <2>0, <2>1, <2>2 DEF RateLimited, Turn
    <3> QED BY <1>2, <3>1, <3>2
  <2>3. CASE TurnCompletes \/ AuthRequired \/ ToolsDenied
    <3>1. restoreOverride
      BY <2>3 DEF TurnCompletes, AuthRequired, ToolsDenied, done
    <3>2. override' = {}
      BY <3>1 DEF restoreOverride, GrantIsForOneTurn
    <3> QED BY <1>1, <3>2
  <2> QED BY <1>7, <2>2, <2>3 DEF Ends
<1>8. CASE TakesNotify
  BY <1>3, <1>8 DEF TakesNotify, idle, turnVars
<1>9. CASE Sends
  <2>1. PICK m \in Message : Arrives(m) \/ ArrivesMidTurn(m)
    BY <1>9 DEF Sends
  <2>2. UNCHANGED <<override, asked>>
    BY <2>1 DEF Arrives, ArrivesMidTurn, turnVars, flowVars
  <2>3. turn' = turn \/ (turn.on /\ turn' = [turn EXCEPT !.cut = TRUE])
    BY <2>1 DEF Arrives, ArrivesMidTurn, turnVars
  <2>4. turn.on => turn \in Turn
    BY TurnIs
  <2>5. turn.on => turn'.on /\ turn'.msg = turn.msg /\ turn'.by = turn.by
    BY <2>3, <2>4 DEF Turn
  <2> QED BY <1>2, <2>2, <2>5
<1>10. CASE AgentExits
  BY <1>1, <1>10 DEF AgentExits
<1>11. CASE OAuth \/ AgentStarts \/ RecordsAge \/ UNCHANGED vars
  <2>1. UNCHANGED <<turn, override, asked>>
    BY <1>11 DEF OAuth, OAuthEnds, OAuthNotifies, AgentStarts, RecordsAge, vars, flowVars, turnVars
  <2> QED BY <1>2, <2>1
<1> QED BY <1>4, <1>5, <1>6, <1>7, <1>8, <1>9, <1>10, <1>11 DEF Next

-----------------------------------------------------------------------------
(* A tool approval covers the one turn of the message it was asked about,  *)
(* no message has more turns than the user asked for by sending it and by  *)
(* answering prompts about it, and no sign-in process runs that no open    *)
(* prompt waits for (the dispatch and retries of RunWithMessages, the      *)
(* flows of FlowManager and the goroutine of startSetupToken).             *)
THEOREM AskedFor == Spec => []TurnsAreAskedFor
<1> DEFINE IInv == Typing /\ Placed /\ Prompted /\ Paid /\ OneSignIn /\ GrantIsForOneTurn
<1>1. Init => IInv
  <2> SUFFICES ASSUME Init PROVE IInv
    OBVIOUS
  <2>1. Placed
    BY DEF Init, Placed, distinct, ids, inTurn, keptBy, NoTurn
  <2>2. Prompted
    BY DEF Init, Prompted
  <2>3. Paid
    <3> SUFFICES ASSUME NEW m \in Ids
                 PROVE  runs[m] = 0 /\ Cardinality(paying(m)) = 0
      BY DEF Paid
    <3>1. paying(m) = {}
      BY DEF Init, paying
    <3> QED BY <3>1, FS_EmptySet DEF Init
  <2>4. OneSignIn
    BY DEF Init, OneSignIn, NoProcess
  <2>5. GrantIsForOneTurn
    BY DEF Init, GrantIsForOneTurn
  <2> QED BY <2>1, <2>2, <2>3, <2>4, <2>5, TypedInit
<1>2. IInv /\ [Next]_vars => IInv'
  BY TypedStep, StepShape, PlacedStep, PromptedStep, PaidStep, OneSignInStep, GrantStep
<1>3. IInv => TurnsAreAskedFor
  <2>1. Typing /\ Prompted /\ Paid => RunsArePaidFor
    <3> SUFFICES ASSUME Typing, Prompted, Paid, NEW m \in Ids
                 PROVE  runs[m] <= 1 + Cardinality(paying(m))
      BY DEF RunsArePaidFor, paying
    <3>1. answered \subseteq 1..opened /\ paying(m) \subseteq 1..opened
      BY DEF Prompted, paying
    <3>2. opened \in Nat /\ runs[m] \in Nat
      BY DEF Typing, TypeOK
    <3>3. Cardinality(paying(m)) \in Nat
      <4>1. IsFiniteSet(1..opened)
        BY <3>2, FS_Interval
      <4> QED BY <3>1, <4>1, FS_Subset, FS_CardinalityType
    <3>4. runs[m] <= Cardinality(paying(m)) + (IF m \in ids(queue) THEN 0 ELSE 1)
      BY DEF Paid
    <3> QED BY <3>2, <3>3, <3>4
  <2> QED BY <2>1 DEF TurnsAreAskedFor, Typing
<1> QED BY <1>1, <1>2, <1>3, PTL DEF Spec

=============================================================================
