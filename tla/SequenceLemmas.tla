---------------------------- MODULE SequenceLemmas ----------------------------
(***************************************************************************)
(* Facts about sequences, the sets of their elements and the order of      *)
(* these, which the proofs about the queues share.                         *)
(***************************************************************************)
EXTENDS Selections, Integers, FiniteSets, SequencesExt, FiniteSetTheorems, TLAPS

(* In a history without repetition, o came before p. *)
follows(h, o, p) == \E i, j \in DOMAIN h : i < j /\ h[i] = o /\ h[j] = p

-----------------------------------------------------------------------------
(* Elements. *)

LEMMA ToSetAppend ==
  ASSUME NEW S, NEW s \in Seq(S), NEW e
  PROVE  ToSet(Append(s, e)) = ToSet(s) \cup {e}
  <1>1. /\ DOMAIN Append(s, e) = 1 .. Len(s) + 1 /\ DOMAIN s = 1 .. Len(s) /\ Len(s) \in Nat
        /\ Append(s, e)[Len(s) + 1] = e
        /\ \A i \in 1 .. Len(s) : Append(s, e)[i] = s[i]
    OBVIOUS
  <1> QED
    BY <1>1 DEF ToSet

LEMMA ToSetPush ==
  ASSUME NEW S, NEW s \in Seq(S), NEW e \in S
  PROVE  ToSet(<<e>> \o s) = ToSet(s) \cup {e}
  <1>1. /\ <<e>> \o s \in Seq(S) /\ DOMAIN (<<e>> \o s) = 1 .. Len(s) + 1
        /\ DOMAIN s = 1 .. Len(s) /\ Len(s) \in Nat
        /\ (<<e>> \o s)[1] = e
        /\ \A i \in 1 .. Len(s) : (<<e>> \o s)[i + 1] = s[i]
    OBVIOUS
  <1>2. \A j \in 2 .. Len(s) + 1 : j - 1 \in 1 .. Len(s) /\ (<<e>> \o s)[j] = s[j - 1]
    BY <1>1
  <1> DEFINE r == <<e>> \o s
  <1> HIDE DEF r
  <1>3. ASSUME NEW j \in DOMAIN r PROVE r[j] = e \/ \E i \in DOMAIN s : s[i] = r[j]
    <2>1. CASE j = 1
      BY <1>1, <2>1 DEF r
    <2>2. CASE j # 1
      <3>1. j \in 2 .. Len(s) + 1
        BY <1>1, <2>2 DEF r
      <3> QED
        BY <1>1, <1>2, <3>1 DEF r
    <2> QED
      BY <2>1, <2>2
  <1>4. 1 \in DOMAIN r /\ r[1] = e
    BY <1>1 DEF r
  <1>5. \A i \in DOMAIN s : i + 1 \in DOMAIN r /\ r[i + 1] = s[i]
    BY <1>1 DEF r
  <1>6. ToSet(r) = ToSet(s) \cup {e}
    BY <1>3, <1>4, <1>5 DEF ToSet
  <1> QED
    BY <1>6 DEF r

LEMMA RestOf ==
  ASSUME NEW S, NEW s \in Seq(S), NEW i \in DOMAIN s
  PROVE  /\ SubSeq(s, i + 1, Len(s)) \in Seq(S)
         /\ Len(SubSeq(s, i + 1, Len(s))) = Len(s) - i
         /\ \A k \in 1 .. Len(s) - i : SubSeq(s, i + 1, Len(s))[k] = s[i + k]
  OBVIOUS

LEMMA ToSetEmpty == ToSet(<<>>) = {}
  BY DEF ToSet

LEMMA InToSet == ASSUME NEW s, NEW x PROVE x \in ToSet(s) <=> \E i \in DOMAIN s : s[i] = x
  BY DEF ToSet

LEMMA ConcatIs ==
  ASSUME NEW S, NEW s \in Seq(S), NEW t \in Seq(S)
  PROVE  /\ s \o t \in Seq(S) /\ Len(s \o t) = Len(s) + Len(t)
         /\ \A i \in 1 .. Len(s) : (s \o t)[i] = s[i]
         /\ \A i \in 1 .. Len(t) : (s \o t)[Len(s) + i] = t[i]
  OBVIOUS

LEMMA ToSetConcat ==
  ASSUME NEW S, NEW s \in Seq(S), NEW t \in Seq(S)
  PROVE  ToSet(s \o t) = ToSet(s) \cup ToSet(t)
  <1> DEFINE r == s \o t
  <1>1. /\ Len(s) \in Nat /\ Len(t) \in Nat /\ DOMAIN r = 1 .. Len(s) + Len(t)
        /\ DOMAIN s = 1 .. Len(s) /\ DOMAIN t = 1 .. Len(t)
        /\ \A i \in 1 .. Len(s) : r[i] = s[i]
        /\ \A i \in 1 .. Len(t) : r[Len(s) + i] = t[i]
    OBVIOUS
  <1> HIDE DEF r
  <1>2. ASSUME NEW k \in DOMAIN r PROVE r[k] \in ToSet(s) \cup ToSet(t)
    <2>1. CASE k <= Len(s)
      <3>1. k \in DOMAIN s /\ r[k] = s[k]
        BY <1>1, <2>1
      <3> QED
        BY <3>1, InToSet
    <2>2. CASE k > Len(s)
      <3>1. k - Len(s) \in 1 .. Len(t) /\ Len(s) + (k - Len(s)) = k
        BY <1>1, <2>2
      <3>2. k - Len(s) \in DOMAIN t /\ r[k] = t[k - Len(s)]
        BY <1>1, <3>1
      <3> QED
        BY <3>2, InToSet
    <2> QED
      BY <1>1, <2>1, <2>2
  <1>3. \A i \in DOMAIN s : i \in DOMAIN r /\ r[i] = s[i]
    BY <1>1
  <1>4. \A i \in DOMAIN t : Len(s) + i \in DOMAIN r /\ r[Len(s) + i] = t[i]
    BY <1>1
  <1>5. ToSet(r) = ToSet(s) \cup ToSet(t)
    BY <1>2, <1>3, <1>4 DEF ToSet
  <1> QED
    BY <1>5 DEF r

LEMMA Removed ==
  ASSUME NEW S, NEW s \in Seq(S), NEW i \in DOMAIN s
  PROVE  /\ RemoveAt(s, i) \in Seq(S) /\ DOMAIN RemoveAt(s, i) = 1 .. Len(s) - 1
         /\ \A k \in 1 .. Len(s) - 1 :
              RemoveAt(s, i)[k] = IF k < i THEN s[k] ELSE s[k + 1]
         /\ ToSet(s) = ToSet(RemoveAt(s, i)) \cup {s[i]}
  <1> DEFINE a == SubSeq(s, 1, i - 1)
             b == SubSeq(s, i + 1, Len(s))
             r == a \o b
  <1>0. Len(s) \in Nat /\ DOMAIN s = 1 .. Len(s) /\ i \in 1 .. Len(s)
    OBVIOUS
  <1>1. /\ a \in Seq(S) /\ Len(a) = i - 1 /\ \A k \in 1 .. i - 1 : a[k] = s[k]
    BY <1>0
  <1>2. b \in Seq(S) /\ Len(b) = Len(s) - i /\ \A k \in 1 .. Len(s) - i : b[k] = s[i + k]
    BY <1>0
  <1> HIDE DEF a, b
  <1>3. /\ r \in Seq(S) /\ Len(r) = Len(a) + Len(b)
        /\ \A k \in 1 .. Len(a) : r[k] = a[k]
        /\ \A k \in 1 .. Len(b) : r[Len(a) + k] = b[k]
    <2>1. a \in Seq(S) /\ b \in Seq(S)
      BY <1>1, <1>2
    <2> QED
      BY ONLY <2>1, ConcatIs DEF r
  <1> HIDE DEF r
  <1>4. \A k \in 1 .. Len(s) - 1 : r[k] = IF k < i THEN s[k] ELSE s[k + 1]
    <2> TAKE k \in 1 .. Len(s) - 1
    <2>1. CASE k < i
      <3>1. k \in 1 .. i - 1
        BY <1>0, <2>1
      <3> QED
        BY <1>1, <1>3, <2>1, <3>1
    <2>2. CASE ~(k < i)
      <3>1. k - i + 1 \in 1 .. Len(b) /\ Len(a) + (k - i + 1) = k /\ i + (k - i + 1) = k + 1
        BY <1>0, <1>1, <1>2, <2>2
      <3>2. r[k] = b[k - i + 1]
        BY <1>3, <3>1
      <3>3. b[k - i + 1] = s[i + (k - i + 1)]
        <4>1. k - i + 1 \in 1 .. Len(s) - i
          BY <1>2, <3>1
        <4> QED
          BY <1>2, <4>1
      <3>4. s[i + (k - i + 1)] = s[k + 1]
        BY <3>1
      <3> QED
        BY <2>2, <3>2, <3>3, <3>4
    <2> QED
      BY <2>1, <2>2
  <1>5. DOMAIN r = 1 .. Len(s) - 1
    BY <1>0, <1>1, <1>2, <1>3
  <1>6. ToSet(s) = ToSet(r) \cup {s[i]}
    <2>1. ToSet(r) \subseteq ToSet(s)
      <3>1. \A k \in 1 .. Len(s) - 1 : k \in DOMAIN s /\ k + 1 \in DOMAIN s
        BY <1>0
      <3> QED
        BY <1>4, <1>5, <3>1 DEF ToSet
    <2>2. ASSUME NEW k \in DOMAIN s, k # i PROVE s[k] \in ToSet(r)
      <3>1. CASE k < i
        <4>1. k \in DOMAIN r /\ r[k] = s[k]
          BY <1>0, <1>4, <1>5, <3>1
        <4> QED
          BY <4>1, InToSet
      <3>2. CASE k > i
        <4>1. k - 1 \in 1 .. Len(s) - 1 /\ ~(k - 1 < i) /\ (k - 1) + 1 = k
          BY <1>0, <3>2
        <4>2. k - 1 \in DOMAIN r /\ r[k - 1] = s[k]
          BY <1>4, <1>5, <4>1
        <4> QED
          BY <4>2, InToSet
      <3> QED
        BY <1>0, <2>2, <3>1, <3>2
    <2> QED
      BY <1>0, <2>1, <2>2 DEF ToSet
  <1>7. RemoveAt(s, i) = r
    BY DEF RemoveAt, r, a, b
  <1> QED
    BY <1>3, <1>4, <1>5, <1>6, <1>7

(* The least number principle, and with it the least and the greatest of   *)
(* a set of positions.                                                     *)
LEMMA LeastOf ==
  ASSUME NEW S, S \subseteq Nat, S # {}
  PROVE  \E x \in S : \A y \in S : x <= y
  <1>1. PICK x \in S : \A y \in S : ~(<<y, x>> \in OpToRel(<, Nat))
    BY NatLessThanWellFounded, WFMin
  <1>2. \A y \in S : ~(y < x)
    BY <1>1 DEF OpToRel
  <1> QED
    BY <1>2

LEMMA MinIs ==
  ASSUME NEW S, S \subseteq Nat, S # {}
  PROVE  Min(S) \in S /\ \A y \in S : Min(S) <= y
  BY LeastOf DEF Min

LEMMA GreatestOf ==
  ASSUME NEW n \in Nat, NEW S, S \subseteq 1 .. n, S # {}
  PROVE  \E x \in S : \A y \in S : y <= x
  <1> DEFINE T == {n - y : y \in S}
  <1>1. T \subseteq Nat /\ T # {}
    <2>1. \A y \in S : n - y \in Nat
      OBVIOUS
    <2>2. \A z \in T : \E y \in S : z = n - y
      OBVIOUS
    <2>3. PICK y : y \in S
      OBVIOUS
    <2>4. n - y \in T
      BY <2>3
    <2> HIDE DEF T
    <2> QED
      BY <2>1, <2>2, <2>4
  <1>2. PICK z \in T : \A w \in T : z <= w
    BY <1>1, LeastOf
  <1>3. PICK x \in S : z = n - x
    OBVIOUS
  <1>4. \A y \in S : n - x <= n - y
    BY <1>2, <1>3
  <1> QED
    BY <1>4

(* Every finite set of positions has an increasing enumeration. *)
LEMMA Enumeration ==
  ASSUME NEW m \in Nat, NEW P \in SUBSET (1 .. m)
  PROVE  \E f \in [1 .. Cardinality(P) -> P] :
            \A j, k \in 1 .. Cardinality(P) : j < k => f[j] < f[k]
  <1> DEFINE rising(f, n) == \A j, k \in 1 .. n : j < k => f[j] < f[k]
             listed(Q, n) == \E f \in [1 .. n -> Q] : rising(f, n)
             bad == {n \in Nat : \E Q \in SUBSET (1 .. m) : Cardinality(Q) = n /\ ~listed(Q, n)}
  <1>1. \A Q \in SUBSET (1 .. m) : IsFiniteSet(Q) /\ Cardinality(Q) \in Nat
    <2>1. IsFiniteSet(1 .. m)
      BY FS_Interval
    <2> TAKE Q \in SUBSET (1 .. m)
    <2>2. IsFiniteSet(Q)
      BY <2>1, FS_Subset
    <2> QED
      BY <2>2, FS_CardinalityType
  <1>2. SUFFICES ASSUME bad # {} PROVE FALSE
    BY <1>1
  <1> HIDE DEF listed
  <1>3. PICK n \in bad : \A y \in bad : n <= y
    BY <1>2, LeastOf
  <1>4. PICK Q \in SUBSET (1 .. m) : Cardinality(Q) = n /\ ~listed(Q, n)
    BY <1>3
  <1>5. n \in Nat
    BY <1>3
  <1>6. CASE n = 0
    <2>1. [j \in 1 .. 0 |-> 0] \in [1 .. 0 -> Q] /\ rising([j \in 1 .. 0 |-> 0], 0)
      OBVIOUS
    <2> QED
      BY <1>4, <1>6, <2>1 DEF listed
  <1>7. CASE n # 0
    <2>1. Q # {}
      BY <1>4, <1>7, FS_EmptySet
    <2>2. PICK x \in Q : \A y \in Q : y <= x
      BY <2>1, GreatestOf
    <2> DEFINE R == Q \ {x}
    <2>3. Cardinality(R) = n - 1 /\ R \in SUBSET (1 .. m) /\ n - 1 \in Nat
      BY <1>1, <1>4, <1>5, <1>7, FS_RemoveElement
    <2>4. n - 1 \notin bad
      BY <1>3, <1>5
    <2>5. listed(R, n - 1)
      BY <2>3, <2>4
    <2>6. PICK g \in [1 .. n - 1 -> R] : rising(g, n - 1)
      BY <2>5 DEF listed
    <2> DEFINE f == [j \in 1 .. n |-> IF j = n THEN x ELSE g[j]]
    <2>7. \A j \in 1 .. n : j # n => j \in 1 .. n - 1 /\ g[j] \in R
      BY <1>5
    <2>8. f \in [1 .. n -> Q]
      BY <2>7
    <2>9. rising(f, n)
      <3> SUFFICES ASSUME NEW j \in 1 .. n, NEW k \in 1 .. n, j < k PROVE f[j] < f[k]
        OBVIOUS
      <3>1. j # n
        BY <1>5
      <3>2. j \in 1 .. n - 1 /\ f[j] = g[j] /\ g[j] \in R
        BY <2>7, <3>1
      <3>3. CASE k = n
        <4>0. g[j] \in Q /\ g[j] # x /\ Q \subseteq 1 .. m
          BY <3>2
        <4>1. g[j] <= x /\ g[j] # x /\ g[j] \in Nat /\ x \in Nat
          <5>1. g[j] \in 1 .. m /\ x \in 1 .. m /\ g[j] <= x
            BY <2>2, <4>0
          <5> QED
            BY <4>0, <5>1
        <4> QED
          BY <3>2, <3>3, <4>1
      <3>4. CASE k # n
        <4>1. k \in 1 .. n - 1 /\ f[k] = g[k]
          BY <2>7, <3>4
        <4> QED
          BY <2>6, <3>2, <4>1
      <3> QED
        BY <3>3, <3>4
    <2> HIDE DEF f
    <2>10. listed(Q, n)
      BY <2>8, <2>9 DEF listed
    <2> QED
      BY <1>4, <2>10
  <1> QED
    BY <1>6, <1>7

(* The elements at some positions. *)
LEMMA ElementsAt ==
  ASSUME NEW S, NEW q \in Seq(S), NEW P \in SUBSET (DOMAIN q)
  PROVE  /\ elementsAt(q, P) \in Seq(S)
         /\ inOrder(P) \in [1..Cardinality(P) -> P]
         /\ \A j, k \in 1..Cardinality(P) : j < k => inOrder(P)[j] < inOrder(P)[k]
         /\ DOMAIN elementsAt(q, P) = 1..Cardinality(P)
         /\ \A k \in 1..Cardinality(P) : elementsAt(q, P)[k] = q[inOrder(P)[k]]
  <1>1. Len(q) \in Nat /\ DOMAIN q = 1..Len(q)
    OBVIOUS
  <1>2. IsFiniteSet(P) /\ Cardinality(P) \in Nat
    <2>1. IsFiniteSet(1..Len(q))
      BY <1>1, FS_Interval
    <2>2. IsFiniteSet(P)
      BY <1>1, <2>1, FS_Subset
    <2> QED BY <2>2, FS_CardinalityType
  <1> DEFINE n == Cardinality(P)
  <1>3. \E f \in [1..n -> P] : \A j, k \in 1..n : j < k => f[j] < f[k]
    BY <1>1, Enumeration
  <1>4. inOrder(P) \in [1..n -> P] /\ \A j, k \in 1..n : j < k => inOrder(P)[j] < inOrder(P)[k]
    BY <1>3 DEF inOrder
  <1> DEFINE f == inOrder(P)
  <1>5. \A k \in 1..n : q[f[k]] \in S
    BY <1>1, <1>4
  <1>6. elementsAt(q, P) = [k \in 1..n |-> q[f[k]]]
    BY DEF elementsAt
  <1> HIDE DEF f, n
  <1>7. n \in Nat
    BY <1>2 DEF n
  <1>8. [k \in 1..n |-> q[f[k]]] \in Seq(S)
    BY <1>5, <1>7
  <1> QED BY <1>4, <1>6, <1>8 DEF f, n

(* The positions of a set, in order, are all of the set. *)
LEMMA InOrderOnto ==
  ASSUME NEW S, NEW q \in Seq(S), NEW P \in SUBSET (DOMAIN q)
  PROVE  /\ \A x \in P : \E k \in 1 .. Cardinality(P) : inOrder(P)[k] = x
         /\ \A j, k \in 1 .. Cardinality(P) : inOrder(P)[j] = inOrder(P)[k] => j = k
  <1> DEFINE n == Cardinality(P)
             f == inOrder(P)
  <1>1. Len(q) \in Nat /\ DOMAIN q = 1 .. Len(q)
    OBVIOUS
  <1>2. IsFiniteSet(P) /\ n \in Nat
    <2>1. IsFiniteSet(1 .. Len(q))
      BY <1>1, FS_Interval
    <2>2. IsFiniteSet(P)
      BY <1>1, <2>1, FS_Subset
    <2> QED
      BY <2>2, FS_CardinalityType
  <1>3. f \in [1 .. n -> P] /\ \A j, k \in 1 .. n : j < k => f[j] < f[k]
    BY ElementsAt
  <1> HIDE DEF f, n
  <1>4. \A j, k \in 1 .. n : f[j] = f[k] => j = k
    BY <1>1, <1>2, <1>3
  <1>5. f \in Injection(1 .. n, P)
    BY <1>3, <1>4 DEF Injection, IsInjective
  <1>6. Cardinality(1 .. n) = n
    BY <1>2, FS_Interval
  <1>7. f \in Surjection(1 .. n, P)
    BY <1>2, <1>5, <1>6, FS_Injection DEF n
  <1> QED
    BY <1>4, <1>7 DEF Surjection, f, n

(* The last of the elements at some positions is the one at the greatest. *)
LEMMA LastAt ==
  ASSUME NEW S, NEW q \in Seq(S), NEW P \in SUBSET (DOMAIN q), P # {}
  PROVE  /\ Cardinality(P) \in Nat \ {0}
         /\ inOrder(P)[Cardinality(P)] \in P
         /\ \A x \in P : x <= inOrder(P)[Cardinality(P)]
  <1> DEFINE n == Cardinality(P)
             f == inOrder(P)
  <1>1. Len(q) \in Nat /\ DOMAIN q = 1 .. Len(q)
    OBVIOUS
  <1>2. IsFiniteSet(P) /\ n \in Nat /\ n # 0
    <2>1. IsFiniteSet(1 .. Len(q))
      BY <1>1, FS_Interval
    <2>2. IsFiniteSet(P)
      BY <1>1, <2>1, FS_Subset
    <2> QED
      BY <2>2, FS_CardinalityType, FS_EmptySet
  <1>3. f \in [1 .. n -> P] /\ \A j, k \in 1 .. n : j < k => f[j] < f[k]
    BY ElementsAt
  <1>4. \A x \in P : \E k \in 1 .. n : f[k] = x
    BY InOrderOnto
  <1> HIDE DEF f, n
  <1>5. n \in 1 .. n
    BY <1>2
  <1>6. ASSUME NEW x \in P PROVE x <= f[n]
    <2>1. PICK k \in 1 .. n : f[k] = x
      BY <1>4
    <2>2. k < n \/ k = n
      BY <1>2
    <2> QED
      BY <1>1, <1>3, <1>5, <2>1, <2>2
  <1> QED
    BY <1>2, <1>3, <1>5, <1>6 DEF f, n

-----------------------------------------------------------------------------
(* Sequences without repetition. *)

unrepeated(s) == \A i, j \in DOMAIN s : s[i] = s[j] => i = j

LEMMA UnrepeatedAppend ==
  ASSUME NEW S, NEW s \in Seq(S), unrepeated(s), NEW e \in S, e \notin ToSet(s)
  PROVE  unrepeated(Append(s, e))
  <1> DEFINE r == Append(s, e)
  <1>1. /\ Len(s) \in Nat /\ DOMAIN r = 1 .. Len(s) + 1 /\ DOMAIN s = 1 .. Len(s)
        /\ r[Len(s) + 1] = e /\ \A k \in 1 .. Len(s) : r[k] = s[k]
    OBVIOUS
  <1> HIDE DEF r
  <1>2. \A k \in 1 .. Len(s) : r[k] # e
    BY <1>1, InToSet
  <1>3. unrepeated(r)
    BY <1>1, <1>2 DEF unrepeated
  <1> QED
    BY <1>3 DEF r

LEMMA UnrepeatedConcat ==
  ASSUME NEW S, NEW s \in Seq(S), NEW t \in Seq(S), unrepeated(s), unrepeated(t),
         ToSet(s) \cap ToSet(t) = {}
  PROVE  unrepeated(s \o t)
  <1> DEFINE r == s \o t
  <1>1. /\ Len(s) \in Nat /\ Len(t) \in Nat /\ DOMAIN r = 1 .. Len(s) + Len(t)
        /\ DOMAIN s = 1 .. Len(s) /\ DOMAIN t = 1 .. Len(t)
        /\ \A i \in 1 .. Len(s) : r[i] = s[i]
        /\ \A i \in 1 .. Len(t) : r[Len(s) + i] = t[i]
    OBVIOUS
  <1> HIDE DEF r
  <1>2. \A k \in DOMAIN r : \/ k \in 1 .. Len(s) /\ r[k] = s[k]
                            \/ k - Len(s) \in 1 .. Len(t) /\ r[k] = t[k - Len(s)]
    <2> TAKE k \in DOMAIN r
    <2>1. CASE k <= Len(s)
      BY <1>1, <2>1
    <2>2. CASE k > Len(s)
      <3>1. k - Len(s) \in 1 .. Len(t) /\ Len(s) + (k - Len(s)) = k
        BY <1>1, <2>2
      <3> QED
        BY <1>1, <3>1
    <2> QED
      BY <1>1, <2>1, <2>2
  <1>3. \A i \in 1 .. Len(s), j \in 1 .. Len(t) : s[i] # t[j]
    BY <1>1, InToSet
  <1>4. ASSUME NEW i \in DOMAIN r, NEW j \in DOMAIN r, r[i] = r[j] PROVE i = j
    <2>1. CASE i \in 1 .. Len(s) /\ r[i] = s[i] /\ j \in 1 .. Len(s) /\ r[j] = s[j]
      BY <1>1, <1>4, <2>1 DEF unrepeated
    <2>2. CASE /\ i - Len(s) \in 1 .. Len(t) /\ r[i] = t[i - Len(s)]
               /\ j - Len(s) \in 1 .. Len(t) /\ r[j] = t[j - Len(s)]
      <3>1. i - Len(s) = j - Len(s)
        BY <1>1, <1>4, <2>2 DEF unrepeated
      <3> QED
        BY <1>1, <3>1
    <2> QED
      BY <1>2, <1>3, <1>4, <2>1, <2>2
  <1>5. unrepeated(r)
    BY <1>4 DEF unrepeated
  <1> QED
    BY <1>5 DEF r

LEMMA UnrepeatedRemoved ==
  ASSUME NEW S, NEW s \in Seq(S), unrepeated(s), NEW i \in DOMAIN s
  PROVE  unrepeated(RemoveAt(s, i)) /\ s[i] \notin ToSet(RemoveAt(s, i))
  <1> DEFINE r == RemoveAt(s, i)
  <1>1. /\ Len(s) \in Nat /\ DOMAIN s = 1 .. Len(s) /\ i \in 1 .. Len(s)
        /\ DOMAIN r = 1 .. Len(s) - 1
        /\ \A k \in 1 .. Len(s) - 1 : r[k] = IF k < i THEN s[k] ELSE s[k + 1]
    BY Removed
  <1> HIDE DEF r
  <1> DEFINE at(k) == IF k < i THEN k ELSE k + 1
  <1>2. \A k \in DOMAIN r : at(k) \in DOMAIN s /\ at(k) # i /\ r[k] = s[at(k)]
    BY <1>1
  <1>3. \A j, k \in DOMAIN r : at(j) = at(k) => j = k
    BY <1>1
  <1> HIDE DEF at
  <1>4. unrepeated(r) /\ \A k \in DOMAIN r : r[k] # s[i]
    BY <1>2, <1>3 DEF unrepeated
  <1> QED
    BY <1>4, InToSet DEF r

LEMMA HeadTail ==
  ASSUME NEW S, NEW s \in Seq(S), s # <<>>
  PROVE  /\ Head(s) \in S /\ Tail(s) \in Seq(S) /\ Head(s) \in ToSet(s)
         /\ ToSet(s) = {Head(s)} \cup ToSet(Tail(s))
         /\ unrepeated(s) => unrepeated(Tail(s)) /\ Head(s) \notin ToSet(Tail(s))
  <1> DEFINE h == Head(s)
             t == Tail(s)
  <1>1. /\ Len(s) \in Nat \ {0} /\ DOMAIN s = 1 .. Len(s) /\ DOMAIN t = 1 .. Len(s) - 1
        /\ h = s[1] /\ \A k \in 1 .. Len(s) - 1 : t[k] = s[k + 1]
        /\ h \in S /\ t \in Seq(S)
    OBVIOUS
  <1> HIDE DEF h, t
  <1>2. \A k \in 2 .. Len(s) : k - 1 \in DOMAIN t /\ t[k - 1] = s[k]
    BY <1>1
  <1>3. \A k \in DOMAIN t : k + 1 \in DOMAIN s /\ k + 1 # 1 /\ t[k] = s[k + 1]
    BY <1>1
  <1>4. ToSet(s) = {h} \cup ToSet(t)
    <2>1. \A k \in DOMAIN s : s[k] = h \/ \E j \in DOMAIN t : t[j] = s[k]
      <3> TAKE k \in DOMAIN s
      <3>1. k = 1 \/ k \in 2 .. Len(s)
        BY <1>1
      <3> QED
        BY <1>1, <1>2, <3>1
    <2>2. h \in ToSet(s) /\ ToSet(t) \subseteq ToSet(s)
      BY <1>1, <1>3, InToSet
    <2>3. ToSet(s) \subseteq {h} \cup ToSet(t)
      BY <2>1, InToSet
    <2> QED
      BY <2>2, <2>3
  <1>5. ASSUME unrepeated(s) PROVE unrepeated(t) /\ h \notin ToSet(t)
    <2>1. 1 \in DOMAIN s
      BY <1>1
    <2>2. \A k \in DOMAIN t : t[k] # h
      BY <1>1, <1>3, <1>5, <2>1 DEF unrepeated
    <2>3. \A j, k \in DOMAIN t : t[j] = t[k] => j = k
      <3> SUFFICES ASSUME NEW j \in DOMAIN t, NEW k \in DOMAIN t, t[j] = t[k] PROVE j = k
        OBVIOUS
      <3>1. j + 1 = k + 1
        BY <1>3, <1>5 DEF unrepeated
      <3> QED
        BY <1>1, <3>1
    <2> QED
      BY <2>2, <2>3, InToSet DEF unrepeated
  <1> QED
    BY <1>1, <1>4, <1>5 DEF h, t

(* The elements at some positions, and the rest, are all the elements. *)
LEMMA Parted ==
  ASSUME NEW S, NEW q \in Seq(S), NEW P \in SUBSET (DOMAIN q)
  PROVE  /\ ToSet(elementsAt(q, P)) = {q[i] : i \in P}
         /\ unrepeated(q) => unrepeated(elementsAt(q, P))
         /\ unrepeated(q) => {q[i] : i \in P} \cap {q[i] : i \in DOMAIN q \ P} = {}
         /\ ToSet(q) = {q[i] : i \in P} \cup {q[i] : i \in DOMAIN q \ P}
  <1> DEFINE n == Cardinality(P)
             f == inOrder(P)
             e == elementsAt(q, P)
  <1>1. /\ f \in [1 .. n -> P] /\ DOMAIN e = 1 .. n
        /\ \A k \in 1 .. n : e[k] = q[f[k]]
    BY ElementsAt
  <1>2. /\ \A x \in P : \E k \in 1 .. n : f[k] = x
        /\ \A j, k \in 1 .. n : f[j] = f[k] => j = k
    BY InOrderOnto
  <1> HIDE DEF e, f, n
  <1>3. ToSet(e) = {q[i] : i \in P}
    BY <1>1, <1>2 DEF ToSet
  <1>4. ASSUME unrepeated(q) PROVE unrepeated(e)
    BY <1>1, <1>2, <1>4 DEF unrepeated
  <1>5. unrepeated(q) => {q[i] : i \in P} \cap {q[i] : i \in DOMAIN q \ P} = {}
    BY DEF unrepeated
  <1>6. ToSet(q) = {q[i] : i \in P} \cup {q[i] : i \in DOMAIN q \ P}
    BY DEF ToSet
  <1> QED
    BY <1>3, <1>4, <1>5, <1>6 DEF e

-----------------------------------------------------------------------------
(* The order of arrival. *)

LEMMA FollowsGrows ==
  ASSUME NEW S, NEW h \in Seq(S), NEW x \in S, NEW o, NEW p, follows(h, o, p)
  PROVE  follows(Append(h, x), o, p)
  <1>1. PICK i, j \in DOMAIN h : i < j /\ h[i] = o /\ h[j] = p
    BY DEF follows
  <1>2. /\ i \in DOMAIN Append(h, x) /\ j \in DOMAIN Append(h, x)
        /\ Append(h, x)[i] = h[i] /\ Append(h, x)[j] = h[j]
    OBVIOUS
  <1> QED
    BY <1>1, <1>2 DEF follows

LEMMA FollowsBefore ==
  ASSUME NEW S, NEW h \in Seq(S), NEW x \in S, NEW o, NEW p, x \notin ToSet(h), p # x,
         follows(Append(h, x), o, p)
  PROVE  follows(h, o, p)
  <1> DEFINE g == Append(h, x)
  <1>1. PICK i, j \in DOMAIN g : i < j /\ g[i] = o /\ g[j] = p
    BY DEF follows
  <1>2. Len(h) \in Nat /\ DOMAIN g = 1 .. Len(h) + 1 /\ DOMAIN h = 1 .. Len(h)
        /\ g[Len(h) + 1] = x /\ \A k \in 1 .. Len(h) : g[k] = h[k]
    OBVIOUS
  <1> HIDE DEF g
  <1>3. j # Len(h) + 1
    BY <1>1, <1>2
  <1>4. i \in 1 .. Len(h) /\ j \in 1 .. Len(h)
    BY <1>1, <1>2, <1>3
  <1> QED
    BY <1>1, <1>2, <1>4 DEF follows

LEMMA FollowsNew ==
  ASSUME NEW S, NEW h \in Seq(S), NEW x \in S, NEW o \in ToSet(h)
  PROVE  follows(Append(h, x), o, x)
  <1>1. PICK i \in DOMAIN h : h[i] = o
    BY InToSet
  <1> DEFINE g == Append(h, x)
  <1>2. Len(h) \in Nat /\ DOMAIN g = 1 .. Len(h) + 1 /\ DOMAIN h = 1 .. Len(h)
        /\ g[Len(h) + 1] = x /\ g[i] = h[i]
    OBVIOUS
  <1> HIDE DEF g
  <1>3. follows(g, o, x)
    BY <1>1, <1>2 DEF follows
  <1> QED
    BY <1>3 DEF g

LEMMA FollowsStrict ==
  ASSUME NEW S, NEW h \in Seq(S), \A i, j \in DOMAIN h : h[i] = h[j] => i = j,
         NEW o, NEW p, follows(h, o, p)
  PROVE  ~follows(h, p, o) /\ o # p /\ o \in ToSet(h) /\ p \in ToSet(h)
  <1>1. PICK i, j \in DOMAIN h : i < j /\ h[i] = o /\ h[j] = p
    BY DEF follows
  <1>2. DOMAIN h \subseteq Nat
    OBVIOUS
  <1>3. o # p
    BY <1>1, <1>2
  <1>4. ASSUME follows(h, p, o) PROVE FALSE
    <2>1. PICK k, l \in DOMAIN h : k < l /\ h[k] = p /\ h[l] = o
      BY <1>4 DEF follows
    <2>2. k = j /\ l = i
      BY <1>1, <2>1
    <2> QED
      BY <1>1, <1>2, <2>1, <2>2
  <1> QED
    BY <1>1, <1>3, <1>4, InToSet

===============================================================================
